SPECIFICATION Spec
CONSTANTS
  Res = 2
  Sleep = 8
  Interval = 3
  Timeout = 10
  TokenLife = 86400
  Delay = 1
  FaultSets <- Lossy
  MaxLost = 1
  MaxTime = 60
\* The horizon MaxTime ends the behaviours.
CHECK_DEADLOCK FALSE
INVARIANT RelayStays
