SPECIFICATION Spec
CONSTANTS
  Res = 2
  Sleep = 8
  Interval = 3
  Timeout = 10
  \* 24 hours in the code; short here, so that it ends before MaxTime.
  TokenLife = 14
  Delay = 4
  FaultSets <- NoneOrAllFaults
  MaxLost = 1
  MaxTime = 44
\* The horizon MaxTime ends the behaviours.
CHECK_DEADLOCK FALSE
INVARIANTS TypeOK RunningRelayStays SilentRelayRemoved
PROPERTY HeardRelayStays
