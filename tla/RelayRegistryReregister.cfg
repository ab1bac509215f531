SPECIFICATION Spec
CONSTANTS
  RelayNames = {n1}
  DroneNames = {d1}
  Ports <- TwoPorts
  Workers = {w1}
  RelayObjs = {r1}
  Streams = {s1, s2}
  NULL = NULL
  Env <- Reregister
SYMMETRY Symmetry
INVARIANT NoLeakedStream
