SPECIFICATION Spec
CONSTANTS
  RelayNames = {n1}
  DroneNames = {d1, d2}
  Ports <- TwoPorts
  Workers = {w1, w2}
  RelayObjs = {r1}
  Streams = {s1, s2}
  NULL = NULL
  Env <- Adders
SYMMETRY Symmetry
INVARIANT OnlyRacersShare
