SPECIFICATION FairSpec
CONSTANTS
  RelayNames = {n1, n2}
  DroneNames = {d1, d2}
  Ports <- TwoPorts
  Workers = {w1}
  RelayObjs = {r1, r2}
  Streams = {s1, s2}
  NULL = NULL
  Env <- Careful
INVARIANTS TypeOK EveryDroneHasSession EverySessionHasDrone NoLeakedStream WatcherAlive
PROPERTIES LeaseSpec OnlyTimedOutRelaysLeave LeavesNothingBehind SilentRelayLeaves
