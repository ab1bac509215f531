SPECIFICATION FairSpec
CONSTANTS
  Addrs = {a1, a2}
  Names <- TwoNames
  StatusPorts <- TwoPorts
  NULL = NULL
  EnvSets <- Several
INVARIANTS TypeOK NoGhost NoPortLost ReadyIsCommanded
PROPERTIES NeverReregisters OneAsksPerName StatusLeaseSpec GoneIsForgotten AloneComesUp
CHECK_DEADLOCK FALSE
