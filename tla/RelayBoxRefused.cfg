SPECIFICATION FairSpec
CONSTANTS
  Addrs = {a1}
  Names <- TwoNames
  StatusPorts <- TwoPorts
  NULL = NULL
  EnvSets <- Refusing
PROPERTY StaysComesUp
