SPECIFICATION FairSpec
CONSTANTS
  Viewers = {v1, v2}
  Tries = 2
  MaxWait = 9
  EnvSets <- Several
INVARIANTS TypeOK VerifiedIsLinked SilenceNeedsFailures
PROPERTIES VideoArrives
