SPECIFICATION FairSpec
CONSTANTS
  Pilots = {p1}
  Commands = {c0, c1}
  Neutral = c0
  MaxReplies = 1
  EnvSets <- Impatient
PROPERTIES AcceptedTakeoffHappens
