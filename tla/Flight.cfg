SPECIFICATION FairSpec
CONSTANTS
  Pilots = {p1, p2}
  Commands = {c0, c1}
  Neutral = c0
  MaxReplies = 1
  EnvSets <- Several
INVARIANTS TypeOK FlagsAgree
PROPERTIES ReportsAreTrue FlightSpec TakeoffHappens LandHappens CommandsStop CommandArrives
\* A relay box whose threads have died of an outage stops.
CHECK_DEADLOCK FALSE
