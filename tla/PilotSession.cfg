SPECIFICATION Spec
CONSTANTS
  ann = ann
  bob = bob
  eve = eve
  Accounts <- AnnAndBob
  Credentials <- AndEve
  Lifetime = 1
  MaxTime = 2
  Clients = {c1, c2}
  Flyers = {c1}
  Keys <- Few
  Hands = 2
  EnvSets <- Several
SYMMETRY Alike
INVARIANTS TypeOK StaysIn LoggedOutRefused NoDrift
PROPERTIES AsPressed
CHECK_DEADLOCK FALSE
