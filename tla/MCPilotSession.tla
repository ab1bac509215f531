--------------------------- MODULE MCPilotSession ---------------------------
(* Instances of PilotSession for TLC.                                      *)
EXTENDS PilotSession, TLC

CONSTANTS ann, bob, eve

\* Two users may be exchanged for each other; eve is not in the database.
AnnAndBob == {<<ann, "123">>, <<bob, "123">>}
AndEve    == AnnAndBob \cup {<<eve, "123">>}
Alike     == Permutations({ann, bob})

Few       == {"w", "s", "t", "l"}
Several   == {{}, {"quick", "lost_drone"}, {"held_key"}, {"clock"}, {"same_second"}, {"outage"}}
=============================================================================
