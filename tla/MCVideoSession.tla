--------------------------- MODULE MCVideoSession ---------------------------
(* Instances of VideoSession for TLC.                                      *)
EXTENDS VideoSession

Several   == {{}, {"failed", "takeoff"}, {"lost"}, {"streaming"}, {"silent"}, {"reset"}, {"controller"},
              {"elsewhere"}}
=============================================================================
