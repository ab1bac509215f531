------------------------------- MODULE Flight -------------------------------
(***************************************************************************)
(* What a pilot is promised of one drone: it leaves the ground only after  *)
(* an accepted takeoff request, and comes back only after an accepted land *)
(* request; each request leads to one takeoff, or one landing, and the next*)
(* one is accepted only when it is over.  A request may come to nothing,   *)
(* and leave the drone where it is, only where requests of the relay get   *)
(* lost.  FlightControl implements this for pilots who wait for the outcome*)
(* of their requests.                                                      *)
(***************************************************************************)

VARIABLES phase,    \* "ground", "climbing", "air", "descending"
          flying,   \* where the drone really is
          lossy     \* whether requests of the relay fail

Init == phase = "ground" /\ flying = FALSE /\ lossy \in BOOLEAN

AskTakeoff  == phase = "ground" /\ phase' = "climbing" /\ UNCHANGED flying
Rise        == phase = "climbing" /\ ~ flying /\ flying' = TRUE /\ UNCHANGED phase
Arrive      == phase = "climbing" /\ flying /\ phase' = "air" /\ UNCHANGED flying
LoseTakeoff == lossy /\ phase = "climbing" /\ ~ flying /\ phase' = "ground" /\ UNCHANGED flying
AskLand     == phase = "air" /\ phase' = "descending" /\ UNCHANGED flying
Touch       == phase = "descending" /\ flying /\ flying' = FALSE /\ UNCHANGED phase
Rest        == phase = "descending" /\ ~ flying /\ phase' = "ground" /\ UNCHANGED flying
LoseLand    == lossy /\ phase = "descending" /\ flying /\ phase' = "air" /\ UNCHANGED flying

Move == AskTakeoff \/ Rise \/ Arrive \/ LoseTakeoff \/ AskLand \/ Touch \/ Rest \/ LoseLand
Next == Move /\ UNCHANGED lossy

Spec == Init /\ [][Next]_<<phase, flying, lossy>>
=============================================================================
