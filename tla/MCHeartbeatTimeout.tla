------------------------ MODULE MCHeartbeatTimeout ------------------------
(* Instances of HeartbeatTimeout with the code's own times, in half seconds. *)
EXTENDS HeartbeatTimeout

NoFault         == {{}}
Lossy           == {{"lost"}}
NoneOrAllFaults == {{}, {"lost", "late", "refused", "error"}}
=============================================================================
