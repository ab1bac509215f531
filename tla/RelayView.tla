----------------------------- MODULE RelayView -----------------------------
(***************************************************************************)
(* What a relay box can rely on when it speaks to the backend: its relay   *)
(* is known from the handshake until it times out, in between each of its  *)
(* drones is registered and unregistered in one step, and nothing else     *)
(* changes what the backend knows of it.  RelayRegistry implements this    *)
(* step by step in its handlers and threads; RelayBox sees the backend as  *)
(* no more than this.                                                      *)
(***************************************************************************)
CONSTANTS RelayNames,   \* names a relay box may have
          DroneNames    \* names a drone may have within its relay

VARIABLES served,       \* the relays that are online and not being removed
          known         \* known[n]: the drones that relay n has there

Init == served = {} /\ known = [n \in RelayNames |-> {}]

\* A relay begins without drones, and only while it is not served.
Join(n) == n \notin served /\ served' = served \cup {n} /\ UNCHANGED known

Register(n, d) ==
  /\ n \in served /\ d \notin known[n]
  /\ known' = [known EXCEPT ![n] = @ \cup {d}]
  /\ UNCHANGED served

Unregister(n, d) ==
  /\ n \in served /\ d \in known[n]
  /\ known' = [known EXCEPT ![n] = @ \ {d}]
  /\ UNCHANGED served

\* A relay that leaves takes all its drones with it.
Leave(n) ==
  /\ n \in served /\ served' = served \ {n}
  /\ known' = [known EXCEPT ![n] = {}]

Next ==
  \E n \in RelayNames :
    \/ Join(n) \/ Leave(n)
    \/ \E d \in DroneNames : Register(n, d) \/ Unregister(n, d)

Spec == Init /\ [][Next]_<<served, known>>
=============================================================================
