----------------------------- MODULE PortLease -----------------------------
(***************************************************************************)
(* What the backend promises about video ports, and a relay box about its  *)
(* status ports: every drone of every relay holds at most one port, and no *)
(* two drones hold the same one.  A port is granted to a drone that holds  *)
(* none, given back when the drone goes, and all the ports of a relay are  *)
(* forgotten when the relay goes.  RelayRegistry and RelayBox implement    *)
(* this specification.                                                     *)
(***************************************************************************)
EXTENDS Naturals

CONSTANTS RelayNames,   \* names a relay box may have
          DroneNames,   \* names a drone may have within its relay
          Ports,        \* ports that are handed out
          NULL          \* "no port"

VARIABLE lease          \* lease[n][d] is the port drone d of relay n holds

Init == lease = [n \in RelayNames |-> [d \in DroneNames |-> NULL]]

\* The drone holds no port yet and nobody else holds the port it is given.
Grant(n, d, p) ==
  /\ lease[n][d] = NULL
  /\ \A m \in RelayNames, e \in DroneNames : lease[m][e] # p
  /\ lease' = [lease EXCEPT ![n][d] = p]

Return(n, d) ==
  /\ lease[n][d] # NULL
  /\ lease' = [lease EXCEPT ![n][d] = NULL]

Forget(n) == lease' = [lease EXCEPT ![n] = [d \in DroneNames |-> NULL]]

Next ==
  \E n \in RelayNames :
    \/ Forget(n)
    \/ \E d \in DroneNames :
         \/ Return(n, d)
         \/ \E p \in Ports : Grant(n, d, p)

Spec == Init /\ [][Next]_lease
=============================================================================
