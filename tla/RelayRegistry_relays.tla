----------------------- MODULE RelayRegistry_relays -----------------------
(***************************************************************************)
(* Theorems about the relays of RelayRegistry that hold whatever else its  *)
(* requests overlap with: who leaves active_relays as long as no two       *)
(* handshakes of one relay overlap, and what a relay leaves behind as long *)
(* as its requests do not overlap with its timeout either.                 *)
(***************************************************************************)
EXTENDS RelayRegistry_proofs

-----------------------------------------------------------------------------
(* Who is online, under every liberty but overlap_handshake.               *)

\* A handshake that is about to store its relay is the only one of its name, and
\* a timeout_check thread that runs watches the relay object that is online.
Ended == {"idle", "crashed"}
RelayInv ==
  /\ \A w \in Workers : pc[w] = "hs_store" => loc[w].name \in RelayNames /\ ~ Online(loc[w].name)
  /\ \A v, w \in Workers : pc[v] = "hs_store" /\ pc[w] = "hs_store" /\ loc[v].name = loc[w].name => v = w
  /\ \A n \in RelayNames : Online(n) => owner[active[n]] = n
  /\ \A r \in RelayObjs : pc[r] \notin Ended => owner[r] \in RelayNames /\ active[owner[r]] = r

\* A step that brings no relay online, takes none off, and starts neither a
\* handshake nor a timeout_check thread.
LEMMA RelayFrame ==
  ASSUME RelayInv, UNCHANGED <<active, owner>>,
         \A w \in Workers : pc'[w] = "hs_store" => pc[w] = "hs_store" /\ loc'[w] = loc[w],
         \A r \in RelayObjs : pc'[r] \notin Ended => pc[r] \notin Ended
  PROVE  RelayInv'
BY DEF RelayInv, Online

LEMMA RelayStep ==
  ASSUME "overlap_handshake" \notin Env
  PROVE  TypeInv /\ RelayInv /\ [Next]_vars => RelayInv'
<1>. SUFFICES ASSUME TypeInv, RelayInv, [Next]_vars PROVE RelayInv'
  OBVIOUS
<1>. USE RegistryAssumption DEF TypeInv, TypeOK, Procs, Ended, Step, Return, Raise, NoLoc, Local, DcSteps, AddSteps, registry, streams
<1>1. ASSUME NEW n \in RelayNames, Heartbeat(n) PROVE RelayInv'
  BY <1>1, RelayFrame DEF Heartbeat
<1>2. ASSUME NEW w \in Workers, NEW n \in RelayNames, Handshake(w, n) PROVE RelayInv'
  <2>1. /\ pc' = [pc EXCEPT ![w] = "hs_store"] /\ loc' = [loc EXCEPT ![w] = Local(n, NULL, NULL, NULL)]
        /\ UNCHANGED <<active, owner>> /\ ~ Online(n)
        /\ \A v \in Workers : pc[v] = "hs_store" => loc[v].name # n
    BY <1>2 DEF Handshake, MayShake, NobodyShakes
  <2>. QED  BY <2>1 DEF RelayInv, Online
<1>3. ASSUME NEW w \in Workers, HandshakeStore(w) PROVE RelayInv'
  <2>. DEFINE n == loc[w].name
  <2>1. PICK r \in FreeRelays :
          /\ active' = [active EXCEPT ![n] = r] /\ owner' = [owner EXCEPT ![r] = n]
          /\ pc' = [pc EXCEPT ![w] = "idle", ![r] = "watch"]
          /\ loc' = [loc EXCEPT ![w] = NoLoc, ![r] = Local(NULL, NULL, r, NULL)]
    BY <1>3 DEF HandshakeStore
  <2>2. /\ n \in RelayNames /\ active[n] = NULL /\ pc[w] = "hs_store"
        /\ r \in RelayObjs /\ r # NULL /\ pc[r] \in Ended /\ \A m \in RelayNames : active[m] # r
    BY <1>3 DEF HandshakeStore, FreeRelays, RelayInv, Online
  <2>3. \A v \in Workers : pc'[v] = "hs_store" => v # w /\ pc[v] = "hs_store" /\ loc'[v] = loc[v] /\ loc[v].name # n
    BY <2>1, <2>2 DEF RelayInv
  <2>4. \A m \in RelayNames : m # n => active'[m] = active[m] /\ (Online(m) => owner'[active[m]] = owner[active[m]])
    BY <2>1, <2>2 DEF Online
  <2>5. \A q \in RelayObjs : q # r /\ pc'[q] \notin Ended => pc[q] \notin Ended /\ owner'[q] = owner[q] /\ owner[q] # n
    BY <2>1, <2>2 DEF RelayInv
  <2>6. active'[n] = r /\ owner'[r] = n
    BY <2>1, <2>2
  <2>7. \A v \in Workers : pc'[v] = "hs_store" => loc'[v].name \in RelayNames /\ active'[loc'[v].name] = NULL
    BY <2>3, <2>4 DEF RelayInv, Online
  <2>8. \A u, v \in Workers : pc'[u] = "hs_store" /\ pc'[v] = "hs_store" /\ loc'[u].name = loc'[v].name => u = v
    BY <2>3 DEF RelayInv
  <2>9. \A m \in RelayNames : active'[m] # NULL => owner'[active'[m]] = m
    BY <2>4, <2>6 DEF RelayInv, Online
  <2>10. \A q \in RelayObjs : pc'[q] \notin Ended => owner'[q] \in RelayNames /\ active'[owner'[q]] = q
    BY <2>2, <2>4, <2>5, <2>6 DEF RelayInv
  <2>. QED  BY <2>7, <2>8, <2>9, <2>10 DEF RelayInv, Online
<1>4. ASSUME NEW w \in Workers, NEW n \in RelayNames, NEW d \in DroneNames, NewDrone(w, n, d) PROVE RelayInv'
  BY <1>4, RelayFrame DEF NewDrone
<1>5. ASSUME NEW w \in Workers, NewDronePop(w) PROVE RelayInv'
  BY <1>5, RelayFrame DEF NewDronePop
<1>6. ASSUME NEW w \in Workers, NewDroneScan(w) PROVE RelayInv'
  BY <1>6, RelayFrame DEF NewDroneScan, TakeLowest
<1>7. ASSUME NEW w \in Workers, NewDroneFails(w) PROVE RelayInv'
  BY <1>7, RelayFrame DEF NewDroneFails
<1>8. ASSUME NEW w \in Workers, NewDroneInsert(w) PROVE RelayInv'
  BY <1>8, RelayFrame DEF NewDroneInsert
<1>9. ASSUME NEW w \in Workers, NewDroneStream(w) PROVE RelayInv'
  BY <1>9, RelayFrame DEF NewDroneStream
<1>20. ASSUME NEW w \in Workers, NewDroneStore(w) PROVE RelayInv'
  BY <1>20, RelayFrame DEF NewDroneStore
<1>10. ASSUME NEW w \in Workers, NEW n \in RelayNames, NEW d \in DroneNames, Disconnected(w, n, d) PROVE RelayInv'
  BY <1>10, RelayFrame DEF Disconnected
<1>11. ASSUME NEW p \in Procs, DcClose(p) PROVE RelayInv'
  BY <1>11, RelayFrame DEF DcClose
<1>12. ASSUME NEW p \in Procs, DcUnlist(p) PROVE RelayInv'
  BY <1>12, RelayFrame DEF DcUnlist
<1>13. ASSUME NEW p \in Procs, DcDelete(p) PROVE RelayInv'
  BY <1>13, RelayFrame DEF DcDelete
<1>14. ASSUME NEW p \in Procs, DcFails(p) PROVE RelayInv'
  BY <1>14, RelayFrame DEF DcFails
<1>15. ASSUME NEW r \in RelayObjs, WatchStamp(r) \/ WatchAgain(r) \/ WatchTimeOut(r) \/ WatchNext(r) PROVE RelayInv'
  BY <1>15, RelayFrame DEF WatchStamp, WatchAgain, WatchTimeOut, WatchNext
<1>16. ASSUME NEW r \in RelayObjs, WatchFails(r) PROVE RelayInv'
  BY <1>16, RelayFrame DEF WatchFails
<1>17. ASSUME NEW r \in RelayObjs, WatchDrop(r) PROVE RelayInv'
  <2>1. /\ pc[r] = "next" /\ active' = [active EXCEPT ![owner[r]] = NULL] /\ owner' = owner
        /\ pc' = [pc EXCEPT ![r] = "idle"] /\ loc' = [loc EXCEPT ![r] = NoLoc]
    BY <1>17 DEF WatchDrop
  <2>2. owner[r] \in RelayNames /\ active[owner[r]] = r /\ r # NULL
    BY <2>1 DEF RelayInv
  <2>3. \A n \in RelayNames : active'[n] = IF n = owner[r] THEN NULL ELSE active[n]
    BY <2>1
  <2>4. \A q \in RelayObjs : pc'[q] \notin Ended => q # r /\ pc[q] \notin Ended /\ owner[q] # owner[r]
    BY <2>1, <2>2 DEF RelayInv
  <2>5. \A w \in Workers : pc'[w] = pc[w] /\ loc'[w] = loc[w]
    BY <2>1
  <2>. QED  BY <2>1, <2>3, <2>4, <2>5 DEF RelayInv, Online
<1>18. ASSUME NEW s \in Streams, StreamBind(s) \/ StreamExit(s) PROVE RelayInv'
  BY <1>18, RelayFrame DEF StreamBind, StreamExit
<1>19. CASE UNCHANGED vars
  BY <1>19, RelayFrame DEF vars
<1>. QED  BY <1>1, <1>2, <1>3, <1>4, <1>5, <1>6, <1>7, <1>8, <1>9, <1>10, <1>11,
         <1>12, <1>13, <1>14, <1>15, <1>16, <1>17, <1>18, <1>19, <1>20
      DEF Next, Request, WorkerStep, DisconnectStep, WatcherStep

LEMMA InitRelays == Init => RelayInv
BY RegistryAssumption DEF Init, RelayInv, Online, Procs, Ended

\* Only WatchDrop takes a relay off active_relays, HandshakeStore replaces none.
LEMMA RelayLeaves ==
  ASSUME TypeInv, RelayInv, [Next]_vars, NEW n \in RelayNames, Online(n), active'[n] # active[n]
  PROVE  WatchDrop(active[n]) /\ active[n] \in RelayObjs /\ active'[n] = NULL
<1>1. (\E w \in Workers : HandshakeStore(w)) \/ (\E r \in RelayObjs : WatchDrop(r))
  BY ZenonT(60) DEF Next, vars, registry, Request, WorkerStep, DisconnectStep, WatcherStep, Raise, Heartbeat, Handshake, NewDrone,
         NewDronePop, NewDroneScan, TakeLowest, NewDroneFails, NewDroneInsert, NewDroneStream, NewDroneStore, Disconnected,
         DcClose, DcUnlist, DcDelete, DcFails, WatchStamp, WatchAgain, WatchTimeOut, WatchNext, WatchFails, StreamBind, StreamExit
<1>2. ASSUME NEW w \in Workers, HandshakeStore(w) PROVE FALSE
  <2>1. loc[w].name \in RelayNames /\ ~ Online(loc[w].name)
    BY <1>2 DEF HandshakeStore, RelayInv
  <2>2. n # loc[w].name
    BY <2>1
  <2>. QED  BY <1>2, <2>2 DEF HandshakeStore, TypeInv, TypeOK
<1>3. ASSUME NEW r \in RelayObjs, WatchDrop(r) PROVE r = active[n] /\ active'[n] = NULL
  <2>1. pc[r] = "next" /\ active' = [active EXCEPT ![owner[r]] = NULL]
    BY <1>3 DEF WatchDrop
  <2>2. owner[r] \in RelayNames /\ active[owner[r]] = r
    BY <2>1 DEF RelayInv, Ended
  <2>3. n = owner[r]
    BY <2>1, <2>2 DEF TypeInv, TypeOK
  <2>. QED  BY <2>1, <2>2, <2>3 DEF TypeInv, TypeOK
<1>. QED  BY <1>1, <1>2, <1>3

\* A relay is never replaced, and leaves active_relays only when its own
\* timeout_check found it silent, whatever overlaps but handshakes of one relay.
THEOREM OnlySilentLeave ==
  ASSUME "overlap_handshake" \notin Env
  PROVE  Spec => OnlyTimedOutRelaysLeave
<1>1. TypeInv /\ RelayInv /\ [Next]_vars =>
        [\A n \in RelayNames : Online(n) /\ active'[n] # active[n] => active'[n] = NULL /\ pc[active[n]] = "next"]_vars
  BY RelayLeaves DEF WatchDrop
<1>. QED  BY <1>1, InitTypes, TypeStep, InitRelays, RelayStep, PTL DEF Spec, OnlyTimedOutRelaysLeave

-----------------------------------------------------------------------------
(* What a relay leaves behind, where its requests do not overlap with its  *)
(* timeout: whatever else happens to its drones meanwhile.                 *)

\* A request about a drone is served while its relay is online and not being
\* removed, and knows that relay; a timeout_check thread that removes its relay
\* has every drone that is left on its list or is at work on it.
ServeInv ==
  /\ \A w \in Workers : pc[w] \in AddSteps \cup DcSteps =>
       /\ loc[w].name \in RelayNames /\ active[loc[w].name] \in RelayObjs
       /\ pc[active[loc[w].name]] \notin Removing
  /\ \A w \in Workers : pc[w] \in {"nd_insert", "nd_stream", "nd_store"} \cup DcSteps => loc[w].relay = active[loc[w].name]
  /\ \A r \in RelayObjs : pc[r] \in DcSteps => loc[r].relay = r
  /\ \A r \in RelayObjs, d \in DroneNames :
       pc[r] \in Removing /\ drones[r][d] # NULL => d \in todo[r] \/ (pc[r] \in DcSteps /\ loc[r].drone = d)

\* A thread goes on with the same request, and a removal with the same drone.
SameRequest(w) == /\ pc[w] \in AddSteps \cup DcSteps
                  /\ loc'[w].name = loc[w].name /\ loc'[w].relay = loc[w].relay
                  /\ pc'[w] \in {"nd_insert", "nd_stream", "nd_store"} \cup DcSteps => pc[w] \in {"nd_insert", "nd_stream", "nd_store"} \cup DcSteps
SameRemoval(r) == /\ pc[r] \in Removing /\ loc'[r] = loc[r] /\ todo'[r] = todo[r]
                  /\ pc'[r] \in DcSteps <=> pc[r] \in DcSteps

LEMMA ServeFrame ==
  ASSUME TypeInv, ServeInv, active' = active,
         \A w \in Workers : pc'[w] \in AddSteps \cup DcSteps => SameRequest(w),
         \A r \in RelayObjs : pc'[r] \in Removing => SameRemoval(r),
         \A r \in RelayObjs, d \in DroneNames : pc'[r] \in Removing /\ drones'[r][d] # NULL => drones[r][d] # NULL
  PROVE  ServeInv'
<1>1. \A w \in Workers : pc'[w] \in AddSteps \cup DcSteps =>
        /\ loc'[w].name \in RelayNames /\ active'[loc'[w].name] \in RelayObjs
        /\ pc'[active'[loc'[w].name]] \notin Removing
  BY DEF ServeInv, SameRequest, SameRemoval
<1>2. \A w \in Workers : pc'[w] \in {"nd_insert", "nd_stream", "nd_store"} \cup DcSteps => loc'[w].relay = active'[loc'[w].name]
  BY DEF ServeInv, SameRequest, AddSteps
<1>3. \A r \in RelayObjs : pc'[r] \in DcSteps => loc'[r].relay = r
  BY DEF ServeInv, SameRemoval, Removing
<1>4. \A r \in RelayObjs, d \in DroneNames :
        pc'[r] \in Removing /\ drones'[r][d] # NULL => d \in todo'[r] \/ (pc'[r] \in DcSteps /\ loc'[r].drone = d)
  BY DEF ServeInv, SameRemoval
<1>. QED  BY <1>1, <1>2, <1>3, <1>4 DEF ServeInv

LEMMA ServeStep ==
  ASSUME "overlap_timeout" \notin Env
  PROVE  TypeInv /\ RelayInv /\ ServeInv /\ [Next]_vars => ServeInv'
<1>. SUFFICES ASSUME TypeInv, RelayInv, ServeInv, [Next]_vars PROVE ServeInv'
  OBVIOUS
<1>. USE RegistryAssumption DEF TypeInv, TypeOK, Locals, Procs, Step, Return, Raise, NoLoc, Local, Removing, DcSteps, AddSteps,
         registry, streams, SameRequest, SameRemoval
<1>1. ASSUME NEW n \in RelayNames, Heartbeat(n) PROVE ServeInv'
  BY <1>1, ServeFrame DEF Heartbeat
<1>2. ASSUME NEW w \in Workers, NEW n \in RelayNames, Handshake(w, n) PROVE ServeInv'
  BY <1>2, ServeFrame DEF Handshake
<1>3. ASSUME NEW w \in Workers, HandshakeStore(w) PROVE ServeInv'
  <2>. DEFINE n == loc[w].name
  <2>1. PICK r \in FreeRelays :
          /\ active' = [active EXCEPT ![n] = r]
          /\ drones' = [drones EXCEPT ![r] = [d \in DroneNames |-> NULL]]
          /\ pc' = [pc EXCEPT ![w] = "idle", ![r] = "watch"]
          /\ loc' = [loc EXCEPT ![w] = NoLoc, ![r] = Local(NULL, NULL, r, NULL)]
          /\ todo' = [todo EXCEPT ![r] = {}]
    BY <1>3 DEF HandshakeStore
  <2>2. /\ n \in RelayNames /\ active[n] = NULL /\ pc[w] = "hs_store"
        /\ r \in RelayObjs /\ r # NULL /\ r # w /\ \A m \in RelayNames : active[m] # r
    BY <1>3 DEF HandshakeStore, FreeRelays, RelayInv, Online
  <2>3. \A v \in Workers : v # w => pc'[v] = pc[v] /\ loc'[v] = loc[v]
    BY <2>1, <2>2
  <2>4. \A q \in RelayObjs : q # r => pc'[q] = pc[q] /\ loc'[q] = loc[q] /\ todo'[q] = todo[q] /\ drones'[q] = drones[q]
    BY <2>1, <2>2
  <2>5. pc'[w] = "idle" /\ pc'[r] = "watch"
    BY <2>1, <2>2
  <2>6. \A v \in Workers : v # w /\ pc[v] \in AddSteps \cup DcSteps =>
          active'[loc[v].name] = active[loc[v].name] /\ active[loc[v].name] # r
    BY <2>1, <2>2 DEF ServeInv
  <2>7. \A v \in Workers : pc'[v] \in AddSteps \cup DcSteps => v # w /\ pc[v] \in AddSteps \cup DcSteps
    BY <2>3, <2>5
  <2>8. \A v \in Workers : pc'[v] \in AddSteps \cup DcSteps =>
          /\ loc'[v].name \in RelayNames /\ active'[loc'[v].name] \in RelayObjs
          /\ pc'[active'[loc'[v].name]] \notin Removing
    <3>. SUFFICES ASSUME NEW v \in Workers, pc'[v] \in AddSteps \cup DcSteps
                  PROVE  /\ loc'[v].name \in RelayNames /\ active'[loc'[v].name] \in RelayObjs
                         /\ pc'[active'[loc'[v].name]] \notin Removing
      OBVIOUS
    <3>1. loc'[v] = loc[v] /\ active'[loc[v].name] = active[loc[v].name] /\ active[loc[v].name] # r
      BY <2>3, <2>6, <2>7
    <3>2. loc[v].name \in RelayNames /\ active[loc[v].name] \in RelayObjs /\ pc[active[loc[v].name]] \notin Removing
      BY <2>7 DEF ServeInv
    <3>. QED  BY <3>1, <3>2, <2>4
  <2>9. \A v \in Workers : pc'[v] \in {"nd_insert", "nd_stream", "nd_store"} \cup DcSteps => loc'[v].relay = active'[loc'[v].name]
    BY <2>3, <2>5, <2>6 DEF ServeInv
  <2>10. \A q \in RelayObjs : pc'[q] \in DcSteps => loc'[q].relay = q
    BY <2>4, <2>5 DEF ServeInv
  <2>11. \A q \in RelayObjs, d \in DroneNames :
           pc'[q] \in Removing /\ drones'[q][d] # NULL => d \in todo'[q] \/ (pc'[q] \in DcSteps /\ loc'[q].drone = d)
    BY <2>4, <2>5 DEF ServeInv
  <2>. QED  BY <2>8, <2>9, <2>10, <2>11 DEF ServeInv
<1>4. ASSUME NEW w \in Workers, NEW n \in RelayNames, NEW d \in DroneNames, NewDrone(w, n, d) PROVE ServeInv'
  <2>1. /\ pc' = [pc EXCEPT ![w] = IF Registered(n, d) THEN "nd_pop" ELSE "nd_scan"]
        /\ loc' = [loc EXCEPT ![w] = Local(n, d, NULL, NULL)]
        /\ UNCHANGED <<active, drones, todo>>
        /\ active[n] \in RelayObjs /\ pc[active[n]] \notin Removing
    BY <1>4 DEF NewDrone, Online, MayAsk, Overdue
  <2>. QED  BY <2>1 DEF ServeInv
<1>5. ASSUME NEW w \in Workers, NewDronePop(w) PROVE ServeInv'
  BY <1>5, ServeFrame DEF NewDronePop
<1>6. ASSUME NEW w \in Workers, NewDroneScan(w) PROVE ServeInv'
  <2>. DEFINE n == loc[w].name
  <2>1. PICK p \in Ports : loc' = [loc EXCEPT ![w] = Local(n, loc[w].drone, active[n], p)]
    BY <1>6 DEF NewDroneScan, TakeLowest
  <2>2. pc[w] = "nd_scan" /\ pc' = [pc EXCEPT ![w] = "nd_insert"] /\ UNCHANGED <<active, drones, todo>>
    BY <1>6 DEF NewDroneScan, TakeLowest
  <2>. QED  BY <2>1, <2>2 DEF ServeInv
<1>7. ASSUME NEW w \in Workers, NewDroneFails(w) PROVE ServeInv'
  BY <1>7, ServeFrame DEF NewDroneFails
<1>8. ASSUME NEW w \in Workers, NewDroneInsert(w) PROVE ServeInv'
  <2>1. /\ pc[w] = "nd_insert" /\ pc' = [pc EXCEPT ![w] = "nd_stream"] /\ UNCHANGED <<active, loc, todo>>
        /\ drones' = [drones EXCEPT ![loc[w].relay][loc[w].drone] = loc[w].port]
    BY <1>8 DEF NewDroneInsert
  <2>2. loc[w].relay \in RelayObjs /\ pc[loc[w].relay] \notin Removing
    BY <2>1 DEF ServeInv
  <2>3. \A r \in RelayObjs : pc'[r] \in Removing => drones'[r] = drones[r]
    BY <2>1, <2>2
  <2>. QED  BY <2>1, <2>3, ServeFrame
<1>9. ASSUME NEW w \in Workers, NewDroneStream(w) PROVE ServeInv'
  BY <1>9, ServeFrame DEF NewDroneStream
<1>22. ASSUME NEW w \in Workers, NewDroneStore(w) PROVE ServeInv'
  BY <1>22, ServeFrame DEF NewDroneStore
<1>10. ASSUME NEW w \in Workers, NEW n \in RelayNames, NEW d \in DroneNames, Disconnected(w, n, d) PROVE ServeInv'
  <2>1. /\ pc' = [pc EXCEPT ![w] = "dc_close"]
        /\ loc' = [loc EXCEPT ![w] = Local(n, d, active[n], drones[active[n]][d])]
        /\ UNCHANGED <<active, drones, todo>>
        /\ active[n] \in RelayObjs /\ pc[active[n]] \notin Removing
    BY <1>10 DEF Disconnected, Registered, Online, MayAsk, Overdue
  <2>. QED  BY <2>1 DEF ServeInv
<1>11. ASSUME NEW p \in Procs, DcClose(p) PROVE ServeInv'
  BY <1>11, ServeFrame DEF DcClose
<1>12. ASSUME NEW p \in Procs, DcUnlist(p) PROVE ServeInv'
  BY <1>12, ServeFrame DEF DcUnlist
<1>13. ASSUME NEW p \in Procs, DcDelete(p) PROVE ServeInv'
  <2>1. /\ pc[p] = "dc_delete" /\ UNCHANGED <<active, todo>>
        /\ drones' = [drones EXCEPT ![loc[p].relay][loc[p].drone] = NULL]
    BY <1>13 DEF DcDelete
  <2>2. \A r \in RelayObjs, d \in DroneNames : drones'[r][d] # NULL => drones[r][d] # NULL
    BY <2>1
  <2>3. CASE p \in Workers
    <3>1. pc' = [pc EXCEPT ![p] = "idle"] /\ loc' = [loc EXCEPT ![p] = NoLoc]
      BY <1>13, <2>3 DEF DcDelete
    <3>. QED  BY <2>1, <2>2, <2>3, <3>1, ServeFrame
  <2>4. CASE p \in RelayObjs
    <3>1. pc' = [pc EXCEPT ![p] = "next"] /\ loc' = [loc EXCEPT ![p] = Local(NULL, NULL, p, NULL)]
      BY <1>13, <2>4 DEF DcDelete
    <3>2. loc[p].relay = p
      BY <2>1, <2>4 DEF ServeInv
    <3>3. \A d \in DroneNames : drones'[p][d] # NULL => d \in todo[p]
      BY <2>1, <2>4, <3>2 DEF ServeInv
    <3>4. \A r \in RelayObjs : r # p => pc'[r] = pc[r] /\ loc'[r] = loc[r] /\ drones'[r] = drones[r]
      BY <2>1, <2>4, <3>1, <3>2
    <3>5. \A w \in Workers : pc'[w] = pc[w] /\ loc'[w] = loc[w]
      BY <2>4, <3>1
    <3>6. pc'[p] = "next" /\ pc[p] \in Removing
      BY <2>1, <2>4, <3>1
    <3>7. \A w \in Workers : pc'[w] \in AddSteps \cup DcSteps => pc'[active[loc'[w].name]] \notin Removing
      BY <3>4, <3>5, <3>6 DEF ServeInv
    <3>8. \A r \in RelayObjs : pc'[r] \in DcSteps => loc'[r].relay = r
      BY <3>4, <3>6 DEF ServeInv
    <3>9. \A r \in RelayObjs, d \in DroneNames :
            pc'[r] \in Removing /\ drones'[r][d] # NULL => d \in todo[r] \/ (pc'[r] \in DcSteps /\ loc'[r].drone = d)
      BY <3>3, <3>4, <3>6 DEF ServeInv
    <3>. QED  BY <2>1, <3>5, <3>7, <3>8, <3>9 DEF ServeInv
  <2>. QED  BY <2>3, <2>4
<1>14. ASSUME NEW p \in Procs, DcFails(p) PROVE ServeInv'
  BY <1>14, ServeFrame DEF DcFails
<1>15. ASSUME NEW r \in RelayObjs, WatchStamp(r) \/ WatchAgain(r) PROVE ServeInv'
  BY <1>15, ServeFrame DEF WatchStamp, WatchAgain
<1>16. ASSUME NEW r \in RelayObjs, WatchTimeOut(r) PROVE ServeInv'
  <2>1. /\ pc[r] = "sleep" /\ pc' = [pc EXCEPT ![r] = "next"] /\ UNCHANGED <<active, drones, loc>>
        /\ todo' = [todo EXCEPT ![r] = {d \in DroneNames : drones[r][d] # NULL}]
        /\ \A w \in Workers : pc[w] # "idle" => loc[w].name # owner[r]
    BY <1>16 DEF WatchTimeOut, MayTimeOut, Serving
  <2>2. \A n \in RelayNames : active[n] = r => n = owner[r]
    BY DEF RelayInv, Online
  <2>3. \A w \in Workers : pc'[w] = pc[w] /\ (pc[w] \in AddSteps \cup DcSteps => active[loc[w].name] # r)
    BY <2>1, <2>2 DEF ServeInv
  <2>. QED  BY <2>1, <2>3 DEF ServeInv
<1>17. ASSUME NEW r \in RelayObjs, WatchNext(r) PROVE ServeInv'
  <2>1. PICK d \in todo[r] :
          /\ pc[r] = "next" /\ pc' = [pc EXCEPT ![r] = "dc_close"]
          /\ todo' = [todo EXCEPT ![r] = @ \ {d}]
          /\ loc' = [loc EXCEPT ![r] = Local(NULL, d, r, drones[r][d])]
          /\ UNCHANGED <<active, drones>>
    BY <1>17 DEF WatchNext
  <2>. QED  BY <2>1 DEF ServeInv
<1>18. ASSUME NEW r \in RelayObjs, WatchFails(r) PROVE ServeInv'
  BY <1>18, ServeFrame DEF WatchFails
<1>19. ASSUME NEW r \in RelayObjs, WatchDrop(r) PROVE ServeInv'
  <2>1. /\ pc[r] = "next" /\ active' = [active EXCEPT ![owner[r]] = NULL] /\ UNCHANGED <<drones, todo>>
        /\ pc' = [pc EXCEPT ![r] = "idle"] /\ loc' = [loc EXCEPT ![r] = NoLoc]
    BY <1>19 DEF WatchDrop
  <2>2. active[owner[r]] = r
    BY <2>1 DEF RelayInv, Ended
  <2>3. \A w \in Workers : pc[w] \in AddSteps \cup DcSteps => loc[w].name # owner[r]
    BY <2>1, <2>2 DEF ServeInv
  <2>. QED  BY <2>1, <2>3 DEF ServeInv
<1>20. ASSUME NEW s \in Streams, StreamBind(s) \/ StreamExit(s) PROVE ServeInv'
  BY <1>20, ServeFrame DEF StreamBind, StreamExit
<1>21. CASE UNCHANGED vars
  BY <1>21, ServeFrame DEF vars
<1>. QED  BY <1>1, <1>2, <1>3, <1>4, <1>5, <1>6, <1>7, <1>8, <1>9, <1>10, <1>11,
         <1>12, <1>13, <1>14, <1>15, <1>16, <1>17, <1>18, <1>19, <1>20, <1>21, <1>22
      DEF Next, Request, WorkerStep, DisconnectStep, WatcherStep

LEMMA InitServing == Init => ServeInv
BY RegistryAssumption DEF Init, ServeInv, Procs, AddSteps, DcSteps, Removing

\* When a relay leaves active_relays all its drones have been disconnected,
\* however many requests about its drones were served at once before.
THEOREM NothingLeftBehind ==
  ASSUME Env \cap {"overlap_handshake", "overlap_timeout"} = {}
  PROVE  Spec => LeavesNothingBehind
<1>1. "overlap_handshake" \notin Env /\ "overlap_timeout" \notin Env
  OBVIOUS
<1>2. TypeInv /\ RelayInv /\ ServeInv /\ [Next]_vars =>
        [\A n \in RelayNames : Online(n) /\ active'[n] = NULL => \A d \in DroneNames : drones[active[n]][d] = NULL]_vars
  <2>. SUFFICES ASSUME TypeInv, RelayInv, ServeInv, [Next]_vars, NEW n \in RelayNames, Online(n), active'[n] = NULL,
                       NEW d \in DroneNames
                PROVE  drones[active[n]][d] = NULL
    OBVIOUS
  <2>1. WatchDrop(active[n]) /\ active[n] \in RelayObjs
    BY RelayLeaves DEF Online
  <2>. QED  BY <2>1 DEF WatchDrop, ServeInv, Removing, DcSteps
<1>. QED  BY <1>1, <1>2, InitTypes, TypeStep, InitRelays, RelayStep, InitServing, ServeStep, PTL DEF Spec, LeavesNothingBehind
-----------------------------------------------------------------------------
(* What a relay box sees: every step of the registry is a step of          *)
(* RelayView, or hidden from the relay boxes.                              *)

\* A removal, even one that an exception has ended, has seen the last heartbeat,
\* so that requests are served only for relays that timeout_check listens to.
Listening == {"watch", "sleep"}
RequestsSeen == \A w \in Workers : pc[w] \in AddSteps \cup DcSteps => loc[w].name \in served
ViewInv ==
  /\ \A r \in RelayObjs : pc[r] \in Ended \cup Listening \cup Removing
  /\ \A r \in RelayObjs : pc[r] \in Removing \cup {"crashed"} => beat[r] = "stamped"
  /\ \A n \in RelayNames : Online(n) => pc[active[n]] # "idle"
  /\ RequestsSeen

\* A step that goes on with requests and removals that are under way.
LEMMA ViewFrame ==
  ASSUME TypeInv, ViewInv, UNCHANGED <<active, beat>>,
         \A w \in Workers : pc'[w] \in AddSteps \cup DcSteps => pc[w] \in AddSteps \cup DcSteps /\ loc'[w].name = loc[w].name,
         \A r \in RelayObjs : \/ pc'[r] = pc[r]
                              \/ pc[r] \in Removing /\ pc'[r] \in Removing \cup {"crashed"}
  PROVE  ViewInv'
<1>. USE DEF TypeInv, TypeOK, Removing, DcSteps, AddSteps, Ended, Listening, Online, RequestsSeen
<1>1. \A r \in RelayObjs : pc'[r] \in Listening <=> pc[r] \in Listening
  OBVIOUS
<1>2. served' = served
  BY <1>1 DEF served
<1>3. \A w \in Workers : pc'[w] \in AddSteps \cup DcSteps => loc'[w].name \in served'
  BY <1>2 DEF ViewInv
<1>4. \A r \in RelayObjs : pc'[r] \in Ended \cup Listening \cup Removing
  BY DEF ViewInv
<1>5. \A r \in RelayObjs : pc'[r] \in Removing \cup {"crashed"} => beat'[r] = "stamped"
  BY DEF ViewInv
<1>6. \A n \in RelayNames : active'[n] # NULL => pc'[active'[n]] # "idle"
  <2>. SUFFICES ASSUME NEW n \in RelayNames, active[n] # NULL PROVE pc'[active[n]] # "idle"
    OBVIOUS
  <2>1. active[n] \in RelayObjs /\ pc[active[n]] # "idle"
    BY DEF ViewInv
  <2>. QED  BY <2>1
<1>. QED  BY <1>3, <1>4, <1>5, <1>6 DEF ViewInv

LEMMA ViewStep ==
  ASSUME "overlap_timeout" \notin Env
  PROVE  TypeInv /\ RelayInv /\ ServeInv /\ ViewInv /\ [Next]_vars => ViewInv'
<1>. SUFFICES ASSUME TypeInv, RelayInv, ServeInv, ViewInv, [Next]_vars PROVE ViewInv'
  OBVIOUS
<1>. USE RegistryAssumption DEF TypeInv, TypeOK, Locals, Procs, Step, Return, Raise, NoLoc, Local, Removing, DcSteps, AddSteps,
         Ended, Listening, RequestsSeen, registry, streams
<1>1. ASSUME NEW n \in RelayNames, Heartbeat(n) PROVE ViewInv'
  <2>1. /\ UNCHANGED <<active, pc, loc>>
        /\ \A r \in RelayObjs : pc[r] \notin Listening => beat'[r] = beat[r]
    BY <1>1 DEF Heartbeat, Online
  <2>. QED  BY <2>1 DEF ViewInv, served, Online
<1>2. ASSUME NEW w \in Workers, NEW n \in RelayNames, Handshake(w, n) PROVE ViewInv'
  BY <1>2, ViewFrame DEF Handshake
<1>3. ASSUME NEW w \in Workers, HandshakeStore(w) PROVE ViewInv'
  <2>. DEFINE n == loc[w].name
  <2>1. PICK r \in FreeRelays :
          /\ active' = [active EXCEPT ![n] = r] /\ beat' = [beat EXCEPT ![r] = "never"]
          /\ pc' = [pc EXCEPT ![w] = "idle", ![r] = "watch"]
          /\ loc' = [loc EXCEPT ![w] = NoLoc, ![r] = Local(NULL, NULL, r, NULL)]
    BY <1>3 DEF HandshakeStore
  <2>2. /\ n \in RelayNames /\ r \in RelayObjs /\ r # NULL /\ r # w /\ \A m \in RelayNames : active[m] # r
    BY <1>3 DEF HandshakeStore, FreeRelays, RelayInv
  <2>3. \A v \in Workers : pc'[v] \in AddSteps \cup DcSteps => pc[v] \in AddSteps \cup DcSteps /\ loc'[v] = loc[v]
    BY <2>1, <2>2
  <2>4. \A q \in RelayObjs : q # r => pc'[q] = pc[q] /\ beat'[q] = beat[q]
    BY <2>1, <2>2
  <2>5. pc'[r] = "watch" /\ active'[n] = r /\ \A m \in RelayNames : m # n => active'[m] = active[m]
    BY <2>1, <2>2
  <2>6. served \subseteq served'
    BY <2>2, <2>4, <2>5 DEF served, Online
  <2>7. \A q \in RelayObjs : pc'[q] \in Ended \cup Listening \cup Removing
    BY <2>4, <2>5 DEF ViewInv
  <2>8. \A q \in RelayObjs : pc'[q] \in Removing \cup {"crashed"} => beat'[q] = "stamped"
    BY <2>4, <2>5 DEF ViewInv
  <2>9. \A m \in RelayNames : active'[m] # NULL => pc'[active'[m]] # "idle"
    BY <2>2, <2>4, <2>5 DEF ViewInv, Online
  <2>. QED  BY <2>3, <2>6, <2>7, <2>8, <2>9 DEF ViewInv, Online
<1>4. ASSUME NEW w \in Workers, NEW n \in RelayNames, NEW d \in DroneNames,
             NewDrone(w, n, d) \/ Disconnected(w, n, d)
      PROVE  ViewInv'
  <2>1. /\ UNCHANGED <<active, beat>> /\ Online(n) /\ ~ Overdue(n)
        /\ loc'[w].name = n /\ \A v \in Workers : v # w => pc'[v] = pc[v] /\ loc'[v] = loc[v]
        /\ \A r \in RelayObjs : pc'[r] = pc[r]
    BY <1>4 DEF NewDrone, Disconnected, MayAsk, Registered
  <2>2. n \in served
    BY <2>1 DEF Overdue, Online, ViewInv, served
  <2>3. served' = served
    BY <2>1 DEF served, Online
  <2>. QED  BY <2>1, <2>2, <2>3 DEF ViewInv, Online
<1>5. ASSUME NEW w \in Workers,
             \/ NewDronePop(w) \/ NewDroneScan(w) \/ NewDroneFails(w)
             \/ NewDroneInsert(w) \/ NewDroneStream(w) \/ NewDroneStore(w)
      PROVE  ViewInv'
  <2>1. CASE NewDronePop(w)
    BY <2>1, ViewFrame DEF NewDronePop
  <2>2. CASE NewDroneScan(w)
    BY <2>2, ViewFrame DEF NewDroneScan, TakeLowest
  <2>3. CASE NewDroneFails(w)
    BY <2>3, ViewFrame DEF NewDroneFails
  <2>4. CASE NewDroneInsert(w)
    BY <2>4, ViewFrame DEF NewDroneInsert
  <2>5. CASE NewDroneStream(w)
    BY <2>5, ViewFrame DEF NewDroneStream
  <2>6. CASE NewDroneStore(w)
    BY <2>6, ViewFrame DEF NewDroneStore
  <2>. QED  BY <1>5, <2>1, <2>2, <2>3, <2>4, <2>5, <2>6
<1>6. ASSUME NEW p \in Procs, DcClose(p) PROVE ViewInv'
  BY <1>6, ViewFrame DEF DcClose
<1>7. ASSUME NEW p \in Procs, DcUnlist(p) PROVE ViewInv'
  BY <1>7, ViewFrame DEF DcUnlist
<1>8. ASSUME NEW p \in Procs, DcDelete(p) PROVE ViewInv'
  BY <1>8, ViewFrame DEF DcDelete
<1>9. ASSUME NEW p \in Procs, DcFails(p) PROVE ViewInv'
  BY <1>9, ViewFrame DEF DcFails
<1>10. ASSUME NEW r \in RelayObjs, WatchNext(r) \/ WatchFails(r) PROVE ViewInv'
  BY <1>10, ViewFrame DEF WatchNext, WatchFails
<1>11. ASSUME NEW r \in RelayObjs, WatchStamp(r) \/ WatchAgain(r) PROVE ViewInv'
  <2>1. /\ UNCHANGED <<active, loc>> /\ pc[r] \in Listening /\ pc'[r] \in Listening
        /\ \A q \in Procs : q # r => pc'[q] = pc[q]
        /\ \A q \in RelayObjs : q # r => beat'[q] = beat[q]
    BY <1>11 DEF WatchStamp, WatchAgain
  <2>2. served' = served
    BY <2>1 DEF served, Online
  <2>a. \A w \in Workers : pc'[w] = pc[w] /\ loc'[w] = loc[w]
    BY <2>1, RegistryAssumption
  <2>b. \A w \in Workers : pc'[w] \in AddSteps \cup DcSteps => loc'[w].name \in served'
    BY <2>2, <2>a DEF ViewInv
  <2>c. \A q \in RelayObjs : pc'[q] \in Ended \cup Listening \cup Removing
    BY <2>1 DEF ViewInv
  <2>d. \A q \in RelayObjs : pc'[q] \in Removing \cup {"crashed"} => beat'[q] = "stamped"
    BY <2>1 DEF ViewInv
  <2>e. \A n \in RelayNames : active'[n] # NULL => pc'[active'[n]] # "idle"
    BY <2>1, SMTT(60) DEF ViewInv, Online
  <2>. QED  BY <2>b, <2>c, <2>d, <2>e DEF ViewInv, Online
<1>12. ASSUME NEW r \in RelayObjs, WatchTimeOut(r) PROVE ViewInv'
  <2>1. /\ UNCHANGED <<active, beat, loc>> /\ pc[r] = "sleep" /\ pc'[r] = "next" /\ beat[r] = "stamped"
        /\ \A q \in Procs : q # r => pc'[q] = pc[q]
        /\ \A w \in Workers : pc[w] # "idle" => loc[w].name # owner[r]
    BY <1>12 DEF WatchTimeOut, MayTimeOut, Serving
  <2>2. \A n \in RelayNames : active[n] = r => n = owner[r]
    BY DEF RelayInv, Online
  <2>3. served \ {owner[r]} \subseteq served'
    BY <2>1, <2>2 DEF served, Online
  <2>4. \A w \in Workers : pc[w] \in AddSteps \cup DcSteps => loc[w].name # owner[r]
    BY <2>1
  <2>a. \A w \in Workers : pc'[w] = pc[w] /\ loc'[w] = loc[w]
    BY <2>1, RegistryAssumption
  <2>b. \A w \in Workers : pc'[w] \in AddSteps \cup DcSteps => loc'[w].name \in served'
    BY <2>3, <2>4, <2>a DEF ViewInv
  <2>c. \A q \in RelayObjs : pc'[q] \in Ended \cup Listening \cup Removing
    BY <2>1 DEF ViewInv
  <2>d. \A q \in RelayObjs : pc'[q] \in Removing \cup {"crashed"} => beat'[q] = "stamped"
    BY <2>1 DEF ViewInv
  <2>e. \A n \in RelayNames : active'[n] # NULL => pc'[active'[n]] # "idle"
    BY <2>1, SMTT(60) DEF ViewInv, Online
  <2>. QED  BY <2>b, <2>c, <2>d, <2>e DEF ViewInv, Online
<1>13. ASSUME NEW r \in RelayObjs, WatchDrop(r) PROVE ViewInv'
  <2>1. /\ pc[r] = "next" /\ pc'[r] = "idle" /\ active' = [active EXCEPT ![owner[r]] = NULL] /\ UNCHANGED beat
        /\ \A q \in Procs : q # r => pc'[q] = pc[q] /\ loc'[q] = loc[q]
    BY <1>13 DEF WatchDrop
  <2>2. owner[r] \in RelayNames /\ active[owner[r]] = r /\ \A n \in RelayNames : active[n] = r => n = owner[r]
    BY <2>1 DEF RelayInv, Online
  <2>3. served \subseteq served'
    BY <2>1, <2>2 DEF served, Online
  <2>a. \A w \in Workers : pc'[w] = pc[w] /\ loc'[w] = loc[w]
    BY <2>1, RegistryAssumption
  <2>b. \A w \in Workers : pc'[w] \in AddSteps \cup DcSteps => loc'[w].name \in served'
    BY <2>3, <2>a DEF ViewInv
  <2>c. \A q \in RelayObjs : pc'[q] \in Ended \cup Listening \cup Removing
    BY <2>1 DEF ViewInv
  <2>d. \A q \in RelayObjs : pc'[q] \in Removing \cup {"crashed"} => beat'[q] = "stamped"
    BY <2>1 DEF ViewInv
  <2>e. \A n \in RelayNames : active'[n] # NULL => pc'[active'[n]] # "idle"
    BY <2>1, <2>2 DEF ViewInv, Online
  <2>. QED  BY <2>b, <2>c, <2>d, <2>e DEF ViewInv, Online
<1>14. ASSUME NEW s \in Streams, StreamBind(s) \/ StreamExit(s) PROVE ViewInv'
  BY <1>14, ViewFrame DEF StreamBind, StreamExit
<1>15. CASE UNCHANGED vars
  BY <1>15, ViewFrame DEF vars
<1>. QED  BY <1>1, <1>2, <1>3, <1>4, <1>5, <1>6, <1>7, <1>8, <1>9, <1>10, <1>11, <1>12, <1>13, <1>14, <1>15
      DEF Next, Request, WorkerStep, DisconnectStep, WatcherStep

LEMMA InitView == Init => ViewInv
BY RegistryAssumption DEF Init, ViewInv, RequestsSeen, Online, Procs, AddSteps, DcSteps, Removing, Ended

\* A drone's entry is written in a relay that is served, ...
LEMMA KnownChanges ==
  ASSUME TypeInv, RelayInv, active' = active, served' = served,
         NEW n \in served, NEW d \in DroneNames, NEW v \in Ports \cup {NULL}, drones' = [drones EXCEPT ![active[n]][d] = v]
  PROVE  known' = [known EXCEPT ![n] = IF v = NULL THEN @ \ {d} ELSE @ \cup {d}]
<1>. USE DEF TypeInv, TypeOK
<1>1. n \in RelayNames /\ active[n] \in RelayObjs
  BY DEF served, Online
<1>2. \A m \in RelayNames : Online(m) /\ m # n => active[m] # active[n]
  BY <1>1, RegistryAssumption DEF RelayInv, Online
<1>3. \A m \in RelayNames, e \in DroneNames :
        Registered(m, e)' <=> Online(m) /\ (IF m = n /\ e = d THEN v ELSE drones[active[m]][e]) # NULL
  BY <1>1, <1>2 DEF Registered, Online
<1>4. ASSUME NEW m \in RelayNames, m # n PROVE known'[m] = known[m]
  <2>1. \A e \in DroneNames : Registered(m, e)' <=> Registered(m, e)
    BY <1>3, <1>4 DEF Registered
  <2>2. known[m] = (IF m \in served THEN {e \in DroneNames : Registered(m, e)} ELSE {})
    BY DEF known
  <2>3. known'[m] = (IF m \in served THEN {e \in DroneNames : Registered(m, e)'} ELSE {})
    BY DEF known
  <2>. QED  BY <2>1, <2>2, <2>3
<1>5. known'[n] = IF v = NULL THEN known[n] \ {d} ELSE known[n] \cup {d}
  <2>1. known[n] = {e \in DroneNames : Registered(n, e)} /\ known'[n] = {e \in DroneNames : Registered(n, e)'}
    BY <1>1 DEF known
  <2>2. \A e \in DroneNames : Registered(n, e)' <=> (IF e = d THEN v # NULL ELSE Registered(n, e))
    BY <1>1, <1>3 DEF Registered, Online, served
  <2>. QED  BY <2>1, <2>2
<1>. QED  BY <1>1, <1>4, <1>5 DEF known

\* ... or of one that is not, which no relay box sees.
LEMMA KnownStays ==
  ASSUME active' = active, served' = served,
         \A n \in served, d \in DroneNames : (drones'[active[n]][d] = NULL) <=> (drones[active[n]][d] = NULL)
  PROVE  known' = known
BY DEF known, Registered, Online, served

\* Nobody starts or ends listening to a relay.
LEMMA ServedStays ==
  ASSUME active' = active, \A r \in RelayObjs : pc'[r] \in Listening <=> pc[r] \in Listening, TypeInv
  PROVE  served' = served
BY DEF served, Online, Listening, TypeInv, TypeOK

LEMMA SeenStep == TypeInv /\ RelayInv /\ ServeInv /\ ViewInv /\ [Next]_vars => [View!Next]_<<served, known>>
<1>. SUFFICES ASSUME TypeInv, RelayInv, ServeInv, ViewInv, [Next]_vars PROVE View!Next \/ UNCHANGED <<served, known>>
  OBVIOUS
<1>. USE RegistryAssumption DEF TypeInv, TypeOK, Locals, Procs, Step, Return, Raise, NoLoc, Local, DcSteps, AddSteps,
         Listening, RequestsSeen, registry, streams
<1>1. ASSUME UNCHANGED <<active, drones>>, \A r \in RelayObjs : pc'[r] \in Listening <=> pc[r] \in Listening
      PROVE  UNCHANGED <<served, known>>
  BY <1>1, ServedStays, KnownStays
<1>2. ASSUME NEW w \in Workers, HandshakeStore(w) PROVE \E n \in RelayNames : View!Join(n)
  <2>. SUFFICES ASSUME NEW n \in RelayNames, n = loc[w].name PROVE View!Join(n)
    BY <1>2 DEF HandshakeStore, RelayInv
  <2>1. PICK r \in FreeRelays :
          /\ active' = [active EXCEPT ![n] = r]
          /\ drones' = [drones EXCEPT ![r] = [d \in DroneNames |-> NULL]]
          /\ pc' = [pc EXCEPT ![w] = "idle", ![r] = "watch"]
    BY <1>2 DEF HandshakeStore
  <2>2. /\ n \in RelayNames /\ active[n] = NULL /\ r \in RelayObjs /\ r # NULL /\ r # w /\ \A m \in RelayNames : active[m] # r
    BY <1>2 DEF HandshakeStore, FreeRelays, RelayInv, Online
  <2>3. \A q \in RelayObjs : q # r => pc'[q] = pc[q] /\ drones'[q] = drones[q]
    BY <2>1, <2>2
  <2>4. active'[n] = r /\ pc'[r] = "watch" /\ (\A d \in DroneNames : drones'[r][d] = NULL)
        /\ \A m \in RelayNames : m # n => active'[m] = active[m]
    BY <2>1, <2>2
  <2>5. n \notin served /\ served' = served \cup {n}
    BY <2>2, <2>3, <2>4 DEF served, Online
  <2>6. ASSUME NEW m \in RelayNames PROVE known'[m] = known[m]
    <3>1. m # n => \A d \in DroneNames : Registered(m, d)' <=> Registered(m, d)
      BY <2>2, <2>3, <2>4 DEF Registered, Online
    <3>2. \A d \in DroneNames : ~ Registered(n, d)'
      BY <2>4 DEF Registered, Online
    <3>3. known[m] = (IF m \in served THEN {d \in DroneNames : Registered(m, d)} ELSE {})
      BY DEF known
    <3>4. known'[m] = (IF m \in served' THEN {d \in DroneNames : Registered(m, d)'} ELSE {})
      BY DEF known
    <3>5. CASE m = n
      BY <2>5, <3>2, <3>3, <3>4, <3>5
    <3>6. CASE m # n
      BY <2>5, <3>1, <3>3, <3>4, <3>6
    <3>. QED  BY <3>5, <3>6
  <2>7. known' = known
    BY <2>6 DEF known
  <2>. QED  BY <2>2, <2>5, <2>7 DEF View!Join
<1>3. ASSUME NEW w \in Workers, NewDronePop(w) PROVE \E n \in RelayNames, d \in DroneNames : View!Unregister(n, d)
  <2>. DEFINE n == loc[w].name  d == loc[w].drone
  <2>1. /\ n \in served /\ n \in RelayNames /\ d \in DroneNames /\ Registered(n, d)
        /\ active' = active /\ drones' = [drones EXCEPT ![active[n]][d] = NULL]
        /\ \A r \in RelayObjs : pc'[r] = pc[r]
    BY <1>3 DEF NewDronePop, ViewInv, KnownRequest, served
  <2>2. served' = served
    BY <2>1, ServedStays
  <2>3. known' = [known EXCEPT ![n] = @ \ {d}]
    BY <2>1, <2>2, KnownChanges
  <2>4. d \in known[n]
    BY <2>1 DEF known
  <2>. QED  BY <2>1, <2>2, <2>3, <2>4 DEF View!Unregister
<1>4. ASSUME NEW w \in Workers, NewDroneInsert(w)
      PROVE  (\E n \in RelayNames, d \in DroneNames : View!Register(n, d)) \/ UNCHANGED <<served, known>>
  <2>. DEFINE n == loc[w].name  d == loc[w].drone  p == loc[w].port
  <2>a. pc[w] = "nd_insert" /\ pc' = [pc EXCEPT ![w] = "nd_stream"] /\ active' = active
        /\ drones' = [drones EXCEPT ![loc[w].relay][d] = p]
    BY <1>4 DEF NewDroneInsert
  <2>b. n \in served /\ n \in RelayNames /\ d \in DroneNames /\ p \in Ports /\ p # NULL
    BY <2>a DEF ViewInv, KnownRequest
  <2>c. loc[w].relay = active[n]
    BY <2>a DEF ServeInv
  <2>1. /\ n \in served /\ n \in RelayNames /\ d \in DroneNames /\ p \in Ports /\ p # NULL
        /\ active' = active /\ drones' = [drones EXCEPT ![active[n]][d] = p]
        /\ \A r \in RelayObjs : pc'[r] = pc[r]
    BY <2>a, <2>b, <2>c
  <2>2. served' = served
    BY <2>1, ServedStays
  <2>3. known' = [known EXCEPT ![n] = @ \cup {d}]
    <3>1. known' = [known EXCEPT ![n] = IF p = NULL THEN @ \ {d} ELSE @ \cup {d}]
      BY <2>1, <2>2, KnownChanges
    <3>. QED  BY <2>1, <3>1
  <2>4. CASE d \notin known[n]
    BY <2>1, <2>2, <2>3, <2>4 DEF View!Register
  <2>5. CASE d \in known[n]
    <3>1. known = [m \in RelayNames |-> known[m]]
      BY DEF known
    <3>2. known[n] \cup {d} = known[n]
      BY <2>5
    <3>3. known' = known
      BY <2>3, <3>1, <3>2
    <3>. QED  BY <2>2, <3>3
  <2>. QED  BY <2>4, <2>5
<1>5. ASSUME NEW w \in Workers, DcDelete(w)
      PROVE  (\E n \in RelayNames, d \in DroneNames : View!Unregister(n, d)) \/ UNCHANGED <<served, known>>
  <2>. DEFINE n == loc[w].name  d == loc[w].drone
  <2>a. pc[w] = "dc_delete" /\ pc' = [pc EXCEPT ![w] = "idle"] /\ active' = active
        /\ drones[loc[w].relay][d] # NULL /\ drones' = [drones EXCEPT ![loc[w].relay][d] = NULL]
    BY <1>5 DEF DcDelete
  <2>b. n \in served /\ n \in RelayNames /\ active[n] \in RelayObjs
    BY <2>a DEF ViewInv, ServeInv
  <2>c. loc[w].relay = active[n]
    BY <2>a DEF ServeInv
  <2>1. /\ n \in served /\ n \in RelayNames /\ active[n] \in RelayObjs /\ drones[active[n]][d] # NULL
        /\ active' = active /\ drones' = [drones EXCEPT ![active[n]][d] = NULL]
        /\ \A r \in RelayObjs : pc'[r] = pc[r]
    BY <2>a, <2>b, <2>c
  <2>2. served' = served
    BY <2>1, ServedStays
  <2>3. CASE d \in DroneNames
    <3>1. known' = [known EXCEPT ![n] = @ \ {d}]
      BY <2>1, <2>2, <2>3, KnownChanges
    <3>2. d \in known[n]
      BY <2>1, <2>3 DEF known, Registered, Online
    <3>. QED  BY <2>1, <2>2, <2>3, <3>1, <3>2 DEF View!Unregister
  <2>4. CASE d \notin DroneNames
    <3>1. \A r \in RelayObjs, e \in DroneNames : drones'[r][e] = drones[r][e]
      BY <2>1, <2>4
    <3>2. \A m \in served : active[m] \in RelayObjs
      BY DEF served, Online
    <3>. QED  BY <2>1, <2>2, <3>1, <3>2, KnownStays
  <2>. QED  BY <2>3, <2>4
<1>6. ASSUME NEW r \in RelayObjs, DcDelete(r) PROVE UNCHANGED <<served, known>>
  <2>1. /\ pc[r] = "dc_delete" /\ pc' = [pc EXCEPT ![r] = "next"] /\ active' = active
        /\ drones' = [drones EXCEPT ![r][loc[r].drone] = NULL]
    BY <1>6 DEF DcDelete, ServeInv
  <2>2. served' = served
    BY <2>1, ServedStays
  <2>3. \A n \in served : active[n] \in RelayObjs /\ active[n] # r
    BY <2>1 DEF served, Online
  <2>. QED  BY <2>1, <2>2, <2>3, KnownStays
<1>7. ASSUME NEW r \in RelayObjs, WatchTimeOut(r) PROVE \E n \in RelayNames : View!Leave(n)
  <2>1. pc[r] = "sleep" /\ pc' = [pc EXCEPT ![r] = "next"] /\ UNCHANGED <<active, drones>>
    BY <1>7 DEF WatchTimeOut
  <2>2. /\ owner[r] \in RelayNames /\ active[owner[r]] = r /\ r # NULL
        /\ \A n \in RelayNames : active[n] = r => n = owner[r]
    BY <2>1 DEF RelayInv, Online, Ended
  <2>3. owner[r] \in served /\ served' = served \ {owner[r]}
    BY <2>1, <2>2 DEF served, Online
  <2>4. known' = [known EXCEPT ![owner[r]] = {}]
    BY <2>1, <2>2, <2>3 DEF known, Registered, Online
  <2>. QED  BY <2>2, <2>3, <2>4 DEF View!Leave
<1>8. ASSUME NEW r \in RelayObjs, WatchDrop(r) PROVE UNCHANGED <<served, known>>
  <2>1. /\ pc[r] = "next" /\ active' = [active EXCEPT ![owner[r]] = NULL] /\ pc' = [pc EXCEPT ![r] = "idle"] /\ UNCHANGED drones
    BY <1>8 DEF WatchDrop
  <2>2. owner[r] \in RelayNames /\ active[owner[r]] = r /\ \A n \in RelayNames : active[n] = r => n = owner[r]
    BY <2>1 DEF RelayInv, Online, Ended
  <2>3. served' = served /\ owner[r] \notin served
    BY <2>1, <2>2 DEF served, Online
  <2>4. \A n \in RelayNames : known'[n] = known[n]
    BY <2>1, <2>3 DEF known, Registered, Online
  <2>. QED  BY <2>3, <2>4 DEF known
<1>9. ASSUME NEW p \in Procs,
             \/ (\E n \in RelayNames : Handshake(p, n)) \/ NewDroneScan(p) \/ NewDroneFails(p)
             \/ NewDroneStream(p) \/ NewDroneStore(p)
             \/ \E n \in RelayNames, d \in DroneNames : NewDrone(p, n, d) \/ Disconnected(p, n, d)
             \/ DcClose(p) \/ DcUnlist(p) \/ DcFails(p)
      PROVE  UNCHANGED <<served, known>>
  <2>1. CASE \E n \in RelayNames : Handshake(p, n)
    BY <1>1, <2>1 DEF Handshake
  <2>2. CASE NewDroneScan(p) \/ NewDroneFails(p) \/ NewDroneStream(p) \/ NewDroneStore(p)
    <3>1. UNCHANGED <<active, drones>> /\ \A r \in RelayObjs : pc'[r] \in Listening <=> pc[r] \in Listening
      BY <2>2, SMTT(60) DEF NewDroneScan, TakeLowest, NewDroneFails, NewDroneStream, NewDroneStore
    <3>. QED  BY <1>1, <3>1
  <2>3. CASE \E n \in RelayNames, d \in DroneNames : NewDrone(p, n, d) \/ Disconnected(p, n, d)
    <3>1. UNCHANGED <<active, drones>> /\ \A r \in RelayObjs : pc'[r] \in Listening <=> pc[r] \in Listening
      BY <2>3, SMTT(60) DEF NewDrone, Disconnected
    <3>. QED  BY <1>1, <3>1
  <2>4. CASE DcClose(p) \/ DcUnlist(p) \/ DcFails(p)
    <3>1. UNCHANGED <<active, drones>> /\ \A r \in RelayObjs : pc'[r] \in Listening <=> pc[r] \in Listening
      BY <2>4, SMTT(60) DEF DcClose, DcUnlist, DcFails
    <3>. QED  BY <1>1, <3>1
  <2>. QED  BY <1>9, <2>1, <2>2, <2>3, <2>4
<1>10. ASSUME NEW r \in RelayObjs, WatchStamp(r) \/ WatchAgain(r) \/ WatchNext(r) \/ WatchFails(r) PROVE UNCHANGED <<served, known>>
  <2>1. UNCHANGED <<active, drones>> /\ \A q \in RelayObjs : pc'[q] \in Listening <=> pc[q] \in Listening
    BY <1>10 DEF WatchStamp, WatchAgain, WatchNext, WatchFails
  <2>. QED  BY <1>1, <2>1
<1>11. ASSUME (\E n \in RelayNames : Heartbeat(n)) \/ (\E s \in Streams : StreamBind(s) \/ StreamExit(s)) \/ UNCHANGED vars
       PROVE  UNCHANGED <<served, known>>
  BY <1>1, <1>11 DEF Heartbeat, StreamBind, StreamExit, vars
<1>. HIDE DEF TypeInv, TypeOK, Locals, Procs, Step, Return, Raise, NoLoc, Local, DcSteps, AddSteps, Listening, RequestsSeen, registry, streams
<1>12. (\E n \in RelayNames : View!Join(n) \/ View!Leave(n)) \/ (\E n \in RelayNames, d \in DroneNames : View!Register(n, d) \/ View!Unregister(n, d))
       => View!Next
  BY DEF View!Next
<1>. QED  BY <1>1, <1>2, <1>3, <1>4, <1>5, <1>6, <1>7, <1>8, <1>9, <1>10, <1>11, <1>12, ZenonT(60)
          DEF Next, Request, WorkerStep, DisconnectStep, WatcherStep, Procs

\* The handlers and threads of the backend implement RelayView: the relay boxes
\* see each request, and each timeout, take effect in one step, although requests
\* about one drone or for new drones overlap; and requests are carried out for
\* relays that are served.
THEOREM ImplementsView ==
  ASSUME Env \cap {"overlap_handshake", "overlap_timeout"} = {}
  PROVE  Spec => ViewSpec /\ []RequestsSeen
<1>1. "overlap_handshake" \notin Env /\ "overlap_timeout" \notin Env
  OBVIOUS
<1>2. Init => View!Init
  BY DEF Init, View!Init, served, known, Online
<1>3. ViewInv => RequestsSeen
  BY DEF ViewInv
<1>. QED  BY <1>1, <1>2, <1>3, InitTypes, TypeStep, InitRelays, RelayStep, InitServing, ServeStep, InitView, ViewStep, SeenStep,
         PTL DEF Spec, ViewSpec, View!Spec

=============================================================================
