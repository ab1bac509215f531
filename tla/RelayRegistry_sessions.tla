---------------------- MODULE RelayRegistry_sessions ----------------------
(***************************************************************************)
(* Theorems about RelayRegistry, where requests about one relay do not     *)
(* overlap in the ways the liberties name: drones have their sessions and  *)
(* timeout_check threads stay alive, and where no drone registers twice    *)
(* every session has its drone and no stream is leaked; for any number of  *)
(* relays, drones and threads.                                             *)
(***************************************************************************)
EXTENDS RelayRegistry_proofs

\* The assumption of this module: no overlap that the liberties name.  Drones may
\* register again unless a theorem says otherwise.
NoOverlap == Env \subseteq {"linger", "reregister"}

-----------------------------------------------------------------------------
(* The invariant.                                                          *)

\* What each request thread is about, and that its relay stays online meanwhile.
WorkerInv ==
  \A w \in Workers :
    /\ pc[w] \in {"idle", "hs_store"} \cup AddSteps \cup DcSteps
    /\ pc[w] = "idle" => loc[w] = NoLoc
    /\ pc[w] = "hs_store" => /\ loc[w].name \in RelayNames /\ ~ Online(loc[w].name)
                             /\ loc[w].drone = NULL /\ loc[w].relay = NULL
    /\ pc[w] \in AddSteps \cup DcSteps =>
         /\ loc[w].name \in RelayNames /\ loc[w].drone \in DroneNames
         /\ active[loc[w].name] \in RelayObjs /\ pc[active[loc[w].name]] \notin Removing
    /\ pc[w] \in {"nd_pop", "nd_scan"} => loc[w].relay = NULL
    /\ pc[w] \in {"nd_insert", "nd_stream", "nd_store"} \cup DcSteps => loc[w].relay = active[loc[w].name] /\ loc[w].port \in Ports

\* No two requests are about the same drone, or the same handshake.
OneRequest ==
  \A v, w \in Workers :
    pc[v] # "idle" /\ pc[w] # "idle" /\ loc[v].name = loc[w].name /\ loc[v].drone = loc[w].drone => v = w

\* A timeout_check thread runs just as long as its relay is online, and knows
\* which of its drones are still to be removed.
WatchInv ==
  /\ \A n \in RelayNames : Online(n) => owner[active[n]] = n /\ pc[active[n]] # "idle"
  /\ \A r \in RelayObjs :
       /\ pc[r] \in {"idle", "watch", "sleep"} \cup Removing
       /\ pc[r] = "idle" => loc[r] = NoLoc
       /\ pc[r] # "idle" => owner[r] \in RelayNames /\ active[owner[r]] = r /\ loc[r].relay = r
       /\ pc[r] \notin DcSteps => loc[r].drone = NULL
       /\ pc[r] \in DcSteps => loc[r].drone \in DroneNames /\ loc[r].port \in Ports
       /\ pc[r] \in Removing => todo[r] = {d \in DroneNames : drones[r][d] # NULL} \ {loc[r].drone}

\* A thread at work on a registered drone knows its port, and where the drone's
\* session and stream are.
Open == {"starting", "bound", "failed"}
WorkInv ==
  \A p \in Procs :
    /\ pc[p] \in DcSteps \cup {"nd_stream", "nd_store"} => drones[loc[p].relay][loc[p].drone] = loc[p].port
    /\ pc[p] = "dc_close" => sessions[loc[p].port] # NULL /\ streamState[sessions[loc[p].port]] \in Open
    /\ pc[p] = "dc_unlist" => sessions[loc[p].port] # NULL /\ streamState[sessions[loc[p].port]] \notin {"starting", "bound"}
    /\ pc[p] = "dc_delete" => sessions[loc[p].port] = NULL

\* A session has one port.
StreamInv == \A p, q \in Ports : sessions[p] # NULL /\ sessions[p] = sessions[q] => p = q

\* EveryDroneHasSession, written out.
DronesInv ==
  \A n \in RelayNames, d \in DroneNames :
    /\ active[n] # NULL /\ drones[active[n]][d] # NULL
    /\ \A p \in Procs : loc[p].drone = d => loc[p].relay # active[n]
    => sessions[drones[active[n]][d]] # NULL /\ streamState[sessions[drones[active[n]][d]]] \in Open

\* A stream that a request has started and not stored is nobody else's.
MadeInv ==
  \A w \in Workers : pc[w] = "nd_store" =>
    /\ streamState[loc[w].stream] \in Open /\ streamPort[loc[w].stream] = loc[w].port
    /\ \A p \in Ports : sessions[p] # loc[w].stream
    /\ \A v \in Workers : pc[v] = "nd_store" /\ loc[v].stream = loc[w].stream => v = w

SessionInv == WorkerInv /\ OneRequest /\ WatchInv /\ WorkInv /\ StreamInv /\ DronesInv

-----------------------------------------------------------------------------
(* What the invariant says of a thread at work on a drone.                 *)

LEMMA AtWork ==
  ASSUME PortInv, SessionInv, NEW p \in Procs, pc[p] \in DcSteps \cup {"nd_insert", "nd_stream", "nd_store"}
  PROVE  /\ loc[p].relay \in RelayObjs /\ loc[p].drone \in DroneNames /\ loc[p].port \in Ports
         /\ p \in RelayObjs => loc[p].relay = p /\ pc[p] \in DcSteps
         /\ p \in Workers => loc[p].relay = active[loc[p].name] /\ loc[p].name \in RelayNames /\ pc[loc[p].relay] \notin Removing
         /\ \E n \in RelayNames : active[n] = loc[p].relay
<1>1. CASE p \in Workers
  BY <1>1, RegistryAssumption DEF SessionInv, WorkerInv, AddSteps, DcSteps
<1>2. CASE p \in RelayObjs
  BY <1>2, RegistryAssumption DEF SessionInv, WatchInv, AddSteps, DcSteps, Removing
<1>. QED  BY <1>1, <1>2 DEF Procs

\* Two threads are never at work on the same drone ...
LEMMA OneAtWork ==
  ASSUME PortInv, SessionInv, NEW p \in Procs, NEW q \in Procs,
         pc[p] \in DcSteps \cup {"nd_insert", "nd_stream", "nd_store"}, pc[q] \in DcSteps \cup {"nd_insert", "nd_stream", "nd_store"},
         loc[p].relay = loc[q].relay, loc[p].drone = loc[q].drone
  PROVE  p = q
<1>1. CASE p \in Workers /\ q \in Workers
  <2>1. loc[p].name = loc[q].name
    BY <1>1, AtWork, OneName, RegistryAssumption DEF PortInv
  <2>. QED  BY <1>1, <2>1 DEF SessionInv, OneRequest, DcSteps
<1>2. CASE p \in RelayObjs /\ q \in RelayObjs
  BY <1>2, AtWork
<1>3. CASE p \in Workers /\ q \in RelayObjs
  BY <1>3, AtWork DEF Removing
<1>4. CASE p \in RelayObjs /\ q \in Workers
  BY <1>4, AtWork DEF Removing
<1>. QED  BY <1>1, <1>2, <1>3, <1>4 DEF Procs

\* ... nor, when they know it, on the same port.
LEMMA OnePort ==
  ASSUME PortInv, SessionInv, NEW p \in Procs, NEW q \in Procs,
         pc[p] \in DcSteps \cup {"nd_stream", "nd_store"}, pc[q] \in DcSteps \cup {"nd_stream", "nd_store"}, loc[p].port = loc[q].port
  PROVE  p = q
<1>1. PICK m \in RelayNames : active[m] = loc[p].relay
  BY AtWork
<1>2. PICK n \in RelayNames : active[n] = loc[q].relay
  BY AtWork
<1>3. /\ loc[p].drone \in DroneNames /\ loc[q].drone \in DroneNames
      /\ loc[p].relay # NULL /\ loc[q].relay # NULL /\ loc[p].port # NULL
  BY AtWork, RegistryAssumption
<1>4. drones[active[m]][loc[p].drone] = loc[p].port /\ drones[active[n]][loc[q].drone] = loc[q].port
  BY <1>1, <1>2 DEF SessionInv, WorkInv
<1>5. m = n /\ loc[p].drone = loc[q].drone
  BY <1>1, <1>2, <1>3, <1>4, SamePort DEF PortInv, Registered, Online
<1>. QED  BY <1>1, <1>2, <1>5, OneAtWork

\* The port of a drone that somebody is about to insert is nobody's.
LEMMA ReservedPort ==
  ASSUME PortInv, SessionInv, NEW w \in Workers, pc[w] = "nd_insert",
         NEW q \in Procs, pc[q] \in DcSteps \cup {"nd_stream", "nd_store"}
  PROVE  loc[q].port # loc[w].port
<1>1. PICK n \in RelayNames : active[n] = loc[q].relay
  BY AtWork
<1>2. loc[q].drone \in DroneNames /\ loc[q].relay # NULL /\ loc[q].port # NULL /\ loc[q].port \in Ports
  BY AtWork, RegistryAssumption
<1>3. drones[active[n]][loc[q].drone] = loc[q].port
  BY <1>1 DEF SessionInv, WorkInv
<1>. QED  BY <1>1, <1>2, <1>3 DEF PortInv, Reserved, UsedPorts, Registered, Online

\* Whoever knows the relay and the drone of its request is at work on it.
LEMMA KnowsIsAtWork ==
  ASSUME PortInv, SessionInv, NEW p \in Procs, loc[p].relay # NULL, loc[p].drone # NULL
  PROVE  pc[p] \in DcSteps \cup {"nd_insert", "nd_stream", "nd_store"}
<1>1. CASE p \in Workers
  BY <1>1 DEF SessionInv, WorkerInv, AddSteps, NoLoc, Local
<1>2. CASE p \in RelayObjs
  BY <1>2 DEF SessionInv, WatchInv
<1>. QED  BY <1>1, <1>2 DEF Procs

\* A drone that nobody is at work on has its session.
LEMMA Unattended ==
  ASSUME PortInv, SessionInv, NEW n \in RelayNames, NEW d \in DroneNames, active[n] # NULL, drones[active[n]][d] # NULL,
         \A p \in Procs : pc[p] \in DcSteps \cup {"nd_insert", "nd_stream", "nd_store"} => loc[p].relay # active[n] \/ loc[p].drone # d
  PROVE  /\ sessions[drones[active[n]][d]] # NULL
         /\ streamState[sessions[drones[active[n]][d]]] \in Open
<1>1. \A p \in Procs : loc[p].drone = d => loc[p].relay # active[n]
  BY KnowsIsAtWork, RegistryAssumption
<1>. QED  BY <1>1 DEF SessionInv, DronesInv

\* One that nobody is at work on does not have the port of one that somebody is.
LEMMA SettledPort ==
  ASSUME PortInv, SessionInv, NEW n \in RelayNames, NEW d \in DroneNames, active[n] # NULL, drones[active[n]][d] # NULL,
         NEW p \in Procs, pc[p] \in DcSteps \cup {"nd_stream", "nd_store"}, loc[p].relay # active[n] \/ loc[p].drone # d
  PROVE  drones[active[n]][d] # loc[p].port
<1>1. PICK m \in RelayNames : active[m] = loc[p].relay
  BY AtWork
<1>2. loc[p].drone \in DroneNames /\ loc[p].relay # NULL /\ loc[p].port # NULL
  BY AtWork, RegistryAssumption
<1>3. drones[active[m]][loc[p].drone] = loc[p].port
  BY <1>1 DEF SessionInv, WorkInv
<1>. QED  BY <1>1, <1>2, <1>3, SamePort DEF PortInv, Registered, Online

\* Whoever is at work on a drone stays with it.
AtWorkStay ==
  \A p \in Procs : loc[p].relay # NULL /\ loc[p].drone # NULL =>
    loc'[p].relay = loc[p].relay /\ loc'[p].drone = loc[p].drone

\* A step that only moves threads, and unsettles no more than it settles, leaves
\* the drones with their sessions.
LEMMA DronesFrame ==
  ASSUME DronesInv, UNCHANGED <<active, drones, sessions, streamState>>,
         AtWorkStay
  PROVE  DronesInv'
<1>. SUFFICES ASSUME NEW n \in RelayNames, NEW d \in DroneNames, active[n] # NULL, drones[active[n]][d] # NULL,
                     \A p \in Procs : loc'[p].drone = d => loc'[p].relay # active[n]
              PROVE  sessions[drones[active[n]][d]] # NULL /\ streamState[sessions[drones[active[n]][d]]] \in Open
  BY DEF DronesInv
<1>1. \A p \in Procs : loc[p].drone = d => loc[p].relay # active[n]
  BY RegistryAssumption DEF AtWorkStay
<1>. QED  BY <1>1 DEF DronesInv

\* Nor does a step that leaves the sessions alone disturb them.
LEMMA StreamFrame ==
  ASSUME StreamInv, UNCHANGED sessions
  PROVE  StreamInv'
BY DEF StreamInv

\* What cannot happen: an entry that is missing.
LEMMA NoFailure ==
  ASSUME PortInv, SessionInv
  PROVE  /\ \A p \in Procs : ~ DcFails(p)
         /\ \A r \in RelayObjs : ~ WatchFails(r)
<1>1. ASSUME NEW p \in Procs, DcFails(p) PROVE FALSE
  <2>1. pc[p] \in DcSteps
    BY <1>1 DEF DcFails, DcSteps
  <2>2. drones[loc[p].relay][loc[p].drone] = loc[p].port /\ loc[p].port # NULL
    BY <2>1, AtWork, RegistryAssumption DEF SessionInv, WorkInv
  <2>. QED  BY <1>1, <2>2 DEF DcFails, SessionInv, WorkInv
<1>2. ASSUME NEW r \in RelayObjs, WatchFails(r) PROVE FALSE
  BY <1>2, RegistryAssumption DEF WatchFails, SessionInv, WatchInv, Removing, Online
<1>. QED  BY <1>1, <1>2

-----------------------------------------------------------------------------
(* The stream of a request between its start and its storage.              *)

\* A step that starts and stores no stream, and changes only those of sessions
\* and those that have ended.
LEMMA MadeFrame ==
  ASSUME TypeInv, MadeInv,
         \A w \in Workers : pc'[w] = "nd_store" => pc[w] = "nd_store" /\ loc'[w] = loc[w],
         \A p \in Ports : sessions'[p] \in {sessions[p], NULL},
         \A s \in Streams : streamState[s] \in Open /\ (\A p \in Ports : sessions[p] # s)
           => streamState'[s] \in Open /\ streamPort'[s] = streamPort[s]
  PROVE  MadeInv'
<1>. SUFFICES ASSUME NEW w \in Workers, pc'[w] = "nd_store"
              PROVE  /\ streamState'[loc'[w].stream] \in Open /\ streamPort'[loc'[w].stream] = loc'[w].port
                     /\ \A p \in Ports : sessions'[p] # loc'[w].stream
                     /\ \A v \in Workers : pc'[v] = "nd_store" /\ loc'[v].stream = loc'[w].stream => v = w
  BY DEF MadeInv
<1>1. pc[w] = "nd_store" /\ loc'[w] = loc[w] /\ loc[w].stream \in Streams /\ loc[w].stream # NULL
  BY RegistryAssumption DEF TypeInv, KnownRequest
<1>2. streamState[loc[w].stream] \in Open /\ \A p \in Ports : sessions[p] # loc[w].stream
  BY <1>1 DEF MadeInv
<1>3. streamState'[loc[w].stream] \in Open /\ streamPort'[loc[w].stream] = loc[w].port
  BY <1>1, <1>2 DEF MadeInv
<1>4. \A p \in Ports : sessions'[p] # loc[w].stream
  BY <1>1, <1>2
<1>5. \A v \in Workers : pc'[v] = "nd_store" /\ loc'[v].stream = loc[w].stream => v = w
  BY <1>1 DEF MadeInv
<1>. QED  BY <1>1, <1>3, <1>4, <1>5

LEMMA MadeStep == PortInv /\ SessionInv /\ MadeInv /\ [Next]_vars => MadeInv'
<1>. SUFFICES ASSUME PortInv, SessionInv, MadeInv, [Next]_vars PROVE MadeInv'
  OBVIOUS
<1>. USE RegistryAssumption DEF PortInv, TypeInv, TypeOK, Locals, Local, NoLoc, Procs, Step, Return, Raise, registry, streams
<1>1. ASSUME NEW n \in RelayNames, Heartbeat(n) PROVE MadeInv'
  BY <1>1, MadeFrame DEF Heartbeat
<1>2. ASSUME NEW w \in Workers, NEW n \in RelayNames, Handshake(w, n) PROVE MadeInv'
  BY <1>2, MadeFrame DEF Handshake
<1>3. ASSUME NEW w \in Workers, HandshakeStore(w) PROVE MadeInv'
  <2>1. PICK r \in FreeRelays :
          /\ pc' = [pc EXCEPT ![w] = "idle", ![r] = "watch"]
          /\ loc' = [loc EXCEPT ![w] = NoLoc, ![r] = Local(NULL, NULL, r, NULL)]
          /\ UNCHANGED streams
    BY <1>3 DEF HandshakeStore
  <2>2. r \in RelayObjs
    BY DEF FreeRelays
  <2>. QED  BY <2>1, <2>2, MadeFrame
<1>4. ASSUME NEW w \in Workers, NEW n \in RelayNames, NEW d \in DroneNames, NewDrone(w, n, d) PROVE MadeInv'
  BY <1>4, MadeFrame DEF NewDrone
<1>5. ASSUME NEW w \in Workers, NewDronePop(w) PROVE MadeInv'
  BY <1>5, MadeFrame DEF NewDronePop
<1>6. ASSUME NEW w \in Workers, NewDroneScan(w) PROVE MadeInv'
  BY <1>6, MadeFrame DEF NewDroneScan, TakeLowest
<1>7. ASSUME NEW w \in Workers, NewDroneFails(w) PROVE MadeInv'
  BY <1>7, MadeFrame DEF NewDroneFails
<1>8. ASSUME NEW w \in Workers, NewDroneInsert(w) PROVE MadeInv'
  BY <1>8, MadeFrame DEF NewDroneInsert
<1>9. ASSUME NEW w \in Workers, NewDroneStream(w) PROVE MadeInv'
  <2>. DEFINE x == loc[w].port
  <2>1. PICK s \in Streams :
          /\ \A y \in Ports : sessions[y] # s
          /\ \A v \in Workers : loc[v].stream # s
          /\ streamState' = [streamState EXCEPT ![s] = "starting"] /\ streamPort' = [streamPort EXCEPT ![s] = x]
          /\ loc' = [loc EXCEPT ![w].stream = s]
    BY <1>9 DEF NewDroneStream, FreeStreams
  <2>2. pc[w] = "nd_stream" /\ pc' = [pc EXCEPT ![w] = "nd_store"] /\ sessions' = sessions
    BY <1>9 DEF NewDroneStream
  <2>3. /\ loc'[w].stream = s /\ loc'[w].port = x
        /\ streamState'[s] = "starting" /\ streamPort'[s] = x
        /\ \A v \in Workers : v # w => loc'[v] = loc[v] /\ pc'[v] = pc[v]
        /\ \A t \in Streams : t # s => streamState'[t] = streamState[t] /\ streamPort'[t] = streamPort[t]
    BY <2>1, <2>2
  <2>4. \A v \in Workers : v # w /\ pc'[v] = "nd_store" => loc'[v] = loc[v] /\ loc[v].stream \in Streams \ {s} /\ pc[v] = "nd_store"
    BY <2>1, <2>3 DEF KnownRequest
  <2>5. ASSUME NEW v \in Workers, pc'[v] = "nd_store"
        PROVE  /\ streamState'[loc'[v].stream] \in Open /\ streamPort'[loc'[v].stream] = loc'[v].port
               /\ \A y \in Ports : sessions'[y] # loc'[v].stream
    BY <2>1, <2>2, <2>3, <2>4, <2>5 DEF MadeInv, Open
  <2>6. ASSUME NEW u \in Workers, NEW v \in Workers, pc'[u] = "nd_store", pc'[v] = "nd_store", loc'[u].stream = loc'[v].stream
        PROVE  u = v
    BY <2>3, <2>4, <2>6 DEF MadeInv
  <2>. QED  BY <2>5, <2>6 DEF MadeInv
<1>10. ASSUME NEW w \in Workers, NewDroneStore(w) PROVE MadeInv'
  <2>1. /\ pc[w] = "nd_store" /\ pc' = [pc EXCEPT ![w] = "idle"] /\ loc' = [loc EXCEPT ![w] = NoLoc]
        /\ sessions' = [sessions EXCEPT ![loc[w].port] = loc[w].stream] /\ UNCHANGED <<streamState, streamPort>>
    BY <1>10 DEF NewDroneStore
  <2>2. \A v \in Workers : pc'[v] = "nd_store" => v # w /\ pc[v] = "nd_store" /\ loc'[v] = loc[v] /\ loc[v].stream # loc[w].stream
    BY <2>1 DEF MadeInv
  <2>3. \A p \in Ports : sessions'[p] \in {sessions[p], loc[w].stream}
    BY <2>1
  <2>. QED  BY <2>1, <2>2, <2>3 DEF MadeInv
<1>11. ASSUME NEW w \in Workers, NEW n \in RelayNames, NEW d \in DroneNames, Disconnected(w, n, d) PROVE MadeInv'
  BY <1>11, MadeFrame DEF Disconnected
<1>12. ASSUME NEW p \in Procs, DcClose(p) PROVE MadeInv'
  <2>. DEFINE s == sessions[loc[p].port]
  <2>1. /\ pc[p] = "dc_close" /\ pc' = [pc EXCEPT ![p] = "dc_unlist"] /\ UNCHANGED <<sessions, loc>>
        /\ \A t \in Streams : t # s => streamState'[t] = streamState[t] /\ streamPort'[t] = streamPort[t]
    BY <1>12 DEF DcClose
  <2>2. loc[p].port \in Ports
    BY <2>1, AtWork DEF DcSteps
  <2>. QED  BY <2>1, <2>2, MadeFrame
<1>13. ASSUME NEW p \in Procs, DcUnlist(p) PROVE MadeInv'
  BY <1>13, MadeFrame DEF DcUnlist
<1>14. ASSUME NEW p \in Procs, DcDelete(p) PROVE MadeInv'
  BY <1>14, MadeFrame DEF DcDelete
<1>15. ASSUME NEW p \in Procs, DcFails(p) PROVE MadeInv'
  BY <1>15, MadeFrame DEF DcFails
<1>16. ASSUME NEW r \in RelayObjs, WatchStamp(r) \/ WatchAgain(r) \/ WatchTimeOut(r) PROVE MadeInv'
  BY <1>16, MadeFrame DEF WatchStamp, WatchAgain, WatchTimeOut
<1>17. ASSUME NEW r \in RelayObjs, WatchNext(r) \/ WatchDrop(r) \/ WatchFails(r) PROVE MadeInv'
  BY <1>17, MadeFrame DEF WatchNext, WatchDrop, WatchFails
<1>18. ASSUME NEW s \in Streams, StreamBind(s) \/ StreamExit(s) PROVE MadeInv'
  <2>1. UNCHANGED <<sessions, pc, loc>>
    BY <1>18 DEF StreamBind, StreamExit
  <2>2. \A t \in Streams : streamState[t] \in Open => streamState'[t] \in Open /\ streamPort'[t] = streamPort[t]
    BY <1>18 DEF StreamBind, StreamExit, Open
  <2>. QED  BY <2>1, <2>2, MadeFrame
<1>19. CASE UNCHANGED vars
  BY <1>19, MadeFrame DEF vars
<1>. QED  BY <1>1, <1>2, <1>3, <1>4, <1>5, <1>6, <1>7, <1>8, <1>9, <1>10, <1>11,
         <1>12, <1>13, <1>14, <1>15, <1>16, <1>17, <1>18, <1>19
      DEF Next, Request, WorkerStep, DisconnectStep, WatcherStep

-----------------------------------------------------------------------------
(* Every step preserves the invariant.                                     *)

LEMMA SessionStep ==
  ASSUME NoOverlap
  PROVE  PortInv /\ PortInv' /\ SessionInv /\ MadeInv /\ [Next]_vars => SessionInv'
<1>. SUFFICES ASSUME PortInv, PortInv', SessionInv, MadeInv, [Next]_vars PROVE SessionInv'
  OBVIOUS
<1>. USE RegistryAssumption DEF NoOverlap, PortInv, TypeInv, TypeOK, Locals, Local, NoLoc, Procs, SessionInv,
         AddSteps, DcSteps, Removing, registry, streams, Online, Registered, UsedPorts
<1>1. ASSUME NEW n \in RelayNames, Heartbeat(n) PROVE SessionInv'
  <2>1. WorkerInv'
    BY <1>1 DEF WorkerInv, Heartbeat
  <2>2. OneRequest'
    BY <1>1 DEF OneRequest, Heartbeat
  <2>3. WatchInv'
    BY <1>1 DEF WatchInv, Heartbeat
  <2>4. WorkInv'
    BY <1>1 DEF WorkInv, Open, Heartbeat
  <2>5. StreamInv'
    BY <1>1, StreamFrame DEF Heartbeat
  <2>6. DronesInv'
    <3>1. AtWorkStay
      BY <1>1 DEF AtWorkStay, WorkerInv, WatchInv, Heartbeat
    <3>2. UNCHANGED <<active, drones, sessions, streamState>>
      BY <1>1 DEF Heartbeat
    <3>. QED  BY <3>1, <3>2, DronesFrame
  <2>. QED  BY <2>1, <2>2, <2>3, <2>4, <2>5, <2>6
<1>2. ASSUME NEW w \in Workers, NEW n \in RelayNames, Handshake(w, n) PROVE SessionInv'
  <2>1. WorkerInv'
    BY <1>2 DEF WorkerInv, Handshake, Step, MayShake, NobodyShakes
  <2>2. OneRequest'
    <3>1. \A v \in Workers : pc[v] = "hs_store" => loc[v].name # n
      BY <1>2 DEF Handshake, MayShake, NobodyShakes
    <3>2. \A v \in Workers : pc[v] # "idle" /\ loc[v].drone = NULL => pc[v] = "hs_store"
      BY DEF WorkerInv
    <3>3. /\ pc' = [pc EXCEPT ![w] = "hs_store"] /\ loc' = [loc EXCEPT ![w] = Local(n, NULL, NULL, NULL)]
      BY <1>2 DEF Handshake, Step
    <3>. QED  BY <3>1, <3>2, <3>3 DEF OneRequest
  <2>3. WatchInv'
    BY <1>2 DEF WatchInv, Handshake, Step, MayShake, NobodyShakes
  <2>4. WorkInv'
    BY <1>2 DEF WorkInv, Open, Handshake, Step, MayShake, NobodyShakes
  <2>5. StreamInv'
    BY <1>2, StreamFrame DEF Handshake, Step
  <2>6. DronesInv'
    <3>1. AtWorkStay
      BY <1>2 DEF AtWorkStay, WorkerInv, WatchInv, Handshake, Step
    <3>2. UNCHANGED <<active, drones, sessions, streamState>>
      BY <1>2 DEF Handshake, Step
    <3>. QED  BY <3>1, <3>2, DronesFrame
  <2>. QED  BY <2>1, <2>2, <2>3, <2>4, <2>5, <2>6
<1>3. ASSUME NEW w \in Workers, HandshakeStore(w) PROVE SessionInv'
  <2>. DEFINE n == loc[w].name
  <2>a. PICK r \in FreeRelays :
          /\ active' = [active EXCEPT ![n] = r] /\ owner' = [owner EXCEPT ![r] = n]
          /\ drones' = [drones EXCEPT ![r] = [d \in DroneNames |-> NULL]]
          /\ pc' = [pc EXCEPT ![w] = "idle", ![r] = "watch"]
          /\ loc' = [loc EXCEPT ![w] = NoLoc, ![r] = Local(NULL, NULL, r, NULL)]
          /\ UNCHANGED streams
    BY <1>3 DEF HandshakeStore
  <2>b. /\ n \in RelayNames /\ active[n] = NULL /\ loc[w].drone = NULL
        /\ r \in RelayObjs /\ r # NULL /\ r # w /\ pc[r] = "idle"
        /\ \A m \in RelayNames : active[m] # r
        /\ \A v \in Workers : loc[v].relay # r
    BY <1>3 DEF HandshakeStore, FreeRelays, WorkerInv, WatchInv
  <2>c. /\ pc'[w] = "idle" /\ loc'[w] = NoLoc /\ pc'[r] = "watch" /\ loc'[r] = Local(NULL, NULL, r, NULL)
        /\ \A q \in Procs : q # w /\ q # r => pc'[q] = pc[q] /\ loc'[q] = loc[q]
        /\ active'[n] = r /\ owner'[r] = n
        /\ \A m \in RelayNames : m # n => active'[m] = active[m]
        /\ \A q \in RelayObjs : q # r => drones'[q] = drones[q] /\ owner'[q] = owner[q]
        /\ \A d \in DroneNames : drones'[r][d] = NULL
    BY <2>a, <2>b
  <2>d. \A v \in Workers : v # w /\ pc[v] # "idle" => loc[v].name # n
    BY <1>3, <2>b DEF WorkerInv, OneRequest, HandshakeStore
  <2>1. WorkerInv'
    <3>. SUFFICES ASSUME NEW v \in Workers, v # w
         PROVE  /\ pc'[v] \in {"idle", "hs_store"} \cup AddSteps \cup DcSteps
                /\ pc'[v] = "idle" => loc'[v] = NoLoc
                /\ pc'[v] = "hs_store" => /\ loc'[v].name \in RelayNames /\ active'[loc'[v].name] = NULL
                                          /\ loc'[v].drone = NULL /\ loc'[v].relay = NULL
                /\ pc'[v] \in AddSteps \cup DcSteps =>
                     /\ loc'[v].name \in RelayNames /\ loc'[v].drone \in DroneNames
                     /\ active'[loc'[v].name] \in RelayObjs /\ pc'[active'[loc'[v].name]] \notin Removing
                /\ pc'[v] \in {"nd_pop", "nd_scan"} => loc'[v].relay = NULL
                /\ pc'[v] \in {"nd_insert", "nd_stream", "nd_store"} \cup DcSteps =>
                     loc'[v].relay = active'[loc'[v].name] /\ loc'[v].port \in Ports
      BY <2>c DEF WorkerInv
    <3>1. pc'[v] = pc[v] /\ loc'[v] = loc[v] /\ (pc[v] # "idle" => loc[v].name # n)
      BY <2>b, <2>c, <2>d
    <3>2. pc[v] # "idle" => loc[v].name \in RelayNames /\ active'[loc[v].name] = active[loc[v].name]
      BY <2>c, <3>1 DEF WorkerInv
    <3>3. pc[v] \in AddSteps \cup DcSteps => pc'[active[loc[v].name]] = pc[active[loc[v].name]]
      BY <2>b, <2>c DEF WorkerInv
    <3>. QED  BY <3>1, <3>2, <3>3 DEF WorkerInv
  <2>2. OneRequest'
    <3>. SUFFICES ASSUME NEW u \in Workers, NEW v \in Workers, pc'[u] # "idle", pc'[v] # "idle",
                         loc'[u].name = loc'[v].name, loc'[u].drone = loc'[v].drone
                  PROVE  u = v
      BY DEF OneRequest
    <3>1. pc'[u] = pc[u] /\ loc'[u] = loc[u] /\ pc'[v] = pc[v] /\ loc'[v] = loc[v]
      <4>1. u # w /\ v # w
        BY <2>c
      <4>2. u # r /\ v # r /\ u \in Procs /\ v \in Procs
        BY <2>b
      <4>. QED  BY <2>c, <4>1, <4>2
    <3>2. pc[u] # "idle" /\ pc[v] # "idle" /\ loc[u].name = loc[v].name /\ loc[u].drone = loc[v].drone
      BY <3>1
    <3>. QED  BY <3>2 DEF OneRequest
  <2>3. WatchInv'
    <3>1. ASSUME NEW m \in RelayNames, active'[m] # NULL PROVE owner'[active'[m]] = m /\ pc'[active'[m]] # "idle"
      <4>1. CASE m = n
        BY <4>1, <2>c
      <4>2. CASE m # n
        <5>1. active'[m] = active[m] /\ active[m] \in RelayObjs /\ active[m] # r /\ active[m] # w
          BY <3>1, <4>2, <2>b, <2>c
        <5>. QED  BY <5>1, <2>c DEF WatchInv
      <4>. QED  BY <4>1, <4>2
    <3>2. \A q \in RelayObjs : q # r =>
            pc'[q] = pc[q] /\ loc'[q] = loc[q] /\ owner'[q] = owner[q] /\ todo'[q] = todo[q] /\ drones'[q] = drones[q]
      BY <1>3, <2>a, <2>b, <2>c DEF HandshakeStore
    <3>3. \A q \in RelayObjs : q # r /\ pc[q] # "idle" => owner[q] \in RelayNames /\ active'[owner[q]] = q
      BY <2>b, <2>c DEF WatchInv
    <3>4. ASSUME NEW q \in RelayObjs
          PROVE  /\ pc'[q] \in {"idle", "watch", "sleep"} \cup Removing
                 /\ pc'[q] = "idle" => loc'[q] = NoLoc
                 /\ pc'[q] # "idle" => owner'[q] \in RelayNames /\ active'[owner'[q]] = q /\ loc'[q].relay = q
                 /\ pc'[q] \notin DcSteps => loc'[q].drone = NULL
                 /\ pc'[q] \in DcSteps => loc'[q].drone \in DroneNames /\ loc'[q].port \in Ports
                 /\ pc'[q] \in Removing => todo'[q] = {d \in DroneNames : drones'[q][d] # NULL} \ {loc'[q].drone}
      <4>1. CASE q = r
        BY <4>1, <2>b, <2>c
      <4>2. CASE q # r
        BY <4>2, <3>2, <3>3 DEF WatchInv
      <4>. QED  BY <4>1, <4>2
    <3>. QED  BY <3>1, <3>4 DEF WatchInv
  <2>4. WorkInv'
    <3>. SUFFICES ASSUME NEW q \in Procs, pc'[q] \in DcSteps \cup {"nd_stream", "nd_store"}
                  PROVE  /\ drones'[loc'[q].relay][loc'[q].drone] = loc'[q].port
                         /\ pc'[q] = "dc_close" =>
                              sessions'[loc'[q].port] # NULL /\ streamState'[sessions'[loc'[q].port]] \in Open
                         /\ pc'[q] = "dc_unlist" =>
                              sessions'[loc'[q].port] # NULL /\ streamState'[sessions'[loc'[q].port]] \notin {"starting", "bound"}
                         /\ pc'[q] = "dc_delete" => sessions'[loc'[q].port] = NULL
      BY DEF WorkInv
    <3>1. pc'[q] = pc[q] /\ loc'[q] = loc[q] /\ q # r /\ q # w
      BY <2>c
    <3>2. loc[q].relay \in RelayObjs /\ loc[q].relay # r
      BY <2>b, <3>1, AtWork DEF Procs
    <3>3. drones'[loc[q].relay] = drones[loc[q].relay] /\ UNCHANGED <<sessions, streamState>>
      BY <2>a, <2>c, <3>2
    <3>. QED  BY <3>1, <3>3 DEF WorkInv
  <2>5. StreamInv'
    BY <1>3, StreamFrame DEF HandshakeStore, FreeRelays
  <2>6. DronesInv'
    <3>. SUFFICES ASSUME NEW m \in RelayNames, NEW d \in DroneNames, active'[m] # NULL, drones'[active'[m]][d] # NULL,
                         \A q \in Procs : loc'[q].drone = d => loc'[q].relay # active'[m]
                  PROVE  /\ sessions'[drones'[active'[m]][d]] # NULL
                         /\ streamState'[sessions'[drones'[active'[m]][d]]] \in Open
      BY DEF DronesInv
    <3>1. m # n /\ active'[m] = active[m] /\ drones'[active[m]] = drones[active[m]]
      BY <2>b, <2>c
    <3>2. \A q \in Procs : loc[q].drone = d => loc[q].relay # active[m]
      <4>1. loc[w].drone = NULL /\ loc[r].drone = NULL /\ d # NULL
        BY <2>b DEF WatchInv
      <4>2. ASSUME NEW q \in Procs, loc[q].drone = d PROVE loc[q].relay # active[m]
        <5>1. loc'[q] = loc[q]
          BY <2>c, <4>1, <4>2
        <5>. QED  BY <3>1, <4>2, <5>1
      <4>. QED  BY <4>2
    <3>. QED  BY <2>a, <3>1, <3>2 DEF DronesInv
  <2>. QED  BY <2>1, <2>2, <2>3, <2>4, <2>5, <2>6
<1>4. ASSUME NEW w \in Workers, NEW n \in RelayNames, NEW d \in DroneNames, NewDrone(w, n, d) PROVE SessionInv'
  <2>1. WorkerInv'
    BY <1>4 DEF WorkerInv, NewDrone, Step, MayAsk, NobodyAbout, Serving, Overdue, MayReregister
  <2>2. OneRequest'
    BY <1>4 DEF OneRequest, NewDrone, Step, MayAsk, NobodyAbout, Serving, Overdue, MayReregister
  <2>3. WatchInv'
    BY <1>4 DEF WatchInv, NewDrone, Step, MayAsk, NobodyAbout, Serving, Overdue, MayReregister
  <2>4. WorkInv'
    BY <1>4 DEF WorkInv, Open, NewDrone, Step, MayAsk, NobodyAbout, Serving, Overdue, MayReregister
  <2>5. StreamInv'
    BY <1>4, StreamFrame DEF NewDrone, Step, NobodyAbout, Overdue, MayReregister
  <2>6. DronesInv'
    <3>1. AtWorkStay
      BY <1>4 DEF AtWorkStay, WorkerInv, WatchInv, NewDrone, Step
    <3>2. UNCHANGED <<active, drones, sessions, streamState>>
      BY <1>4 DEF NewDrone, Step
    <3>. QED  BY <3>1, <3>2, DronesFrame
  <2>. QED  BY <2>1, <2>2, <2>3, <2>4, <2>5, <2>6
<1>5. ASSUME NEW w \in Workers, NewDronePop(w) PROVE SessionInv'
  <2>. DEFINE n == loc[w].name  e == loc[w].drone  r == active[n]
  <2>a. /\ pc[w] = "nd_pop" /\ pc' = [pc EXCEPT ![w] = "nd_scan"] /\ drones' = [drones EXCEPT ![r][e] = NULL]
        /\ UNCHANGED <<active, owner, beat, streams, loc, todo>>
    BY <1>5 DEF NewDronePop, Step
  <2>b. n \in RelayNames /\ e \in DroneNames /\ r \in RelayObjs /\ pc[r] \notin Removing
    BY <2>a DEF WorkerInv
  <2>c. /\ drones'[r][e] = NULL
        /\ \A q \in RelayObjs, d \in DroneNames : q # r \/ d # e => drones'[q][d] = drones[q][d]
        /\ \A q \in RelayObjs : q # r => drones'[q] = drones[q]
    BY <2>a, <2>b
  <2>1. WorkerInv'
    BY <1>5 DEF WorkerInv, NewDronePop, Step
  <2>2. OneRequest'
    BY <1>5 DEF OneRequest, NewDronePop, Step
  <2>3. WatchInv'
    <3>1. \A q \in RelayObjs : pc'[q] = pc[q] /\ (pc[q] \in Removing => drones'[q] = drones[q])
      BY <2>a, <2>b, <2>c
    <3>. QED  BY <2>a, <3>1 DEF WatchInv
  <2>4. WorkInv'
    <3>1. \A q \in Procs : pc'[q] \in DcSteps \cup {"nd_stream", "nd_store"} =>
            /\ pc'[q] = pc[q]
            /\ drones'[loc[q].relay][loc[q].drone] = drones[loc[q].relay][loc[q].drone]
      <4>. SUFFICES ASSUME NEW q \in Procs, pc'[q] \in DcSteps \cup {"nd_stream", "nd_store"}
                    PROVE  /\ pc'[q] = pc[q]
                           /\ drones'[loc[q].relay][loc[q].drone] = drones[loc[q].relay][loc[q].drone]
        OBVIOUS
      <4>1. q # w /\ pc'[q] = pc[q]
        BY <2>a
      <4>2. loc[q].relay \in RelayObjs /\ loc[q].drone \in DroneNames
        BY <4>1, AtWork
      <4>3. CASE q \in Workers
        <5>1. loc[q].relay = active[loc[q].name] /\ loc[q].name \in RelayNames
          BY <4>1, <4>3, AtWork
        <5>2. loc[q].name # n \/ loc[q].drone # e
          BY <2>a, <4>1, <4>3 DEF OneRequest
        <5>3. loc[q].relay # r \/ loc[q].drone # e
          BY <2>b, <5>1, <5>2, OneName
        <5>. QED  BY <2>c, <4>1, <4>2, <5>3
      <4>4. CASE q \in RelayObjs
        <5>1. loc[q].relay = q /\ pc[q] \in DcSteps
          BY <4>1, <4>4, AtWork
        <5>. QED  BY <2>b, <2>c, <4>1, <4>2, <5>1
      <4>. QED  BY <4>3, <4>4
    <3>2. UNCHANGED <<sessions, streamState, loc>>
      BY <2>a
    <3>. QED  BY <3>1, <3>2 DEF WorkInv
  <2>5. StreamInv'
    BY <2>a, StreamFrame
  <2>6. DronesInv'
    <3>. SUFFICES ASSUME NEW m \in RelayNames, NEW d \in DroneNames, active[m] # NULL, drones'[active[m]][d] # NULL,
                         \A q \in Procs : loc[q].drone = d => loc[q].relay # active[m]
                  PROVE  /\ sessions[drones'[active[m]][d]] # NULL
                         /\ streamState[sessions[drones'[active[m]][d]]] \in Open
      BY <2>a DEF DronesInv
    <3>1. active[m] \in RelayObjs /\ (active[m] # r \/ d # e)
      BY <2>c
    <3>2. drones'[active[m]][d] = drones[active[m]][d]
      BY <2>c, <3>1
    <3>. QED  BY <3>2 DEF DronesInv
  <2>. QED  BY <2>1, <2>2, <2>3, <2>4, <2>5, <2>6
<1>6. ASSUME NEW w \in Workers, NewDroneScan(w) PROVE SessionInv'
  <2>a. /\ pc' = [pc EXCEPT ![w] = "nd_insert"] /\ UNCHANGED <<registry, beat, streams, todo>>
        /\ \A q \in Procs : q # w => loc'[q] = loc[q]
    BY <1>6 DEF NewDroneScan, TakeLowest, Step
  <2>1. WorkerInv'
    BY <1>6 DEF WorkerInv, NewDroneScan, TakeLowest, Step
  <2>2. OneRequest'
    BY <1>6 DEF OneRequest, NewDroneScan, TakeLowest, Step
  <2>3. WatchInv'
    BY <1>6 DEF WatchInv, NewDroneScan, TakeLowest, Step
  <2>4. WorkInv'
    BY <2>a DEF WorkInv
  <2>5. StreamInv'
    BY <1>6, StreamFrame DEF NewDroneScan, TakeLowest, Step
  <2>6. DronesInv'
    <3>1. AtWorkStay
      BY <1>6 DEF AtWorkStay, WorkerInv, WatchInv, NewDroneScan, TakeLowest, Step
    <3>2. UNCHANGED <<active, drones, sessions, streamState>>
      BY <1>6 DEF NewDroneScan, TakeLowest, Step
    <3>. QED  BY <3>1, <3>2, DronesFrame
  <2>. QED  BY <2>1, <2>2, <2>3, <2>4, <2>5, <2>6
<1>7. ASSUME NEW w \in Workers, NewDroneFails(w) PROVE SessionInv'
  <2>1. WorkerInv'
    BY <1>7 DEF WorkerInv, NewDroneFails, Raise
  <2>2. OneRequest'
    BY <1>7 DEF OneRequest, NewDroneFails, Raise
  <2>3. WatchInv'
    BY <1>7 DEF WatchInv, NewDroneFails, Raise
  <2>4. WorkInv'
    BY <1>7 DEF WorkInv, Open, NewDroneFails, Raise
  <2>5. StreamInv'
    BY <1>7, StreamFrame DEF NewDroneFails, Raise
  <2>6. DronesInv'
    <3>1. AtWorkStay
      BY <1>7 DEF AtWorkStay, WorkerInv, WatchInv, NewDroneFails, Raise
    <3>2. UNCHANGED <<active, drones, sessions, streamState>>
      BY <1>7 DEF NewDroneFails, Raise
    <3>. QED  BY <3>1, <3>2, DronesFrame
  <2>. QED  BY <2>1, <2>2, <2>3, <2>4, <2>5, <2>6
<1>8. ASSUME NEW w \in Workers, NewDroneInsert(w) PROVE SessionInv'
  <2>. DEFINE r == loc[w].relay  e == loc[w].drone  x == loc[w].port
  <2>a. /\ pc[w] = "nd_insert" /\ pc' = [pc EXCEPT ![w] = "nd_stream"] /\ drones' = [drones EXCEPT ![r][e] = x]
        /\ UNCHANGED <<active, owner, beat, streams, loc, todo>>
    BY <1>8 DEF NewDroneInsert, Step
  <2>b. /\ r \in RelayObjs /\ e \in DroneNames /\ x \in Ports /\ drones[r][e] = NULL /\ x \notin UsedPorts
        /\ pc[r] \notin Removing /\ r # NULL /\ x # NULL
    <3>1. /\ r \in RelayObjs /\ e \in DroneNames /\ x \in Ports /\ pc[r] \notin Removing
      BY <2>a, AtWork
    <3>2. drones[r][e] = NULL /\ x \notin UsedPorts
      BY <2>a DEF Reserved
    <3>. QED  BY <3>1, <3>2
  <2>c. /\ drones'[r][e] = x
        /\ \A q \in RelayObjs, d \in DroneNames : q # r \/ d # e => drones'[q][d] = drones[q][d]
        /\ \A q \in RelayObjs : q # r => drones'[q] = drones[q]
    BY <2>a, <2>b
  <2>1. WorkerInv'
    BY <1>8 DEF WorkerInv, NewDroneInsert, Step
  <2>2. OneRequest'
    BY <1>8 DEF OneRequest, NewDroneInsert, Step
  <2>3. WatchInv'
    <3>1. \A q \in RelayObjs : pc'[q] = pc[q] /\ (pc[q] \in Removing => drones'[q] = drones[q])
      BY <2>a, <2>b, <2>c
    <3>. QED  BY <2>a, <3>1 DEF WatchInv
  <2>4. WorkInv'
    <3>1. \A q \in Procs : q # w /\ pc[q] \in DcSteps \cup {"nd_stream", "nd_store"} =>
            drones'[loc[q].relay][loc[q].drone] = drones[loc[q].relay][loc[q].drone]
      <4>. SUFFICES ASSUME NEW q \in Procs, q # w, pc[q] \in DcSteps \cup {"nd_stream", "nd_store"}
                    PROVE  drones'[loc[q].relay][loc[q].drone] = drones[loc[q].relay][loc[q].drone]
        OBVIOUS
      <4>1. loc[q].relay # r \/ loc[q].drone # e
        BY <2>a, OneAtWork
      <4>2. loc[q].relay \in RelayObjs /\ loc[q].drone \in DroneNames
        BY AtWork
      <4>. QED  BY <2>c, <4>1, <4>2
    <3>3. \A q \in Procs : q # w => pc'[q] = pc[q]
      BY <2>a
    <3>4. UNCHANGED <<sessions, streamState, loc>> /\ pc'[w] = "nd_stream"
      BY <2>a
    <3>5. \A q \in Procs : pc'[q] \in DcSteps \cup {"nd_stream", "nd_store"} => drones'[loc[q].relay][loc[q].drone] = loc[q].port
      BY <2>c, <3>1, <3>3 DEF WorkInv
    <3>6. \A q \in Procs :
            /\ pc'[q] = "dc_close" => sessions[loc[q].port] # NULL /\ streamState[sessions[loc[q].port]] \in Open
            /\ pc'[q] = "dc_unlist" => sessions[loc[q].port] # NULL /\ streamState[sessions[loc[q].port]] \notin {"starting", "bound"}
            /\ pc'[q] = "dc_delete" => sessions[loc[q].port] = NULL
      BY <3>3, <3>4 DEF WorkInv
    <3>. QED  BY <3>4, <3>5, <3>6 DEF WorkInv
  <2>5. StreamInv'
    BY <1>8, StreamFrame DEF NewDroneInsert, Step
  <2>6. DronesInv'
    <3>. SUFFICES ASSUME NEW m \in RelayNames, NEW d \in DroneNames, active[m] # NULL, drones'[active[m]][d] # NULL,
                         \A q \in Procs : loc[q].drone = d => loc[q].relay # active[m]
                  PROVE  /\ sessions[drones'[active[m]][d]] # NULL
                         /\ streamState[sessions[drones'[active[m]][d]]] \in Open
      BY <2>a DEF DronesInv
    <3>1. drones'[active[m]][d] = drones[active[m]][d]
      BY <2>c
    <3>. QED  BY <3>1 DEF DronesInv
  <2>. QED  BY <2>1, <2>2, <2>3, <2>4, <2>5, <2>6
<1>9. ASSUME NEW w \in Workers, NewDroneStream(w) PROVE SessionInv'
  <2>a. PICK s \in Streams :
          /\ \A y \in Ports : sessions[y] # s
          /\ streamState' = [streamState EXCEPT ![s] = "starting"]
          /\ loc' = [loc EXCEPT ![w].stream = s]
    BY <1>9 DEF NewDroneStream, FreeStreams
  <2>b. /\ pc[w] = "nd_stream" /\ pc' = [pc EXCEPT ![w] = "nd_store"]
        /\ UNCHANGED <<active, owner, drones, sessions, todo>>
    BY <1>9 DEF NewDroneStream, Step
  <2>c. \A q \in Procs : /\ q # w => pc'[q] = pc[q] /\ loc'[q] = loc[q]
                         /\ loc'[q].name = loc[q].name /\ loc'[q].drone = loc[q].drone
                         /\ loc'[q].relay = loc[q].relay /\ loc'[q].port = loc[q].port
    BY <2>a, <2>b
  <2>d. \A y \in Ports : sessions[y] # NULL => streamState'[sessions[y]] = streamState[sessions[y]]
    BY <2>a
  <2>1. WorkerInv'
    BY <2>b, <2>c DEF WorkerInv
  <2>2. OneRequest'
    BY <2>b, <2>c DEF OneRequest
  <2>3. WatchInv'
    BY <2>b, <2>c DEF WatchInv
  <2>4. WorkInv'
    <3>1. \A q \in Procs : pc'[q] \in DcSteps \cup {"nd_stream", "nd_store"} =>
            /\ pc[q] \in DcSteps \cup {"nd_stream", "nd_store"} /\ loc[q].port \in Ports
            /\ pc'[q] \in DcSteps => pc'[q] = pc[q]
      BY <2>b, <2>c, AtWork
    <3>. SUFFICES ASSUME NEW q \in Procs, pc'[q] \in DcSteps \cup {"nd_stream", "nd_store"}
                  PROVE  /\ drones'[loc'[q].relay][loc'[q].drone] = loc'[q].port
                         /\ pc'[q] = "dc_close" =>
                              sessions'[loc'[q].port] # NULL /\ streamState'[sessions'[loc'[q].port]] \in Open
                         /\ pc'[q] = "dc_unlist" =>
                              sessions'[loc'[q].port] # NULL /\ streamState'[sessions'[loc'[q].port]] \notin {"starting", "bound"}
                         /\ pc'[q] = "dc_delete" => sessions'[loc'[q].port] = NULL
      BY DEF WorkInv
    <3>2. loc'[q].relay = loc[q].relay /\ loc'[q].drone = loc[q].drone /\ loc'[q].port = loc[q].port
      BY <2>c
    <3>3. drones' = drones /\ sessions' = sessions
      BY <2>b
    <3>4. sessions[loc[q].port] # NULL => streamState'[sessions[loc[q].port]] = streamState[sessions[loc[q].port]]
      BY <2>d, <3>1
    <3>. QED  BY <3>1, <3>2, <3>3, <3>4 DEF WorkInv
  <2>5. StreamInv'
    BY <2>b, StreamFrame
  <2>6. DronesInv'
    <3>. SUFFICES ASSUME NEW m \in RelayNames, NEW d \in DroneNames, active[m] # NULL, drones[active[m]][d] # NULL,
                         \A q \in Procs : loc[q].drone = d => loc[q].relay # active[m]
                  PROVE  /\ sessions[drones[active[m]][d]] # NULL
                         /\ streamState'[sessions[drones[active[m]][d]]] \in Open
      BY <2>b, <2>c DEF DronesInv
    <3>1. drones[active[m]][d] \in Ports
      OBVIOUS
    <3>2. sessions[drones[active[m]][d]] # NULL /\ streamState[sessions[drones[active[m]][d]]] \in Open
      BY DEF DronesInv
    <3>. QED  BY <2>d, <3>1, <3>2
  <2>. QED  BY <2>1, <2>2, <2>3, <2>4, <2>5, <2>6
<1>24. ASSUME NEW w \in Workers, NewDroneStore(w) PROVE SessionInv'
  <2>. DEFINE x == loc[w].port
              s == loc[w].stream
  <2>b. /\ pc[w] = "nd_store" /\ pc' = [pc EXCEPT ![w] = "idle"] /\ loc' = [loc EXCEPT ![w] = NoLoc]
        /\ UNCHANGED <<registry, beat, todo, streamState, streamPort>> /\ sessions' = [sessions EXCEPT ![x] = s]
    BY <1>24 DEF NewDroneStore, Return
  <2>c. x \in Ports /\ drones[loc[w].relay][loc[w].drone] = x
    BY <2>b, AtWork DEF WorkInv
  <2>a. /\ s \in Streams /\ s # NULL /\ streamState[s] \in Open /\ \A y \in Ports : sessions[y] # s
    BY <2>b DEF MadeInv, KnownRequest
  <2>d. /\ sessions'[x] = s
        /\ \A y \in Ports : y # x => sessions'[y] = sessions[y]
    BY <2>b, <2>c
  <2>1. WorkerInv'
    BY <1>24 DEF WorkerInv, NewDroneStore, Return
  <2>2. OneRequest'
    BY <1>24 DEF OneRequest, NewDroneStore, Return
  <2>3. WatchInv'
    BY <1>24 DEF WatchInv, NewDroneStore, Return
  <2>4. WorkInv'
    <3>. SUFFICES ASSUME NEW q \in Procs, pc'[q] \in DcSteps \cup {"nd_stream", "nd_store"}
                  PROVE  /\ drones'[loc'[q].relay][loc'[q].drone] = loc'[q].port
                         /\ pc'[q] = "dc_close" =>
                              sessions'[loc'[q].port] # NULL /\ streamState'[sessions'[loc'[q].port]] \in Open
                         /\ pc'[q] = "dc_unlist" =>
                              sessions'[loc'[q].port] # NULL /\ streamState'[sessions'[loc'[q].port]] \notin {"starting", "bound"}
                         /\ pc'[q] = "dc_delete" => sessions'[loc'[q].port] = NULL
      BY DEF WorkInv
    <3>1. q # w /\ pc'[q] = pc[q] /\ loc'[q] = loc[q]
      BY <2>b
    <3>2. loc[q].port \in Ports /\ loc[q].port # x
      BY <2>b, <3>1, AtWork, OnePort
    <3>3. /\ sessions'[loc[q].port] = sessions[loc[q].port]
          /\ sessions[loc[q].port] # NULL => streamState'[sessions[loc[q].port]] = streamState[sessions[loc[q].port]]
      BY <2>b, <2>d, <3>2
    <3>4. drones' = drones
      BY <2>b
    <3>. QED  BY <3>1, <3>3, <3>4 DEF WorkInv
  <2>5. StreamInv'
    BY <2>a, <2>c, <2>d DEF StreamInv
  <2>6. DronesInv'
    <3>4. active' = active /\ drones' = drones
      BY <2>b
    <3>. SUFFICES ASSUME NEW m \in RelayNames, NEW d \in DroneNames, active[m] # NULL, drones[active[m]][d] # NULL,
                         \A q \in Procs : loc'[q].drone = d => loc'[q].relay # active[m]
                  PROVE  /\ sessions'[drones[active[m]][d]] # NULL
                         /\ streamState'[sessions'[drones[active[m]][d]]] \in Open
      BY <3>4 DEF DronesInv
    <3>1. drones[active[m]][d] \in Ports
      OBVIOUS
    <3>2. CASE loc[w].relay = active[m] /\ loc[w].drone = d
      BY <3>2, <2>a, <2>b, <2>c, <2>d
    <3>3. CASE loc[w].relay # active[m] \/ loc[w].drone # d
      <4>1. drones[active[m]][d] # x
        BY <2>b, <3>3, SettledPort
      <4>2. \A q \in Procs : loc[q].drone = d => loc[q].relay # active[m]
        BY <2>b, <3>3
      <4>3. sessions[drones[active[m]][d]] # NULL /\ streamState[sessions[drones[active[m]][d]]] \in Open
        BY <4>2 DEF DronesInv
      <4>. QED  BY <2>b, <2>d, <3>1, <4>1, <4>3
    <3>. QED  BY <3>2, <3>3
  <2>. QED  BY <2>1, <2>2, <2>3, <2>4, <2>5, <2>6
<1>10. ASSUME NEW w \in Workers, NEW n \in RelayNames, NEW d \in DroneNames, Disconnected(w, n, d) PROVE SessionInv'
  <2>1. WorkerInv'
    BY <1>10 DEF WorkerInv, Disconnected, Step, MayAsk, NobodyAbout, Serving, Overdue
  <2>2. OneRequest'
    BY <1>10 DEF OneRequest, Disconnected, Step, MayAsk, NobodyAbout, Serving, Overdue
  <2>3. WatchInv'
    BY <1>10 DEF WatchInv, Disconnected, Step, MayAsk, NobodyAbout, Serving, Overdue
  <2>4. WorkInv'
    <3>1. /\ pc' = [pc EXCEPT ![w] = "dc_close"] /\ loc' = [loc EXCEPT ![w] = Local(n, d, active[n], drones[active[n]][d])]
          /\ UNCHANGED <<registry, beat, streams, todo>> /\ active[n] # NULL /\ drones[active[n]][d] # NULL
      BY <1>10 DEF Disconnected, Step
    <3>2. \A q \in Procs : pc[q] \in DcSteps \cup {"nd_insert", "nd_stream", "nd_store"} => loc[q].relay # active[n] \/ loc[q].drone # d
      <4>1. \A v \in Workers : pc[v] # "idle" => loc[v].name # n \/ loc[v].drone # d
        BY <1>10 DEF Disconnected, MayAsk, NobodyAbout, Serving
      <4>2. pc[active[n]] \notin Removing
        BY <1>10 DEF Disconnected, MayAsk, Overdue
      <4>. QED  BY <3>1, <4>1, <4>2, AtWork, OneName
    <3>3. sessions[drones[active[n]][d]] # NULL /\ streamState[sessions[drones[active[n]][d]]] \in Open
      BY <3>1, <3>2, Unattended
    <3>. QED  BY <3>1, <3>3 DEF WorkInv
  <2>5. StreamInv'
    BY <1>10, StreamFrame DEF Disconnected, Step, NobodyAbout, Overdue
  <2>6. DronesInv'
    <3>1. AtWorkStay
      BY <1>10 DEF AtWorkStay, WorkerInv, WatchInv, Disconnected, Step
    <3>2. UNCHANGED <<active, drones, sessions, streamState>>
      BY <1>10 DEF Disconnected, Step
    <3>. QED  BY <3>1, <3>2, DronesFrame
  <2>. QED  BY <2>1, <2>2, <2>3, <2>4, <2>5, <2>6
<1>11. ASSUME NEW p \in Procs, DcClose(p) PROVE SessionInv'
  <2>. DEFINE x == loc[p].port  s == sessions[x]
  <2>a. /\ pc[p] = "dc_close" /\ pc' = [pc EXCEPT ![p] = "dc_unlist"] /\ s # NULL
        /\ UNCHANGED <<registry, beat, sessions, loc, todo>>
    BY <1>11 DEF DcClose, Step
  <2>b. PICK c \in Closed(s) : streamState' = [streamState EXCEPT ![s] = c]
    BY <1>11 DEF DcClose
  <2>c. x \in Ports /\ s \in Streams /\ c \notin {"starting", "bound"} /\ pc[p] \in DcSteps
    <3>1. x \in Ports /\ pc[p] \in DcSteps
      BY <2>a, AtWork
    <3>2. s \in Streams
      BY <2>a, <3>1
    <3>3. c \notin {"starting", "bound"}
      BY <2>b DEF Closed
    <3>. QED  BY <3>1, <3>2, <3>3
  <2>d. \A y \in Ports : y # x /\ sessions[y] # NULL => streamState'[sessions[y]] = streamState[sessions[y]]
    BY <2>a, <2>b, <2>c, ZenonT(60) DEF StreamInv
  <2>1. WorkerInv'
    BY <1>11 DEF WorkerInv, DcClose, Step, Closed
  <2>2. OneRequest'
    BY <1>11 DEF OneRequest, DcClose, Step, Closed
  <2>3. WatchInv'
    BY <1>11 DEF WatchInv, DcClose, Step, Closed
  <2>4. WorkInv'
    <3>1. \A q \in Procs : q # p /\ pc'[q] \in DcSteps \cup {"nd_stream", "nd_store"} =>
            pc'[q] = pc[q] /\ loc[q].port \in Ports /\ loc[q].port # x
      BY <2>a, <2>c, AtWork, OnePort
    <3>2. streamState'[s] \notin {"starting", "bound"} /\ pc'[p] = "dc_unlist"
      BY <2>a, <2>b, <2>c
    <3>. QED  BY <2>a, <2>c, <2>d, <3>1, <3>2, ZenonT(60) DEF WorkInv
  <2>5. StreamInv'
    BY <2>a, StreamFrame
  <2>6. DronesInv'
    <3>. SUFFICES ASSUME NEW m \in RelayNames, NEW d \in DroneNames, active[m] # NULL, drones[active[m]][d] # NULL,
                         \A q \in Procs : loc[q].drone = d => loc[q].relay # active[m]
                  PROVE  /\ sessions'[drones[active[m]][d]] # NULL
                         /\ streamState'[sessions'[drones[active[m]][d]]] \in Open
      BY <2>a, SMTT(60) DEF DronesInv
    <3>0. loc[p].relay # active[m] \/ loc[p].drone # d
      OBVIOUS
    <3>1. drones[active[m]][d] \in Ports /\ drones[active[m]][d] # x
      BY <2>c, <3>0, SettledPort
    <3>2. sessions[drones[active[m]][d]] # NULL /\ streamState[sessions[drones[active[m]][d]]] \in Open
      BY DEF DronesInv
    <3>. QED  BY <2>a, <2>d, <3>1, <3>2
  <2>. QED  BY <2>1, <2>2, <2>3, <2>4, <2>5, <2>6
<1>12. ASSUME NEW p \in Procs, DcUnlist(p) PROVE SessionInv'
  <2>. DEFINE x == loc[p].port
  <2>a. /\ pc[p] = "dc_unlist" /\ pc' = [pc EXCEPT ![p] = "dc_delete"] /\ sessions' = [sessions EXCEPT ![x] = NULL]
        /\ UNCHANGED <<registry, beat, streamState, streamPort, loc, todo>>
    BY <1>12 DEF DcUnlist, Step
  <2>c. x \in Ports /\ pc[p] \in DcSteps /\ streamState[sessions[x]] \notin {"starting", "bound"}
    BY <2>a, AtWork DEF WorkInv
  <2>d. sessions'[x] = NULL /\ \A y \in Ports : y # x => sessions'[y] = sessions[y]
    BY <2>a, <2>c
  <2>1. WorkerInv'
    BY <1>12 DEF WorkerInv, DcUnlist, Step
  <2>2. OneRequest'
    BY <1>12 DEF OneRequest, DcUnlist, Step
  <2>3. WatchInv'
    BY <1>12 DEF WatchInv, DcUnlist, Step
  <2>4. WorkInv'
    <3>1. \A q \in Procs : q # p /\ pc'[q] \in DcSteps \cup {"nd_stream", "nd_store"} =>
            pc'[q] = pc[q] /\ loc[q].port \in Ports /\ loc[q].port # x
      BY <2>a, <2>c, AtWork, OnePort
    <3>. QED  BY <2>a, <2>d, <3>1 DEF WorkInv
  <2>5. StreamInv'
    BY <2>a, <2>c, <2>d DEF StreamInv
  <2>6. DronesInv'
    <3>. SUFFICES ASSUME NEW m \in RelayNames, NEW d \in DroneNames, active'[m] # NULL, drones'[active'[m]][d] # NULL,
                         \A q \in Procs : loc'[q].drone = d => loc'[q].relay # active'[m]
                  PROVE  /\ sessions'[drones'[active'[m]][d]] # NULL
                         /\ streamState'[sessions'[drones'[active'[m]][d]]] \in Open
      BY ZenonT(60) DEF DronesInv
    <3>1. active' = active /\ drones' = drones /\ loc' = loc /\ streamState' = streamState
      BY <2>a DEF registry
    <3>2. /\ active[m] # NULL /\ drones[active[m]][d] # NULL
          /\ \A q \in Procs : loc[q].drone = d => loc[q].relay # active[m]
      BY <3>1
    <3>a. loc[p].relay # active[m] \/ loc[p].drone # d
      BY <3>2
    <3>b. drones[active[m]][d] # x
      BY <2>c, <3>2, <3>a, SettledPort
    <3>c. drones[active[m]][d] \in Ports
      BY <3>2
    <3>3. drones[active[m]][d] \in Ports /\ drones[active[m]][d] # x
      BY <3>b, <3>c
    <3>4. sessions[drones[active[m]][d]] # NULL /\ streamState[sessions[drones[active[m]][d]]] \in Open
      BY <3>2 DEF DronesInv
    <3>. QED  BY <2>d, <3>1, <3>3, <3>4
  <2>. QED  BY <2>1, <2>2, <2>3, <2>4, <2>5, <2>6
<1>13. ASSUME NEW p \in Procs, DcDelete(p) PROVE SessionInv'
  <2>. DEFINE r == loc[p].relay  e == loc[p].drone  x == loc[p].port
  <2>a. /\ pc[p] = "dc_delete" /\ drones' = [drones EXCEPT ![r][e] = NULL] /\ Return(p)
        /\ UNCHANGED <<active, owner, beat, streams, todo>>
    BY <1>13 DEF DcDelete
  <2>b. /\ pc[p] \in DcSteps /\ r \in RelayObjs /\ e \in DroneNames /\ x \in Ports /\ drones[r][e] = x
        /\ sessions[x] = NULL /\ x # NULL /\ r # NULL /\ e # NULL
    BY <2>a, AtWork DEF WorkInv
  <2>c. /\ drones'[r][e] = NULL
        /\ \A q \in RelayObjs, d \in DroneNames : q # r \/ d # e => drones'[q][d] = drones[q][d]
        /\ \A q \in RelayObjs : q # r => drones'[q] = drones[q]
    BY <2>a, <2>b
  <2>d. /\ pc'[p] \in {"idle", "next"} /\ (p \in RelayObjs => pc'[p] = "next") /\ loc'[p].drone = NULL
        /\ \A q \in Procs : q # p => pc'[q] = pc[q] /\ loc'[q] = loc[q]
    BY <2>a DEF Return
  <2>1. WorkerInv'
    BY <1>13 DEF WorkerInv, DcDelete, Return
  <2>2. OneRequest'
    BY <1>13 DEF OneRequest, DcDelete, Return
  <2>3. WatchInv'
    <3>1. \A q \in RelayObjs : q # p /\ pc[q] \in Removing => q # r
      BY <2>b, AtWork
    <3>2. ASSUME p \in RelayObjs
          PROVE  /\ r = p /\ pc'[p] = "next" /\ loc'[p] = Local(NULL, NULL, p, NULL) /\ todo'[p] = todo[p]
                 /\ todo[p] = {d \in DroneNames : drones'[p][d] # NULL}
      <4>1. r = p /\ pc'[p] = "next" /\ loc'[p] = Local(NULL, NULL, p, NULL) /\ todo'[p] = todo[p]
        BY <2>a, <2>b, <3>2, AtWork DEF Return
      <4>2. todo[p] = {d \in DroneNames : drones[p][d] # NULL} \ {e}
        BY <2>b, <3>2 DEF WatchInv
      <4>3. \A d \in DroneNames : drones'[p][d] # NULL <=> drones[p][d] # NULL /\ d # e
        BY <2>b, <2>c, <4>1
      <4>. QED  BY <4>1, <4>2, <4>3
    <3>3. p \in RelayObjs => owner[p] \in RelayNames /\ active[owner[p]] = p
      BY <2>b DEF WatchInv
    <3>4. \A q \in RelayObjs : q # p => pc'[q] = pc[q] /\ loc'[q] = loc[q] /\ (pc[q] \in Removing => drones'[q] = drones[q])
      BY <2>c, <2>d, <3>1
    <3>5. \A m \in RelayNames : active[m] # NULL => owner[active[m]] = m /\ pc'[active[m]] # "idle"
      BY <2>d DEF WatchInv
    <3>6. ASSUME NEW q \in RelayObjs
          PROVE  /\ pc'[q] \in {"idle", "watch", "sleep"} \cup Removing
                 /\ pc'[q] = "idle" => loc'[q] = NoLoc
                 /\ pc'[q] # "idle" => owner[q] \in RelayNames /\ active[owner[q]] = q /\ loc'[q].relay = q
                 /\ pc'[q] \notin DcSteps => loc'[q].drone = NULL
                 /\ pc'[q] \in DcSteps => loc'[q].drone \in DroneNames /\ loc'[q].port \in Ports
                 /\ pc'[q] \in Removing => todo[q] = {d \in DroneNames : drones'[q][d] # NULL} \ {loc'[q].drone}
      <4>1. CASE q = p
        BY <4>1, <3>2, <3>3
      <4>2. CASE q # p
        BY <4>2, <3>4 DEF WatchInv
      <4>. QED  BY <4>1, <4>2
    <3>7. UNCHANGED <<active, owner, todo>>
      BY <2>a
    <3>. QED  BY <3>5, <3>6, <3>7 DEF WatchInv
  <2>4. WorkInv'
    <3>1. \A q \in Procs : pc'[q] \in DcSteps \cup {"nd_stream", "nd_store"} =>
            /\ q # p /\ pc'[q] = pc[q] /\ loc'[q] = loc[q]
            /\ drones'[loc[q].relay][loc[q].drone] = drones[loc[q].relay][loc[q].drone]
      BY <2>b, <2>c, <2>d, AtWork, OneAtWork
    <3>2. UNCHANGED <<sessions, streamState>>
      BY <2>a
    <3>. QED  BY <3>1, <3>2 DEF WorkInv
  <2>5. StreamInv'
    BY <1>13, StreamFrame DEF DcDelete, Return
  <2>6. DronesInv'
    <3>. SUFFICES ASSUME NEW m \in RelayNames, NEW d \in DroneNames, active[m] # NULL, drones'[active[m]][d] # NULL,
                         \A q \in Procs : loc'[q].drone = d => loc'[q].relay # active[m]
                  PROVE  /\ sessions[drones'[active[m]][d]] # NULL
                         /\ streamState[sessions[drones'[active[m]][d]]] \in Open
      BY <2>a DEF DronesInv
    <3>1. active[m] \in RelayObjs /\ (active[m] # r \/ d # e)
      BY <2>c
    <3>2. drones'[active[m]][d] = drones[active[m]][d]
      BY <2>c, <3>1
    <3>3. \A q \in Procs : loc[q].drone = d => loc[q].relay # active[m]
      BY <2>d, <3>1
    <3>. QED  BY <3>2, <3>3 DEF DronesInv
  <2>. QED  BY <2>1, <2>2, <2>3, <2>4, <2>5, <2>6
<1>14. ASSUME NEW p \in Procs, DcFails(p) PROVE SessionInv'
  BY <1>14, NoFailure
<1>15. ASSUME NEW r \in RelayObjs, WatchStamp(r) PROVE SessionInv'
  <2>1. WorkerInv'
    BY <1>15 DEF WorkerInv, WatchStamp, Step
  <2>2. OneRequest'
    BY <1>15 DEF OneRequest, WatchStamp, Step
  <2>3. WatchInv'
    BY <1>15 DEF WatchInv, WatchStamp, Step
  <2>4. WorkInv'
    BY <1>15 DEF WorkInv, Open, WatchStamp, Step
  <2>5. StreamInv'
    BY <1>15, StreamFrame DEF WatchStamp, Step
  <2>6. DronesInv'
    <3>1. AtWorkStay
      BY <1>15 DEF AtWorkStay, WorkerInv, WatchInv, WatchStamp, Step
    <3>2. UNCHANGED <<active, drones, sessions, streamState>>
      BY <1>15 DEF WatchStamp, Step
    <3>. QED  BY <3>1, <3>2, DronesFrame
  <2>. QED  BY <2>1, <2>2, <2>3, <2>4, <2>5, <2>6
<1>16. ASSUME NEW r \in RelayObjs, WatchAgain(r) PROVE SessionInv'
  <2>1. WorkerInv'
    BY <1>16 DEF WorkerInv, WatchAgain, Step
  <2>2. OneRequest'
    BY <1>16 DEF OneRequest, WatchAgain, Step
  <2>3. WatchInv'
    BY <1>16 DEF WatchInv, WatchAgain, Step
  <2>4. WorkInv'
    BY <1>16 DEF WorkInv, Open, WatchAgain, Step
  <2>5. StreamInv'
    BY <1>16, StreamFrame DEF WatchAgain, Step
  <2>6. DronesInv'
    <3>1. AtWorkStay
      BY <1>16 DEF AtWorkStay, WorkerInv, WatchInv, WatchAgain, Step
    <3>2. UNCHANGED <<active, drones, sessions, streamState>>
      BY <1>16 DEF WatchAgain, Step
    <3>. QED  BY <3>1, <3>2, DronesFrame
  <2>. QED  BY <2>1, <2>2, <2>3, <2>4, <2>5, <2>6
<1>17. ASSUME NEW r \in RelayObjs, WatchTimeOut(r) PROVE SessionInv'
  <2>1. WorkerInv'
    <3>1. \A w \in Workers : pc[w] # "idle" => loc[w].name # owner[r]
      BY <1>17 DEF WatchTimeOut, MayTimeOut, Serving
    <3>2. \A m \in RelayNames : active[m] = r => m = owner[r]
      BY DEF WatchInv
    <3>3. pc' = [pc EXCEPT ![r] = "next"] /\ UNCHANGED <<active, loc>>
      BY <1>17 DEF WatchTimeOut, Step
    <3>4. \A w \in Workers : pc'[w] = pc[w]
      BY <3>3
    <3>5. \A w \in Workers : pc[w] \in AddSteps \cup DcSteps => pc'[active[loc[w].name]] = pc[active[loc[w].name]]
      BY <3>1, <3>2, <3>3 DEF WorkerInv
    <3>. QED  BY <3>3, <3>4, <3>5 DEF WorkerInv
  <2>2. OneRequest'
    BY <1>17 DEF OneRequest, WatchTimeOut, Step, MayTimeOut, Serving
  <2>3. WatchInv'
    BY <1>17 DEF WatchInv, WatchTimeOut, Step, MayTimeOut, Serving
  <2>4. WorkInv'
    BY <1>17 DEF WorkInv, Open, WatchTimeOut, Step, MayTimeOut, Serving
  <2>5. StreamInv'
    BY <1>17, StreamFrame DEF WatchTimeOut, Step
  <2>6. DronesInv'
    <3>1. AtWorkStay
      BY <1>17 DEF AtWorkStay, WorkerInv, WatchInv, WatchTimeOut, Step
    <3>2. UNCHANGED <<active, drones, sessions, streamState>>
      BY <1>17 DEF WatchTimeOut, Step
    <3>. QED  BY <3>1, <3>2, DronesFrame
  <2>. QED  BY <2>1, <2>2, <2>3, <2>4, <2>5, <2>6
<1>18. ASSUME NEW r \in RelayObjs, WatchNext(r) PROVE SessionInv'
  <2>1. WorkerInv'
    BY <1>18 DEF WorkerInv, WatchNext, Step
  <2>2. OneRequest'
    BY <1>18 DEF OneRequest, WatchNext, Step
  <2>3. WatchInv'
    BY <1>18 DEF WatchInv, WatchNext, Step
  <2>4. WorkInv'
    <3>1. PICK d \in todo[r] :
            /\ pc[r] = "next" /\ pc' = [pc EXCEPT ![r] = "dc_close"] /\ drones[r][d] # NULL
            /\ loc' = [loc EXCEPT ![r] = Local(NULL, d, r, drones[r][d])]
            /\ UNCHANGED <<registry, beat, streams>>
      BY <1>18 DEF WatchNext, Step
    <3>2. d \in DroneNames /\ owner[r] \in RelayNames /\ active[owner[r]] = r /\ r # NULL
      BY <3>1 DEF WatchInv
    <3>3. \A q \in Procs : pc[q] \in DcSteps \cup {"nd_insert", "nd_stream", "nd_store"} => loc[q].relay # r
      BY <3>1, AtWork
    <3>4. sessions[drones[r][d]] # NULL /\ streamState[sessions[drones[r][d]]] \in Open
      <4>. DEFINE n == owner[r]
      <4>1. n \in RelayNames /\ active[n] # NULL /\ drones[active[n]][d] # NULL
        BY <3>1, <3>2
      <4>2. \A q \in Procs : pc[q] \in DcSteps \cup {"nd_insert", "nd_stream", "nd_store"} => loc[q].relay # active[n] \/ loc[q].drone # d
        BY <3>2, <3>3
      <4>3. sessions[drones[active[n]][d]] # NULL /\ streamState[sessions[drones[active[n]][d]]] \in Open
        BY <3>2, <4>1, <4>2, Unattended
      <4>. QED  BY <3>2, <4>3
    <3>. QED  BY <3>1, <3>2, <3>4 DEF WorkInv
  <2>5. StreamInv'
    BY <1>18, StreamFrame DEF WatchNext, Step
  <2>6. DronesInv'
    <3>3. pc[r] = "next" /\ \A q \in Procs : q # r => loc'[q] = loc[q]
      BY <1>18 DEF WatchNext, Step
    <3>1. loc[r].drone = NULL /\ \A q \in Procs : q # r => loc'[q] = loc[q]
      BY <3>3 DEF WatchInv
    <3>2. UNCHANGED <<active, drones, sessions, streamState>>
      BY <1>18 DEF WatchNext
    <3>. QED  BY <3>1, <3>2, DronesFrame DEF AtWorkStay
  <2>. QED  BY <2>1, <2>2, <2>3, <2>4, <2>5, <2>6
<1>19. ASSUME NEW r \in RelayObjs, WatchDrop(r) PROVE SessionInv'
  <2>a. /\ pc[r] = "next" /\ todo[r] = {} /\ active' = [active EXCEPT ![owner[r]] = NULL]
        /\ pc' = [pc EXCEPT ![r] = "idle"] /\ loc' = [loc EXCEPT ![r] = NoLoc]
        /\ UNCHANGED <<owner, drones, beat, streams, todo>>
    BY <1>19 DEF WatchDrop
  <2>b. owner[r] \in RelayNames /\ active[owner[r]] = r /\ loc[r].drone = NULL /\ \A d \in DroneNames : drones[r][d] = NULL
    <3>1. owner[r] \in RelayNames /\ active[owner[r]] = r /\ loc[r].drone = NULL
      BY <2>a DEF WatchInv
    <3>2. todo[r] = {d \in DroneNames : drones[r][d] # NULL} \ {loc[r].drone}
      BY <2>a DEF WatchInv
    <3>. QED  BY <2>a, <3>1, <3>2
  <2>c. \A m \in RelayNames : m # owner[r] => active'[m] = active[m] /\ active[m] # r
    BY <2>a, <2>b DEF WatchInv
  <2>1. WorkerInv'
    <3>1. \A w \in Workers : pc'[w] = pc[w] /\ loc'[w] = loc[w]
      BY <2>a
    <3>2. \A w \in Workers : pc[w] \in AddSteps \cup DcSteps =>
            loc[w].name \in RelayNames /\ loc[w].name # owner[r] /\ pc'[active[loc[w].name]] = pc[active[loc[w].name]]
      BY <2>a, <2>b, <2>c DEF WorkerInv
    <3>3. \A w \in Workers : pc[w] = "hs_store" => active'[loc[w].name] = NULL
      BY <2>a, <2>b DEF WorkerInv
    <3>. QED  BY <2>c, <3>1, <3>2, <3>3 DEF WorkerInv
  <2>2. OneRequest'
    BY <1>19 DEF OneRequest, WatchDrop
  <2>3. WatchInv'
    BY <1>19 DEF WatchInv, WatchDrop
  <2>4. WorkInv'
    BY <1>19 DEF WorkInv, Open, WatchDrop
  <2>5. StreamInv'
    BY <1>19, StreamFrame DEF WatchDrop
  <2>6. DronesInv'
    <3>. SUFFICES ASSUME NEW m \in RelayNames, NEW d \in DroneNames, active'[m] # NULL, drones[active'[m]][d] # NULL,
                         \A q \in Procs : loc'[q].drone = d => loc'[q].relay # active'[m]
                  PROVE  sessions[drones[active'[m]][d]] # NULL /\ streamState[sessions[drones[active'[m]][d]]] \in Open
      BY <2>a, ZenonT(60) DEF DronesInv
    <3>1. active'[m] = active[m]
      BY <2>a, <2>b, <2>c
    <3>2. \A q \in Procs : loc[q].drone = d => loc[q].relay # active[m]
      BY <2>a, <2>b, <3>1
    <3>3. active[m] # NULL /\ drones[active[m]][d] # NULL
      BY <3>1
    <3>4. sessions[drones[active[m]][d]] # NULL /\ streamState[sessions[drones[active[m]][d]]] \in Open
      BY <3>2, <3>3 DEF DronesInv
    <3>. QED  BY <3>1, <3>4
  <2>. QED  BY <2>1, <2>2, <2>3, <2>4, <2>5, <2>6
<1>20. ASSUME NEW r \in RelayObjs, WatchFails(r) PROVE SessionInv'
  BY <1>20, NoFailure
<1>21. ASSUME NEW s \in Streams, StreamBind(s) PROVE SessionInv'
  <2>1. WorkerInv'
    BY <1>21 DEF WorkerInv, StreamBind, PortHeld
  <2>2. OneRequest'
    BY <1>21 DEF OneRequest, StreamBind, PortHeld
  <2>3. WatchInv'
    BY <1>21 DEF WatchInv, StreamBind, PortHeld
  <2>4. WorkInv'
    BY <1>21 DEF WorkInv, Open, StreamBind, PortHeld
  <2>5. StreamInv'
    BY <1>21, StreamFrame DEF StreamBind
  <2>6. DronesInv'
    BY <1>21 DEF DronesInv, Open, StreamBind, PortHeld
  <2>. QED  BY <2>1, <2>2, <2>3, <2>4, <2>5, <2>6
<1>22. ASSUME NEW s \in Streams, StreamExit(s) PROVE SessionInv'
  <2>1. WorkerInv'
    BY <1>22 DEF WorkerInv, StreamExit
  <2>2. OneRequest'
    BY <1>22 DEF OneRequest, StreamExit
  <2>3. WatchInv'
    BY <1>22 DEF WatchInv, StreamExit
  <2>4. WorkInv'
    BY <1>22 DEF WorkInv, Open, StreamExit
  <2>5. StreamInv'
    BY <1>22, StreamFrame DEF StreamExit
  <2>6. DronesInv'
    <3>1. UNCHANGED <<active, drones, sessions, loc>>
      BY <1>22 DEF StreamExit
    <3>2. \A t \in Streams : streamState[t] \in Open => streamState'[t] = streamState[t]
      BY <1>22 DEF StreamExit, Open
    <3>. SUFFICES ASSUME NEW n \in RelayNames, NEW d \in DroneNames, active[n] # NULL, drones[active[n]][d] # NULL,
                         \A p \in Procs : loc[p].drone = d => loc[p].relay # active[n]
                  PROVE  /\ sessions[drones[active[n]][d]] # NULL
                         /\ streamState'[sessions[drones[active[n]][d]]] \in Open
      BY <3>1 DEF DronesInv
    <3>3. sessions[drones[active[n]][d]] # NULL /\ streamState[sessions[drones[active[n]][d]]] \in Open
      BY DEF DronesInv
    <3>4. sessions[drones[active[n]][d]] \in Streams
      <4>1. drones[active[n]][d] \in Ports
        OBVIOUS
      <4>. QED  BY <3>3, <4>1
    <3>. QED  BY <3>2, <3>3, <3>4
  <2>. QED  BY <2>1, <2>2, <2>3, <2>4, <2>5, <2>6
<1>23. CASE UNCHANGED vars
  <2>1. UNCHANGED <<active, owner, drones, sessions, streamState, streamPort, pc, loc, todo>>
    BY <1>23 DEF vars
  <2>2. WorkerInv'
    BY <2>1 DEF WorkerInv
  <2>3. OneRequest'
    BY <2>1 DEF OneRequest
  <2>4. WatchInv'
    BY <2>1 DEF WatchInv
  <2>5. WorkInv'
    BY <2>1 DEF WorkInv
  <2>6. StreamInv'
    BY <2>1 DEF StreamInv
  <2>7. DronesInv'
    BY <2>1 DEF DronesInv
  <2>. QED  BY <2>2, <2>3, <2>4, <2>5, <2>6, <2>7
<1>. QED  BY <1>1, <1>2, <1>3, <1>4, <1>5, <1>6, <1>7, <1>8, <1>9, <1>10, <1>11,
         <1>12, <1>13, <1>14, <1>15, <1>16, <1>17, <1>18, <1>19, <1>20, <1>21, <1>22, <1>23, <1>24
      DEF Next, Request, WorkerStep, DisconnectStep, WatcherStep

LEMMA InitSessions == Init => SessionInv
<1>. SUFFICES ASSUME Init PROVE SessionInv
  OBVIOUS
<1>. USE RegistryAssumption DEF Init, Procs, NoLoc, Local
<1>1. \A p \in Procs : pc[p] = "idle" /\ loc[p] = NoLoc
  OBVIOUS
<1>2. WorkerInv
  BY <1>1 DEF WorkerInv, AddSteps, DcSteps
<1>3. OneRequest
  BY <1>1 DEF OneRequest
<1>4. WatchInv
  BY <1>1 DEF WatchInv, Online, Removing, DcSteps
<1>5. WorkInv
  BY <1>1 DEF WorkInv, DcSteps
<1>6. StreamInv
  BY DEF StreamInv
<1>7. DronesInv
  BY DEF DronesInv
<1>. QED  BY <1>2, <1>3, <1>4, <1>5, <1>6, <1>7 DEF SessionInv

LEMMA InitMade == Init => MadeInv
BY DEF Init, MadeInv, Procs

LEMMA SessionsAlways ==
  ASSUME NoOverlap
  PROVE  Spec => [](PortInv /\ SessionInv /\ MadeInv)
<1>1. "overlap_add" \notin Env
  BY DEF NoOverlap
<1>2. PortInv /\ [Next]_vars => PortInv'
  BY <1>1, PortStep
<1>. QED  BY <1>2, InitPorts, InitSessions, InitMade, SessionStep, MadeStep, PTL DEF Spec

-----------------------------------------------------------------------------
(* Where no drone registers twice, in addition.  NewDronePop is the one    *)
(* step that takes a drone from its session.                               *)

\* Every session is that of a drone, and every running stream that of a session.
ListedInv ==
  \A p \in Ports : sessions[p] # NULL => \E n \in RelayNames, d \in DroneNames : active[n] # NULL /\ drones[active[n]][d] = p
FoundInv ==
  \A s \in Streams : streamState[s] \in {"starting", "bound"} =>
    \/ streamPort[s] \in Ports /\ sessions[streamPort[s]] = s
    \/ \E w \in Workers : pc[w] = "nd_store" /\ loc[w].stream = s

\* No request pops a drone, so the port of a drone that has just been inserted
\* has no session left of an earlier one.
AddInv ==
  \A w \in Workers : pc[w] # "nd_pop" /\ (pc[w] \in {"nd_stream", "nd_store"} => sessions[loc[w].port] = NULL)

CleanInv == ListedInv /\ FoundInv /\ AddInv

LEMMA CleanFrame ==
  ASSUME CleanInv, UNCHANGED <<active, drones, sessions, streamState, streamPort>>,
         \A w \in Workers : pc'[w] \in {"nd_pop", "nd_stream", "nd_store"} => pc[w] = pc'[w] /\ loc'[w] = loc[w],
         \A w \in Workers : pc[w] = "nd_store" => pc'[w] = "nd_store"
  PROVE  CleanInv'
<1>1. ListedInv'
  BY DEF CleanInv, ListedInv
<1>2. FoundInv'
  BY DEF CleanInv, FoundInv
<1>3. AddInv'
  BY DEF CleanInv, AddInv
<1>. QED  BY <1>1, <1>2, <1>3 DEF CleanInv

\* No stream starts or moves, and what is about to be stored stays so.
LEMMA FoundFrame ==
  ASSUME FoundInv, UNCHANGED sessions,
         \A s \in Streams : streamState'[s] \in {"starting", "bound"} =>
           streamState[s] \in {"starting", "bound"} /\ streamPort'[s] = streamPort[s],
         \A w \in Workers : pc[w] = "nd_store" => pc'[w] = "nd_store" /\ loc'[w] = loc[w]
  PROVE  FoundInv'
<1>. SUFFICES ASSUME NEW s \in Streams, streamState'[s] \in {"starting", "bound"}
              PROVE  \/ streamPort'[s] \in Ports /\ sessions'[streamPort'[s]] = s
                     \/ \E w \in Workers : pc'[w] = "nd_store" /\ loc'[w].stream = s
  BY DEF FoundInv
<1>1. \/ streamPort[s] \in Ports /\ sessions[streamPort[s]] = s
      \/ \E w \in Workers : pc[w] = "nd_store" /\ loc[w].stream = s
  BY DEF FoundInv
<1>. QED  BY <1>1

\* The drones of relays that are online stay, or others come.
LEMMA ListedMore ==
  ASSUME ListedInv, \A p \in Ports : sessions'[p] # NULL => sessions[p] # NULL,
         \A n \in RelayNames, d \in DroneNames : active[n] # NULL /\ drones[active[n]][d] # NULL /\ sessions'[drones[active[n]][d]] # NULL
           => active'[n] = active[n] /\ drones'[active[n]][d] = drones[active[n]][d]
  PROVE  ListedInv'
<1>. SUFFICES ASSUME NEW p \in Ports, sessions'[p] # NULL
              PROVE  \E n \in RelayNames, d \in DroneNames : active'[n] # NULL /\ drones'[active'[n]][d] = p
  BY DEF ListedInv
<1>1. PICK n \in RelayNames, d \in DroneNames : active[n] # NULL /\ drones[active[n]][d] = p
  BY DEF ListedInv
<1>2. p # NULL
  BY RegistryAssumption
<1>3. active'[n] = active[n] /\ drones'[active[n]][d] = drones[active[n]][d]
  BY <1>1, <1>2
<1>. QED  BY <1>1, <1>3

LEMMA CleanStep ==
  ASSUME "reregister" \notin Env
  PROVE  PortInv /\ SessionInv /\ MadeInv /\ CleanInv /\ [Next]_vars => CleanInv'
<1>. SUFFICES ASSUME PortInv, SessionInv, MadeInv, CleanInv, [Next]_vars PROVE CleanInv'
  OBVIOUS
<1>. USE RegistryAssumption DEF PortInv, TypeInv, TypeOK, Locals, Local, NoLoc, Procs, Step, Return, Raise,
         DcSteps, registry, streams
<1>1. ASSUME NEW n \in RelayNames, Heartbeat(n) PROVE CleanInv'
  BY <1>1, CleanFrame DEF Heartbeat
<1>2. ASSUME NEW w \in Workers, NEW n \in RelayNames, Handshake(w, n) PROVE CleanInv'
  BY <1>2, CleanFrame DEF Handshake
<1>3. ASSUME NEW w \in Workers, HandshakeStore(w) PROVE CleanInv'
  <2>. DEFINE n == loc[w].name
  <2>a. PICK r \in FreeRelays :
          /\ active' = [active EXCEPT ![n] = r]
          /\ drones' = [drones EXCEPT ![r] = [d \in DroneNames |-> NULL]]
          /\ pc' = [pc EXCEPT ![w] = "idle", ![r] = "watch"]
          /\ loc' = [loc EXCEPT ![w] = NoLoc, ![r] = Local(NULL, NULL, r, NULL)]
          /\ UNCHANGED streams
    BY <1>3 DEF HandshakeStore
  <2>b. n \in RelayNames /\ active[n] = NULL /\ r \in RelayObjs /\ \A m \in RelayNames : active[m] # r
    BY <1>3 DEF HandshakeStore, FreeRelays, SessionInv, WorkerInv, Online
  <2>1. ListedInv'
    <3>1. \A m \in RelayNames, d \in DroneNames : active[m] # NULL =>
            active'[m] = active[m] /\ drones'[active[m]][d] = drones[active[m]][d]
      BY <2>a, <2>b
    <3>. QED  BY <2>a, <3>1, ListedMore DEF CleanInv
  <2>2. FoundInv'
    <3>1. \A v \in Workers : pc[v] = "nd_store" => pc'[v] = "nd_store" /\ loc'[v] = loc[v]
      BY <1>3, <2>a, <2>b DEF HandshakeStore
    <3>. QED  BY <2>a, <3>1, FoundFrame DEF CleanInv
  <2>3. AddInv'
    <3>1. \A v \in Workers : v # w => pc'[v] = pc[v] /\ loc'[v] = loc[v]
      BY <2>a, <2>b
    <3>. QED  BY <2>a, <2>b, <3>1 DEF CleanInv, AddInv
  <2>. QED  BY <2>1, <2>2, <2>3 DEF CleanInv
<1>4. ASSUME NEW w \in Workers, NEW n \in RelayNames, NEW d \in DroneNames, NewDrone(w, n, d) PROVE CleanInv'
  BY <1>4, CleanFrame DEF NewDrone, MayReregister
<1>5. ASSUME NEW w \in Workers, NewDronePop(w) PROVE CleanInv'
  BY <1>5 DEF NewDronePop, CleanInv, AddInv
<1>6. ASSUME NEW w \in Workers, NewDroneScan(w) PROVE CleanInv'
  BY <1>6, CleanFrame DEF NewDroneScan, TakeLowest
<1>7. ASSUME NEW w \in Workers, NewDroneFails(w) PROVE CleanInv'
  BY <1>7, CleanFrame DEF NewDroneFails
<1>8. ASSUME NEW w \in Workers, NewDroneInsert(w) PROVE CleanInv'
  <2>. DEFINE r == loc[w].relay  e == loc[w].drone  x == loc[w].port
  <2>a. /\ pc[w] = "nd_insert" /\ pc' = [pc EXCEPT ![w] = "nd_stream"] /\ drones' = [drones EXCEPT ![r][e] = x]
        /\ UNCHANGED <<active, streams, loc>>
    BY <1>8 DEF NewDroneInsert
  <2>b. r \in RelayObjs /\ e \in DroneNames /\ x \in Ports /\ drones[r][e] = NULL /\ x \notin UsedPorts
    BY <2>a, AtWork DEF Reserved
  <2>c. sessions[x] = NULL
    <3>1. \A m \in RelayNames, d \in DroneNames : active[m] # NULL => drones[active[m]][d] # x
      <4>. x # NULL
        BY <2>b
      <4>. QED  BY <2>b DEF UsedPorts, Registered, Online
    <3>2. ASSUME sessions[x] # NULL PROVE FALSE
      <4>1. PICK m \in RelayNames, d \in DroneNames : active[m] # NULL /\ drones[active[m]][d] = x
        BY <2>b, <3>2 DEF CleanInv, ListedInv
      <4>. QED  BY <3>1, <4>1
    <3>. QED  BY <3>2
  <2>1. ListedInv'
    <3>1. \A m \in RelayNames, d \in DroneNames : active[m] # NULL /\ drones[active[m]][d] # NULL =>
            drones'[active[m]][d] = drones[active[m]][d]
      BY <2>a, <2>b
    <3>. QED  BY <2>a, <3>1, ListedMore DEF CleanInv
  <2>2. FoundInv'
    <3>1. \A v \in Workers : pc[v] = "nd_store" => pc'[v] = "nd_store" /\ loc'[v] = loc[v]
      BY <2>a
    <3>. QED  BY <2>a, <3>1, FoundFrame DEF CleanInv
  <2>3. AddInv'
    BY <2>a, <2>c DEF CleanInv, AddInv
  <2>. QED  BY <2>1, <2>2, <2>3 DEF CleanInv
<1>9. ASSUME NEW w \in Workers, NewDroneStream(w) PROVE CleanInv'
  <2>a. PICK s \in Streams :
          /\ streamState' = [streamState EXCEPT ![s] = "starting"] /\ streamPort' = [streamPort EXCEPT ![s] = loc[w].port]
          /\ loc' = [loc EXCEPT ![w].stream = s]
    BY <1>9 DEF NewDroneStream, FreeStreams
  <2>b. /\ pc[w] = "nd_stream" /\ pc' = [pc EXCEPT ![w] = "nd_store"]
        /\ UNCHANGED <<active, drones, sessions>>
    BY <1>9 DEF NewDroneStream
  <2>c. /\ pc'[w] = "nd_store" /\ loc'[w].stream = s /\ loc'[w].port = loc[w].port
        /\ \A v \in Workers : v # w => pc'[v] = pc[v] /\ loc'[v] = loc[v]
        /\ \A t \in Streams : t # s => streamState'[t] = streamState[t] /\ streamPort'[t] = streamPort[t]
    BY <2>a, <2>b
  <2>1. ListedInv'
    BY <2>b DEF CleanInv, ListedInv
  <2>2. FoundInv'
    <3>. SUFFICES ASSUME NEW t \in Streams, streamState'[t] \in {"starting", "bound"}
                  PROVE  \/ streamPort'[t] \in Ports /\ sessions[streamPort'[t]] = t
                         \/ \E v \in Workers : pc'[v] = "nd_store" /\ loc'[v].stream = t
      BY <2>b DEF FoundInv
    <3>1. CASE t = s
      BY <2>c, <3>1
    <3>2. CASE t # s
      <4>1. \A v \in Workers : pc[v] = "nd_store" => pc'[v] = "nd_store" /\ loc'[v] = loc[v]
        BY <2>b, <2>c
      <4>. QED  BY <2>c, <3>2, <4>1 DEF CleanInv, FoundInv
    <3>. QED  BY <3>1, <3>2
  <2>3. AddInv'
    BY <2>b, <2>c DEF CleanInv, AddInv
  <2>. QED  BY <2>1, <2>2, <2>3 DEF CleanInv
<1>20. ASSUME NEW w \in Workers, NewDroneStore(w) PROVE CleanInv'
  <2>. DEFINE x == loc[w].port
              s == loc[w].stream
  <2>b. /\ pc[w] = "nd_store" /\ pc' = [pc EXCEPT ![w] = "idle"] /\ loc' = [loc EXCEPT ![w] = NoLoc]
        /\ sessions' = [sessions EXCEPT ![x] = s] /\ UNCHANGED <<active, drones, streamState, streamPort>>
    BY <1>20 DEF NewDroneStore
  <2>c. x \in Ports /\ sessions[x] = NULL /\ drones[loc[w].relay][loc[w].drone] = x /\ loc[w].drone \in DroneNames
    BY <2>b, AtWork DEF SessionInv, WorkInv, CleanInv, AddInv
  <2>a. s \in Streams /\ streamPort[s] = x
    BY <2>b DEF MadeInv, KnownRequest
  <2>d. \E m \in RelayNames, d \in DroneNames : active[m] # NULL /\ drones[active[m]][d] = x
    <3>1. PICK m \in RelayNames : active[m] = loc[w].relay
      BY <2>b, AtWork
    <3>2. loc[w].relay # NULL
      BY <2>b, AtWork
    <3>. QED  BY <2>c, <3>1, <3>2
  <2>1. ListedInv'
    <3>1. \A y \in Ports : y # x => sessions'[y] = sessions[y]
      BY <2>b, <2>c
    <3>. QED  BY <2>b, <2>d, <3>1 DEF CleanInv, ListedInv
  <2>2. FoundInv'
    <3>. SUFFICES ASSUME NEW t \in Streams, streamState[t] \in {"starting", "bound"}
                  PROVE  \/ streamPort[t] \in Ports /\ sessions'[streamPort[t]] = t
                         \/ \E v \in Workers : pc'[v] = "nd_store" /\ loc'[v].stream = t
      BY <2>b DEF FoundInv
    <3>1. CASE t = s
      BY <2>a, <2>b, <2>c, <3>1
    <3>2. CASE \E v \in Workers : v # w /\ pc[v] = "nd_store" /\ loc[v].stream = t
      BY <2>b, <3>2
    <3>3. CASE streamPort[t] \in Ports /\ sessions[streamPort[t]] = t
      <4>1. streamPort[t] # x
        BY <2>c, <3>3
      <4>. QED  BY <2>b, <3>3, <4>1
    <3>. QED  BY <3>1, <3>2, <3>3 DEF CleanInv, FoundInv
  <2>3. AddInv'
    <3>1. \A v \in Workers : pc'[v] \in {"nd_stream", "nd_store"} =>
            v # w /\ pc[v] = pc'[v] /\ loc'[v] = loc[v] /\ loc[v].port # x
      BY <2>b, OnePort
    <3>2. \A v \in Workers : pc'[v] \in {"nd_stream", "nd_store"} => loc[v].port \in Ports
      BY <3>1, AtWork
    <3>3. \A v \in Workers : pc'[v] # "nd_pop"
      BY <2>b DEF CleanInv, AddInv
    <3>. QED  BY <2>b, <2>c, <3>1, <3>2, <3>3 DEF CleanInv, AddInv
  <2>. QED  BY <2>1, <2>2, <2>3 DEF CleanInv
<1>10. ASSUME NEW w \in Workers, NEW n \in RelayNames, NEW d \in DroneNames, Disconnected(w, n, d) PROVE CleanInv'
  BY <1>10, CleanFrame DEF Disconnected
<1>11. ASSUME NEW p \in Procs, DcClose(p) PROVE CleanInv'
  <2>. DEFINE s == sessions[loc[p].port]
  <2>a. /\ pc[p] = "dc_close" /\ pc' = [pc EXCEPT ![p] = "dc_unlist"]
        /\ UNCHANGED <<active, drones, sessions, loc>>
    BY <1>11 DEF DcClose
  <2>b. PICK c \in Closed(s) : streamState' = [streamState EXCEPT ![s] = c]
    BY <1>11 DEF DcClose
  <2>c. c \notin {"starting", "bound"}
    BY <2>b DEF Closed
  <2>1. ListedInv'
    BY <2>a DEF CleanInv, ListedInv
  <2>2. FoundInv'
    <3>1. \A t \in Streams : streamState'[t] \in {"starting", "bound"} => t # s /\ streamState[t] \in {"starting", "bound"}
      BY <2>b, <2>c
    <3>2. \A t \in Streams : t # s => streamPort'[t] = streamPort[t]
      BY <1>11 DEF DcClose
    <3>. QED  BY <2>a, <3>1, <3>2 DEF CleanInv, FoundInv
  <2>3. AddInv'
    BY <2>a DEF CleanInv, AddInv
  <2>. QED  BY <2>1, <2>2, <2>3 DEF CleanInv
<1>12. ASSUME NEW p \in Procs, DcUnlist(p) PROVE CleanInv'
  <2>. DEFINE x == loc[p].port
  <2>a. /\ pc[p] = "dc_unlist" /\ pc' = [pc EXCEPT ![p] = "dc_delete"] /\ sessions' = [sessions EXCEPT ![x] = NULL]
        /\ UNCHANGED <<active, drones, streamState, streamPort, loc>>
    BY <1>12 DEF DcUnlist
  <2>b. x \in Ports /\ streamState[sessions[x]] \notin {"starting", "bound"}
    BY <2>a, AtWork DEF SessionInv, WorkInv
  <2>1. ListedInv'
    BY <2>a, <2>b DEF CleanInv, ListedInv
  <2>2. FoundInv'
    BY <2>a, <2>b DEF CleanInv, FoundInv
  <2>3. AddInv'
    <3>1. \A v \in Workers : pc'[v] \in {"nd_stream", "nd_store"} => pc[v] = pc'[v] /\ loc[v].port \in Ports
      BY <2>a, AtWork
    <3>. QED  BY <2>a, <2>b, <3>1 DEF CleanInv, AddInv
  <2>. QED  BY <2>1, <2>2, <2>3 DEF CleanInv
<1>13. ASSUME NEW p \in Procs, DcDelete(p) PROVE CleanInv'
  <2>. DEFINE r == loc[p].relay  e == loc[p].drone  x == loc[p].port
  <2>a. /\ pc[p] = "dc_delete" /\ drones' = [drones EXCEPT ![r][e] = NULL] /\ UNCHANGED <<active, streams>>
    BY <1>13 DEF DcDelete
  <2>b. r \in RelayObjs /\ e \in DroneNames /\ drones[r][e] = x /\ sessions[x] = NULL
    BY <2>a, AtWork DEF SessionInv, WorkInv
  <2>1. ListedInv'
    <3>1. \A m \in RelayNames, d \in DroneNames :
            active[m] # NULL /\ drones[active[m]][d] # NULL /\ sessions[drones[active[m]][d]] # NULL
              => drones'[active[m]][d] = drones[active[m]][d]
      BY <2>a, <2>b
    <3>. QED  BY <2>a, <3>1, ListedMore DEF CleanInv
  <2>2. FoundInv'
    <3>1. \A v \in Workers : pc[v] = "nd_store" => pc'[v] = "nd_store" /\ loc'[v] = loc[v]
      BY <1>13 DEF DcDelete
    <3>. QED  BY <2>a, <3>1, FoundFrame DEF CleanInv
  <2>3. AddInv'
    <3>1. \A v \in Workers : pc'[v] \in {"nd_pop", "nd_stream", "nd_store"} => pc'[v] = pc[v] /\ loc'[v] = loc[v]
      BY <1>13 DEF DcDelete
    <3>. QED  BY <2>a, <3>1 DEF CleanInv, AddInv
  <2>. QED  BY <2>1, <2>2, <2>3 DEF CleanInv
<1>14. ASSUME NEW p \in Procs, DcFails(p) PROVE CleanInv'
  BY <1>14, NoFailure
<1>15. ASSUME NEW r \in RelayObjs, WatchStamp(r) \/ WatchAgain(r) \/ WatchTimeOut(r) \/ WatchNext(r) PROVE CleanInv'
  BY <1>15, CleanFrame DEF WatchStamp, WatchAgain, WatchTimeOut, WatchNext
<1>16. ASSUME NEW r \in RelayObjs, WatchFails(r) PROVE CleanInv'
  BY <1>16, NoFailure
<1>17. ASSUME NEW r \in RelayObjs, WatchDrop(r) PROVE CleanInv'
  <2>a. /\ pc[r] = "next" /\ todo[r] = {} /\ active' = [active EXCEPT ![owner[r]] = NULL]
        /\ pc' = [pc EXCEPT ![r] = "idle"] /\ loc' = [loc EXCEPT ![r] = NoLoc]
        /\ UNCHANGED <<drones, streams>>
    BY <1>17 DEF WatchDrop
  <2>b. owner[r] \in RelayNames /\ active[owner[r]] = r /\ \A d \in DroneNames : drones[r][d] = NULL
    <3>1. /\ owner[r] \in RelayNames /\ active[owner[r]] = r /\ loc[r].drone = NULL
          /\ todo[r] = {d \in DroneNames : drones[r][d] # NULL} \ {loc[r].drone}
      BY <2>a DEF SessionInv, WatchInv, Removing
    <3>. QED  BY <2>a, <3>1
  <2>1. ListedInv'
    <3>1. \A m \in RelayNames, d \in DroneNames : active[m] # NULL /\ drones[active[m]][d] # NULL => active'[m] = active[m]
      BY <2>a, <2>b
    <3>. QED  BY <2>a, <3>1, ListedMore DEF CleanInv
  <2>2. FoundInv'
    <3>1. \A v \in Workers : pc[v] = "nd_store" => pc'[v] = "nd_store" /\ loc'[v] = loc[v]
      BY <2>a
    <3>. QED  BY <2>a, <3>1, FoundFrame DEF CleanInv
  <2>3. AddInv'
    BY <2>a DEF CleanInv, AddInv
  <2>. QED  BY <2>1, <2>2, <2>3 DEF CleanInv
<1>18. ASSUME NEW s \in Streams, StreamBind(s) \/ StreamExit(s) PROVE CleanInv'
  <2>a. UNCHANGED <<active, drones, sessions, pc, loc>>
    BY <1>18 DEF StreamBind, StreamExit
  <2>1. ListedInv'
    BY <2>a DEF CleanInv, ListedInv
  <2>2. FoundInv'
    <3>1. \A t \in Streams : streamState'[t] \in {"starting", "bound"} =>
            streamState[t] \in {"starting", "bound"} /\ streamPort'[t] = streamPort[t]
      BY <1>18 DEF StreamBind, StreamExit
    <3>. QED  BY <2>a, <3>1, FoundFrame DEF CleanInv
  <2>3. AddInv'
    BY <2>a DEF CleanInv, AddInv
  <2>. QED  BY <2>1, <2>2, <2>3 DEF CleanInv
<1>19. CASE UNCHANGED vars
  BY <1>19, CleanFrame DEF vars
<1>. QED  BY <1>1, <1>2, <1>3, <1>4, <1>5, <1>6, <1>7, <1>8, <1>9, <1>10, <1>11,
         <1>12, <1>13, <1>14, <1>15, <1>16, <1>17, <1>18, <1>19, <1>20
      DEF Next, Request, WorkerStep, DisconnectStep, WatcherStep

LEMMA InitClean == Init => CleanInv
BY RegistryAssumption DEF Init, CleanInv, ListedInv, FoundInv, AddInv, Procs

LEMMA CleanAlways ==
  ASSUME NoOverlap, "reregister" \notin Env
  PROVE  Spec => []CleanInv
BY SessionsAlways, InitClean, CleanStep, PTL DEF Spec

-----------------------------------------------------------------------------
(* The theorems.                                                           *)

\* A registered drone that nobody is working on has a session whose stream
\* nobody has closed (new_drone, disconnect_drone), even after it registered again.
THEOREM DronesHaveSessions ==
  ASSUME NoOverlap
  PROVE  Spec => []EveryDroneHasSession
<1>1. SessionInv => EveryDroneHasSession
  BY DEF SessionInv, DronesInv, EveryDroneHasSession, Registered, Online, Settled, Open
<1>. QED  BY <1>1, SessionsAlways, PTL

\* No exception ends the timeout_check thread of a relay that is online.
THEOREM WatchersLive ==
  ASSUME NoOverlap
  PROVE  Spec => []WatcherAlive
<1>1. PortInv /\ SessionInv => WatcherAlive
  BY RegistryAssumption DEF PortInv, TypeInv, TypeOK, SessionInv, WatchInv, WatcherAlive, Online, Removing, DcSteps
<1>. QED  BY <1>1, SessionsAlways, PTL

\* A port is not available again before its session is gone (disconnect_drone),
\* unless its drone registers twice.
THEOREM SessionsHaveDrones ==
  ASSUME NoOverlap, "reregister" \notin Env
  PROVE  Spec => []EverySessionHasDrone
<1>1. CleanInv => EverySessionHasDrone
  <2>. SUFFICES ASSUME CleanInv, NEW p \in Ports, sessions[p] # NULL PROVE p \in UsedPorts
    BY DEF EverySessionHasDrone
  <2>1. PICK n \in RelayNames, d \in DroneNames : active[n] # NULL /\ drones[active[n]][d] = p
    BY DEF CleanInv, ListedInv
  <2>. QED  BY <2>1, RegistryAssumption DEF UsedPorts, Registered, Online
<1>. QED  BY <1>1, CleanAlways, PTL

\* A stream that runs can be found, and so closed, through active_sessions,
\* unless its drone registers twice.
THEOREM NoneLeaked ==
  ASSUME NoOverlap, "reregister" \notin Env
  PROVE  Spec => []NoLeakedStream
<1>1. CleanInv => NoLeakedStream
  BY DEF CleanInv, FoundInv, NoLeakedStream
<1>. QED  BY <1>1, CleanAlways, PTL
=============================================================================
