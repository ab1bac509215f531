----------------------- MODULE RelayRegistry_proofs -----------------------
(***************************************************************************)
(* Theorems about RelayRegistry, for every set of relays, drones, ports,   *)
(* threads and objects: its type invariant, that two drones share a video  *)
(* port only if their requests raced for it, whatever overlaps, and that   *)
(* ports are handed out as PortLease promises where no two /new_drone      *)
(* requests overlap.                                                       *)
(***************************************************************************)
EXTENDS RelayRegistry, TLAPS

(* The type invariant, with what a request thread knows of its request.    *)

LEMMA TypeStep == TypeInv /\ [Next]_vars => TypeInv'
<1>. SUFFICES ASSUME TypeInv, [Next]_vars PROVE TypeInv'
  OBVIOUS
<1>. USE RegistryAssumption DEF TypeInv, TypeOK, KnownRequest, Locals, Local, NoLoc, Procs, Control, StreamStates, AddSteps, DcSteps, registry, streams
<1>1. ASSUME NEW n \in RelayNames, Heartbeat(n)
      PROVE  TypeInv'
  <2>1. TypeOK'
    BY <1>1 DEF Heartbeat
  <2>2. KnownRequest'
    BY <1>1 DEF Heartbeat
  <2>. QED  BY <2>1, <2>2
<1>2. ASSUME NEW w \in Workers, NEW n \in RelayNames, Handshake(w, n)
      PROVE  TypeInv'
  <2>1. TypeOK'
    BY <1>2 DEF Handshake, Step
  <2>2. KnownRequest'
    BY <1>2 DEF Handshake, Step
  <2>. QED  BY <2>1, <2>2
<1>3. ASSUME NEW w \in Workers, HandshakeStore(w)
      PROVE  TypeInv'
  <2>1. PICK r \in RelayObjs :
          /\ active' = [active EXCEPT ![loc[w].name] = r]
          /\ owner' = [owner EXCEPT ![r] = loc[w].name]
          /\ drones' = [drones EXCEPT ![r] = [d \in DroneNames |-> NULL]]
          /\ beat' = [beat EXCEPT ![r] = "never"]
          /\ pc' = [pc EXCEPT ![w] = "idle", ![r] = "watch"]
          /\ loc' = [loc EXCEPT ![w] = NoLoc, ![r] = Local(NULL, NULL, r, NULL)]
          /\ todo' = [todo EXCEPT ![r] = {}]
          /\ UNCHANGED <<streams, contended>>
    BY <1>3 DEF HandshakeStore, FreeRelays
  <2>2. loc[w].name \in RelayNames
    BY <1>3 DEF HandshakeStore
  <2>3. pc' \in [Procs -> Control] /\ loc' \in [Procs -> Locals]
    BY <2>1, <2>2
  <2>4. TypeOK'
    BY <2>1, <2>2, <2>3
  <2>5. KnownRequest'
    BY <2>1, <2>2
  <2>. QED  BY <2>4, <2>5
<1>4. ASSUME NEW w \in Workers, NEW n \in RelayNames, NEW d \in DroneNames, NewDrone(w, n, d)
      PROVE  TypeInv'
  <2>1. TypeOK'
    BY <1>4 DEF NewDrone, Step
  <2>2. KnownRequest'
    BY <1>4 DEF NewDrone, Step
  <2>. QED  BY <2>1, <2>2
<1>5. ASSUME NEW w \in Workers, NewDronePop(w)
      PROVE  TypeInv'
  <2>1. TypeOK'
    BY <1>5 DEF NewDronePop, Step
  <2>2. KnownRequest'
    BY <1>5 DEF NewDronePop, Step
  <2>. QED  BY <2>1, <2>2
<1>6. ASSUME NEW w \in Workers, NewDroneScan(w)
      PROVE  TypeInv'
  <2>1. TypeOK'
    BY <1>6 DEF NewDroneScan, TakeLowest, Online, Step
  <2>2. KnownRequest'
    BY <1>6 DEF NewDroneScan, TakeLowest, Online, Step
  <2>. QED  BY <2>1, <2>2
<1>7. ASSUME NEW w \in Workers, NewDroneFails(w)
      PROVE  TypeInv'
  <2>1. TypeOK'
    BY <1>7 DEF NewDroneFails, Raise
  <2>2. KnownRequest'
    BY <1>7 DEF NewDroneFails, Raise
  <2>. QED  BY <2>1, <2>2
<1>8. ASSUME NEW w \in Workers, NewDroneInsert(w)
      PROVE  TypeInv'
  <2>1. TypeOK'
    BY <1>8 DEF NewDroneInsert, Step
  <2>2. KnownRequest'
    BY <1>8 DEF NewDroneInsert, Step
  <2>. QED  BY <2>1, <2>2
<1>9. ASSUME NEW w \in Workers, NewDroneStream(w)
      PROVE  TypeInv'
  <2>1. PICK s \in Streams :
          /\ streamState' = [streamState EXCEPT ![s] = "starting"]
          /\ streamPort' = [streamPort EXCEPT ![s] = loc[w].port]
          /\ loc' = [loc EXCEPT ![w].stream = s]
    BY <1>9 DEF NewDroneStream, FreeStreams
  <2>3. pc[w] = "nd_stream" /\ pc' = [pc EXCEPT ![w] = "nd_store"] /\ UNCHANGED <<registry, beat, contended, sessions, todo>>
    BY <1>9 DEF NewDroneStream, Step
  <2>4. loc' \in [Procs -> Locals] /\ streamPort' \in [Streams -> Ports \cup {NULL}]
    <3>1. loc[w] \in Locals /\ loc[w].port \in Ports
      BY <2>3
    <3>2. [loc[w] EXCEPT !.stream = s] \in Locals
      BY <3>1
    <3>3. loc' \in [Procs -> Locals]
      BY <2>1, <3>2
    <3>4. streamPort' \in [Streams -> Ports \cup {NULL}]
      BY <2>1, <3>1
    <3>. QED  BY <3>3, <3>4
  <2>5. TypeOK'
    BY <2>1, <2>3, <2>4
  <2>6. KnownRequest'
    BY <2>1, <2>3
  <2>. QED  BY <2>5, <2>6
<1>24. ASSUME NEW w \in Workers, NewDroneStore(w)
      PROVE  TypeInv'
  <2>1. TypeOK'
    BY <1>24 DEF NewDroneStore, Return
  <2>2. KnownRequest'
    BY <1>24 DEF NewDroneStore, Return
  <2>. QED  BY <2>1, <2>2
<1>10. ASSUME NEW w \in Workers, NEW n \in RelayNames, NEW d \in DroneNames, Disconnected(w, n, d)
      PROVE  TypeInv'
  <2>1. TypeOK'
    BY <1>10 DEF Disconnected, Step, Registered, Online
  <2>2. KnownRequest'
    BY <1>10 DEF Disconnected, Step, Registered, Online
  <2>. QED  BY <2>1, <2>2
<1>11. ASSUME NEW p \in Procs, DcClose(p)
      PROVE  TypeInv'
  <2>. DEFINE s == sessions[loc[p].port]
  <2>1. PICK c \in Closed(s) :
          /\ streamState' = [streamState EXCEPT ![s] = c]
          /\ streamPort' = [streamPort EXCEPT ![s] = IF c = "dead" THEN NULL ELSE @]
    BY <1>11 DEF DcClose
  <2>2. pc' = [pc EXCEPT ![p] = "dc_unlist"] /\ UNCHANGED <<registry, beat, contended, sessions, loc, todo>>
    BY <1>11 DEF DcClose, Step
  <2>3. c \in StreamStates
    BY <2>1 DEF Closed
  <2>4. streamState' \in [Streams -> StreamStates] /\ streamPort' \in [Streams -> Ports \cup {NULL}]
    BY <2>1, <2>3
  <2>5. TypeOK'
    BY <2>2, <2>4
  <2>6. KnownRequest'
    BY <2>2
  <2>. QED  BY <2>5, <2>6
<1>12. ASSUME NEW p \in Procs, DcUnlist(p)
      PROVE  TypeInv'
  <2>1. TypeOK'
    BY <1>12 DEF DcUnlist, Step
  <2>2. KnownRequest'
    BY <1>12 DEF DcUnlist, Step
  <2>. QED  BY <2>1, <2>2
<1>13. ASSUME NEW p \in Procs, DcDelete(p)
      PROVE  TypeInv'
  <2>1. TypeOK'
    BY <1>13 DEF DcDelete, Return
  <2>2. KnownRequest'
    BY <1>13 DEF DcDelete, Return
  <2>. QED  BY <2>1, <2>2
<1>14. ASSUME NEW p \in Procs, DcFails(p)
      PROVE  TypeInv'
  <2>1. TypeOK'
    BY <1>14 DEF DcFails, Raise
  <2>2. KnownRequest'
    BY <1>14 DEF DcFails, Raise
  <2>. QED  BY <2>1, <2>2
<1>15. ASSUME NEW r \in RelayObjs, WatchStamp(r)
      PROVE  TypeInv'
  <2>1. TypeOK'
    BY <1>15 DEF WatchStamp, Step
  <2>2. KnownRequest'
    BY <1>15 DEF WatchStamp, Step
  <2>. QED  BY <2>1, <2>2
<1>16. ASSUME NEW r \in RelayObjs, WatchAgain(r)
      PROVE  TypeInv'
  <2>1. TypeOK'
    BY <1>16 DEF WatchAgain, Step
  <2>2. KnownRequest'
    BY <1>16 DEF WatchAgain, Step
  <2>. QED  BY <2>1, <2>2
<1>17. ASSUME NEW r \in RelayObjs, WatchTimeOut(r)
      PROVE  TypeInv'
  <2>1. TypeOK'
    BY <1>17 DEF WatchTimeOut, Step
  <2>2. KnownRequest'
    BY <1>17 DEF WatchTimeOut, Step
  <2>. QED  BY <2>1, <2>2
<1>18. ASSUME NEW r \in RelayObjs, WatchNext(r)
      PROVE  TypeInv'
  <2>1. TypeOK'
    BY <1>18 DEF WatchNext, Step
  <2>2. KnownRequest'
    BY <1>18 DEF WatchNext, Step
  <2>. QED  BY <2>1, <2>2
<1>19. ASSUME NEW r \in RelayObjs, WatchDrop(r)
      PROVE  TypeInv'
  <2>1. TypeOK'
    BY <1>19 DEF WatchDrop
  <2>2. KnownRequest'
    BY <1>19 DEF WatchDrop
  <2>. QED  BY <2>1, <2>2
<1>20. ASSUME NEW r \in RelayObjs, WatchFails(r)
      PROVE  TypeInv'
  <2>1. TypeOK'
    BY <1>20 DEF WatchFails, Raise
  <2>2. KnownRequest'
    BY <1>20 DEF WatchFails, Raise
  <2>. QED  BY <2>1, <2>2
<1>21. ASSUME NEW s \in Streams, StreamBind(s)
      PROVE  TypeInv'
  <2>1. TypeOK'
    BY <1>21 DEF StreamBind
  <2>2. KnownRequest'
    BY <1>21 DEF StreamBind
  <2>. QED  BY <2>1, <2>2
<1>22. ASSUME NEW s \in Streams, StreamExit(s)
      PROVE  TypeInv'
  <2>1. TypeOK'
    BY <1>22 DEF StreamExit
  <2>2. KnownRequest'
    BY <1>22 DEF StreamExit
  <2>. QED  BY <2>1, <2>2
<1>23. CASE UNCHANGED vars
  BY <1>23 DEF vars
<1>. QED
  BY <1>1, <1>2, <1>3, <1>4, <1>5, <1>6, <1>7, <1>8, <1>9, <1>10, <1>11, <1>12, <1>13, <1>14, <1>15, <1>16, <1>17, <1>18, <1>19, <1>20, <1>21, <1>22, <1>23, <1>24 DEF Next, Request, WorkerStep, DisconnectStep, WatcherStep

-----------------------------------------------------------------------------
\* A Relay object is online under one name, and a port is one drone's.
LEMMA OneName ==
  ASSUME OwnName, NULL \notin RelayObjs,
         NEW m \in RelayNames, NEW n \in RelayNames, active[m] = active[n], active[m] \in RelayObjs
  PROVE  m = n
BY DEF OwnName, Online

LEMMA SamePort ==
  ASSUME PortsUnique, NEW m \in RelayNames, NEW n \in RelayNames, NEW c \in DroneNames, NEW d \in DroneNames,
         Registered(m, c), Registered(n, d), drones[active[m]][c] = drones[active[n]][d]
  PROVE  m = n /\ c = d
BY DEF PortsUnique

(* The invariant behind unique ports.  Only HandshakeStore and NewDroneInsert *)
(* can bring a port into use; the scan has seen that nobody holds it, and  *)
(* with one adder at a time nobody takes it before the insertion.          *)

\* A step that brings no relay online, lets drones only go and neither begins to
\* serve a /new_drone request nor moves it to its scan or its insertion.
LEMMA PortFrame ==
  ASSUME PortInv, owner' = owner,
         \A n \in RelayNames : active'[n] \in {active[n], NULL},
         \A r \in RelayObjs, d \in DroneNames : drones'[r][d] \in {drones[r][d], NULL},
         \A w \in Workers : pc'[w] \in AddSteps =>
           /\ pc[w] \in AddSteps
           /\ pc'[w] \in {"nd_scan", "nd_insert"} => pc'[w] = pc[w] /\ loc'[w] = loc[w]
  PROVE  OwnName' /\ OneAdder' /\ Reserved' /\ PortsUnique'
<1>. TypeOK /\ KnownRequest /\ NULL \notin Ports
  BY RegistryAssumption DEF PortInv, TypeInv
<1>1. OwnName'
  BY DEF PortInv, OwnName, Online
<1>2. OneAdder'
  BY DEF PortInv, OneAdder
<1>3. \A n \in RelayNames, d \in DroneNames :
        Registered(n, d)' => Registered(n, d) /\ drones'[active'[n]][d] = drones[active[n]][d]
  BY DEF Registered, Online, TypeOK
<1>4. Reserved'
  <2>. SUFFICES ASSUME NEW w \in Workers, pc'[w] \in {"nd_scan", "nd_insert"}
                PROVE  /\ pc'[w] = "nd_scan" => ~ Registered(loc[w].name, loc[w].drone)'
                       /\ pc'[w] = "nd_insert" => /\ loc'[w].port \notin UsedPorts'
                                                 /\ drones'[loc'[w].relay][loc'[w].drone] = NULL
    BY DEF Reserved
  <2>1. pc'[w] = pc[w] /\ loc'[w] = loc[w] /\ loc[w].name \in RelayNames /\ loc[w].drone \in DroneNames
    BY DEF AddSteps, KnownRequest
  <2>2. pc[w] = "nd_scan" => ~ Registered(loc[w].name, loc[w].drone)'
    BY <1>3, <2>1 DEF PortInv, Reserved
  <2>3. pc[w] = "nd_insert" => loc[w].port \notin UsedPorts'
    BY <1>3 DEF PortInv, Reserved, UsedPorts
  <2>4. pc[w] = "nd_insert" => drones'[loc[w].relay][loc[w].drone] = NULL
    BY <2>1 DEF PortInv, Reserved, KnownRequest
  <2>. QED  BY <2>1, <2>2, <2>3, <2>4
<1>5. PortsUnique'
  BY <1>3 DEF PortInv, PortsUnique
<1>. QED  BY <1>1, <1>2, <1>4, <1>5

LEMMA PortStep ==
  ASSUME "overlap_add" \notin Env
  PROVE  PortInv /\ [Next]_vars => PortInv'
<1>. SUFFICES ASSUME PortInv, [Next]_vars PROVE PortInv'
  OBVIOUS
<1>. TypeInv /\ TypeInv'
  BY TypeStep DEF PortInv
<1>. USE RegistryAssumption DEF PortInv, TypeInv, TypeOK, KnownRequest, Locals, Local, NoLoc, Procs, Control, StreamStates,
         AddSteps, DcSteps, registry, streams, Online, Registered, UsedPorts
<1>1. ASSUME NEW n \in RelayNames, Heartbeat(n)
      PROVE  OwnName' /\ OneAdder' /\ Reserved' /\ PortsUnique'
  BY <1>1, PortFrame DEF Heartbeat
<1>2. ASSUME NEW w \in Workers, NEW n \in RelayNames, Handshake(w, n)
      PROVE  OwnName' /\ OneAdder' /\ Reserved' /\ PortsUnique'
  BY <1>2, PortFrame DEF Handshake, Step
<1>3. ASSUME NEW w \in Workers, HandshakeStore(w)
      PROVE  OwnName' /\ OneAdder' /\ Reserved' /\ PortsUnique'
  <2>. DEFINE n == loc[w].name
  <2>1. PICK r \in FreeRelays :
          /\ active' = [active EXCEPT ![n] = r]
          /\ owner' = [owner EXCEPT ![r] = n]
          /\ drones' = [drones EXCEPT ![r] = [d \in DroneNames |-> NULL]]
          /\ pc' = [pc EXCEPT ![w] = "idle", ![r] = "watch"]
          /\ loc' = [loc EXCEPT ![w] = NoLoc, ![r] = Local(NULL, NULL, r, NULL)]
    BY <1>3 DEF HandshakeStore
  <2>2. /\ n \in RelayNames /\ r \in RelayObjs /\ r # NULL
        /\ \A m \in RelayNames : active[m] # r
        /\ \A v \in Workers : loc[v].relay # r
    BY <1>3 DEF HandshakeStore, FreeRelays
  <2>3. \A m \in RelayNames, d \in DroneNames :
          Registered(m, d)' => m # n /\ Registered(m, d) /\ UNCHANGED <<active[m], drones[active[m]][d]>>
    BY <2>1, <2>2
  <2>4. \A v \in Workers : pc'[v] \in AddSteps => UNCHANGED <<pc[v], loc[v]>>
    BY <2>1, <2>2
  <2>5. OwnName' /\ OneAdder'
    <3>1. \A m \in RelayNames : m # n /\ Online(m)' => active'[m] = active[m] /\ owner'[active[m]] = owner[active[m]]
      BY <2>1, <2>2
    <3>2. active'[n] = r /\ owner'[r] = n
      BY <2>1, <2>2
    <3>3. OwnName'
      BY <3>1, <3>2 DEF OwnName
    <3>4. OneAdder'
      BY <2>4 DEF OneAdder
    <3>. QED  BY <3>3, <3>4
  <2>6. Reserved'
    <3>. SUFFICES ASSUME NEW v \in Workers, pc'[v] \in {"nd_scan", "nd_insert"}
                  PROVE  /\ pc'[v] = "nd_scan" => ~ Registered(loc[v].name, loc[v].drone)'
                         /\ pc'[v] = "nd_insert" => /\ (loc[v].port \notin UsedPorts)'
                                                   /\ drones'[loc'[v].relay][loc'[v].drone] = NULL
      BY DEF Reserved
    <3>1. UNCHANGED <<pc[v], loc[v]>>
      BY <2>4
    <3>2. pc[v] = "nd_scan" => ~ Registered(loc[v].name, loc[v].drone)'
      BY <2>3, <3>1 DEF Reserved
    <3>3. pc[v] = "nd_insert" => loc[v].port \notin UsedPorts'
      BY <2>3 DEF Reserved
    <3>4. pc[v] = "nd_insert" => drones'[loc[v].relay][loc[v].drone] = NULL
      BY <2>1, <2>2 DEF Reserved
    <3>. QED  BY <3>1, <3>2, <3>3, <3>4
  <2>7. PortsUnique'
    BY <2>3 DEF PortsUnique
  <2>. QED  BY <2>5, <2>6, <2>7
<1>4. ASSUME NEW w \in Workers, NEW n \in RelayNames, NEW d \in DroneNames, NewDrone(w, n, d)
      PROVE  OwnName' /\ OneAdder' /\ Reserved' /\ PortsUnique'
  <2>1. OwnName' /\ PortsUnique'
    BY <1>4 DEF OwnName, PortsUnique, NewDrone, Step
  <2>2. OneAdder'
    BY <1>4 DEF OneAdder, NewDrone, Step, MayAdd, NobodyAdds
  <2>3. Reserved'
    BY <1>4 DEF Reserved, NewDrone, Step
  <2>. QED  BY <2>1, <2>2, <2>3
<1>5. ASSUME NEW w \in Workers, NewDronePop(w)
      PROVE  OwnName' /\ OneAdder' /\ Reserved' /\ PortsUnique'
  <2>1. OwnName' /\ OneAdder' /\ PortsUnique'
    <3>1. OwnName' /\ OneAdder'
      BY <1>5 DEF OwnName, OneAdder, NewDronePop, Step
    <3>2. PortsUnique'
      <4>1. \A m \in RelayNames, d \in DroneNames :
              Registered(m, d)' => Registered(m, d) /\ drones'[active'[m]][d] = drones[active[m]][d]
        BY <1>5 DEF NewDronePop, Step
      <4>. QED  BY <4>1 DEF PortsUnique
    <3>. QED  BY <3>1, <3>2
  <2>2. \A v \in Workers : pc'[v] \in AddSteps => v = w
    BY <1>5 DEF OneAdder, NewDronePop, Step
  <2>3. pc'[w] = "nd_scan" /\ loc' = loc /\ ~ Registered(loc[w].name, loc[w].drone)'
    BY <1>5 DEF NewDronePop, Step
  <2>4. Reserved'
    BY <2>2, <2>3 DEF Reserved
  <2>. QED  BY <2>1, <2>4
<1>6. ASSUME NEW w \in Workers, NewDroneScan(w)
      PROVE  OwnName' /\ OneAdder' /\ Reserved' /\ PortsUnique'
  <2>1. OwnName'
    BY <1>6 DEF OwnName, NewDroneScan, TakeLowest, Online, Step
  <2>2. OneAdder'
    BY <1>6 DEF OneAdder, NewDroneScan, TakeLowest, Online, Step
  <2>3. Reserved'
    <3>1. \A v \in Workers : pc'[v] \in AddSteps => v = w
      BY <1>6, <2>2 DEF OneAdder, NewDroneScan, TakeLowest, Step
    <3>2. /\ pc[w] = "nd_scan" /\ pc'[w] = "nd_insert" /\ active' = active /\ drones' = drones
          /\ Online(loc[w].name) /\ loc'[w].port \in Ports \ UsedPorts
          /\ loc'[w].relay = active[loc[w].name] /\ loc'[w].drone = loc[w].drone
      BY <1>6 DEF NewDroneScan, TakeLowest, Step
    <3>3. drones'[loc'[w].relay][loc'[w].drone] = NULL
      BY <3>2 DEF Reserved
    <3>. QED  BY <3>1, <3>2, <3>3 DEF Reserved
  <2>4. PortsUnique'
    BY <1>6 DEF PortsUnique, NewDroneScan, TakeLowest, Online, Step
  <2>. QED  BY <2>1, <2>2, <2>3, <2>4
<1>7. ASSUME NEW w \in Workers, NewDroneFails(w)
      PROVE  OwnName' /\ OneAdder' /\ Reserved' /\ PortsUnique'
  BY <1>7, PortFrame DEF NewDroneFails, Raise
<1>8. ASSUME NEW w \in Workers, NewDroneInsert(w)
      PROVE  OwnName' /\ OneAdder' /\ Reserved' /\ PortsUnique'
  <2>. DEFINE r == loc[w].relay  e == loc[w].drone  p == loc[w].port
  <2>1. OwnName' /\ OneAdder' /\ Reserved'
    BY <1>8 DEF OwnName, OneAdder, Reserved, NewDroneInsert, Step
  <2>2. r \in RelayObjs /\ r # NULL /\ e \in DroneNames /\ p \in Ports /\ p \notin UsedPorts
    BY <1>8 DEF NewDroneInsert, Step, Reserved
  <2>3. active' = active /\ drones' = [drones EXCEPT ![r][e] = p]
    BY <1>8 DEF NewDroneInsert
  <2>4. \A n \in RelayNames, d \in DroneNames :
          Registered(n, d)' => \/ active[n] = r /\ d = e /\ drones'[active[n]][d] = p
                               \/ Registered(n, d) /\ drones'[active[n]][d] = drones[active[n]][d]
    <3>. TAKE n \in RelayNames, d \in DroneNames
    <3>. HAVE Registered(n, d)'
    <3>1. active[n] \in RelayObjs
      BY <2>3
    <3>2. CASE active[n] = r /\ d = e
      <4>1. drones[r] \in [DroneNames -> Ports \cup {NULL}]
        BY <2>2
      <4>2. drones'[r][e] = p
        BY <4>1, <2>2, <2>3
      <4>. QED  BY <4>2, <3>2
    <3>3. CASE ~ (active[n] = r /\ d = e)
      <4>1. drones'[active[n]][d] = drones[active[n]][d]
        BY <3>1, <3>3, <2>2, <2>3
      <4>. QED  BY <4>1, <2>3
    <3>. QED  BY <3>2, <3>3
  <2>5. \A n \in RelayNames, d \in DroneNames : Registered(n, d) => drones[active[n]][d] # p
    BY <2>2
  <2>6. \A m, n \in RelayNames : active[m] = r /\ active[n] = r => m = n
    BY <2>2, OneName
  <2>7. PortsUnique'
    <3>. SUFFICES ASSUME NEW m \in RelayNames, NEW n \in RelayNames, NEW c \in DroneNames, NEW d \in DroneNames,
                         Registered(m, c)', Registered(n, d)', drones'[active[m]][c] = drones'[active[n]][d]
                  PROVE  m = n /\ c = d
      BY <2>3 DEF PortsUnique
    <3>1. CASE active[m] = r /\ c = e /\ drones'[active[m]][c] = p
      BY <3>1, <2>4, <2>5, <2>6
    <3>2. CASE Registered(m, c) /\ drones'[active[m]][c] = drones[active[m]][c]
      <4>1. drones[active[m]][c] # p
        BY <3>2, <2>5
      <4>2. Registered(n, d) /\ drones'[active[n]][d] = drones[active[n]][d]
        BY <3>2, <4>1, <2>4
      <4>3. drones[active[m]][c] = drones[active[n]][d]
        BY <3>2, <4>2
      <4>. QED  BY <3>2, <4>2, <4>3, SamePort
    <3>. QED  BY <3>1, <3>2, <2>3, <2>4
  <2>. QED  BY <2>1, <2>7
<1>9. ASSUME NEW w \in Workers, NewDroneStream(w)
      PROVE  OwnName' /\ OneAdder' /\ Reserved' /\ PortsUnique'
  BY <1>9, PortFrame DEF NewDroneStream, Step
<1>24. ASSUME NEW w \in Workers, NewDroneStore(w)
      PROVE  OwnName' /\ OneAdder' /\ Reserved' /\ PortsUnique'
  BY <1>24, PortFrame DEF NewDroneStore, Return
<1>10. ASSUME NEW w \in Workers, NEW n \in RelayNames, NEW d \in DroneNames, Disconnected(w, n, d)
      PROVE  OwnName' /\ OneAdder' /\ Reserved' /\ PortsUnique'
  BY <1>10, PortFrame DEF Disconnected, Step
<1>11. ASSUME NEW p \in Procs, DcClose(p)
      PROVE  OwnName' /\ OneAdder' /\ Reserved' /\ PortsUnique'
  BY <1>11, PortFrame DEF DcClose, Step
<1>12. ASSUME NEW p \in Procs, DcUnlist(p)
      PROVE  OwnName' /\ OneAdder' /\ Reserved' /\ PortsUnique'
  BY <1>12, PortFrame DEF DcUnlist, Step
<1>13. ASSUME NEW p \in Procs, DcDelete(p)
      PROVE  OwnName' /\ OneAdder' /\ Reserved' /\ PortsUnique'
  BY <1>13, PortFrame DEF DcDelete, Return
<1>14. ASSUME NEW p \in Procs, DcFails(p)
      PROVE  OwnName' /\ OneAdder' /\ Reserved' /\ PortsUnique'
  BY <1>14, PortFrame DEF DcFails, Raise
<1>15. ASSUME NEW r \in RelayObjs, WatchStamp(r)
      PROVE  OwnName' /\ OneAdder' /\ Reserved' /\ PortsUnique'
  BY <1>15, PortFrame DEF WatchStamp, Step
<1>16. ASSUME NEW r \in RelayObjs, WatchAgain(r)
      PROVE  OwnName' /\ OneAdder' /\ Reserved' /\ PortsUnique'
  BY <1>16, PortFrame DEF WatchAgain, Step
<1>17. ASSUME NEW r \in RelayObjs, WatchTimeOut(r)
      PROVE  OwnName' /\ OneAdder' /\ Reserved' /\ PortsUnique'
  BY <1>17, PortFrame DEF WatchTimeOut, Step
<1>18. ASSUME NEW r \in RelayObjs, WatchNext(r)
      PROVE  OwnName' /\ OneAdder' /\ Reserved' /\ PortsUnique'
  BY <1>18, PortFrame DEF WatchNext, Step
<1>19. ASSUME NEW r \in RelayObjs, WatchDrop(r)
      PROVE  OwnName' /\ OneAdder' /\ Reserved' /\ PortsUnique'
  BY <1>19, PortFrame DEF WatchDrop
<1>20. ASSUME NEW r \in RelayObjs, WatchFails(r)
      PROVE  OwnName' /\ OneAdder' /\ Reserved' /\ PortsUnique'
  BY <1>20, PortFrame DEF WatchFails, Raise
<1>21. ASSUME NEW s \in Streams, StreamBind(s)
      PROVE  OwnName' /\ OneAdder' /\ Reserved' /\ PortsUnique'
  BY <1>21, PortFrame DEF StreamBind
<1>22. ASSUME NEW s \in Streams, StreamExit(s)
      PROVE  OwnName' /\ OneAdder' /\ Reserved' /\ PortsUnique'
  BY <1>22, PortFrame DEF StreamExit
<1>23. CASE UNCHANGED vars
  BY <1>23 DEF vars, OwnName, OneAdder, Reserved, PortsUnique
<1>. QED
  BY <1>1, <1>2, <1>3, <1>4, <1>5, <1>6, <1>7, <1>8, <1>9, <1>10, <1>11, <1>12, <1>13, <1>14, <1>15, <1>16, <1>17, <1>18, <1>19, <1>20, <1>21, <1>22, <1>23, <1>24 DEF Next, Request, WorkerStep, DisconnectStep, WatcherStep

LEMMA InitTypes == Init => TypeInv
BY RegistryAssumption DEF Init, TypeInv, TypeOK, KnownRequest, NoLoc, Local, Locals, Procs, Control, StreamStates, AddSteps, DcSteps

LEMMA InitPorts == Init => PortInv
BY InitTypes, RegistryAssumption DEF Init, PortInv, OwnName, OneAdder, Reserved, PortsUnique, Registered, Online, Procs, AddSteps

\* Every variable keeps its type, for any set of liberties.
THEOREM TypeCorrect == Spec => []TypeOK
<1>1. Spec => []TypeInv
  BY InitTypes, TypeStep, PTL DEF Spec
<1>2. TypeInv => TypeOK
  BY DEF TypeInv
<1>. QED  BY <1>1, <1>2, PTL

-----------------------------------------------------------------------------
(* The race for a port, whatever overlaps.  Two requests that have chosen  *)
(* one port, or one that has chosen a port which is in use meanwhile, make *)
(* that port contended; the scan only chooses ports that nobody has.       *)

BothChose ==
  \A v, w \in Workers :
    pc[v] = "nd_insert" /\ pc[w] = "nd_insert" /\ loc[v].port = loc[w].port
      => v = w \/ loc[w].port \in contended

StoresLate == \A w \in Workers : pc[w] = "nd_insert" /\ loc[w].port \in UsedPorts => loc[w].port \in contended

RaceInv == TypeInv /\ OwnName /\ BothChose /\ StoresLate /\ OnlyRacersShare

\* A step that chooses and stores no port.
LEMMA NothingChosen ==
  ASSUME RaceInv, contended' = contended,
         \A w \in Workers : pc'[w] = "nd_insert" => pc[w] = "nd_insert" /\ loc'[w] = loc[w],
         \A n \in RelayNames, d \in DroneNames :
           Registered(n, d)' => Registered(n, d) /\ drones'[active'[n]][d] = drones[active[n]][d]
  PROVE  BothChose' /\ StoresLate' /\ OnlyRacersShare'
<1>1. BothChose'
  BY DEF RaceInv, BothChose
<1>2. StoresLate'
  BY DEF RaceInv, StoresLate, UsedPorts
<1>3. OnlyRacersShare'
  BY DEF RaceInv, OnlyRacersShare
<1>. QED  BY <1>1, <1>2, <1>3

\* The scan chooses a port that nobody has.
LEMMA ScanRaces ==
  ASSUME RaceInv, NEW w \in Workers, NewDroneScan(w)
  PROVE  BothChose' /\ StoresLate' /\ OnlyRacersShare'
<1>. DEFINE p == loc'[w].port
<1>1. /\ p \in Ports \ UsedPorts
      /\ pc[w] = "nd_scan" /\ pc' = [pc EXCEPT ![w] = "nd_insert"]
      /\ \A v \in Workers : v # w => loc'[v] = loc[v]
      /\ active' = active /\ drones' = drones
  BY DEF NewDroneScan, TakeLowest, Step, Local, registry, RaceInv, TypeInv, TypeOK, Procs
<1>2. \A v \in Workers : pc'[v] = "nd_insert" <=> v = w \/ pc[v] = "nd_insert"
  BY <1>1 DEF RaceInv, TypeInv, TypeOK, Procs
<1>3. contended' = IF \E v \in Workers : pc[v] = "nd_insert" /\ loc[v].port = p
                   THEN contended \cup {p} ELSE contended \ {p}
  BY DEF NewDroneScan, TakeLowest, Local, RaceInv, TypeInv, TypeOK, Procs
<1>4. \A q \in contended : q # p => q \in contended'
  BY <1>3
<1>5. UsedPorts' = UsedPorts
  BY <1>1 DEF UsedPorts, Registered, Online
<1>6. BothChose'
  <2>. SUFFICES ASSUME NEW u \in Workers, NEW v \in Workers, pc'[u] = "nd_insert", pc'[v] = "nd_insert",
                       loc'[u].port = loc'[v].port, u # v
                PROVE  loc'[v].port \in contended'
    BY DEF BothChose
  <2>1. CASE loc'[v].port = p
    <3>1. PICK t \in {u, v} : t # w
      OBVIOUS
    <3>2. pc[t] = "nd_insert" /\ loc[t].port = p
      BY <1>1, <1>2, <2>1, <3>1
    <3>. QED  BY <1>3, <2>1, <3>2
  <2>2. CASE loc'[v].port # p
    <3>1. u # w /\ v # w /\ pc[u] = "nd_insert" /\ pc[v] = "nd_insert" /\ loc[u].port = loc[v].port
      BY <1>1, <1>2, <2>2
    <3>2. loc[v].port \in contended
      BY <3>1 DEF RaceInv, BothChose
    <3>. QED  BY <1>1, <1>4, <2>2, <3>1, <3>2
  <2>. QED  BY <2>1, <2>2
<1>7. StoresLate'
  <2>. SUFFICES ASSUME NEW v \in Workers, pc'[v] = "nd_insert", loc'[v].port \in UsedPorts
                PROVE  loc'[v].port \in contended'
    BY <1>5 DEF StoresLate
  <2>1. v # w /\ pc[v] = "nd_insert" /\ loc'[v] = loc[v] /\ loc'[v].port # p
    BY <1>1, <1>2
  <2>2. loc[v].port \in contended
    BY <2>1 DEF RaceInv, StoresLate
  <2>. QED  BY <1>4, <2>1, <2>2
<1>8. OnlyRacersShare'
  <2>. SUFFICES ASSUME NEW m \in RelayNames, NEW n \in RelayNames, NEW c \in DroneNames, NEW d \in DroneNames,
                       Registered(m, c), Registered(n, d), drones[active[m]][c] = drones[active[n]][d], ~ (m = n /\ c = d)
                PROVE  drones[active[m]][c] \in contended'
    BY <1>1 DEF OnlyRacersShare, Registered, Online
  <2>1. drones[active[m]][c] \in contended
    BY DEF RaceInv, OnlyRacersShare
  <2>2. drones[active[m]][c] \in UsedPorts
    BY DEF UsedPorts, Registered, Online, RaceInv, TypeInv, TypeOK
  <2>3. drones[active[m]][c] # p
    BY <1>1, <2>2
  <2>. QED  BY <1>4, <2>1, <2>3
<1>. QED  BY <1>6, <1>7, <1>8

\* A port that is stored while somebody has it, or has chosen it, is contended.
LEMMA InsertRaces ==
  ASSUME RaceInv, NEW w \in Workers, NewDroneInsert(w)
  PROVE  BothChose' /\ StoresLate' /\ OnlyRacersShare'
<1>. DEFINE r == loc[w].relay  e == loc[w].drone  p == loc[w].port
<1>1. /\ pc[w] = "nd_insert" /\ pc' = [pc EXCEPT ![w] = "nd_stream"]
      /\ loc' = loc /\ active' = active /\ drones' = [drones EXCEPT ![r][e] = p]
  BY DEF NewDroneInsert, Step
<1>2. r \in RelayObjs /\ e \in DroneNames /\ p \in Ports
  BY <1>1 DEF RaceInv, TypeInv, KnownRequest, AddSteps
<1>3. \A v \in Workers : pc'[v] = "nd_insert" => v # w /\ pc[v] = "nd_insert"
  BY <1>1 DEF RaceInv, TypeInv, TypeOK, Procs
<1>4. contended' = contended
  BY DEF NewDroneInsert
<1>5. \A n \in RelayNames, d \in DroneNames :
        Registered(n, d)' => \/ active[n] = r /\ d = e /\ drones'[active[n]][d] = p
                             \/ Registered(n, d) /\ drones'[active[n]][d] = drones[active[n]][d]
  <2>. TAKE n \in RelayNames, d \in DroneNames
  <2>. HAVE Registered(n, d)'
  <2>1. active[n] \in RelayObjs /\ active[n] # NULL /\ drones'[active[n]][d] # NULL
    BY <1>1 DEF Registered, Online, RaceInv, TypeInv, TypeOK
  <2>2. CASE active[n] = r /\ d = e
    <3>1. drones'[r][e] = p
      BY <1>1, <1>2 DEF RaceInv, TypeInv, TypeOK
    <3>. QED  BY <2>2, <3>1
  <2>3. CASE ~ (active[n] = r /\ d = e)
    <3>1. drones'[active[n]][d] = drones[active[n]][d]
      BY <1>1, <1>2, <2>1, <2>3 DEF RaceInv, TypeInv, TypeOK
    <3>. QED  BY <2>1, <3>1 DEF Registered, Online
  <2>. QED  BY <2>2, <2>3
<1>6. \A n \in RelayNames, d \in DroneNames :
        Registered(n, d) /\ drones[active[n]][d] = p => p \in contended
  BY <1>1, <1>2 DEF RaceInv, StoresLate, UsedPorts
<1>7. BothChose'
  BY <1>1, <1>3, <1>4 DEF BothChose, RaceInv
<1>8. StoresLate'
  <2>. SUFFICES ASSUME NEW v \in Workers, pc'[v] = "nd_insert", (loc[v].port \in UsedPorts)'
                PROVE  loc[v].port \in contended
    BY <1>1, <1>4 DEF StoresLate
  <2>1. v # w /\ pc[v] = "nd_insert" /\ loc'[v] = loc[v]
    BY <1>1, <1>3
  <2>2. PICK n \in RelayNames, d \in DroneNames : Registered(n, d)' /\ drones'[active[n]][d] = loc[v].port
    BY <1>1, <2>1 DEF UsedPorts
  <2>3. CASE drones'[active[n]][d] = p
    BY <1>1, <2>1, <2>2, <2>3 DEF RaceInv, BothChose
  <2>4. CASE Registered(n, d) /\ drones'[active[n]][d] = drones[active[n]][d]
    <3>1. loc[v].port \in UsedPorts
      BY <2>2, <2>4, <2>1 DEF UsedPorts, RaceInv, TypeInv, KnownRequest
    <3>. QED  BY <2>1, <3>1 DEF RaceInv, StoresLate
  <2>. QED  BY <1>5, <2>2, <2>3, <2>4
<1>9. OnlyRacersShare'
  <2>. SUFFICES ASSUME NEW m \in RelayNames, NEW n \in RelayNames, NEW c \in DroneNames, NEW d \in DroneNames,
                       Registered(m, c)', Registered(n, d)', drones'[active[m]][c] = drones'[active[n]][d],
                       ~ (m = n /\ c = d)
                PROVE  drones'[active[m]][c] \in contended
    BY <1>1, <1>4 DEF OnlyRacersShare
  <2>. DEFINE New(k, b) == active[k] = r /\ b = e /\ drones'[active[k]][b] = p
              Old(k, b) == Registered(k, b) /\ drones'[active[k]][b] = drones[active[k]][b]
  <2>1. (New(m, c) \/ Old(m, c)) /\ (New(n, d) \/ Old(n, d))
    BY <1>5
  <2>2. ~ (New(m, c) /\ New(n, d))
    <3>. SUFFICES ASSUME New(m, c), New(n, d) PROVE FALSE
      OBVIOUS
    <3>1. m = n
      BY <1>2, OneName, RegistryAssumption DEF RaceInv
    <3>. QED  BY <3>1
  <2>3. CASE Old(m, c) /\ Old(n, d)
    BY <2>3 DEF RaceInv, OnlyRacersShare
  <2>4. CASE New(m, c) /\ Old(n, d)
    BY <1>6, <2>4
  <2>5. CASE Old(m, c) /\ New(n, d)
    BY <1>6, <2>5
  <2>. QED  BY <2>1, <2>2, <2>3, <2>4, <2>5
<1>. QED  BY <1>7, <1>8, <1>9

(* Every other step chooses no port, stores none and lets drones only go.  *)

LEMMA RaceStep == RaceInv /\ [Next]_vars => RaceInv'
<1>. SUFFICES ASSUME RaceInv, [Next]_vars PROVE RaceInv'
  OBVIOUS
<1>1. TypeInv'
  BY TypeStep DEF RaceInv
<1>2. CASE UNCHANGED vars
  BY <1>1, <1>2 DEF vars, RaceInv, OwnName, BothChose, StoresLate, OnlyRacersShare, UsedPorts, Registered, Online
<1>3. CASE Next
  <2>. DEFINE Quiet ==
         /\ contended' = contended
         /\ \A w \in Workers : pc'[w] = "nd_insert" => pc[w] = "nd_insert" /\ loc'[w] = loc[w]
         /\ \A n \in RelayNames, d \in DroneNames :
              Registered(n, d)' => Registered(n, d) /\ drones'[active'[n]][d] = drones[active[n]][d]
  <2>1. Quiet /\ OwnName' => RaceInv'
    BY <1>1, NothingChosen DEF RaceInv
  <2>2. UNCHANGED <<active, owner>> => OwnName'
    BY DEF RaceInv, OwnName, Online
  <2>3. ASSUME NEW w \in Workers, HandshakeStore(w) PROVE RaceInv'
    <3>. DEFINE n == loc[w].name
    <3>1. PICK r \in FreeRelays :
            /\ active' = [active EXCEPT ![n] = r]
            /\ owner' = [owner EXCEPT ![r] = n]
            /\ drones' = [drones EXCEPT ![r] = [d \in DroneNames |-> NULL]]
            /\ pc' = [pc EXCEPT ![w] = "idle", ![r] = "watch"]
            /\ loc' = [loc EXCEPT ![w] = NoLoc, ![r] = Local(NULL, NULL, r, NULL)]
            /\ contended' = contended
      BY <2>3 DEF HandshakeStore
    <3>2. n \in RelayNames /\ r \in RelayObjs /\ \A m \in RelayNames : active[m] # r
      BY <2>3 DEF HandshakeStore, FreeRelays, RaceInv, TypeInv, KnownRequest
    <3>3. \A v \in Workers : pc'[v] = "nd_insert" => pc[v] = "nd_insert" /\ loc'[v] = loc[v]
      BY <3>1, <3>2, RegistryAssumption DEF RaceInv, TypeInv, TypeOK, Procs
    <3>4. \A m \in RelayNames, d \in DroneNames :
            Registered(m, d)' => m # n /\ Registered(m, d) /\ drones'[active'[m]][d] = drones[active[m]][d]
      BY <3>1, <3>2 DEF Registered, Online, RaceInv, TypeInv, TypeOK
    <3>5. OwnName'
      BY <3>1, <3>2 DEF OwnName, Online, RaceInv, TypeInv, TypeOK
    <3>. QED  BY <2>1, <3>1, <3>3, <3>4, <3>5
  <2>4. ASSUME NEW w \in Workers, NewDroneScan(w) PROVE RaceInv'
    BY <1>1, <2>2, <2>4, ScanRaces DEF RaceInv, NewDroneScan, TakeLowest, registry
  <2>5. ASSUME NEW w \in Workers, NewDroneInsert(w) PROVE RaceInv'
    BY <1>1, <2>2, <2>5, InsertRaces DEF RaceInv, NewDroneInsert
  <2>6. ASSUME NEW n \in RelayNames, Heartbeat(n) PROVE RaceInv'
    <3>1. Quiet
      BY <2>6, RegistryAssumption DEF Heartbeat, RaceInv, TypeInv, TypeOK, KnownRequest, Procs, registry, Registered, Online
    <3>2. UNCHANGED <<active, owner>>
      BY <2>6 DEF Heartbeat, registry
    <3>. QED  BY <2>1, <2>2, <3>1, <3>2
  <2>7. ASSUME NEW w \in Workers, NEW n \in RelayNames, Handshake(w, n) PROVE RaceInv'
    <3>1. Quiet
      BY <2>7, RegistryAssumption DEF Handshake, Step, RaceInv, TypeInv, TypeOK, KnownRequest, Procs, registry, Registered, Online
    <3>2. UNCHANGED <<active, owner>>
      BY <2>7 DEF Handshake, Step, registry
    <3>. QED  BY <2>1, <2>2, <3>1, <3>2
  <2>8. ASSUME NEW w \in Workers, NEW n \in RelayNames, NEW d \in DroneNames, NewDrone(w, n, d) PROVE RaceInv'
    <3>1. Quiet
      BY <2>8, RegistryAssumption DEF NewDrone, Step, RaceInv, TypeInv, TypeOK, KnownRequest, Procs, registry, Registered, Online
    <3>2. UNCHANGED <<active, owner>>
      BY <2>8 DEF NewDrone, Step, registry
    <3>. QED  BY <2>1, <2>2, <3>1, <3>2
  <2>9. ASSUME NEW w \in Workers, NEW n \in RelayNames, NEW d \in DroneNames, Disconnected(w, n, d) PROVE RaceInv'
    <3>1. Quiet
      BY <2>9, RegistryAssumption DEF Disconnected, Step, RaceInv, TypeInv, TypeOK, KnownRequest, Procs, registry, Registered, Online
    <3>2. UNCHANGED <<active, owner>>
      BY <2>9 DEF Disconnected, Step, registry
    <3>. QED  BY <2>1, <2>2, <3>1, <3>2
  <2>10. ASSUME NEW w \in Workers, NewDronePop(w) PROVE RaceInv'
    <3>1. Quiet
      BY <2>10, RegistryAssumption DEF NewDronePop, Step, RaceInv, TypeInv, TypeOK, KnownRequest, Procs, registry, Registered, Online
    <3>2. UNCHANGED <<active, owner>>
      BY <2>10 DEF NewDronePop, Step, registry
    <3>. QED  BY <2>1, <2>2, <3>1, <3>2
  <2>11. ASSUME NEW w \in Workers, NewDroneFails(w) PROVE RaceInv'
    <3>1. Quiet
      BY <2>11, RegistryAssumption DEF NewDroneFails, Raise, RaceInv, TypeInv, TypeOK, KnownRequest, Procs, registry, Registered, Online
    <3>2. UNCHANGED <<active, owner>>
      BY <2>11 DEF NewDroneFails, Raise, registry
    <3>. QED  BY <2>1, <2>2, <3>1, <3>2
  <2>12. ASSUME NEW w \in Workers, NewDroneStream(w) PROVE RaceInv'
    <3>1. Quiet
      BY <2>12, RegistryAssumption DEF NewDroneStream, Step, RaceInv, TypeInv, TypeOK, KnownRequest, Procs, registry, Registered, Online
    <3>2. UNCHANGED <<active, owner>>
      BY <2>12 DEF NewDroneStream, Step, registry
    <3>. QED  BY <2>1, <2>2, <3>1, <3>2
  <2>25. ASSUME NEW w \in Workers, NewDroneStore(w) PROVE RaceInv'
    <3>1. Quiet
      BY <2>25, RegistryAssumption DEF NewDroneStore, Return, RaceInv, TypeInv, TypeOK, KnownRequest, Procs, registry, Registered, Online
    <3>2. UNCHANGED <<active, owner>>
      BY <2>25 DEF NewDroneStore, Return, registry
    <3>. QED  BY <2>1, <2>2, <3>1, <3>2
  <2>13. ASSUME NEW q \in Procs, DcClose(q) PROVE RaceInv'
    <3>1. Quiet
      BY <2>13, RegistryAssumption DEF DcClose, Step, RaceInv, TypeInv, TypeOK, KnownRequest, Procs, registry, Registered, Online
    <3>2. UNCHANGED <<active, owner>>
      BY <2>13 DEF DcClose, Step, registry
    <3>. QED  BY <2>1, <2>2, <3>1, <3>2
  <2>14. ASSUME NEW q \in Procs, DcUnlist(q) PROVE RaceInv'
    <3>1. Quiet
      BY <2>14, RegistryAssumption DEF DcUnlist, Step, RaceInv, TypeInv, TypeOK, KnownRequest, Procs, registry, Registered, Online
    <3>2. UNCHANGED <<active, owner>>
      BY <2>14 DEF DcUnlist, Step, registry
    <3>. QED  BY <2>1, <2>2, <3>1, <3>2
  <2>15. ASSUME NEW q \in Procs, DcDelete(q) PROVE RaceInv'
    <3>1. Quiet
      BY <2>15, RegistryAssumption DEF DcDelete, Return, RaceInv, TypeInv, TypeOK, KnownRequest, Procs, registry, Registered, Online
    <3>2. UNCHANGED <<active, owner>>
      BY <2>15 DEF DcDelete, Return, registry
    <3>. QED  BY <2>1, <2>2, <3>1, <3>2
  <2>16. ASSUME NEW q \in Procs, DcFails(q) PROVE RaceInv'
    <3>1. Quiet
      BY <2>16, RegistryAssumption DEF DcFails, Raise, RaceInv, TypeInv, TypeOK, KnownRequest, Procs, registry, Registered, Online
    <3>2. UNCHANGED <<active, owner>>
      BY <2>16 DEF DcFails, Raise, registry
    <3>. QED  BY <2>1, <2>2, <3>1, <3>2
  <2>17. ASSUME NEW r \in RelayObjs, WatchStamp(r) PROVE RaceInv'
    <3>1. Quiet
      BY <2>17, RegistryAssumption DEF WatchStamp, Step, RaceInv, TypeInv, TypeOK, KnownRequest, Procs, registry, Registered, Online
    <3>2. UNCHANGED <<active, owner>>
      BY <2>17 DEF WatchStamp, Step, registry
    <3>. QED  BY <2>1, <2>2, <3>1, <3>2
  <2>18. ASSUME NEW r \in RelayObjs, WatchAgain(r) PROVE RaceInv'
    <3>1. Quiet
      BY <2>18, RegistryAssumption DEF WatchAgain, Step, RaceInv, TypeInv, TypeOK, KnownRequest, Procs, registry, Registered, Online
    <3>2. UNCHANGED <<active, owner>>
      BY <2>18 DEF WatchAgain, Step, registry
    <3>. QED  BY <2>1, <2>2, <3>1, <3>2
  <2>19. ASSUME NEW r \in RelayObjs, WatchTimeOut(r) PROVE RaceInv'
    <3>1. Quiet
      BY <2>19, RegistryAssumption DEF WatchTimeOut, Step, RaceInv, TypeInv, TypeOK, KnownRequest, Procs, registry, Registered, Online
    <3>2. UNCHANGED <<active, owner>>
      BY <2>19 DEF WatchTimeOut, Step, registry
    <3>. QED  BY <2>1, <2>2, <3>1, <3>2
  <2>20. ASSUME NEW r \in RelayObjs, WatchNext(r) PROVE RaceInv'
    <3>1. Quiet
      BY <2>20, RegistryAssumption DEF WatchNext, Step, RaceInv, TypeInv, TypeOK, KnownRequest, Procs, registry, Registered, Online
    <3>2. UNCHANGED <<active, owner>>
      BY <2>20 DEF WatchNext, Step, registry
    <3>. QED  BY <2>1, <2>2, <3>1, <3>2
  <2>21. ASSUME NEW r \in RelayObjs, WatchDrop(r) PROVE RaceInv'
    <3>1. Quiet
      BY <2>21, RegistryAssumption DEF WatchDrop, RaceInv, TypeInv, TypeOK, KnownRequest, Procs, registry, Registered, Online
    <3>2. OwnName'
      BY <2>21 DEF WatchDrop, OwnName, Online, RaceInv, TypeInv, TypeOK
    <3>. QED  BY <2>1, <3>1, <3>2
  <2>22. ASSUME NEW r \in RelayObjs, WatchFails(r) PROVE RaceInv'
    <3>1. Quiet
      BY <2>22, RegistryAssumption DEF WatchFails, Raise, RaceInv, TypeInv, TypeOK, KnownRequest, Procs, registry, Registered, Online
    <3>2. UNCHANGED <<active, owner>>
      BY <2>22 DEF WatchFails, Raise, registry
    <3>. QED  BY <2>1, <2>2, <3>1, <3>2
  <2>23. ASSUME NEW s \in Streams, StreamBind(s) PROVE RaceInv'
    <3>1. Quiet
      BY <2>23, RegistryAssumption DEF StreamBind, RaceInv, TypeInv, TypeOK, KnownRequest, Procs, registry, Registered, Online
    <3>2. UNCHANGED <<active, owner>>
      BY <2>23 DEF StreamBind, registry
    <3>. QED  BY <2>1, <2>2, <3>1, <3>2
  <2>24. ASSUME NEW s \in Streams, StreamExit(s) PROVE RaceInv'
    <3>1. Quiet
      BY <2>24, RegistryAssumption DEF StreamExit, RaceInv, TypeInv, TypeOK, KnownRequest, Procs, registry, Registered, Online
    <3>2. UNCHANGED <<active, owner>>
      BY <2>24 DEF StreamExit, registry
    <3>. QED  BY <2>1, <2>2, <3>1, <3>2
  <2>. QED
    BY <1>3, <2>3, <2>4, <2>5, <2>6, <2>7, <2>8, <2>9, <2>10, <2>11, <2>12, <2>13, <2>14, <2>15, <2>16, <2>17, <2>18, <2>19, <2>20, <2>21, <2>22, <2>23, <2>24, <2>25
       DEF Next, Request, WorkerStep, DisconnectStep, WatcherStep
<1>. QED  BY <1>2, <1>3

\* Two drones share a video port only if their /new_drone requests raced for it,
\* under every liberty: whatever else overlaps, no port is given twice.
THEOREM OnlyRacesShare == Spec => []OnlyRacersShare
<1>1. Init => RaceInv
  BY InitTypes, RegistryAssumption
     DEF RaceInv, Init, OwnName, BothChose, StoresLate, OnlyRacersShare, UsedPorts, Registered, Online, Procs
<1>2. Spec => []RaceInv
  BY <1>1, RaceStep, PTL DEF Spec
<1>3. RaceInv => OnlyRacersShare
  BY DEF RaceInv
<1>. QED  BY <1>2, <1>3, PTL

-----------------------------------------------------------------------------
(* Every step of the registry is a step of PortLease or leaves held alone. *)

\* A drone's entry is written in a Relay object that is online as n ...
LEMMA HeldChanges ==
  ASSUME TypeOK, OwnName, NULL \notin RelayObjs,
         NEW n \in RelayNames, NEW d \in DroneNames, NEW v \in Ports \cup {NULL}, active[n] \in RelayObjs,
         active' = active, drones' = [drones EXCEPT ![active[n]][d] = v]
  PROVE  held' = [held EXCEPT ![n][d] = v]
<1>1. \A m \in RelayNames : m # n => active[m] # active[n]
  BY OneName
<1>2. \A m \in RelayNames, e \in DroneNames :
        held'[m][e] = IF m = n /\ e = d THEN v ELSE held[m][e]
  <2>. TAKE m \in RelayNames, e \in DroneNames
  <2>1. CASE ~ Online(m)
    BY <2>1 DEF held, Online
  <2>2. CASE Online(m) /\ m = n
    BY <2>2 DEF held, Online, TypeOK
  <2>3. CASE Online(m) /\ m # n
    BY <2>3, <1>1 DEF held, Online, TypeOK
  <2>. QED  BY <2>1, <2>2, <2>3
<1>3. \A m \in RelayNames : m # n => held'[m] = held[m]
  <2>. SUFFICES ASSUME NEW m \in RelayNames, m # n PROVE held'[m] = held[m]
    OBVIOUS
  <2>1. \A e \in DroneNames : held'[m][e] = held[m][e]
    BY <1>2
  <2>. QED  BY <2>1 DEF held
<1>4. held'[n] = [held[n] EXCEPT ![d] = v]
  <2>1. \A e \in DroneNames : held'[n][e] = IF e = d THEN v ELSE held[n][e]
    BY <1>2
  <2>. QED  BY <2>1 DEF held
<1>5. held \in [RelayNames -> {held[m] : m \in RelayNames}] /\ held' \in [RelayNames -> {held'[m] : m \in RelayNames}]
  BY DEF held
<1>. QED  BY <1>3, <1>4, <1>5

\* ... or in one that no name leads to any more.
LEMMA HeldStays ==
  ASSUME TypeOK, NEW r \in RelayObjs, \A n \in RelayNames : active[n] # r, NEW d, NEW v,
         active' = active, drones' = [drones EXCEPT ![r][d] = v]
  PROVE  held' = held
BY DEF held, Online, TypeOK

\* A relay appears without drones, or disappears.
LEMMA HeldForgets ==
  ASSUME NEW n \in RelayNames,
         \A m \in RelayNames : m # n => active'[m] = active[m] /\ (Online(m) => drones'[active[m]] = drones[active[m]]),
         active'[n] # NULL => \A d \in DroneNames : drones'[active'[n]][d] = NULL
  PROVE  Lease!Forget(n)
<1>1. \A m \in RelayNames : held'[m] = IF m = n THEN [d \in DroneNames |-> NULL] ELSE held[m]
  BY DEF held, Online
<1>. QED  BY <1>1, ZenonT(60) DEF held, Lease!Forget

LEMMA LeaseStep == PortInv /\ [Next]_vars => [Lease!Next]_held
<1>. SUFFICES ASSUME PortInv, [Next]_vars PROVE [Lease!Next]_held
  OBVIOUS
<1>. TypeOK /\ OwnName /\ NULL \notin RelayObjs
  BY RegistryAssumption DEF PortInv, TypeInv
<1>1. ASSUME UNCHANGED <<active, drones>> PROVE [Lease!Next]_held
  BY <1>1 DEF held, Online
<1>2. ASSUME NEW w \in Workers, HandshakeStore(w) PROVE [Lease!Next]_held
  <2>. DEFINE n == loc[w].name
  <2>1. n \in RelayNames
    BY <1>2 DEF HandshakeStore, PortInv, TypeInv, KnownRequest
  <2>2. PICK r \in FreeRelays : /\ active' = [active EXCEPT ![n] = r]
                                /\ drones' = [drones EXCEPT ![r] = [d \in DroneNames |-> NULL]]
    BY <1>2 DEF HandshakeStore
  <2>3. r \in RelayObjs /\ \A m \in RelayNames : active[m] # r
    BY DEF FreeRelays
  <2>4. Lease!Forget(n)
    BY <2>1, <2>2, <2>3, HeldForgets DEF TypeOK, Online
  <2>. QED  BY <2>1, <2>4 DEF Lease!Next
<1>3. ASSUME NEW w \in Workers, NewDronePop(w) PROVE [Lease!Next]_held
  <2>. DEFINE n == loc[w].name  d == loc[w].drone
  <2>1. n \in RelayNames /\ d \in DroneNames
    BY <1>3 DEF NewDronePop, Step, PortInv, TypeInv, KnownRequest, AddSteps
  <2>2. active[n] \in RelayObjs /\ Registered(n, d)
    BY <1>3, <2>1 DEF NewDronePop, Registered, Online, TypeOK
  <2>3. held' = [held EXCEPT ![n][d] = NULL]
    BY <1>3, <2>1, <2>2, HeldChanges DEF NewDronePop
  <2>4. Lease!Return(n, d)
    BY <2>1, <2>2, <2>3 DEF Lease!Return, held, Registered
  <2>. QED  BY <2>1, <2>4 DEF Lease!Next
<1>4. ASSUME NEW w \in Workers, NewDroneInsert(w) PROVE [Lease!Next]_held
  <2>. DEFINE r == loc[w].relay  d == loc[w].drone  p == loc[w].port
  <2>1. /\ r \in RelayObjs /\ d \in DroneNames /\ p \in Ports
        /\ p \notin UsedPorts /\ drones[r][d] = NULL
        /\ active' = active /\ drones' = [drones EXCEPT ![r][d] = p]
    BY <1>4 DEF NewDroneInsert, Step, PortInv, TypeInv, KnownRequest, AddSteps, Reserved
  <2>2. CASE \A n \in RelayNames : active[n] # r
    BY <2>1, <2>2, HeldStays
  <2>3. CASE \E n \in RelayNames : active[n] = r
    <3>1. PICK n \in RelayNames : active[n] = r
      BY <2>3
    <3>2. held' = [held EXCEPT ![n][d] = p]
      <4>1. active[n] \in RelayObjs /\ d \in DroneNames /\ p \in Ports \cup {NULL}
        BY <2>1, <3>1
      <4>2. active' = active /\ drones' = [drones EXCEPT ![active[n]][d] = p]
        BY <2>1, <3>1
      <4>. QED  BY <4>1, <4>2, HeldChanges, ZenonT(60)
    <3>3. held[n][d] = NULL
      BY <2>1, <3>1 DEF held
    <3>4. p # NULL
      BY <2>1, RegistryAssumption
    <3>5. \A m \in RelayNames, e \in DroneNames : held[m][e] # p
      BY <2>1, <3>4 DEF held, UsedPorts, Registered, Online
    <3>. QED  BY <2>1, <3>2, <3>3, <3>5 DEF Lease!Next, Lease!Grant
  <2>. QED  BY <2>2, <2>3
<1>5. ASSUME NEW q \in Procs, DcDelete(q) PROVE [Lease!Next]_held
  <2>. DEFINE r == loc[q].relay  d == loc[q].drone
  <2>1. /\ drones[r][d] # NULL
        /\ active' = active /\ drones' = [drones EXCEPT ![r][d] = NULL]
    BY <1>5 DEF DcDelete
  <2>2. CASE r \notin RelayObjs
    BY <2>1, <2>2 DEF held, Online, TypeOK
  <2>3. CASE r \in RelayObjs /\ \A n \in RelayNames : active[n] # r
    BY <2>1, <2>3, HeldStays
  <2>4. CASE r \in RelayObjs /\ d \notin DroneNames
    BY <2>1, <2>4 DEF held, Online, TypeOK
  <2>5. CASE r \in RelayObjs /\ d \in DroneNames /\ \E n \in RelayNames : active[n] = r
    <3>1. PICK n \in RelayNames : active[n] = r
      BY <2>5
    <3>2. held' = [held EXCEPT ![n][d] = NULL]
      BY <2>1, <2>5, <3>1, HeldChanges
    <3>3. held[n][d] # NULL
      BY <2>1, <2>5, <3>1 DEF held, Online
    <3>. QED  BY <2>5, <3>2, <3>3 DEF Lease!Next, Lease!Return
  <2>. QED  BY <2>2, <2>3, <2>4, <2>5
<1>6. ASSUME NEW r \in RelayObjs, WatchDrop(r) PROVE [Lease!Next]_held
  <2>1. active' = [active EXCEPT ![owner[r]] = NULL] /\ drones' = drones
    BY <1>6 DEF WatchDrop
  <2>2. CASE owner[r] \in RelayNames
    <3>1. Lease!Forget(owner[r])
      BY <2>1, <2>2, HeldForgets DEF TypeOK
    <3>. QED  BY <2>2, <3>1 DEF Lease!Next
  <2>3. CASE owner[r] \notin RelayNames
    BY <2>1, <2>3, <1>1 DEF TypeOK
  <2>. QED  BY <2>2, <2>3
<1>. QED
  BY <1>1, <1>2, <1>3, <1>4, <1>5, <1>6, ZenonT(60)
     DEF Next, vars, registry, streams, Request, WorkerStep, DisconnectStep, WatcherStep, Raise,
         Heartbeat, Handshake, NewDrone, NewDroneScan, TakeLowest, NewDroneFails, NewDroneStream, NewDroneStore, Disconnected,
         DcClose, DcUnlist, DcFails, WatchStamp, WatchAgain, WatchTimeOut, WatchNext, WatchFails, StreamBind, StreamExit

\* The registry implements PortLease as long as no two /new_drone requests overlap.
THEOREM ImplementsLease ==
  ASSUME "overlap_add" \notin Env
  PROVE  Spec => LeaseSpec
<1>1. Init => Lease!Init
  BY DEF Init, Lease!Init, held, Online
<1>2. Spec => []PortInv
  BY InitPorts, PortStep, PTL DEF Spec
<1>. QED  BY <1>1, <1>2, LeaseStep, PTL DEF Spec, LeaseSpec, Lease!Spec
=============================================================================
