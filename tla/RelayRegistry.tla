--------------------------- MODULE RelayRegistry ---------------------------
(***************************************************************************)
(* The backend's registry of relays, drones and video sessions             *)
(* (backend/routes/relay_routes.py, backend/relaybox.py).                  *)
(*                                                                         *)
(* The registry is three dictionaries shared, without a lock, by the       *)
(* threads that serve the relays' requests and by one timeout_check thread *)
(* per relay.  A handler is a sequence of steps: between two of them any   *)
(* other thread may run.  A KeyError ends a request with a 500 answer, but *)
(* ends a timeout_check thread for good.                                   *)
(*                                                                         *)
(* Env is the set of liberties the relay boxes and the platform take.      *)
(* Each one allows an overlap that the code does not exclude; a run whose  *)
(* Env lacks a liberty shows what holds where that overlap does not occur. *)
(***************************************************************************)
EXTENDS Naturals, FiniteSets

CONSTANTS
  RelayNames,   \* names relay boxes handshake with
  DroneNames,   \* names a relay box gives its drones
  Ports,        \* video ports add_drone chooses from
  Workers,      \* request threads of the web server
  RelayObjs,    \* Relay objects (an object no thread refers to is reused)
  Streams,      \* DroneVideoStream objects (reused likewise)
  Env,          \* liberties, see below
  NULL

Liberties ==
  { "overlap_add",        \* two /new_drone requests are served at once
    "overlap_drone",      \* two requests about one drone are served at once
    "overlap_handshake",  \* two handshakes of one relay are served at once
    "overlap_timeout",    \* a relay's requests are served while it times out
    "reregister",         \* /new_drone for a drone that is registered
    "linger" }            \* a closed socket holds its port until its thread returns

ASSUME RegistryAssumption ==
  /\ Ports \subseteq Nat
  /\ Env \subseteq Liberties
  /\ Workers \cap RelayObjs = {}
  /\ NULL \notin Ports \cup RelayObjs \cup Streams \cup RelayNames \cup DroneNames

VARIABLES
  active,       \* active_relays: relay name -> Relay object
  owner,        \* Relay.name
  drones,       \* Relay.drones: drone name -> its video port
  beat,         \* Relay.last_heartbeat_received as timeout_check sees it
  sessions,     \* active_sessions: port -> DroneVideoStream object
  streamState,  \* where the thread of a DroneVideoStream object is
  streamPort,   \* DroneVideoStream.video_port
  pc,           \* next step of each request thread and timeout_check thread
  loc,          \* its local variables
  todo,         \* the drones a timeout_check thread has still to disconnect
  contended     \* history: ports two requests had chosen before either stored one

registry == <<active, owner, drones>>
streams  == <<sessions, streamState, streamPort>>
vars     == <<active, owner, drones, beat, sessions, streamState, streamPort, pc, loc, todo, contended>>

Procs    == Workers \cup RelayObjs
Locals   == [name  : RelayNames \cup {NULL}, drone : DroneNames \cup {NULL},
             relay : RelayObjs \cup {NULL},  port  : Ports \cup {NULL}, stream : Streams \cup {NULL}]
Local(n, d, r, p) == [name |-> n, drone |-> d, relay |-> r, port |-> p, stream |-> NULL]
NoLoc    == Local(NULL, NULL, NULL, NULL)
AddSteps == {"nd_pop", "nd_scan", "nd_insert", "nd_stream", "nd_store"}
DcSteps  == {"dc_close", "dc_unlist", "dc_delete"}
Control  == {"idle", "crashed", "hs_store", "watch", "sleep", "next"} \cup AddSteps \cup DcSteps
Removing == {"next"} \cup DcSteps   \* timeout_check found its relay silent
StreamStates == {"starting", "cancelled", "bound", "closing", "failed", "dead"}

-----------------------------------------------------------------------------
(* State predicates.                                                       *)

Online(n)        == active[n] # NULL
Registered(n, d) == Online(n) /\ drones[active[n]][d] # NULL

\* The ports of all drones of all online relays.
UsedPorts ==
  { p \in Ports : \E n \in RelayNames, d \in DroneNames : Registered(n, d) /\ drones[active[n]][d] = p }

\* Objects nobody refers to: the interpreter may give their identity to new ones.
FreeRelays ==
  { r \in RelayObjs : /\ pc[r] \in {"idle", "crashed"}
                      /\ \A n \in RelayNames : active[n] # r
                      /\ \A w \in Workers : loc[w].relay # r }
FreeStreams ==
  { s \in Streams : /\ streamState[s] \in {"failed", "dead"}
                    /\ \A p \in Ports : sessions[p] # s
                    /\ \A w \in Workers : loc[w].stream # s }

\* Model bounds: a request is taken only if the objects it creates exist.
RelayBound  == Cardinality(FreeRelays) > Cardinality({w \in Workers : pc[w] = "hs_store"})
StreamBound == Cardinality(FreeStreams) > Cardinality({w \in Workers : pc[w] \in AddSteps \ {"nd_store"}})

Serving(w, n)        == pc[w] # "idle" /\ loc[w].name = n
NobodyAbout(n, d)    == \A w \in Workers : ~ (Serving(w, n) /\ loc[w].drone = d)
NobodyAdds           == \A w \in Workers : pc[w] \notin AddSteps
NobodyShakes(n)      == \A w \in Workers : ~ (pc[w] = "hs_store" /\ loc[w].name = n)
\* The relay's last heartbeat is the one its timeout_check has already seen.
Overdue(n)           == Online(n) /\ (beat[active[n]] = "stamped" \/ pc[active[n]] \in Removing)

\* The liberties, as guards on when a request may arrive.
MayAdd           == "overlap_add" \in Env \/ NobodyAdds
MayAsk(n, d)     == /\ "overlap_drone" \in Env \/ NobodyAbout(n, d)
                    /\ "overlap_timeout" \in Env \/ ~ Overdue(n)
MayReregister(n, d) == "reregister" \in Env \/ ~ Registered(n, d)
MayShake(n)      == "overlap_handshake" \in Env \/ NobodyShakes(n)
MayTimeOut(r)    == "overlap_timeout" \in Env \/ \A w \in Workers : ~ Serving(w, owner[r])

Step(p, from, to) == pc[p] = from /\ pc' = [pc EXCEPT ![p] = to]

\* The thread's request is answered, or its disconnect_drone call returns.
Return(p) == /\ pc' = [pc EXCEPT ![p] = IF p \in Workers THEN "idle" ELSE "next"]
             /\ loc' = [loc EXCEPT ![p] = IF p \in Workers THEN NoLoc ELSE Local(NULL, NULL, p, NULL)]

\* An exception: a 500 answer for a request, the end of a timeout_check thread.
Raise(p) == /\ pc' = [pc EXCEPT ![p] = IF p \in Workers THEN "idle" ELSE "crashed"]
            /\ loc' = [loc EXCEPT ![p] = NoLoc]
            /\ todo' = IF p \in Workers THEN todo ELSE [todo EXCEPT ![p] = {}]
            /\ UNCHANGED <<registry, beat, contended, streams>>

-----------------------------------------------------------------------------
Init ==
  /\ active = [n \in RelayNames |-> NULL]
  /\ owner = [r \in RelayObjs |-> NULL]
  /\ drones = [r \in RelayObjs |-> [d \in DroneNames |-> NULL]]
  /\ beat = [r \in RelayObjs |-> "never"]
  /\ sessions = [p \in Ports |-> NULL]
  /\ streamState = [s \in Streams |-> "dead"]
  /\ streamPort = [s \in Streams |-> NULL]
  /\ pc = [p \in Procs |-> "idle"]
  /\ loc = [p \in Procs |-> NoLoc]
  /\ todo = [r \in RelayObjs |-> {}]
  /\ contended = {}

(* POST /handshake.  An online relay only gets a new token.                *)

\* Seeded fault: no test whether the relay is online.
Handshake_NoTest(w, n) ==
  /\ Step(w, "idle", "hs_store")
  /\ MayShake(n) /\ RelayBound
  /\ loc' = [loc EXCEPT ![w] = Local(n, NULL, NULL, NULL)]
  /\ UNCHANGED <<registry, beat, contended, streams, todo>>

Handshake(w, n) ==
  /\ Step(w, "idle", "hs_store")
  /\ ~ Online(n) /\ MayShake(n) /\ RelayBound
  /\ loc' = [loc EXCEPT ![w] = Local(n, NULL, NULL, NULL)]
  /\ UNCHANGED <<registry, beat, contended, streams, todo>>

HandshakeStore(w) ==
  LET n == loc[w].name IN
  \E r \in FreeRelays :
    /\ pc[w] = "hs_store"
    /\ active' = [active EXCEPT ![n] = r]
    /\ owner' = [owner EXCEPT ![r] = n]
    /\ drones' = [drones EXCEPT ![r] = [d \in DroneNames |-> NULL]]
    /\ beat' = [beat EXCEPT ![r] = "never"]
    /\ pc' = [pc EXCEPT ![w] = "idle", ![r] = "watch"]
    /\ loc' = [loc EXCEPT ![w] = NoLoc, ![r] = Local(NULL, NULL, r, NULL)]
    /\ todo' = [todo EXCEPT ![r] = {}]
    /\ UNCHANGED <<streams, contended>>

(* GET /heartbeat.  A heartbeat in the second of the previous one leaves   *)
(* the stored value as it is: a stuttering step, as is one that comes when *)
(* timeout_check does not read the value any more.                         *)

Heartbeat(n) ==
  /\ Online(n)
  /\ beat' = [beat EXCEPT ![active[n]] = IF pc[active[n]] \in {"watch", "sleep"} THEN "beat" ELSE @]
  /\ UNCHANGED <<registry, streams, pc, loc, todo, contended>>

(* GET /new_drone and Relay.add_drone.                                     *)

NewDrone(w, n, d) ==
  /\ Step(w, "idle", IF Registered(n, d) THEN "nd_pop" ELSE "nd_scan")
  /\ Online(n) /\ MayAsk(n, d) /\ MayAdd /\ MayReregister(n, d) /\ StreamBound
  /\ loc' = [loc EXCEPT ![w] = Local(n, d, NULL, NULL)]
  /\ UNCHANGED <<registry, beat, contended, streams, todo>>

\* disconnect_drone(relay, ..) always fails here: relay is assigned further
\* down, so it is unbound.  The handler only forgets the drone.
NewDronePop(w) ==
  LET n == loc[w].name  d == loc[w].drone IN
  /\ Step(w, "nd_pop", "nd_scan")
  /\ Registered(n, d)
  /\ drones' = [drones EXCEPT ![active[n]][d] = NULL]
  /\ UNCHANGED <<active, owner, beat, contended, streams, loc, todo>>

\* The scan and the insertion are two steps without a lock: two requests may
\* choose one port.  The last choice of a port begins a new use of it.
TakeLowest(w, free) ==
  LET n == loc[w].name IN
  /\ Step(w, "nd_scan", "nd_insert")
  /\ Online(n)
  /\ \E p \in free :
       /\ \A q \in free : p <= q
       /\ loc' = [loc EXCEPT ![w] = Local(n, loc[w].drone, active[n], p)]
       /\ contended' = IF \E v \in Workers : pc[v] = "nd_insert" /\ loc[v].port = p
                       THEN contended \cup {p} ELSE contended \ {p}
  /\ UNCHANGED <<registry, beat, streams, todo>>

\* Seeded faults: the range of ports shifted by one; the ports of sessions, not
\* those of drones, looked at.
NewDroneScan_Shifted(w)   == TakeLowest(w, {p + 1 : p \in Ports} \ UsedPorts)
NewDroneScan_BySession(w) == TakeLowest(w, {p \in Ports : sessions[p] = NULL})

\* The lowest port that no drone of an online relay has.
NewDroneScan(w) == TakeLowest(w, Ports \ UsedPorts)

\* The relay or the drone is gone (KeyError), all ports are taken (ValueError),
\* or a dictionary changes while it is being scanned (RuntimeError).
NewDroneFails(w) ==
  LET n == loc[w].name  d == loc[w].drone IN
  /\ \/ pc[w] = "nd_pop" /\ ~ Registered(n, d)
     \/ pc[w] = "nd_scan" /\ (~ Online(n) \/ Ports \subseteq UsedPorts)
     \/ pc[w] = "nd_scan" /\ \E p \in Procs \ {w} : pc[p] \in {"hs_store", "nd_pop", "nd_insert", "dc_delete", "next"}
  /\ Raise(w)

NewDroneInsert(w) ==
  /\ Step(w, "nd_insert", "nd_stream")
  /\ drones' = [drones EXCEPT ![loc[w].relay][loc[w].drone] = loc[w].port]
  /\ UNCHANGED <<active, owner, beat, contended, streams, loc, todo>>

\* DroneVideoStream(port) starts the stream's thread ...
NewDroneStream(w) ==
  LET p == loc[w].port IN
  \E s \in FreeStreams :
    /\ Step(w, "nd_stream", "nd_store")
    /\ streamState' = [streamState EXCEPT ![s] = "starting"]
    /\ streamPort' = [streamPort EXCEPT ![s] = p]
    /\ loc' = [loc EXCEPT ![w].stream = s]
    /\ UNCHANGED <<registry, beat, contended, sessions, todo>>

\* ... and the session replaces whatever was stored under that port.
NewDroneStore(w) ==
  /\ pc[w] = "nd_store"
  /\ sessions' = [sessions EXCEPT ![loc[w].port] = loc[w].stream]
  /\ Return(w)
  /\ UNCHANGED <<registry, beat, contended, streamState, streamPort, todo>>

(* POST /drone/disconnected, and disconnect_drone, which timeout_check     *)
(* calls as well.                                                          *)

Disconnected(w, n, d) ==
  /\ Step(w, "idle", "dc_close")
  /\ Registered(n, d) /\ MayAsk(n, d)
  /\ loc' = [loc EXCEPT ![w] = Local(n, d, active[n], drones[active[n]][d])]
  /\ UNCHANGED <<registry, beat, contended, streams, todo>>

\* active = False, then socket.close(): there is no socket before the stream's
\* thread has made one, and close does not end a receive that is under way.
Closed(s) ==
  IF streamState[s] = "starting" THEN {"cancelled"}
  ELSE IF streamState[s] \in {"cancelled", "closing"} THEN {streamState[s]}
  ELSE IF streamState[s] = "bound" /\ "linger" \in Env THEN {"closing", "dead"}
  ELSE {"dead"}

\* Seeded faults: the drone is deleted before its session; the stream is not closed.
DcClose_DeletesFirst(p) ==
  LET s == sessions[loc[p].port] IN
  /\ Step(p, "dc_close", "dc_unlist")
  /\ s # NULL
  /\ \E c \in Closed(s) : streamState' = [streamState EXCEPT ![s] = c]
  /\ drones' = [drones EXCEPT ![loc[p].relay][loc[p].drone] = NULL]
  /\ UNCHANGED <<active, owner, beat, contended, sessions, streamPort, loc, todo>>
DcClose_NotClosed(p) ==
  /\ Step(p, "dc_close", "dc_unlist")
  /\ sessions[loc[p].port] # NULL
  /\ UNCHANGED <<registry, beat, contended, streams, loc, todo>>

DcClose(p) ==
  LET s == sessions[loc[p].port] IN
  /\ Step(p, "dc_close", "dc_unlist")
  /\ s # NULL
  /\ \E c \in Closed(s) :
       /\ streamState' = [streamState EXCEPT ![s] = c]
       /\ streamPort' = [streamPort EXCEPT ![s] = IF c = "dead" THEN NULL ELSE @]
  /\ UNCHANGED <<registry, beat, contended, sessions, loc, todo>>

DcUnlist(p) ==
  /\ Step(p, "dc_unlist", "dc_delete")
  /\ sessions[loc[p].port] # NULL
  /\ sessions' = [sessions EXCEPT ![loc[p].port] = NULL]
  /\ UNCHANGED <<registry, beat, contended, streamState, streamPort, loc, todo>>

DcDelete(p) ==
  LET r == loc[p].relay  d == loc[p].drone IN
  /\ pc[p] = "dc_delete"
  /\ drones[r][d] # NULL
  /\ drones' = [drones EXCEPT ![r][d] = NULL]
  /\ Return(p)
  /\ UNCHANGED <<active, owner, beat, contended, streams, todo>>

\* The session or the drone is no longer there: KeyError.
DcFails(p) ==
  /\ \/ pc[p] \in {"dc_close", "dc_unlist"} /\ sessions[loc[p].port] = NULL
     \/ pc[p] = "dc_delete" /\ drones[loc[p].relay][loc[p].drone] = NULL
  /\ Raise(p)

(* timeout_check, one thread per Relay object.                             *)

\* TIME_STAMP; nothing happens before the first heartbeat.
WatchStamp(r) ==
  /\ Step(r, "watch", "sleep")
  /\ beat[r] # "never"
  /\ beat' = [beat EXCEPT ![r] = "stamped"]
  /\ UNCHANGED <<registry, streams, loc, todo, contended>>

WatchAgain(r) ==
  /\ Step(r, "sleep", "watch")
  /\ beat[r] = "beat"
  /\ UNCHANGED <<registry, beat, contended, streams, loc, todo>>

\* No heartbeat during the sleep: the drones of this moment will be removed.
WatchTimeOut(r) ==
  /\ Step(r, "sleep", "next")
  /\ beat[r] = "stamped" /\ MayTimeOut(r)
  /\ todo' = [todo EXCEPT ![r] = {d \in DroneNames : drones[r][d] # NULL}]
  /\ UNCHANGED <<registry, beat, contended, streams, loc>>

\* Seeded fault: the drone is not taken off the list.
WatchNext_Repeats(r) ==
  \E d \in todo[r] :
    /\ Step(r, "next", "dc_close")
    /\ drones[r][d] # NULL
    /\ loc' = [loc EXCEPT ![r] = Local(NULL, d, r, drones[r][d])]
    /\ UNCHANGED <<registry, beat, contended, streams, todo>>

WatchNext(r) ==
  \E d \in todo[r] :
    /\ Step(r, "next", "dc_close")
    /\ drones[r][d] # NULL
    /\ todo' = [todo EXCEPT ![r] = @ \ {d}]
    /\ loc' = [loc EXCEPT ![r] = Local(NULL, d, r, drones[r][d])]
    /\ UNCHANGED <<registry, beat, contended, streams>>

\* Seeded fault: the relay is dropped without waiting for its drones.
WatchDrop_Early(r) ==
  /\ pc[r] = "next"
  /\ Online(owner[r])
  /\ active' = [active EXCEPT ![owner[r]] = NULL]
  /\ pc' = [pc EXCEPT ![r] = "idle"]
  /\ loc' = [loc EXCEPT ![r] = NoLoc]
  /\ UNCHANGED <<owner, drones, beat, contended, streams, todo>>

WatchDrop(r) ==
  /\ pc[r] = "next" /\ todo[r] = {}
  /\ Online(owner[r])
  /\ active' = [active EXCEPT ![owner[r]] = NULL]
  /\ pc' = [pc EXCEPT ![r] = "idle"]
  /\ loc' = [loc EXCEPT ![r] = NoLoc]
  /\ UNCHANGED <<owner, drones, beat, contended, streams, todo>>

WatchFails(r) ==
  /\ pc[r] = "next"
  /\ \/ \E d \in todo[r] : drones[r][d] = NULL
     \/ todo[r] = {} /\ ~ Online(owner[r])
  /\ Raise(r)

(* DroneVideoStream.start: the stream's own thread.                        *)

PortHeld(p, s) == \E t \in Streams \ {s} : streamPort[t] = p /\ streamState[t] \in {"bound", "closing"}

StreamBind(s) ==
  /\ streamState[s] \in {"starting", "cancelled"}
  /\ streamState' = [streamState EXCEPT ![s] =
       IF PortHeld(streamPort[s], s) THEN "failed"
       ELSE IF @ = "starting" THEN "bound" ELSE "closing"]
  /\ UNCHANGED <<registry, beat, contended, sessions, streamPort, pc, loc, todo>>

StreamExit(s) ==
  /\ streamState[s] = "closing"
  /\ streamState' = [streamState EXCEPT ![s] = "dead"]
  /\ streamPort' = [streamPort EXCEPT ![s] = NULL]
  /\ UNCHANGED <<registry, beat, contended, sessions, pc, loc, todo>>

-----------------------------------------------------------------------------
Request(w) ==
  \E n \in RelayNames :
    \/ Handshake(w, n)
    \/ \E d \in DroneNames : NewDrone(w, n, d) \/ Disconnected(w, n, d)

WorkerStep(w) ==
  \/ HandshakeStore(w)
  \/ NewDronePop(w) \/ NewDroneScan(w) \/ NewDroneFails(w)
  \/ NewDroneInsert(w) \/ NewDroneStream(w) \/ NewDroneStore(w)

DisconnectStep(p) == DcClose(p) \/ DcUnlist(p) \/ DcDelete(p) \/ DcFails(p)

WatcherStep(r) ==
  \/ WatchStamp(r) \/ WatchAgain(r) \/ WatchTimeOut(r)
  \/ WatchNext(r) \/ WatchDrop(r) \/ WatchFails(r)

Next ==
  \/ \E n \in RelayNames : Heartbeat(n)
  \/ \E w \in Workers : Request(w) \/ WorkerStep(w)
  \/ \E p \in Procs : DisconnectStep(p)
  \/ \E r \in RelayObjs : WatcherStep(r)
  \/ \E s \in Streams : StreamBind(s) \/ StreamExit(s)

Spec == Init /\ [][Next]_vars

\* Every thread that can run eventually does: the scheduler's fairness.  No
\* relay has to send anything.
Fairness ==
  /\ \A w \in Workers : WF_vars(WorkerStep(w) \/ DisconnectStep(w))
  /\ \A r \in RelayObjs : WF_vars(WatcherStep(r) \/ DisconnectStep(r))

FairSpec == Spec /\ Fairness
-----------------------------------------------------------------------------
(* Properties.                                                             *)

\* Every variable has its type.  (Dictionaries and threads of relay_routes.py.)
TypeOK ==
  /\ active \in [RelayNames -> RelayObjs \cup {NULL}]
  /\ owner \in [RelayObjs -> RelayNames \cup {NULL}]
  /\ drones \in [RelayObjs -> [DroneNames -> Ports \cup {NULL}]]
  /\ beat \in [RelayObjs -> {"never", "beat", "stamped"}]
  /\ sessions \in [Ports -> Streams \cup {NULL}]
  /\ streamState \in [Streams -> StreamStates]
  /\ streamPort \in [Streams -> Ports \cup {NULL}]
  /\ pc \in [Procs -> Control]
  /\ loc \in [Procs -> Locals]
  /\ todo \in [RelayObjs -> SUBSET DroneNames]
  /\ contended \subseteq Ports

\* No two drones of online relays are given the same video port (Relay.add_drone).
PortsUnique ==
  \A m, n \in RelayNames, d, e \in DroneNames :
    Registered(m, d) /\ Registered(n, e) /\ drones[active[m]][d] = drones[active[n]][e]
      => m = n /\ d = e

\* Two drones of online relays have the same video port only if their requests
\* raced: one chose it after the other had chosen and before it had stored it.
\* Nothing else that overlaps, no timeout, re-registration or lingering socket,
\* makes a port double, and it is single again when it is next chosen alone
\* (Relay.add_drone, the scan of all drones of all relays).
OnlyRacersShare ==
  \A m, n \in RelayNames, d, e \in DroneNames :
    Registered(m, d) /\ Registered(n, e) /\ drones[active[m]][d] = drones[active[n]][e]
      => (m = n /\ d = e) \/ drones[active[m]][d] \in contended

\* No thread is between two steps of a request or a removal about this drone.
Settled(n, d) == \A p \in Procs : loc[p].drone = d => loc[p].relay # active[n]

\* A drone that is registered, and that no thread is working on, has a video
\* session whose stream nobody has closed (new_drone, disconnect_drone).
EveryDroneHasSession ==
  \A n \in RelayNames, d \in DroneNames :
    Registered(n, d) /\ Settled(n, d) =>
      LET s == sessions[drones[active[n]][d]] IN
      s # NULL /\ streamState[s] \in {"starting", "bound", "failed"}

\* A session exists only while an online relay has the drone it is for: the
\* port is not available again before its session is gone (disconnect_drone).
EverySessionHasDrone ==
  \A p \in Ports : sessions[p] # NULL => p \in UsedPorts

\* A stream that runs can be found, and so closed, through active_sessions, unless
\* the request that has started it is just about to store it there.
NoLeakedStream ==
  \A s \in Streams : streamState[s] \in {"starting", "bound"} =>
    sessions[streamPort[s]] = s \/ \E w \in Workers : loc[w].stream = s

\* Every online relay is watched by its timeout_check thread, which no exception
\* has ended: a relay that falls silent can still be removed.
WatcherAlive == \A n \in RelayNames : Online(n) => pc[active[n]] \notin {"idle", "crashed"}

\* A relay is never replaced, and leaves active_relays only when its own
\* timeout_check found it silent.
OnlyTimedOutRelaysLeave ==
  [][\A n \in RelayNames :
       Online(n) /\ active'[n] # active[n] => active'[n] = NULL /\ pc[active[n]] = "next"]_vars

\* When a relay leaves active_relays all its drones have been disconnected.
LeavesNothingBehind ==
  [][\A n \in RelayNames : Online(n) /\ active'[n] = NULL
       => \A d \in DroneNames : drones[active[n]][d] = NULL]_vars

\* A relay whose heartbeat stays what timeout_check last saw is removed.
SilentRelayLeaves ==
  \A r \in RelayObjs :
    pc[r] = "sleep" /\ beat[r] = "stamped"
      ~> beat[r] = "beat" \/ \A n \in RelayNames : active[n] # r

\* The inductive invariant behind PortsUnique and LeaseSpec, where no two
\* /new_drone requests overlap.  A relay object is online under one name only.
OwnName == \A n \in RelayNames : Online(n) => owner[active[n]] = n

\* A request thread knows whom its request is about.
KnownRequest ==
  \A w \in Workers :
    /\ pc[w] \in {"hs_store"} \cup AddSteps => loc[w].name \in RelayNames
    /\ pc[w] \in AddSteps => loc[w].drone \in DroneNames
    /\ pc[w] \in {"nd_insert", "nd_stream", "nd_store"} => loc[w].relay \in RelayObjs /\ loc[w].port \in Ports
    /\ pc[w] = "nd_store" => loc[w].stream \in Streams

OneAdder == \A v, w \in Workers : pc[v] \in AddSteps /\ pc[w] \in AddSteps => v = w

\* Between the scan and the insertion nobody takes the port or the drone's entry.
Reserved ==
  \A w \in Workers :
    /\ pc[w] = "nd_scan" => ~ Registered(loc[w].name, loc[w].drone)
    /\ pc[w] = "nd_insert" => /\ loc[w].port \notin UsedPorts
                              /\ drones[loc[w].relay][loc[w].drone] = NULL

TypeInv == TypeOK /\ KnownRequest
PortInv == TypeInv /\ OwnName /\ OneAdder /\ Reserved /\ PortsUnique

\* The port each drone holds, as PortLease sees it.
held == [n \in RelayNames |-> [d \in DroneNames |-> IF Online(n) THEN drones[active[n]][d] ELSE NULL]]

\* The registry hands out ports as PortLease promises (Relay.add_drone and
\* disconnect_drone: a port is granted only while no other drone holds it).
Lease == INSTANCE PortLease WITH lease <- held
LeaseSpec == Lease!Spec

\* The relays that timeout_check listens to, and the drones they have.
served == {n \in RelayNames : Online(n) /\ pc[active[n]] \in {"watch", "sleep"}}
known  == [n \in RelayNames |-> IF n \in served THEN {d \in DroneNames : Registered(n, d)} ELSE {}]

\* What a relay box sees of the handlers and threads, and RelayBox relies on:
\* handshake, /new_drone, /drone/disconnected and the timeout take effect in one
\* step each, and a relay is never replaced while it is served.
View == INSTANCE RelayView WITH served <- served, known <- known
ViewSpec == View!Spec
=============================================================================
