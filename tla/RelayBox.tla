------------------------------ MODULE RelayBox ------------------------------
(***************************************************************************)
(* A relay box (relay/relaybox.py): one thread scans the hot-spot and adds *)
(* and deletes drones, and each drone has a thread of its own, which asks  *)
(* the backend for a video port and brings the drone up over a socket that *)
(* all drones share (relay/tello_edu_drone.py).  The backend is seen from  *)
(* the relay box: online until it times the relay out, and the names it    *)
(* has registered (RelayRegistry is the backend from within).              *)
(*                                                                         *)
(* A drone's name stands for the Drone object that bears it.  An object    *)
(* that has been deleted keeps its thread until its name is used again.    *)
(***************************************************************************)
EXTENDS Naturals, FiniteSets

CONSTANTS
  Addrs,        \* addresses authorized drones get on the hot-spot
  Names,        \* drone_001 .. drone_253, as numbers
  StatusPorts,  \* 50400 .. 50654
  NULL,
  EnvSets       \* what may happen around the program: sets of liberties

Liberties ==
  { "blink",    \* a drone is away for a moment, or misses its pings: back before
                \* the relay box is done with its last visit
    "lost",     \* datagrams to or from a drone are lost
    "late",     \* a drone's answer comes after the relay box gave up waiting
    "refuse",   \* the backend refuses a request it could have served (a 500)
    "timeout",  \* the backend removes the relay
    "outage" }  \* requests fail with an exception

ASSUME BoxAssumption ==
  /\ Names \subseteq Nat /\ StatusPorts \subseteq Nat
  /\ NULL \notin Names \cup StatusPorts \cup Addrs
  /\ EnvSets \subseteq SUBSET Liberties

VARIABLES
  present,      \* the drones that are on the hot-spot
  commanded,    \* those that have entered SDK mode since they came
  online,       \* the backend has the relay in active_relays
  registered,   \* the names of its drones there
  scan,         \* ScanForDronesThread: its next step
  todo,         \* addresses it has still to ping
  seen,         \* scanned_drones
  gone,         \* the name disconnected_drone reports
  listed,       \* Relaybox.drones: the names in use
  host,         \* TelloEDUDrone.host_IP
  statusPort,   \* TelloEDUDrone.status_port
  used,         \* used_status_ports
  thread,       \* DroneThread: its next step
  inbox,        \* drones that a command is under way to
  replies,      \* drones whose "ok" is in the response socket
  env           \* the liberties taken in this behaviour

air     == <<present, commanded>>
backend == <<online, registered>>
scanner == <<scan, todo, seen, gone>>
list    == <<listed, host, statusPort, used>>
socket  == <<inbox, replies>>
state   == <<air, backend, scanner, list, thread, socket>>
vars    == <<state, env>>

Listed(a) == \E n \in listed : host[n] = a
First(S)  == CHOOSE a \in S : TRUE       \* the order of "arp -a"
Lowest(S) == {x \in S : \A y \in S : x <= y}
Goto(from, to) == scan = from /\ scan' = to
Move(n, from, to) == thread[n] = from /\ thread' = [thread EXCEPT ![n] = to]
Asks(n)   == thread[n] \in {"ask", "ask_again"}

Init ==
  /\ env \in EnvSets
  /\ present = {} /\ commanded = {}
  /\ online = FALSE /\ registered = {}
  /\ scan = "auth" /\ todo = {} /\ seen = {} /\ gone = NULL
  /\ listed = {} /\ used = {}
  /\ host = [n \in Names |-> NULL] /\ statusPort = [n \in Names |-> NULL]
  /\ thread = [n \in Names |-> "ended"]
  /\ inbox = {} /\ replies = {}

(* Around the relay box.                                                   *)

\* A drone that starts takes longer than a reply or a scan: nothing the relay
\* box does still concerns its last visit.
Forgotten(a) ==
  /\ a \notin seen \cup inbox \cup replies /\ ~ Listed(a)
  /\ \A n \in Names : host[n] = a => thread[n] \notin {"send", "wait"}

Arrive(a) ==
  /\ a \notin present /\ ("blink" \in env \/ Forgotten(a))
  /\ present' = present \cup {a}
  /\ UNCHANGED <<commanded, backend, scanner, list, thread, socket>>

Leave(a) ==
  /\ a \in present
  /\ present' = present \ {a} /\ commanded' = commanded \ {a}
  /\ UNCHANGED <<backend, scanner, list, thread, socket>>

\* timeout_check drops the relay with its drones; no one shakes hands again.
TimedOut ==
  /\ "timeout" \in env /\ online
  /\ online' = FALSE /\ registered' = {}
  /\ UNCHANGED <<air, scanner, list, thread, socket>>

(* authenticate_API and start; an unreachable backend is asked again.      *)

Authenticate ==
  /\ Goto("auth", "ping")
  /\ online' = TRUE /\ todo' = Addrs
  /\ UNCHANGED <<air, registered, seen, gone, list, thread, socket>>

\* The answer holds no token: the program ends.
AuthRefused ==
  /\ Goto("auth", "dead") /\ "refuse" \in env
  /\ UNCHANGED <<air, backend, todo, seen, gone, list, thread, socket>>

(* scan_for_drone                                                          *)

Ping(a) ==
  /\ a \in todo /\ a = First(todo) /\ todo' = todo \ {a}
  /\ Goto("ping", IF todo = {a} THEN "filter" ELSE "ping")
  /\ seen' = IF a \in present THEN seen \cup {a} ELSE seen
  /\ UNCHANGED <<air, backend, gone, list, thread, socket>>

(* filter_scanned_drones: first the new drones, then those that are gone,  *)
(* and then the next scan.                                                 *)

\* Seeded faults in AddDrone: names from drone_000 on; a port that is not noted down.
AddDrone_FromZero(a) ==
  /\ scan = "filter" /\ a \in seen /\ ~ Listed(a) /\ a = First({b \in seen : ~ Listed(b)})
  /\ \E n \in Lowest(({0} \cup Names) \ listed), p \in Lowest(StatusPorts \ used) :
       /\ listed' = listed \cup {n} /\ used' = used \cup {p}
       /\ UNCHANGED <<host, statusPort, thread>>
  /\ UNCHANGED <<air, backend, scanner, socket>>

AddDrone_NotNoted(a) ==
  /\ scan = "filter" /\ a \in seen /\ ~ Listed(a) /\ a = First({b \in seen : ~ Listed(b)})
  /\ \E n \in Lowest(Names \ listed), p \in Lowest(StatusPorts \ used) :
       /\ listed' = listed \cup {n} /\ UNCHANGED used
       /\ host' = [host EXCEPT ![n] = a] /\ statusPort' = [statusPort EXCEPT ![n] = p]
       /\ thread' = [thread EXCEPT ![n] = "ask"]
  /\ UNCHANGED <<air, backend, scanner, socket>>

\* add_drone and get_status_port
AddDrone(a) ==
  /\ scan = "filter" /\ a \in seen /\ ~ Listed(a) /\ a = First({b \in seen : ~ Listed(b)})
  /\ \E n \in Lowest(Names \ listed), p \in Lowest(StatusPorts \ used) :
       /\ listed' = listed \cup {n} /\ used' = used \cup {p}
       /\ host' = [host EXCEPT ![n] = a] /\ statusPort' = [statusPort EXCEPT ![n] = p]
       /\ thread' = [thread EXCEPT ![n] = "ask"]
  /\ UNCHANGED <<air, backend, scanner, socket>>

\* Seeded fault in DropDrone: the status port stays in use.
DropDrone_KeepsPort(n) ==
  /\ Goto("filter", "post") /\ \A a \in seen : Listed(a)
  /\ n \in listed /\ host[n] \notin seen
  /\ listed' = listed \ {n} /\ gone' = n
  /\ UNCHANGED <<air, backend, todo, seen, used, host, statusPort, thread, socket>>

\* delete_drone
DropDrone(n) ==
  /\ Goto("filter", "post") /\ \A a \in seen : Listed(a)
  /\ n \in listed /\ host[n] \notin seen
  /\ listed' = listed \ {n} /\ used' = used \ {statusPort[n]}
  /\ gone' = n
  /\ UNCHANGED <<air, backend, todo, seen, host, statusPort, thread, socket>>

NextScan ==
  /\ Goto("filter", "ping") /\ seen = {host[n] : n \in listed}
  /\ todo' = Addrs /\ seen' = {}
  /\ UNCHANGED <<air, backend, gone, list, thread, socket>>

\* Seeded fault in Report: it is sent once.
Report_Once ==
  /\ Goto("post", "filter")
  /\ registered' = registered \ {gone} /\ gone' = NULL
  /\ UNCHANGED <<air, online, todo, seen, list, thread, socket>>

\* disconnected_drone.  A refused report is repeated, however often: a step
\* that changes nothing.
Report ==
  /\ Goto("post", "filter")
  /\ online /\ gone \in registered
  /\ registered' = registered \ {gone} /\ gone' = NULL
  /\ UNCHANGED <<air, online, todo, seen, list, thread, socket>>

\* The connection fails, be it after the backend has done what was asked; or the
\* report is refused for good, and each repetition is a call within the last one.
ReportDies ==
  /\ Goto("post", "dead")
  /\ \/ "outage" \in env /\ registered' \in {registered, registered \ {gone}}
     \/ (~ online \/ (gone \notin registered /\ ~ Asks(gone))) /\ UNCHANGED registered
  /\ UNCHANGED <<air, online, todo, seen, gone, list, thread, socket>>

(* get_video_port, in the thread of drone n                                *)

\* Seeded fault in AskOk: a drone that is off the list no longer asks.
AskOk_IfActive(n) ==
  /\ Asks(n) /\ online
  /\ thread' = [thread EXCEPT ![n] = IF n \in listed /\ thread[n] = "ask" THEN "send" ELSE "ended"]
  /\ registered' = registered \cup ({n} \cap listed)
  /\ UNCHANGED <<air, online, scanner, list, socket>>

\* After a refusal the port comes from a second call within the first, which then
\* reads its own answer: the plain text of a 500 raises an exception, and the
\* thread ends.  (A 400 would be JSON without a port, but then the backend does
\* not know the relay, and no later call is served.)
AskOk(n) ==
  /\ Asks(n) /\ online
  /\ thread' = [thread EXCEPT ![n] = IF thread[n] = "ask" THEN "send" ELSE "ended"]
  /\ registered' = registered \cup {n}
  /\ UNCHANGED <<air, online, scanner, list, socket>>

\* A drone no longer active reads the refusal: an exception, or no port and then
\* nothing to do.  Whether it is active is looked at before the sleep, not after.
\* (Left out: about a thousand refusals nest too many calls, and end the thread.)
AskRefused(n) ==
  /\ Asks(n) /\ (~ online \/ "refuse" \in env)
  /\ thread' = [thread EXCEPT ![n] = IF n \in listed THEN "ask_again" ELSE "ended"]
  /\ UNCHANGED <<air, backend, scanner, list, socket>>

\* The connection fails, be it after the backend has registered the drone.
AskDies(n) ==
  /\ Asks(n) /\ "outage" \in env
  /\ thread' = [thread EXCEPT ![n] = "ended"]
  /\ registered' \in {registered} \cup (IF online THEN {registered \cup {n}} ELSE {})
  /\ UNCHANGED <<air, online, scanner, list, socket>>

(* send_control_command("command"), then set_drone_ports                   *)

Send(n) ==
  /\ n \in listed /\ Move(n, "send", "wait")
  /\ inbox' = inbox \cup {host[n]}
  /\ UNCHANGED <<air, backend, scanner, list, replies>>

\* Seeded fault in TakeOwn: the address of the answer is not looked at.
TakeOwn_Any(n) ==
  /\ Move(n, "wait", IF n \in listed THEN "ready" ELSE "ended")
  /\ \E a \in replies : replies' = replies \ {a}
  /\ UNCHANGED <<air, backend, scanner, list, inbox>>

TakeOwn(n) ==
  /\ Move(n, "wait", IF n \in listed THEN "ready" ELSE "ended")
  /\ host[n] \in replies /\ replies' = replies \ {host[n]}
  /\ UNCHANGED <<air, backend, scanner, list, inbox>>

\* An answer of another drone is read, and lost to the one that waits for it.
TakeForeign(n) ==
  /\ Move(n, "wait", "send")
  /\ \E a \in replies \ {host[n]} : replies' = replies \ {a}
  /\ UNCHANGED <<air, backend, scanner, list, inbox>>

\* Seeded fault in GiveUp: the command is not sent again.
GiveUp_NoRetry(n) ==
  /\ Move(n, "wait", "ended")
  /\ "late" \in env \/ host[n] \notin inbox \cup replies
  /\ UNCHANGED <<air, backend, scanner, list, socket>>

GiveUp(n) ==
  /\ Move(n, "wait", "send")
  /\ "late" \in env \/ host[n] \notin inbox \cup replies
  /\ UNCHANGED <<air, backend, scanner, list, socket>>

Inactive(n) ==
  /\ n \notin listed /\ Move(n, "send", "ended")
  /\ UNCHANGED <<air, backend, scanner, list, socket>>

(* The drones and the network between.                                     *)

Execute(a) ==
  /\ a \in inbox /\ inbox' = inbox \ {a}
  /\ IF a \in present THEN commanded' = commanded \cup {a} /\ replies' = replies \cup {a}
                      ELSE UNCHANGED <<commanded, replies>>
  /\ UNCHANGED <<present, backend, scanner, list, thread>>

Lose(a) ==
  /\ "lost" \in env /\ a \in inbox \cup replies
  /\ \/ inbox' = inbox \ {a} /\ UNCHANGED replies
     \/ replies' = replies \ {a} /\ UNCHANGED inbox
  /\ UNCHANGED <<air, backend, scanner, list, thread>>

-----------------------------------------------------------------------------
ScanStep ==
  \/ Authenticate \/ AuthRefused
  \/ (\E a \in Addrs : Ping(a) \/ AddDrone(a)) \/ NextScan
  \/ (\E n \in Names : DropDrone(n)) \/ Report \/ ReportDies

DroneStep(n) ==
  \/ AskOk(n) \/ AskRefused(n) \/ AskDies(n)
  \/ Send(n) \/ TakeOwn(n) \/ TakeForeign(n) \/ GiveUp(n) \/ Inactive(n)

Act ==
  \/ ScanStep
  \/ \E n \in Names : DroneStep(n)
  \/ \E a \in Addrs : Arrive(a) \/ Leave(a) \/ Execute(a) \/ Lose(a)
  \/ TimedOut

Next == Act /\ UNCHANGED env

Spec == Init /\ [][Next]_vars

\* Threads run and drones answer.  Nothing is assumed of which thread reads
\* whose answer.
Fairness ==
  /\ WF_state(ScanStep)
  /\ \A n \in Names : WF_state(DroneStep(n))
  /\ \A a \in Addrs : WF_state(Execute(a))

FairSpec == Spec /\ Fairness

-----------------------------------------------------------------------------
(* Properties.                                                             *)

\* Every variable has its type.
TypeOK ==
  /\ env \in EnvSets /\ online \in BOOLEAN
  /\ present \subseteq Addrs /\ commanded \subseteq Addrs /\ todo \subseteq Addrs /\ seen \subseteq Addrs
  /\ inbox \subseteq Addrs /\ replies \subseteq Addrs
  /\ registered \subseteq Names /\ listed \subseteq Names
  /\ used \subseteq StatusPorts
  /\ scan \in {"auth", "ping", "filter", "post", "dead"}
  /\ gone \in Names \cup {NULL}
  /\ host \in [Names -> Addrs \cup {NULL}] /\ statusPort \in [Names -> StatusPorts \cup {NULL}]
  /\ thread \in [Names -> {"ask", "ask_again", "send", "wait", "ready", "ended"}]

\* The backend never has a drone that the relay box neither lists nor is about
\* to report (disconnected_drone), whatever fails: nothing a drone's thread does
\* late registers a drone that was already reported.
NoGhost == registered \subseteq listed \cup {gone}

\* The relay box asks a port only for a name the backend does not have: what
\* RelayRegistry calls "reregister" takes a relay box that was started anew.
NeverReregisters == [][\A n \in Names : AskOk(n) \/ AskDies(n) => n \notin registered]_vars

\* A name is used again only when the last drone of that name has nothing more
\* to ask of the backend: no two threads ask under one name.
OneAsksPerName == [][\A n \in listed' \ listed : ~ Asks(n)]_vars

\* No two listed drones share a status port, and used_status_ports holds no port
\* that no listed drone has: what the backend promises of video ports.
statusLease == [r \in {"box"} |-> [n \in Names |-> IF n \in listed THEN statusPort[n] ELSE NULL]]
StatusLease == INSTANCE PortLease WITH
  RelayNames <- {"box"}, DroneNames <- Names, Ports <- StatusPorts, lease <- statusLease
StatusLeaseSpec == StatusLease!Spec
NoPortLost == used = {statusPort[n] : n \in listed}

\* The relay box finds the backend to be what RelayRegistry shows to relay boxes.
Backend == INSTANCE RelayView WITH
  RelayNames <- {"box"}, DroneNames <- Names,
  served <- IF online THEN {"box"} ELSE {}, known <- [r \in {"box"} |-> registered]
BackendSpec == Backend!Spec

\* A drone whose thread goes on has itself answered that it entered SDK mode,
\* though all answers come through one socket, late or not at all; unless drones
\* go and come unnoticed.
ReadyIsCommanded ==
  "blink" \notin env =>
    \A n \in listed : thread[n] = "ready" /\ host[n] \in present => host[n] \in commanded

\* Where the backend serves every request, the relay box "constantly" scans
\* (scan_for_drone): a drone that leaves for good is taken off the list and the
\* backend's, and no drone that vanishes while it is being registered stops that.
Served == env \cap {"refuse", "timeout", "outage"} = {}
GoneIsForgotten ==
  Served => \A a \in Addrs :
    <>[](a \notin present) => <>[](\A n \in listed \cup registered : host[n] # a)

\* A drone that stays on the hot-spot is brought up, if the backend does not
\* refuse its request for ever (TelloEDUDrone.start; get_video_port: "try again").
Up(a) == \E n \in listed : host[n] = a /\ thread[n] = "ready"
StaysComesUp ==
  \A a \in Addrs :
    <>[](a \in present /\ scan # "dead") /\ (\A n \in Names : []<>(~ Asks(n))) => []<>Up(a)

\* So it is where nothing fails, once no other drone's thread reads the response
\* socket: two that start at the same time may take each other's answers for ever.
Alone(a) == \A n \in Names : host[n] # a => thread[n] \notin {"send", "wait"}
AloneComesUp == env = {} => \A a \in Addrs : <>[](a \in present /\ Alone(a)) => []<>Up(a)
=============================================================================
