---------------------------- MODULE VideoSession ----------------------------
(***************************************************************************)
(* The video of one drone: its stream in the backend                       *)
(* (backend/drone_video_stream.py), the thread that brings the drone up    *)
(* and then sends its video (relay/tello_edu_drone.py, from RTS_handshake  *)
(* on), and the pilots who want to see it (controller.handle of            *)
(* client/backup_of_main.py, and its successor client/controller.py).      *)
(*                                                                         *)
(* Time goes by in seconds.  Datagrams and the steps of a thread take none *)
(* of it; sockets are sets, so a datagram is not doubled, and those in one *)
(* socket are read in any order.                                           *)
(***************************************************************************)
EXTENDS Naturals, FiniteSets

CONSTANTS
  Viewers,      \* clients of the pilots
  Tries,        \* timeouts after which a client gives up (10)
  MaxWait,      \* bound: seconds spent on tries of a command that failed
  EnvSets       \* what may happen around the program: sets of liberties

Liberties ==
  { "lost",        \* datagrams between drone, backend and clients are lost
    "failed",      \* no answer to a command arrives in time
    "takeoff",     \* meanwhile another drone of the relay box takes off
    "streaming",   \* the drone still sends the video of its last session
    "silent",      \* the drone sends no video for a while
    "reset",       \* the stream's socket reports an error (a client's port is closed)
    "elsewhere",   \* clients have left another drone, whose video still comes to their
                   \* one port, 6969
    "controller" } \* the pilots have client/controller.py

ASSUME VideoAssumption ==
  /\ "drone" \notin Viewers
  /\ Tries \in Nat \ {0} /\ MaxWait \in Nat
  /\ EnvSets \subseteq SUBSET Liberties

Peers  == Viewers \cup {"drone"}
Kinds  == {"note", "frame"}     \* a flag ("RTS", "rts", "hello drone"), or video

\* Seconds: RTS_handshake's timeout and sleep, the sleep after it, a failed try of
\* a command (1 + 2), one on a socket that another drone's takeoff has given its
\* timeout (7 + 2), the stream's timeout, and the client's.
RtsWait == 2
RtsRest == 2
Settle  == 1
FailedTry == 3
FailedTryInTakeoff == 9
Silence == 8
AnnounceWait == 3

VARIABLES
  link,         \* "up"; "deleted" by the relay box; "closed" in the backend
  stage,        \* the stream's thread: check_conn, handle_stream, or ended
  conns,        \* DroneVideoStream.connections
  inbox,        \* the stream's socket: who sent what
  quiet,        \* seconds since it last read a datagram
  box,          \* the sockets of the drone's thread and of the clients
  pc,           \* the drone's thread
  timer,        \* seconds until its timeout or sleep is over
  waited,       \* seconds it has spent on tries that failed
  camera,       \* the drone sends video
  viewer,       \* what a client does
  viewerTimer,  \* seconds until its timeout
  count,        \* its timeouts
  env           \* the liberties taken in this behaviour

stream  == <<stage, conns, quiet>>
drone   == <<pc, timer, waited, camera>>
clients == <<viewer, viewerTimer, count>>
state   == <<link, stream, inbox, box, drone, clients>>
vars    == <<state, env>>

Open(a) == IF a = "drone" THEN pc # "stopped" ELSE viewer[a] \in {"announce", "wait", "watch"}

\* The stream sends a datagram to each of "to"; some may be lost.
Send(kind, to) ==
  \E lost \in (IF "lost" \in env THEN SUBSET to ELSE {{}}) :
    box' = [a \in Peers |-> IF a \in to \ lost /\ Open(a) THEN box[a] \cup {kind} ELSE box[a]]

\* A datagram to the stream.  Nobody reads it once its thread has ended.
SendTo(a, kind) ==
  \/ inbox' = IF stage = "ended" THEN inbox ELSE inbox \cup {<<a, kind>>}
  \/ "lost" \in env /\ UNCHANGED inbox

Go(from, to, secs) == pc = from /\ timer = 0 /\ pc' = to /\ timer' = secs
Took(a, kind)      == kind \in box[a] /\ box' = [box EXCEPT ![a] = @ \ {kind}]

Init ==
  /\ env \in EnvSets
  /\ link = "up"
  /\ stage = "check_conn" /\ conns = {} /\ inbox = {} /\ quiet = 0
  /\ box = [a \in Peers |-> {}]
  /\ pc = "rts" /\ timer = 0 /\ waited = 0
  /\ camera = ("streaming" \in env)
  /\ viewer = [v \in Viewers |-> "idle"]
  /\ viewerTimer = [v \in Viewers |-> 0] /\ count = [v \in Viewers |-> 0]

(* The stream in the backend.                                              *)

\* Seeded fault in Accept: the two are not told that they are linked.
Accept_NoHello ==
  /\ stage = "check_conn"
  /\ \E m \in inbox :
       /\ inbox' = inbox \ {m}
       /\ conns' = conns \cup {m[1]}
  /\ IF Cardinality(conns') = 2
       THEN stage' = "handle_stream" /\ quiet' = 0
       ELSE UNCHANGED <<stage, quiet>>
  /\ UNCHANGED <<link, box, drone, clients>>

\* check_conn: the first two addresses are the two that are linked, for good.
Accept ==
  /\ stage = "check_conn"
  /\ \E m \in inbox :
       /\ inbox' = inbox \ {m}
       /\ conns' = conns \cup {m[1]}
  /\ IF Cardinality(conns') = 2
       THEN stage' = "handle_stream" /\ quiet' = 0 /\ Send("note", conns')
       ELSE UNCHANGED <<stage, quiet, box>>
  /\ UNCHANGED <<link, drone, clients>>

\* Seeded fault in Forward: whoever sends is answered.
Forward_Answers ==
  /\ stage = "handle_stream"
  /\ \E m \in inbox : inbox' = inbox \ {m} /\ Send(m[2], conns \cup {m[1]})
  /\ quiet' = 0
  /\ UNCHANGED <<link, stage, conns, drone, clients>>

\* handle_stream: whatever comes, from whomever, goes to those that did not send it.
Forward ==
  /\ stage = "handle_stream"
  /\ \E m \in inbox : inbox' = inbox \ {m} /\ Send(m[2], conns \ {m[1]})
  /\ quiet' = 0
  /\ UNCHANGED <<link, stage, conns, drone, clients>>

\* Seeded fault in StreamEnds: a timeout of three seconds.
StreamEnds_Short ==
  /\ \/ stage = "handle_stream" /\ inbox = {} /\ quiet >= 3
     \/ stage = "handle_stream" /\ "reset" \in env
     \/ stage # "ended" /\ link = "closed"
  /\ stage' = "ended" /\ inbox' = {}
  /\ UNCHANGED <<link, conns, quiet, box, drone, clients>>

\* recvfrom times out or fails; or the session is closed.  No one restarts the
\* thread.
StreamEnds ==
  /\ \/ stage = "handle_stream" /\ inbox = {} /\ quiet = Silence
     \/ stage = "handle_stream" /\ "reset" \in env
     \/ stage # "ended" /\ link = "closed"
  /\ stage' = "ended" /\ inbox' = {}
  /\ UNCHANGED <<link, conns, quiet, box, drone, clients>>

(* The drone's thread: RTS_handshake, the rest of start, video_thread.     *)

Rts ==
  /\ link = "up" /\ Go("rts", "rts_wait", RtsWait)
  /\ SendTo("drone", "note")
  /\ UNCHANGED <<link, stream, box, waited, camera, clients>>

RtsConfirmed ==
  /\ link = "up" /\ pc = "rts_wait" /\ Took("drone", "note")
  /\ pc' = "settle" /\ timer' = Settle
  /\ UNCHANGED <<link, stream, inbox, waited, camera, clients>>

\* The wait is over, or cut short by a datagram that does not fit into 32 bytes.
RtsFails ==
  /\ link = "up" /\ pc = "rts_wait"
  /\ \/ timer = 0 /\ box["drone"] = {} /\ UNCHANGED box
     \/ Took("drone", "frame")
  /\ pc' = "rts_rest" /\ timer' = RtsRest
  /\ UNCHANGED <<link, stream, inbox, waited, camera, clients>>

RtsAgain ==
  /\ link = "up" /\ Go("rts_rest", "rts", 0)
  /\ UNCHANGED <<link, stream, inbox, box, waited, camera, clients>>

Settled ==
  /\ link = "up" /\ Go("settle", "streamon", 0)
  /\ UNCHANGED <<link, stream, inbox, box, waited, camera, clients>>

\* The camera is on; its first frame is there at once.
StartCamera == camera' = TRUE /\ box' = [box EXCEPT !["drone"] = @ \cup {"frame"}]

StreamOn ==
  /\ link = "up" /\ Go("streamon", "speed", 0)
  /\ StartCamera
  /\ UNCHANGED <<link, stream, inbox, waited, clients>>

Speed ==
  /\ link = "up" /\ Go("speed", "video", 0)
  /\ UNCHANGED <<link, stream, inbox, box, waited, camera, clients>>

\* The command or its answer is lost, or the answer read by another thread.
CommandFails ==
  /\ "failed" \in env /\ link = "up" /\ pc \in {"streamon", "speed"} /\ timer = 0
  /\ \E secs \in {FailedTry} \cup (IF "takeoff" \in env THEN {FailedTryInTakeoff} ELSE {}) :
       /\ waited + secs <= MaxWait
       /\ timer' = secs /\ waited' = waited + secs
  /\ \/ pc = "streamon" /\ StartCamera
     \/ UNCHANGED <<camera, box>>
  /\ UNCHANGED <<link, stream, inbox, pc, clients>>

\* What the socket gets goes to the backend: the video, and what came from there.
Video ==
  /\ link = "up" /\ pc = "video"
  /\ \E kind \in Kinds : Took("drone", kind) /\ SendTo("drone", kind)
  /\ UNCHANGED <<link, stream, drone, clients>>

\* The loops see that the drone is no longer active.
Stop ==
  /\ link # "up" /\ pc # "stopped" /\ pc' = "stopped"
  /\ timer' = 0 /\ camera' = FALSE /\ box' = [box EXCEPT !["drone"] = {}]
  /\ UNCHANGED <<link, stream, inbox, waited, clients>>

\* delete_drone, and then disconnected_drone.
Disconnect ==
  /\ \/ link = "up" /\ link' = "deleted"
     \/ link = "deleted" /\ link' = "closed"
  /\ UNCHANGED <<stream, inbox, box, drone, clients>>

(* A pilot's client.                                                       *)

\* The pilot selects the drone, while it is listed; or does so again, after giving
\* it up.
Connect(v) ==
  /\ link # "closed" /\ viewer[v] \in {"idle", "closed"}
  /\ viewer' = [viewer EXCEPT ![v] = "announce"] /\ count' = [count EXCEPT ![v] = 0]
  /\ UNCHANGED <<link, stream, inbox, box, drone, viewerTimer>>

\* client/controller.py sends on a socket that is not connected: nothing is sent.
Announce(v) ==
  /\ viewer[v] = "announce"
  /\ viewer' = [viewer EXCEPT ![v] = "wait"] /\ viewerTimer' = [viewerTimer EXCEPT ![v] = AnnounceWait]
  /\ IF "controller" \in env THEN UNCHANGED inbox ELSE SendTo(v, "note")
  /\ UNCHANGED <<link, stream, box, drone, count>>

\* The stream of a drone it watched before has the client's address, and
\* client/backup_of_main.py is verified at the port it watches.
Stray(v) ==
  /\ "elsewhere" \in env /\ Open(v) /\ "frame" \notin box[v]
  /\ box' = [box EXCEPT ![v] = @ \cup {"frame"}]
  /\ UNCHANGED <<link, stream, inbox, drone, clients>>

\* Any datagram will do.  The same port is then read by ffplay.
Verified(v) ==
  /\ viewer[v] = "wait" /\ box[v] # {}
  /\ viewer' = [viewer EXCEPT ![v] = "watch"] /\ viewerTimer' = [viewerTimer EXCEPT ![v] = 0]
  /\ \E kind \in Kinds : Took(v, kind)
  /\ UNCHANGED <<link, stream, inbox, drone, count>>

\* Seeded fault in Unanswered: one try too many.
Unanswered_More(v) ==
  /\ viewer[v] = "wait" /\ box[v] = {} /\ viewerTimer[v] = 0
  /\ count' = [count EXCEPT ![v] = @ + 1]
  /\ viewer' = [viewer EXCEPT ![v] = IF count'[v] > Tries THEN "closed" ELSE "announce"]
  /\ UNCHANGED <<link, stream, inbox, box, drone, viewerTimer>>

Unanswered(v) ==
  /\ viewer[v] = "wait" /\ box[v] = {} /\ viewerTimer[v] = 0
  /\ count' = [count EXCEPT ![v] = @ + 1]
  /\ viewer' = [viewer EXCEPT ![v] = IF count'[v] = Tries THEN "closed" ELSE "announce"]
  /\ UNCHANGED <<link, stream, inbox, box, drone, viewerTimer>>

Show(v) ==
  /\ viewer[v] = "watch"
  /\ \E kind \in Kinds : Took(v, kind)
  /\ UNCHANGED <<link, stream, inbox, drone, clients>>

Quit(v) ==
  /\ viewer[v] = "watch" /\ viewer' = [viewer EXCEPT ![v] = "closed"]
  /\ box' = [box EXCEPT ![v] = {}]
  /\ UNCHANGED <<link, stream, inbox, drone, viewerTimer, count>>

(* Time.                                                                   *)

\* Every thread waits for a later moment.
Idle ==
  /\ inbox = {} /\ ~ (stage = "handle_stream" /\ quiet = Silence)
  /\ ~ (link = "closed" /\ stage # "ended") /\ ~ (link # "up" /\ pc # "stopped")
  /\ pc \in {"video", "stopped"} \/ timer > 0
  /\ pc \in {"rts_wait", "video"} => box["drone"] = {}
  /\ \A v \in Viewers :
       /\ viewer[v] # "announce" /\ box[v] = {}
       /\ viewer[v] = "wait" => viewerTimer[v] > 0

Tick ==
  /\ Idle
  /\ quiet' = IF stage = "handle_stream" THEN quiet + 1 ELSE quiet
  /\ timer' = IF timer = 0 THEN 0 ELSE timer - 1
  /\ viewerTimer' = [v \in Viewers |-> IF viewerTimer[v] = 0 THEN 0 ELSE viewerTimer[v] - 1]
  /\ \/ box' = [box EXCEPT !["drone"] = IF camera THEN @ \cup {"frame"} ELSE @]
     \/ "silent" \in env /\ UNCHANGED box
  /\ UNCHANGED <<link, stage, conns, inbox, pc, waited, camera, viewer, count>>

-----------------------------------------------------------------------------
StreamStep == Accept \/ Forward \/ StreamEnds
DroneStep ==
  \/ Rts \/ RtsConfirmed \/ RtsFails \/ RtsAgain \/ Settled
  \/ StreamOn \/ Speed \/ CommandFails \/ Video \/ Stop
ViewerStep(v) == Announce(v) \/ Verified(v) \/ Unanswered(v) \/ Show(v)

Act ==
  \/ StreamStep \/ DroneStep \/ Disconnect \/ Tick
  \/ \E v \in Viewers : ViewerStep(v) \/ Connect(v) \/ Quit(v) \/ Stray(v)

Next == Act /\ UNCHANGED env

Spec == Init /\ [][Next]_vars

\* Threads run and time passes.
Fairness ==
  /\ WF_state(StreamStep) /\ WF_state(DroneStep) /\ WF_state(Tick)
  /\ \A v \in Viewers : WF_state(ViewerStep(v))

FairSpec == Spec /\ Fairness

-----------------------------------------------------------------------------
(* Properties.                                                             *)

\* Every variable has its type.
TypeOK ==
  /\ env \in EnvSets
  /\ link \in {"up", "deleted", "closed"}
  /\ stage \in {"check_conn", "handle_stream", "ended"}
  /\ conns \subseteq Peers /\ inbox \subseteq Peers \X Kinds
  /\ quiet \in 0..Silence
  /\ box \in [Peers -> SUBSET Kinds]
  /\ pc \in {"rts", "rts_wait", "rts_rest", "settle", "streamon", "speed", "video", "stopped"}
  /\ timer \in Nat /\ waited \in 0..MaxWait /\ camera \in BOOLEAN
  /\ viewer \in [Viewers -> {"idle", "announce", "wait", "watch", "closed"}]
  /\ viewerTimer \in [Viewers -> 0..AnnounceWait] /\ count \in [Viewers -> 0..Tries]

\* The drone's thread goes on from the handshake, and a client counts as verified,
\* only as one of the two that the stream links: whoever else sends datagrams to it,
\* and in whatever order they come; unless a client has left another drone.
Beyond == {"settle", "streamon", "speed", "video"}
VerifiedIsLinked ==
  /\ pc \in Beyond => "drone" \in conns
  /\ "elsewhere" \notin env => \A v \in Viewers : viewer[v] = "watch" => v \in conns

\* The stream of a drone that is there ends (for good, with its session listed)
\* only after seven seconds of failed tries to send it a command: three tries, or
\* one while another drone of the relay box takes off; unless its socket fails.
SilenceNeedsFailures ==
  stage = "ended" /\ link = "up" /\ env \cap {"lost", "silent", "reset"} = {} => waited >= Silence - Settle

\* A pilot who stays sees the video, if he is the only one who ever asked for it
\* and nothing is lost.
VideoArrives ==
  env = {} => \A v \in Viewers :
    (/\ [](link = "up" /\ \A w \in Viewers \ {v} : viewer[w] = "idle")
     /\ <>[](viewer[v] \notin {"idle", "closed"}))
      => []<>(viewer[v] = "watch" /\ "frame" \in box[v])
=============================================================================
