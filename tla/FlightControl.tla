--------------------------- MODULE FlightControl ---------------------------
(***************************************************************************)
(* One drone in flight: the pilots' requests to the backend                *)
(* (backend/routes/frontend_routes.py), the flags the backend keeps        *)
(* (backend/relaybox.py), and the relay box's rc_thread and landing_thread,*)
(* which poll these flags and command the drone over UDP                   *)
(* (relay/tello_edu_drone.py).  Both threads send and receive through one  *)
(* socket.  The drone stays registered throughout.                         *)
(***************************************************************************)
EXTENDS Naturals

CONSTANTS
  Pilots,      \* request threads of the web server that serve pilots
  Commands,    \* velocities a pilot may ask for
  Neutral,     \* [0,0,0,0]
  MaxReplies,  \* bound: replies waiting in the relay's socket
  EnvSets      \* what may happen around the program: sets of liberties, see below

Liberties ==
  { "impatient",   \* pilots ask while an earlier takeoff or landing is not over
    "held_key",    \* a pilot asks to land while the drone is told to move
    "lost",        \* datagrams to or from the drone are lost
    "late",        \* replies come after the relay has given up waiting
    "outage" }     \* HTTP requests of the relay fail

ASSUME FlightAssumption ==
  /\ Neutral \in Commands
  /\ MaxReplies \in Nat \ {0}
  /\ EnvSets \subseteq SUBSET Liberties

VARIABLES
  airborn, shouldTakeoff, shouldLand, cmdQueue,   \* the backend's Drone object
  pc, cmd,       \* the pilots' requests: next step, and the command carried
  rc,            \* rc_thread
  rcCmd,         \* the command it has read
  landing,       \* landing_thread
  takeoff,       \* TelloEduDrone.takeoff, shared by the two threads
  inbox,         \* commands under way to the drone
  replies,       \* replies to the relay: how many "ok" and "error"
  flying, velocity,  \* the drone itself
  env            \* the liberties taken in this behaviour: one of EnvSets

backend == <<airborn, shouldTakeoff, shouldLand, cmdQueue>>
pilot   == <<pc, cmd>>
relay   == <<rc, rcCmd, landing, takeoff>>
air     == <<inbox, replies, flying, velocity>>
state == <<airborn, shouldTakeoff, shouldLand, cmdQueue, pc, cmd, rc, rcCmd, landing, takeoff,
           inbox, replies, flying, velocity>>
vars  == <<state, env>>

\* Nothing asked for is still to be done; what a thread left when it died stays.
TakingOff    == {"takeoff_send", "takeoff_wait", "takeoff_report"}
RelayAtRest  == rc \notin TakingOff /\ landing \in {"poll", "dead"}
NothingAsked == ~ shouldTakeoff /\ ~ shouldLand /\ \A p \in Pilots : pc[p] \in {"idle", "cmd_set"}
AtRest       == RelayAtRest /\ NothingAsked

Init ==
  /\ env \in EnvSets
  /\ airborn = FALSE /\ shouldTakeoff = FALSE /\ shouldLand = FALSE /\ cmdQueue = Neutral
  /\ pc = [p \in Pilots |-> "idle"] /\ cmd = [p \in Pilots |-> Neutral]
  /\ rc = "poll" /\ rcCmd = Neutral /\ landing = "poll" /\ takeoff = FALSE
  /\ inbox = {} /\ replies = [ok |-> 0, error |-> 0]
  /\ flying = FALSE /\ velocity = Neutral

(* The pilots' requests.  A refused request (208, 406, 425) changes nothing. *)

Step(p, from, to) == pc[p] = from /\ pc' = [pc EXCEPT ![p] = to]
MayAsk == "impatient" \in env \/ AtRest

\* POST /drone/takeoff: should_takeoff is tested, then airborn, then the flag is set.
Takeoff(p) ==
  /\ Step(p, "idle", "takeoff_test") /\ MayAsk
  /\ ~ shouldTakeoff
  /\ UNCHANGED <<backend, cmd, relay, air>>

TakeoffTest(p) ==
  /\ Step(p, "takeoff_test", IF airborn THEN "idle" ELSE "takeoff_set")
  /\ UNCHANGED <<backend, cmd, relay, air>>

TakeoffSet(p) ==
  /\ Step(p, "takeoff_set", "idle")
  /\ shouldTakeoff' = TRUE
  /\ UNCHANGED <<airborn, shouldLand, cmdQueue, cmd, relay, air>>

\* POST /drone/land
Land(p) ==
  /\ Step(p, "idle", "land_test") /\ MayAsk
  /\ "held_key" \in env \/ cmdQueue = Neutral
  /\ ~ shouldLand
  /\ UNCHANGED <<backend, cmd, relay, air>>

LandTest(p) ==
  /\ Step(p, "land_test", IF airborn THEN "land_set" ELSE "idle")
  /\ UNCHANGED <<backend, cmd, relay, air>>

LandSet(p) ==
  /\ Step(p, "land_set", "idle")
  /\ shouldLand' = TRUE
  /\ UNCHANGED <<airborn, shouldTakeoff, cmdQueue, cmd, relay, air>>

\* POST /drone/new_command, as often as the pilot likes: airborn is tested before
\* the command is stored.
NewCommand(p, c) ==
  /\ Step(p, "idle", "cmd_set")
  /\ airborn
  /\ cmd' = [cmd EXCEPT ![p] = c]
  /\ UNCHANGED <<backend, relay, air>>

NewCommandSet(p) ==
  /\ Step(p, "cmd_set", "idle")
  /\ cmdQueue' = cmd[p]
  /\ cmd' = [cmd EXCEPT ![p] = Neutral]
  /\ UNCHANGED <<airborn, shouldTakeoff, shouldLand, relay, air>>

(* The link to the drone.  send_control_command sends a command again and  *)
(* again until an "ok" comes from the drone, to whichever thread receives  *)
(* it.  What a command does is the drone's business (Tello EDU).           *)

Deliver(c) == \/ inbox' = inbox \cup {c}
              \/ "lost" \in env /\ inbox' = inbox

TakeOk == /\ replies.ok > 0
          /\ replies' = [replies EXCEPT !.ok = @ - 1]

TakeError == /\ replies.error > 0
             /\ replies' = [replies EXCEPT !.error = @ - 1]

\* No reply in time: it is late, or the command or the reply is lost.
GiveUp == \/ "late" \in env
          \/ inbox = {} /\ replies.ok + replies.error = 0

\* A reply reaches the relay's socket, or is lost.
Reply(r) == \/ replies[r] < MaxReplies /\ replies' = [replies EXCEPT ![r] = @ + 1]
            \/ "lost" \in env /\ replies' = replies

\* A drone that already is where it is told to go answers one way or the other.
DroneTakeoff ==
  /\ "takeoff" \in inbox /\ inbox' = inbox \ {"takeoff"}
  /\ flying' = TRUE
  /\ \E r \in IF flying THEN {"ok", "error"} ELSE {"ok"} : Reply(r)
  /\ UNCHANGED <<backend, pilot, relay, velocity>>

DroneLand ==
  /\ "land" \in inbox /\ inbox' = inbox \ {"land"}
  /\ flying' = FALSE /\ velocity' = Neutral
  /\ \E r \in IF flying THEN {"ok"} ELSE {"ok", "error"} : Reply(r)
  /\ UNCHANGED <<backend, pilot, relay>>

(* rc_thread                                                               *)

\* GET /drone/should_takeoff resets the flag before the answer is sent.
RcPoll ==
  /\ rc = "poll" /\ shouldTakeoff
  /\ shouldTakeoff' = FALSE
  /\ rc' = "takeoff_send"
  /\ UNCHANGED <<airborn, shouldLand, cmdQueue, pilot, rcCmd, landing, takeoff, air>>

\* The answer is lost: the thread starts over, the request is gone.
RcPollFails ==
  /\ "outage" \in env
  /\ rc = "poll" /\ shouldTakeoff
  /\ shouldTakeoff' = FALSE
  /\ UNCHANGED <<airborn, shouldLand, cmdQueue, pilot, relay, air>>

RcTakeoffSend ==
  /\ rc = "takeoff_send" /\ rc' = "takeoff_wait"
  /\ Deliver("takeoff")
  /\ UNCHANGED <<backend, pilot, rcCmd, landing, takeoff, replies, flying, velocity>>

RcTakeoffAgain ==
  /\ rc = "takeoff_wait" /\ rc' = "takeoff_send"
  /\ TakeError \/ (GiveUp /\ UNCHANGED replies)
  /\ UNCHANGED <<backend, pilot, rcCmd, landing, takeoff, inbox, flying, velocity>>

\* Seeded fault: the relay's flag is not set.
RcTakeoffDone_NoFlag ==
  /\ rc = "takeoff_wait" /\ rc' = "takeoff_report"
  /\ TakeOk
  /\ UNCHANGED <<backend, pilot, rcCmd, landing, takeoff, inbox, flying, velocity>>

RcTakeoffDone ==
  /\ rc = "takeoff_wait" /\ rc' = "takeoff_report"
  /\ TakeOk
  /\ takeoff' = TRUE
  /\ UNCHANGED <<backend, pilot, rcCmd, landing, inbox, flying, velocity>>

\* POST /drone/successful_takeoff
RcTakeoffReport ==
  /\ rc = "takeoff_report" /\ rc' = "read"
  /\ airborn' = TRUE
  /\ UNCHANGED <<shouldTakeoff, shouldLand, cmdQueue, pilot, rcCmd, landing, takeoff, air>>

\* Seeded fault: the loop does not look at the relay's flag again.
RcRead_Forever ==
  /\ rc = "read"
  /\ rc' = "send" /\ rcCmd' = cmdQueue
  /\ UNCHANGED <<backend, pilot, landing, takeoff, air>>

\* Seeded fault: reading the commands takes them off the queue, as reading
\* should_takeoff takes the flag.
RcRead_Takes ==
  /\ rc = "read"
  /\ IF takeoff THEN rc' = "send" /\ rcCmd' = cmdQueue /\ cmdQueue' = "none"
                ELSE rc' = "poll" /\ rcCmd' = Neutral /\ UNCHANGED cmdQueue
  /\ UNCHANGED <<airborn, shouldTakeoff, shouldLand, pilot, landing, takeoff, air>>

\* GET /cmd_queue, as long as the relay's flag is set.
RcRead ==
  /\ rc = "read"
  /\ IF takeoff THEN rc' = "send" /\ rcCmd' = cmdQueue
                ELSE rc' = "poll" /\ rcCmd' = Neutral
  /\ UNCHANGED <<backend, pilot, landing, takeoff, air>>

\* Seeded fault: the loop does not read the commands again.
RcSend_NoRead ==
  /\ rc = "send"
  /\ \/ velocity' = IF flying THEN rcCmd ELSE velocity
     \/ "lost" \in env /\ UNCHANGED velocity
  /\ UNCHANGED <<backend, pilot, rc, rcCmd, landing, takeoff, inbox, replies, flying>>

\* An rc command is sent once and not answered.
RcSend ==
  /\ rc = "send" /\ rc' = "read"
  /\ \/ velocity' = IF flying THEN rcCmd ELSE velocity
     \/ "lost" \in env /\ UNCHANGED velocity
  /\ UNCHANGED <<backend, pilot, rcCmd, landing, takeoff, inbox, replies, flying>>

\* A request that fails while flying ends the thread; the backend may have
\* carried it out.
RcDies ==
  /\ "outage" \in env
  /\ rc \in {"takeoff_report", "read"} /\ rc' = "dead"
  /\ airborn' \in IF rc = "takeoff_report" THEN {airborn, TRUE} ELSE {airborn}
  /\ UNCHANGED <<shouldTakeoff, shouldLand, cmdQueue, pilot, rcCmd, landing, takeoff, air>>

(* landing_thread                                                          *)

\* Seeded fault: the thread stops rc_thread's loop and does not land the drone.
LandPoll_OnlyStops ==
  /\ landing = "poll" /\ shouldLand
  /\ shouldLand' = FALSE
  /\ takeoff' = FALSE
  /\ UNCHANGED <<airborn, shouldTakeoff, cmdQueue, pilot, rc, rcCmd, landing, air>>

\* GET /drone/should_land resets the flag; the thread then stops rc_thread's loop.
LandPoll ==
  /\ landing = "poll" /\ shouldLand
  /\ shouldLand' = FALSE
  /\ landing' = "land_send" /\ takeoff' = FALSE
  /\ UNCHANGED <<airborn, shouldTakeoff, cmdQueue, pilot, rc, rcCmd, air>>

\* Seeded fault: the thread does not wait for the drone's answer.
LandSend_NoWait ==
  /\ landing = "land_send" /\ landing' = "land_report"
  /\ Deliver("land")
  /\ UNCHANGED <<backend, pilot, rc, rcCmd, takeoff, replies, flying, velocity>>

LandSend ==
  /\ landing = "land_send" /\ landing' = "land_wait"
  /\ Deliver("land")
  /\ UNCHANGED <<backend, pilot, rc, rcCmd, takeoff, replies, flying, velocity>>

LandAgain ==
  /\ landing = "land_wait" /\ landing' = "land_send"
  /\ TakeError \/ (GiveUp /\ UNCHANGED replies)
  /\ UNCHANGED <<backend, pilot, rc, rcCmd, takeoff, inbox, flying, velocity>>

LandDone ==
  /\ landing = "land_wait" /\ landing' = "land_report"
  /\ TakeOk
  /\ UNCHANGED <<backend, pilot, rc, rcCmd, takeoff, inbox, flying, velocity>>

\* POST /drone/successful_land
LandReport ==
  /\ landing = "land_report" /\ landing' = "poll"
  /\ airborn' = FALSE
  /\ UNCHANGED <<shouldTakeoff, shouldLand, cmdQueue, pilot, rc, rcCmd, takeoff, air>>

\* No exception of requests is caught: the thread ends, again with or without
\* what the request asked of the backend.
LandDies ==
  /\ "outage" \in env
  /\ landing \in {"poll", "land_report"} /\ landing' = "dead"
  /\ shouldLand' \in IF landing = "poll" THEN {shouldLand, FALSE} ELSE {shouldLand}
  /\ airborn' \in IF landing = "land_report" THEN {airborn, FALSE} ELSE {airborn}
  /\ UNCHANGED <<shouldTakeoff, cmdQueue, pilot, rc, rcCmd, takeoff, air>>

-----------------------------------------------------------------------------
PilotStep(p) == TakeoffTest(p) \/ TakeoffSet(p) \/ LandTest(p) \/ LandSet(p) \/ NewCommandSet(p)
Ask(p)       == Takeoff(p) \/ Land(p) \/ \E c \in Commands : NewCommand(p, c)
RcStep       == RcPoll \/ RcTakeoffSend \/ RcTakeoffAgain \/ RcTakeoffDone \/ RcTakeoffReport \/ RcRead \/ RcSend
LandStep     == LandPoll \/ LandSend \/ LandAgain \/ LandDone \/ LandReport
DroneStep    == DroneTakeoff \/ DroneLand
Failure      == RcPollFails \/ RcDies \/ LandDies

Act  == (\E p \in Pilots : Ask(p) \/ PilotStep(p)) \/ RcStep \/ LandStep \/ DroneStep \/ Failure
Next == Act /\ UNCHANGED env

Spec == Init /\ [][Next]_vars

\* Threads and the drone keep running; no pilot has to ask for anything.
Fairness == /\ \A p \in Pilots : WF_state(PilotStep(p))
            /\ WF_state(RcStep) /\ WF_state(LandStep)
            /\ WF_state(DroneTakeoff) /\ WF_state(DroneLand)

FairSpec == Spec /\ Fairness

-----------------------------------------------------------------------------
(* Properties.                                                             *)

RcPoints   == {"poll", "takeoff_send", "takeoff_wait", "takeoff_report", "read", "send", "dead"}
LandPoints == {"poll", "land_send", "land_wait", "land_report", "dead"}

\* Every variable keeps its type, and a request that is not a command carries
\* no command.
TypeOK ==
  /\ airborn \in BOOLEAN /\ shouldTakeoff \in BOOLEAN /\ shouldLand \in BOOLEAN
  /\ cmdQueue \in Commands
  /\ pc \in [Pilots -> {"idle", "takeoff_test", "takeoff_set", "land_test", "land_set", "cmd_set"}]
  /\ cmd \in [Pilots -> Commands]
  /\ \A p \in Pilots : cmd[p] # Neutral => pc[p] = "cmd_set"
  /\ rc \in RcPoints /\ rcCmd \in Commands /\ landing \in LandPoints /\ takeoff \in BOOLEAN
  /\ inbox \subseteq {"takeoff", "land"}
  /\ replies \in [{"ok", "error"} -> 0 .. MaxReplies]
  /\ flying \in BOOLEAN /\ velocity \in Commands

\* Pilots wait for the outcome of what they asked, and the relay for its replies;
\* datagrams may be lost and requests fail, but not if the link is Reliable.
Patient  == env \subseteq {"held_key", "lost", "outage"}
Reliable == env \subseteq {"held_key"}

\* When nothing asked for is still to be done and no thread has died, the backend
\* (airborn), the relay box (takeoff) and the drone itself agree on whether it
\* flies, although a request may have come to nothing.
FlagsAgree ==
  Patient /\ AtRest /\ rc # "dead" /\ landing # "dead" => airborn = flying /\ takeoff = flying

\* /drone/successful_land "indicate[s] a successful landing": the drone has
\* landed when the backend takes it for landed, and flies when it is taken for
\* airborn, whichever thread has died.
ReportsAreTrue == [][Patient /\ airborn' # airborn => flying = airborn']_vars

\* An accepted takeoff request ends with a drone that flies and takes commands
\* (frontend_routes.py: "Now the drone should take off").
AcceptedTakeoffHappens == shouldTakeoff ~> flying /\ airborn

\* So it does for patient pilots over a reliable link.
TakeoffHappens == (Reliable /\ shouldTakeoff) ~> (flying /\ airborn)

\* An accepted land request brings the drone down.
LandHappens == (Reliable /\ shouldLand) ~> ~ flying

\* Once a landing has begun the drone is no longer sent velocities.
CommandsStop == (Reliable /\ landing = "land_send") ~> rc \notin {"read", "send"}

\* The velocity a pilot sets reaches the drone, unless it is replaced or the
\* drone lands.
CommandArrives ==
  \A c \in Commands : (Reliable /\ cmdQueue = c /\ airborn) ~> (velocity = c \/ cmdQueue # c \/ ~ takeoff)

\* The phase a patient pilot sees, while a thread that has died leaves its request
\* unfinished too; nothing is promised to an impatient one.
phase ==
  IF ~ Patient THEN "ground"
  ELSE IF \/ shouldLand \/ landing \notin {"poll", "dead"} \/ (airborn /\ ~ flying)
          \/ \E p \in Pilots : pc[p] = "land_set" THEN "descending"
  ELSE IF airborn THEN "air"
  ELSE IF \/ shouldTakeoff \/ rc \in TakingOff \/ flying
          \/ \E p \in Pilots : pc[p] = "takeoff_set" THEN "climbing"
  ELSE "ground"

F == INSTANCE Flight WITH flying <- Patient /\ flying, lossy <- "outage" \in env

\* Pilots who wait for the outcome of a request get one takeoff for every
\* takeoff request and one landing for every land request, in turn, and a request
\* comes to nothing only if the relay's requests fail.
FlightSpec == F!Spec
=============================================================================
