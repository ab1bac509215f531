------------------------- MODULE VideoSession_proofs -------------------------
(***************************************************************************)
(* Theorems about VideoSession, for any clients and liberties.             *)
(***************************************************************************)
EXTENDS VideoSession, TLAPS


LEMMA SendTypes ==
  ASSUME TypeOK, NEW kind \in Kinds, NEW to, Send(kind, to)
  PROVE  /\ box' \in [Peers -> SUBSET Kinds]
         /\ \A a \in Peers : box[a] \subseteq box'[a] /\ box'[a] \subseteq box[a] \cup {kind}
         /\ \A a \in Peers : a \notin to => box'[a] = box[a]
BY DEF TypeOK, Send

\* A client that goes on trying has tries left.
TypeInv == TypeOK /\ \A v \in Viewers : viewer[v] \in {"announce", "wait"} => count[v] < Tries

LEMMA TypeInit == Init => TypeInv
BY VideoAssumption DEF Init, TypeInv, TypeOK, Peers, Kinds, Silence, AnnounceWait

LEMMA TypeStep == TypeInv /\ [Next]_vars => TypeInv'
<1>. SUFFICES ASSUME TypeInv, [Next]_vars PROVE TypeInv'
  OBVIOUS
<1>. env' = env
  BY DEF Next, vars
<1>. USE VideoAssumption DEF TypeInv, TypeOK, Go, Took, SendTo, stream, drone, clients
<1>1. CASE Accept
  <2>1. box' \in [Peers -> SUBSET Kinds]
    BY <1>1, SendTypes DEF Accept, Kinds
  <2>. QED  BY <1>1, <2>1 DEF Accept, Silence
<1>2. CASE Forward
  <2>1. box' \in [Peers -> SUBSET Kinds]
    BY <1>2, SendTypes DEF Forward
  <2>. QED  BY <1>2, <2>1 DEF Forward, Silence
<1>3. CASE StreamEnds
  BY <1>3 DEF StreamEnds
<1>4. CASE Rts \/ RtsConfirmed \/ RtsAgain \/ Settled \/ Speed
  BY <1>4 DEF Rts, RtsConfirmed, RtsAgain, Settled, Speed, RtsWait, RtsRest, Settle, Peers, Kinds
<1>5. CASE RtsFails
  BY <1>5 DEF RtsFails, RtsRest
<1>6. CASE StreamOn
  BY <1>6 DEF StreamOn, StartCamera, Kinds
<1>7. CASE CommandFails
  <2>1. box' \in [Peers -> SUBSET Kinds] /\ camera' \in BOOLEAN
    <3>1. StartCamera \/ UNCHANGED <<camera, box>>
      BY <1>7 DEF CommandFails
    <3>2. CASE StartCamera
      BY <3>2 DEF StartCamera, Kinds
    <3>3. CASE UNCHANGED <<camera, box>>
      BY <3>3
    <3>. QED  BY <3>1, <3>2, <3>3
  <2>2. timer' \in Nat /\ waited' \in 0..MaxWait
    BY <1>7 DEF CommandFails, FailedTry, FailedTryInTakeoff
  <2>. QED  BY <1>7, <2>1, <2>2 DEF CommandFails
<1>8. CASE Video
  <2>1. PICK kind \in Kinds : Took("drone", kind) /\ SendTo("drone", kind)
    BY <1>8 DEF Video
  <2>2. inbox' \subseteq Peers \X Kinds
    BY <2>1 DEF Peers
  <2>3. box' \in [Peers -> SUBSET Kinds]
    BY <2>1
  <2>. QED  BY <1>8, <2>2, <2>3 DEF Video
<1>9. CASE Disconnect
  BY <1>9 DEF Disconnect
<1>15. CASE Stop
  <2>1. box' \in [Peers -> SUBSET Kinds]
    BY <1>15 DEF Stop
  <2>. QED  BY <1>15, <2>1 DEF Stop
<1>10. CASE Tick
  <2>1. quiet' \in 0..Silence
    BY <1>10 DEF Tick, Idle, Silence
  <2>2. viewerTimer' \in [Viewers -> 0..AnnounceWait]
    BY <1>10 DEF Tick, AnnounceWait
  <2>3. box' \in [Peers -> SUBSET Kinds] /\ timer' \in Nat
    BY <1>10 DEF Tick, Kinds
  <2>. QED  BY <1>10, <2>1, <2>2, <2>3 DEF Tick
<1>11. ASSUME NEW v \in Viewers, Connect(v) \/ Announce(v) \/ Quit(v)
       PROVE  TypeInv'
  BY <1>11 DEF Connect, Announce, Quit, Peers, Kinds, AnnounceWait
<1>12. ASSUME NEW v \in Viewers, Verified(v) \/ Show(v)
       PROVE  TypeInv'
  BY <1>12 DEF Verified, Show, AnnounceWait
<1>13. ASSUME NEW v \in Viewers, Unanswered(v)
       PROVE  TypeInv'
  BY <1>13 DEF Unanswered
<1>14. CASE UNCHANGED vars
  BY <1>14 DEF vars, state
<1>16. ASSUME NEW v \in Viewers, Stray(v)
       PROVE  TypeInv'
  BY <1>16 DEF Stray, Kinds
<1>. QED
  BY <1>1, <1>2, <1>3, <1>4, <1>5, <1>6, <1>7, <1>8, <1>9, <1>10, <1>11, <1>12, <1>13, <1>14, <1>15, <1>16
     DEF Next, Act, StreamStep, DroneStep, ViewerStep

-----------------------------------------------------------------------------
(* Who is verified is linked.                                              *)

\* Only those that the stream links get datagrams, unless a client has left another
\* drone; a drone gets frames, too.
LinkInv ==
  /\ TypeInv /\ VerifiedIsLinked
  /\ "note" \in box["drone"] => "drone" \in conns
  /\ "elsewhere" \notin env => \A v \in Viewers : box[v] # {} => v \in conns

LEMMA LinkStep == LinkInv /\ [Next]_vars => LinkInv'
<1>. SUFFICES ASSUME LinkInv, [Next]_vars PROVE LinkInv'
  OBVIOUS
<1>. TypeInv' /\ TypeOK
  BY TypeStep DEF LinkInv, TypeInv
<1>. env' = env
  BY DEF Next, vars
<1>. USE VideoAssumption DEF LinkInv, VerifiedIsLinked, Beyond, Go, Took, stream, drone, clients
<1>1. CASE Accept
  <2>1. PICK m \in inbox : conns' = conns \cup {m[1]}
    BY <1>1 DEF Accept
  <2>2. \A a \in Peers : a \notin conns' => box'[a] = box[a]
    BY <1>1, SendTypes DEF Accept, Kinds
  <2>3. UNCHANGED <<pc, viewer>>
    BY <1>1 DEF Accept
  <2>. QED  BY <2>1, <2>2, <2>3 DEF Peers
<1>2. CASE Forward
  <2>1. PICK m \in inbox : Send(m[2], conns \ {m[1]})
    BY <1>2 DEF Forward
  <2>2. \A a \in Peers : a \notin conns => box'[a] = box[a]
    BY <2>1 DEF Send
  <2>3. UNCHANGED <<conns, pc, viewer>>
    BY <1>2 DEF Forward
  <2>. QED  BY <2>2, <2>3 DEF Peers
<1>3. CASE StreamEnds \/ Disconnect
  BY <1>3 DEF StreamEnds, Disconnect
<1>4. CASE Rts \/ RtsAgain \/ Settled \/ Speed
  BY <1>4 DEF Rts, RtsAgain, Settled, Speed
<1>5. CASE RtsConfirmed \/ RtsFails
  BY <1>5 DEF RtsConfirmed, RtsFails, TypeOK, Peers
<1>6. CASE StreamOn \/ CommandFails
  <2>1. StartCamera \/ UNCHANGED box
    BY <1>6 DEF StreamOn, CommandFails
  <2>2. \A v \in Viewers : box'[v] = box[v]
    BY <2>1 DEF StartCamera, TypeOK, Peers
  <2>3. "note" \in box'["drone"] => "note" \in box["drone"]
    BY <2>1 DEF StartCamera, TypeOK, Peers
  <2>4. UNCHANGED <<conns, viewer>> /\ pc \in Beyond
    BY <1>6 DEF StreamOn, CommandFails
  <2>. QED  BY <2>2, <2>3, <2>4
<1>7. CASE Video \/ Stop
  BY <1>7 DEF Video, Stop, TypeOK, Peers
<1>8. CASE Tick
  <2>1. UNCHANGED <<conns, pc, viewer>>
    BY <1>8 DEF Tick, stream
  <2>2. \A v \in Viewers : box'[v] = box[v]
    BY <1>8 DEF Tick, TypeOK, Peers
  <2>3. "note" \in box'["drone"] => "note" \in box["drone"]
    BY <1>8 DEF Tick, TypeOK, Peers
  <2>. QED  BY <2>1, <2>2, <2>3
<1>9. ASSUME NEW v \in Viewers, Connect(v) \/ Announce(v) \/ Unanswered(v)
      PROVE  LinkInv'
  BY <1>9 DEF Connect, Announce, Unanswered, TypeOK
<1>10. ASSUME NEW v \in Viewers, Verified(v) \/ Show(v) \/ Quit(v)
      PROVE  LinkInv'
  <2>1. \A a \in Peers : box'[a] \subseteq box[a]
    BY <1>10 DEF Verified, Show, Quit, TypeOK, Peers
  <2>2. \A w \in Viewers : viewer'[w] = "watch" => viewer[w] = "watch" \/ box[w] # {}
    BY <1>10 DEF Verified, Show, Quit, TypeOK
  <2>3. UNCHANGED <<conns, pc>>
    BY <1>10 DEF Verified, Show, Quit
  <2>. QED  BY <2>1, <2>2, <2>3 DEF Peers
<1>11. CASE UNCHANGED vars
  BY <1>11 DEF vars, state, TypeOK
<1>12. ASSUME NEW v \in Viewers, Stray(v)
       PROVE  LinkInv'
  BY <1>12 DEF Stray, TypeOK, Peers
<1>. QED
  BY <1>1, <1>2, <1>3, <1>4, <1>5, <1>6, <1>7, <1>8, <1>9, <1>10, <1>11, <1>12
     DEF Next, Act, StreamStep, DroneStep, ViewerStep

LEMMA LinkAlways == Spec => []LinkInv
<1>1. Init => LinkInv
  BY TypeInit, VideoAssumption DEF Init, LinkInv, VerifiedIsLinked, Beyond, Peers
<1>. QED  BY <1>1, LinkStep, PTL DEF Spec

\* Every variable keeps its type.
THEOREM VideoTypes == Spec => []TypeOK
<1>1. LinkInv => TypeOK
  BY DEF LinkInv, TypeInv
<1>. QED  BY LinkAlways, <1>1, PTL

\* Whoever goes on from a handshake is one of the two that the stream links.
THEOREM VerifiedLinked == Spec => []VerifiedIsLinked
<1>1. LinkInv => VerifiedIsLinked
  BY DEF LinkInv
<1>. QED  BY LinkAlways, <1>1, PTL

-----------------------------------------------------------------------------
(* What silence takes: the seconds since the stream last read a datagram   *)
(* are bounded by what the drone's thread has done since.                  *)

TimerInv ==
  /\ pc \in {"rts", "video"} => timer = 0
  /\ pc = "rts_wait" => timer <= RtsWait
  /\ pc = "rts_rest" => timer <= RtsRest
  /\ pc = "settle" => timer <= Settle
  /\ pc \in {"streamon", "speed"} => timer <= waited
  /\ pc = "stopped" => link # "up"

CameraInv ==
  /\ pc \in {"speed", "video"} => camera
  /\ pc = "speed" => "frame" \in box["drone"]

Timely ==
  /\ pc = "rts" => quiet <= RtsWait + RtsRest
  /\ pc = "rts_wait" => quiet + timer <= RtsWait /\ ("note" \in box["drone"] => quiet = 0)
  /\ pc = "rts_rest" => quiet + timer <= RtsWait + RtsRest
  /\ pc = "settle" => quiet + timer <= Settle
  /\ pc \in {"streamon", "speed"} => quiet + timer <= Settle + waited
  /\ pc = "video" => quiet <= Settle + waited /\ (quiet = 0 \/ "frame" \in box["drone"])

Steady == env \cap {"lost", "silent", "reset"} = {} /\ link = "up"

SilenceInv ==
  /\ TypeInv /\ TimerInv /\ CameraInv /\ SilenceNeedsFailures
  /\ Steady /\ stage = "handle_stream" => inbox # {} \/ Timely

LEMMA TimerStep == SilenceInv /\ [Next]_vars => TimerInv'
<1>. SUFFICES ASSUME SilenceInv, [Next]_vars PROVE TimerInv'
  OBVIOUS
<1>. USE DEF SilenceInv, TypeInv, TypeOK, TimerInv, RtsWait, RtsRest, Settle, Go, stream, drone, clients
<1>1. CASE StreamStep
  BY <1>1 DEF StreamStep, Accept, Forward, StreamEnds
<1>2. CASE Rts \/ RtsConfirmed \/ RtsFails \/ RtsAgain \/ Settled
  BY <1>2 DEF Rts, RtsConfirmed, RtsFails, RtsAgain, Settled
<1>3. CASE StreamOn \/ Speed
  BY <1>3 DEF StreamOn, Speed
<1>4. CASE CommandFails
  BY <1>4 DEF CommandFails, FailedTry, FailedTryInTakeoff
<1>5. CASE Video \/ Stop \/ Disconnect
  BY <1>5 DEF Video, Stop, Disconnect
<1>6. CASE Tick
  BY <1>6 DEF Tick, Idle
<1>7. ASSUME NEW v \in Viewers, ViewerStep(v) \/ Connect(v) \/ Quit(v) \/ Stray(v)
      PROVE  TimerInv'
  BY <1>7 DEF ViewerStep, Announce, Verified, Unanswered, Show, Connect, Quit, Stray
<1>8. CASE UNCHANGED vars
  BY <1>8 DEF vars, state
<1>. QED  BY <1>1, <1>2, <1>3, <1>4, <1>5, <1>6, <1>7, <1>8 DEF Next, Act, DroneStep

LEMMA CameraStep == SilenceInv /\ [Next]_vars => CameraInv'
<1>. SUFFICES ASSUME SilenceInv, [Next]_vars PROVE CameraInv'
  OBVIOUS
<1>. TypeOK
  BY DEF SilenceInv, TypeInv
<1>. USE VideoAssumption DEF SilenceInv, CameraInv, Go, Took, stream, drone, clients
<1>1. CASE Accept
  BY <1>1, SendTypes DEF Accept, Kinds, Peers
<1>2. CASE Forward
  <2>1. PICK m \in inbox : Send(m[2], conns \ {m[1]})
    BY <1>2 DEF Forward
  <2>2. box["drone"] \subseteq box'["drone"]
    BY <2>1 DEF Send, Peers
  <2>. QED  BY <1>2, <2>2 DEF Forward
<1>3. CASE Rts \/ RtsConfirmed \/ RtsFails \/ RtsAgain \/ Settled \/ StreamEnds \/ Disconnect
  BY <1>3 DEF Rts, RtsConfirmed, RtsFails, RtsAgain, Settled, StreamEnds, Disconnect
<1>4. CASE StreamOn
  BY <1>4 DEF StreamOn, StartCamera, TypeOK, Peers
<1>5. CASE CommandFails
  <2>1. CASE StartCamera
    BY <1>5, <2>1 DEF CommandFails, StartCamera, TypeOK, Peers
  <2>2. CASE UNCHANGED <<camera, box>>
    BY <1>5, <2>2 DEF CommandFails
  <2>. QED  BY <1>5, <2>1, <2>2 DEF CommandFails
<1>6. CASE Speed \/ Video \/ Stop
  BY <1>6 DEF Speed, Video, Stop
<1>7. CASE Tick
  <2>1. box["drone"] \subseteq box'["drone"]
    BY <1>7 DEF Tick, TypeOK, Peers
  <2>. QED  BY <1>7, <2>1 DEF Tick
<1>8. ASSUME NEW v \in Viewers, ViewerStep(v) \/ Connect(v) \/ Quit(v) \/ Stray(v)
      PROVE  CameraInv'
  BY <1>8 DEF ViewerStep, Announce, Verified, Unanswered, Show, Connect, Quit, Stray, TypeOK, Peers
<1>9. CASE UNCHANGED vars
  BY <1>9 DEF vars, state
<1>. QED  BY <1>1, <1>2, <1>3, <1>4, <1>5, <1>6, <1>7, <1>8, <1>9 DEF Next, Act, StreamStep, DroneStep

LEMMA SilenceStep == SilenceInv /\ [Next]_vars => SilenceInv'
<1>. SUFFICES ASSUME SilenceInv, [Next]_vars PROVE SilenceInv'
  OBVIOUS
<1>0. TypeInv' /\ TimerInv' /\ CameraInv' /\ TypeOK
  BY TypeStep, TimerStep, CameraStep DEF SilenceInv, TypeInv
<1>. TypeOK /\ CameraInv'
  BY <1>0
<1>. env' = env
  BY DEF Next, vars
<1>. DEFINE InTime == Steady /\ stage = "handle_stream" => inbox # {} \/ Timely
<1>. SUFFICES SilenceNeedsFailures' /\ InTime'
  BY <1>0 DEF SilenceInv
<1>. USE VideoAssumption DEF SilenceInv, SilenceNeedsFailures, Steady, Silence, Settle, Go, Took, stream, drone, clients
<1>1. CASE Accept \/ Forward
  <2>1. UNCHANGED <<link, waited>> /\ stage' # "ended"
    BY <1>1 DEF Accept, Forward
  <2>2. stage' = "handle_stream" => quiet' = 0
    BY <1>1 DEF Accept, Forward
  <2>3. UNCHANGED <<pc, timer, waited>>
    BY <1>1 DEF Accept, Forward
  <2>4. quiet' = 0 => Timely'
    BY <2>3 DEF Timely, TimerInv, TypeOK, RtsWait, RtsRest
  <2>. QED  BY <2>1, <2>2, <2>4
<1>2. CASE StreamEnds
  <2>1. UNCHANGED <<link, waited>> /\ stage' = "ended"
    BY <1>2 DEF StreamEnds
  <2>2. ASSUME Steady PROVE waited >= Silence - Settle
    <3>1. stage = "handle_stream" /\ inbox = {} /\ quiet = Silence
      BY <1>2, <2>2 DEF StreamEnds
    <3>2. Timely /\ TimerInv
      BY <2>2, <3>1
    <3>. QED  BY <2>2, <3>1, <3>2 DEF Timely, TimerInv, TypeOK, RtsWait, RtsRest
  <2>. QED  BY <2>1, <2>2
<1>3. CASE Rts \/ Video
  <2>1. UNCHANGED <<stage, link, waited>>
    BY <1>3 DEF Rts, Video
  <2>2. Steady /\ stage = "handle_stream" => inbox' # {}
    BY <1>3 DEF Rts, Video, SendTo
  <2>. QED  BY <2>1, <2>2
<1>4. CASE RtsConfirmed \/ RtsFails \/ RtsAgain \/ Settled
  <2>1. UNCHANGED <<stage, link, waited, inbox, quiet>>
    BY <1>4 DEF RtsConfirmed, RtsFails, RtsAgain, Settled
  <2>2. Timely => Timely'
    BY <1>4 DEF RtsConfirmed, RtsFails, RtsAgain, Settled, Timely, TypeOK, RtsWait, RtsRest
  <2>. QED  BY <2>1, <2>2
<1>5. CASE StreamOn
  BY <1>5 DEF StreamOn, Timely, TypeOK
<1>11. CASE CommandFails
  <2>1. UNCHANGED <<stage, link, inbox, quiet, pc>> /\ pc \in {"streamon", "speed"} /\ timer = 0
    BY <1>11 DEF CommandFails
  <2>2. PICK secs \in Nat : timer' = secs /\ waited' = waited + secs
    BY <1>11 DEF CommandFails, FailedTry, FailedTryInTakeoff
  <2>3. Timely => Timely'
    BY <2>1, <2>2 DEF Timely, TypeOK
  <2>. QED  BY <2>1, <2>2, <2>3 DEF TypeOK
<1>6. CASE Speed
  BY <1>6 DEF Speed, Timely, CameraInv, TypeOK
<1>7. CASE Stop \/ Disconnect
  BY <1>7 DEF Stop, Disconnect
<1>8. CASE Tick
  <2>1. UNCHANGED <<stage, link, waited, inbox, pc, camera>> /\ inbox = {}
    BY <1>8 DEF Tick, Idle
  <2>2. ASSUME Steady, stage = "handle_stream", Timely PROVE Timely'
    <3>1. quiet' = quiet + 1 /\ (timer > 0 => timer' = timer - 1) /\ (timer = 0 => timer' = 0)
      BY <1>8, <2>2 DEF Tick
    <3>2. pc \in {"video", "stopped"} \/ timer > 0
      BY <1>8 DEF Tick, Idle
    <3>3. pc \in {"rts_wait", "video"} => box["drone"] = {}
      BY <1>8 DEF Tick, Idle
    <3>4. box' = [box EXCEPT !["drone"] = IF camera THEN @ \cup {"frame"} ELSE @]
      BY <1>8, <2>2 DEF Tick
    <3>5. pc = "rts_wait" => "note" \notin box'["drone"]
      BY <3>3, <3>4 DEF TypeOK, Peers
    <3>6. pc = "video" => quiet = 0 /\ "frame" \in box'["drone"]
      BY <2>2, <3>3, <3>4 DEF Timely, CameraInv, TypeOK, Peers
    <3>. QED  BY <2>1, <2>2, <3>1, <3>2, <3>5, <3>6 DEF Timely, TimerInv, TypeOK, RtsWait, RtsRest
  <2>. QED  BY <2>1, <2>2
<1>9. ASSUME NEW v \in Viewers, ViewerStep(v) \/ Connect(v) \/ Quit(v) \/ Stray(v)
      PROVE  SilenceNeedsFailures' /\ InTime'
  <2>1. UNCHANGED <<stage, link, waited, quiet, pc, timer>> /\ inbox \subseteq inbox'
    BY <1>9 DEF ViewerStep, Announce, Verified, Unanswered, Show, Connect, Quit, Stray, SendTo
  <2>2. box'["drone"] = box["drone"]
    BY <1>9 DEF ViewerStep, Announce, Verified, Unanswered, Show, Connect, Quit, Stray, TypeOK, Peers
  <2>. QED  BY <2>1, <2>2 DEF Timely
<1>10. CASE UNCHANGED vars
  BY <1>10 DEF vars, state, Timely
<1>. QED
  BY <1>1, <1>2, <1>3, <1>4, <1>5, <1>6, <1>7, <1>8, <1>9, <1>10, <1>11 DEF Next, Act, StreamStep, DroneStep

\* The stream of a drone that is there ends only after seven seconds of failed tries.
THEOREM SilenceTakesFailures == Spec => []SilenceNeedsFailures
<1>1. Init => SilenceInv
  BY TypeInit DEF Init, SilenceInv, TimerInv, CameraInv, SilenceNeedsFailures
<1>2. SilenceInv => SilenceNeedsFailures
  BY DEF SilenceInv
<1>. QED  BY <1>1, <1>2, SilenceStep, PTL DEF Spec
=============================================================================
