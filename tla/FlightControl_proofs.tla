------------------------ MODULE FlightControl_proofs ------------------------
(* Theorems of FlightControl, for any number of pilots and commands: the   *)
(* types under every liberty of the environment, and what patient pilots   *)
(* are promised, with the invariant that makes it so.                      *)
EXTENDS FlightControl, TLAPS

LEMMA InitTypes == Init => TypeOK
<1> SUFFICES ASSUME Init PROVE TypeOK
  OBVIOUS
<1>1. replies \in [{"ok", "error"} -> 0 .. MaxReplies]
  BY FlightAssumption DEF Init
<1>2. \A p \in Pilots : cmd[p] = Neutral
  BY DEF Init
<1> QED BY <1>1, <1>2, FlightAssumption DEF Init, TypeOK, RcPoints, LandPoints

\* What moves the pilots' requests keeps the types.
LEMMA PilotTypes ==
  ASSUME TypeOK, NEW p \in Pilots, Ask(p) \/ PilotStep(p)
  PROVE  TypeOK'
<1> USE FlightAssumption DEF TypeOK, Step, backend, pilot, relay, air
<1>1. CASE Takeoff(p)
  BY <1>1 DEF Takeoff
<1>2. CASE Land(p)
  BY <1>2 DEF Land
<1>3. ASSUME NEW c \in Commands, NewCommand(p, c) PROVE TypeOK'
  BY <1>3 DEF NewCommand
<1>4. CASE TakeoffTest(p)
  BY <1>4 DEF TakeoffTest
<1>5. CASE TakeoffSet(p)
  BY <1>5 DEF TakeoffSet
<1>6. CASE LandTest(p)
  BY <1>6 DEF LandTest
<1>7. CASE LandSet(p)
  BY <1>7 DEF LandSet
<1>8. CASE NewCommandSet(p)
  BY <1>8 DEF NewCommandSet
<1> QED BY <1>1, <1>2, <1>3, <1>4, <1>5, <1>6, <1>7, <1>8 DEF Ask, PilotStep

\* A reply that arrives is counted, up to the bound.
LEMMA ReplyType ==
  ASSUME replies \in [{"ok", "error"} -> 0 .. MaxReplies], NEW r \in {"ok", "error"}, Reply(r)
  PROVE  replies' \in [{"ok", "error"} -> 0 .. MaxReplies]
BY FlightAssumption DEF Reply

\* So do the relay box's threads, the drone and the failures.
LEMMA DroneTypes ==
  ASSUME TypeOK, RcStep \/ LandStep \/ DroneStep \/ Failure
  PROVE  TypeOK'
<1> USE FlightAssumption DEF TypeOK, RcPoints, LandPoints, backend, pilot, relay, air
<1>1. CASE RcPoll
  BY <1>1 DEF RcPoll
<1>2. CASE RcTakeoffSend
  BY <1>2 DEF RcTakeoffSend, Deliver
<1>3. CASE RcTakeoffAgain
  BY <1>3 DEF RcTakeoffAgain, TakeError
<1>4. CASE RcTakeoffDone
  BY <1>4 DEF RcTakeoffDone, TakeOk
<1>5. CASE RcTakeoffReport
  BY <1>5 DEF RcTakeoffReport
<1>6. CASE RcRead
  BY <1>6 DEF RcRead
<1>7. CASE RcSend
  BY <1>7 DEF RcSend
<1>8. CASE LandPoll
  BY <1>8 DEF LandPoll
<1>9. CASE LandSend
  BY <1>9 DEF LandSend, Deliver
<1>10. CASE LandAgain
  BY <1>10 DEF LandAgain, TakeError
<1>11. CASE LandDone
  BY <1>11 DEF LandDone, TakeOk
<1>12. CASE LandReport
  BY <1>12 DEF LandReport
<1>13. CASE DroneTakeoff
  <2>1. replies' \in [{"ok", "error"} -> 0 .. MaxReplies]
    BY <1>13, ReplyType DEF DroneTakeoff
  <2> QED BY <1>13, <2>1 DEF DroneTakeoff
<1>14. CASE DroneLand
  <2>1. replies' \in [{"ok", "error"} -> 0 .. MaxReplies]
    BY <1>14, ReplyType DEF DroneLand
  <2> QED BY <1>14, <2>1 DEF DroneLand
<1>15. CASE Failure
  BY <1>15, ZenonT(60) DEF Failure, RcPollFails, RcDies, LandDies
<1> HIDE DEF TypeOK, RcPoints, LandPoints, backend, pilot, relay, air
<1> QED
  BY <1>1, <1>2, <1>3, <1>4, <1>5, <1>6, <1>7, <1>8, <1>9, <1>10, <1>11, <1>12, <1>13, <1>14, <1>15
  DEF RcStep, LandStep, DroneStep

\* Type correctness, under every liberty: the variables of the backend, the
\* relay box and the drone keep their types, and a request carries a command
\* only while it delivers one.
THEOREM TypeCorrect == Spec => []TypeOK
<1>1. TypeOK /\ [Next]_vars => TypeOK'
  <2>1. CASE UNCHANGED vars
    BY <2>1 DEF TypeOK, vars, state
  <2> QED BY <2>1, PilotTypes, DroneTypes DEF Next, Act
<1> QED BY <1>1, InitTypes, PTL DEF Spec

-----------------------------------------------------------------------------
(* Patient pilots: the invariant behind FlagsAgree, ReportsAreTrue and     *)
(* FlightSpec.  It is stronger than any of them, because what a step does  *)
(* depends on what is under way elsewhere.                                 *)

Asks == {"takeoff_test", "takeoff_set", "land_test", "land_set"}

\* One request is under way at a time: with one pilot, in a flag of the backend,
\* or with one of the two threads.  A thread that has died has nothing under way.
OneAtATime ==
  /\ \A p, q \in Pilots : pc[p] \in Asks /\ pc[q] \in Asks => p = q
  /\ \A p \in Pilots : pc[p] \in Asks => RelayAtRest /\ ~ shouldTakeoff /\ ~ shouldLand
  /\ shouldTakeoff \/ shouldLand => RelayAtRest
  /\ ~ (shouldTakeoff /\ shouldLand)
  /\ rc \in TakingOff => landing \in {"poll", "dead"}

\* Where backend, relay box and drone agree, and in which order they change.
Informed ==
  /\ \A p \in Pilots : pc[p] = "takeoff_set" => ~ airborn
  /\ \A p \in Pilots : pc[p] = "land_set" => airborn
  /\ (shouldTakeoff => ~ airborn) /\ (shouldLand => airborn)
  /\ rc \in {"poll", "read", "send"} /\ landing = "poll" => airborn = flying /\ takeoff = flying
  /\ rc \in {"poll", "read", "send"} /\ flying => airborn
  /\ landing = "poll" /\ airborn => flying
  /\ rc \in {"poll", "takeoff_send", "takeoff_wait"} => ~ takeoff
  /\ rc \in TakingOff => ~ airborn
  /\ rc = "takeoff_report" => flying /\ takeoff
  /\ landing \notin {"poll", "dead"} => airborn /\ ~ takeoff
  /\ landing = "land_report" => ~ flying

\* At most one datagram is under way, and it belongs to the thread that waits.
Link ==
  /\ rc # "takeoff_wait" /\ landing # "land_wait" => inbox = {} /\ replies.ok = 0 /\ replies.error = 0
  /\ rc = "takeoff_wait" => inbox \subseteq {"takeoff"}
  /\ landing = "land_wait" => inbox \subseteq {"land"}
  /\ inbox # {} => replies.ok = 0 /\ replies.error = 0
  /\ replies.ok = 0 \/ replies.error = 0
  /\ replies.ok \in {0, 1} /\ replies.error \in {0, 1}
  /\ replies.ok = 1 /\ rc = "takeoff_wait" => flying
  /\ replies.ok = 1 /\ landing = "land_wait" => ~ flying

PatientInv == Patient => OneAtATime /\ Informed /\ Link

LEMMA InitPatient == Init => PatientInv
<1> SUFFICES ASSUME Init PROVE OneAtATime /\ Informed /\ Link
  BY DEF PatientInv
<1>1. \A p \in Pilots : pc[p] = "idle"
  BY DEF Init
<1>2. OneAtATime
  BY <1>1 DEF Init, OneAtATime, Asks, TakingOff
<1>3. Informed
  BY <1>1 DEF Init, Informed, TakingOff
<1>4. Link
  BY DEF Init, Link
<1> QED BY <1>2, <1>3, <1>4

\* A pilot's request, which finds everything at rest or carries on alone.
LEMMA PilotPatient ==
  ASSUME TypeOK, Patient, OneAtATime, Informed, Link, NEW p \in Pilots, Ask(p) \/ PilotStep(p)
  PROVE  OneAtATime' /\ Informed' /\ Link'
<1> USE DEF TypeOK, OneAtATime, Informed, Link, Asks, TakingOff, RelayAtRest, Step, backend, pilot, relay, air
<1>a. MayAsk => RelayAtRest /\ NothingAsked
  BY DEF MayAsk, AtRest, Patient
<1>1. CASE Takeoff(p)
  BY <1>1, <1>a DEF Takeoff, NothingAsked
<1>2. CASE Land(p)
  BY <1>2, <1>a DEF Land, NothingAsked
<1>3. ASSUME NEW c \in Commands, NewCommand(p, c) PROVE OneAtATime' /\ Informed' /\ Link'
  BY <1>3, ZenonT(60) DEF NewCommand
<1>4. CASE TakeoffTest(p)
  BY <1>4 DEF TakeoffTest
<1>5. CASE TakeoffSet(p)
  BY <1>5 DEF TakeoffSet
<1>6. CASE LandTest(p)
  BY <1>6 DEF LandTest
<1>7. CASE LandSet(p)
  BY <1>7 DEF LandSet
<1>8. CASE NewCommandSet(p)
  BY <1>8 DEF NewCommandSet
<1> QED BY <1>1, <1>2, <1>3, <1>4, <1>5, <1>6, <1>7, <1>8 DEF Ask, PilotStep

\* A step of rc_thread: nobody else has anything under way.
LEMMA RcPatient ==
  ASSUME TypeOK, Patient, OneAtATime, Informed, Link, RcStep
  PROVE  OneAtATime' /\ Informed' /\ Link'
<1> USE DEF TypeOK, OneAtATime, Informed, Link, TakingOff, RelayAtRest, RcPoints, LandPoints, backend, pilot, relay, air
<1>a. GiveUp => inbox = {} /\ replies.ok = 0 /\ replies.error = 0
  BY DEF GiveUp, Patient
<1>1. CASE RcPoll
  BY <1>1 DEF RcPoll
<1>2. CASE RcTakeoffSend
  <2>1. inbox' \subseteq {"takeoff"} /\ UNCHANGED replies /\ replies.ok = 0 /\ replies.error = 0
    BY <1>2 DEF RcTakeoffSend, Deliver
  <2>2. OneAtATime' /\ Informed'
    BY <1>2 DEF RcTakeoffSend
  <2>3. Link'
    BY <1>2, <2>1 DEF RcTakeoffSend
  <2> QED BY <2>2, <2>3
<1>3. CASE RcTakeoffAgain
  BY <1>3, <1>a DEF RcTakeoffAgain, TakeError
<1>4. CASE RcTakeoffDone
  BY <1>4 DEF RcTakeoffDone, TakeOk
<1>5. CASE RcTakeoffReport
  BY <1>5 DEF RcTakeoffReport, Asks
<1>6. CASE RcRead
  BY <1>6 DEF RcRead
<1>7. CASE RcSend
  BY <1>7 DEF RcSend
<1> QED BY <1>1, <1>2, <1>3, <1>4, <1>5, <1>6, <1>7 DEF RcStep

\* A step of landing_thread.
LEMMA LandPatient ==
  ASSUME TypeOK, Patient, OneAtATime, Informed, Link, LandStep
  PROVE  OneAtATime' /\ Informed' /\ Link'
<1> USE DEF TypeOK, OneAtATime, Informed, Link, TakingOff, RelayAtRest, RcPoints, LandPoints, backend, pilot, relay, air
<1>a. GiveUp => inbox = {} /\ replies.ok = 0 /\ replies.error = 0
  BY DEF GiveUp, Patient
<1>1. CASE LandPoll
  BY <1>1 DEF LandPoll
<1>2. CASE LandSend
  <2>1. inbox' \subseteq {"land"} /\ UNCHANGED replies /\ replies.ok = 0 /\ replies.error = 0
    BY <1>2 DEF LandSend, Deliver
  <2>2. OneAtATime' /\ Informed'
    BY <1>2 DEF LandSend
  <2>3. Link'
    BY <1>2, <2>1 DEF LandSend
  <2> QED BY <2>2, <2>3
<1>3. CASE LandAgain
  BY <1>3, <1>a DEF LandAgain, TakeError
<1>4. CASE LandDone
  BY <1>4 DEF LandDone, TakeOk
<1>5. CASE LandReport
  BY <1>5 DEF LandReport, Asks
<1> QED BY <1>1, <1>2, <1>3, <1>4, <1>5 DEF LandStep

\* What the drone does answers the thread that waits.
LEMMA AirPatient ==
  ASSUME TypeOK, Patient, OneAtATime, Informed, Link, DroneStep
  PROVE  OneAtATime' /\ Informed' /\ Link'
<1> USE DEF TypeOK, OneAtATime, Informed, Link, TakingOff, RelayAtRest, RcPoints, LandPoints, backend, pilot, relay, air
<1>1. CASE DroneTakeoff
  <2>1. rc = "takeoff_wait" /\ inbox' = {} /\ replies.ok = 0 /\ replies.error = 0 /\ flying'
    BY <1>1 DEF DroneTakeoff
  <2>2. OneAtATime' /\ Informed'
    BY <1>1, <2>1 DEF DroneTakeoff
  <2>3. (replies'.ok = 0 \/ replies'.error = 0) /\ replies'.ok \in {0, 1} /\ replies'.error \in {0, 1}
    BY <1>1, <2>1 DEF DroneTakeoff, Reply
  <2>4. Link'
    BY <1>1, <2>1, <2>3 DEF DroneTakeoff
  <2> QED BY <2>2, <2>4
<1>2. CASE DroneLand
  <2>1. landing = "land_wait" /\ inbox' = {} /\ replies.ok = 0 /\ replies.error = 0 /\ ~ flying'
    BY <1>2 DEF DroneLand
  <2>2. OneAtATime' /\ Informed'
    BY <1>2, <2>1 DEF DroneLand
  <2>3. (replies'.ok = 0 \/ replies'.error = 0) /\ replies'.ok \in {0, 1} /\ replies'.error \in {0, 1}
    BY <1>2, <2>1 DEF DroneLand, Reply
  <2>4. Link'
    BY <1>2, <2>1, <2>3 DEF DroneLand
  <2> QED BY <2>2, <2>4
<1> QED BY <1>1, <1>2 DEF DroneStep

\* A request that fails loses what was asked for, or ends a thread for good.
LEMMA FailurePatient ==
  ASSUME TypeOK, Patient, OneAtATime, Informed, Link, Failure
  PROVE  OneAtATime' /\ Informed' /\ Link'
<1> USE DEF TypeOK, OneAtATime, Informed, Link, TakingOff, RelayAtRest, RcPoints, LandPoints, backend, pilot, relay, air
<1>1. CASE RcPollFails
  BY <1>1 DEF RcPollFails
<1>2. CASE RcDies
  <2>1. /\ rc \in {"takeoff_report", "read"} /\ rc' = "dead"
        /\ airborn' = airborn \/ (rc = "takeoff_report" /\ airborn' = TRUE)
        /\ UNCHANGED <<shouldTakeoff, shouldLand, pc, landing, takeoff, inbox, replies, flying>>
    BY <1>2 DEF RcDies
  <2>2. OneAtATime'
    BY <2>1 DEF Asks
  <2>3. Informed'
    BY <2>1 DEF Asks
  <2>4. Link'
    BY <2>1
  <2> QED BY <2>2, <2>3, <2>4
<1>3. CASE LandDies
  <2>1. /\ landing \in {"poll", "land_report"} /\ landing' = "dead"
        /\ shouldLand' = shouldLand \/ (landing = "poll" /\ shouldLand' = FALSE)
        /\ airborn' = airborn \/ (landing = "land_report" /\ airborn' = FALSE)
        /\ UNCHANGED <<shouldTakeoff, pc, rc, takeoff, inbox, replies, flying>>
    BY <1>3 DEF LandDies
  <2>2. OneAtATime'
    BY <2>1 DEF Asks
  <2>3. Informed'
    BY <2>1 DEF Asks
  <2>4. Link'
    BY <2>1
  <2> QED BY <2>2, <2>3, <2>4
<1> QED BY <1>1, <1>2, <1>3 DEF Failure

LEMMA PatientStep == TypeOK /\ PatientInv /\ [Next]_vars => PatientInv'
<1> SUFFICES ASSUME TypeOK, PatientInv, [Next]_vars, Patient' PROVE OneAtATime' /\ Informed' /\ Link'
  BY DEF PatientInv
<1>1. Patient /\ OneAtATime /\ Informed /\ Link
  BY DEF PatientInv, Patient, Next, vars
<1>2. CASE UNCHANGED vars
  BY <1>1, <1>2 DEF vars, state, OneAtATime, Informed, Link, RelayAtRest
<1>3. CASE Next
  BY <1>1, <1>3, PilotPatient, RcPatient, LandPatient, AirPatient, FailurePatient DEF Next, Act
<1> QED BY <1>2, <1>3

LEMMA PatientAlways == Spec => [](TypeOK /\ PatientInv)
<1>1. TypeOK /\ PatientInv /\ [Next]_vars => PatientInv'
  BY PatientStep
<1> QED BY <1>1, InitPatient, TypeCorrect, PTL DEF Spec

\* When nothing asked for is still to be done, backend, relay box and drone agree
\* on whether it flies: for any number of patient pilots, whatever is lost and
\* whichever requests fail, as long as both threads live.
THEOREM Agreement == Spec => []FlagsAgree
<1>1. TypeOK /\ PatientInv => FlagsAgree
  <2> SUFFICES ASSUME TypeOK, PatientInv, Patient, AtRest, rc # "dead", landing # "dead"
               PROVE  airborn = flying /\ takeoff = flying
    BY DEF FlagsAgree
  <2>1. rc \in {"poll", "read", "send"} /\ landing = "poll"
    BY DEF TypeOK, RcPoints, AtRest, RelayAtRest, TakingOff
  <2> QED BY <2>1 DEF PatientInv, Informed
<1> QED BY <1>1, PatientAlways, PTL

\* The backend takes a drone for airborn, or for landed, only when it is, even if
\* the report is the last request of a thread.
THEOREM TrueReports == Spec => ReportsAreTrue
<1>1. TypeOK /\ PatientInv /\ [Next]_vars => [Patient /\ airborn' # airborn => flying = airborn']_vars
  <2> SUFFICES ASSUME TypeOK, PatientInv, Next, Patient, airborn' # airborn PROVE flying = airborn'
    OBVIOUS
  <2>1. RcTakeoffReport \/ LandReport \/ RcDies \/ LandDies
    BY DEF Next, Act, Ask, PilotStep, Takeoff, Land, NewCommand, TakeoffTest, TakeoffSet, LandTest, LandSet,
      NewCommandSet, RcStep, RcPoll, RcTakeoffSend, RcTakeoffAgain, RcTakeoffDone, RcRead, RcSend, LandStep,
      LandPoll, LandSend, LandAgain, LandDone, DroneStep, DroneTakeoff, DroneLand, Failure, RcPollFails, backend
  <2> QED BY <2>1 DEF TypeOK, PatientInv, Informed, RcTakeoffReport, LandReport, RcDies, LandDies
<1> QED BY <1>1, PatientAlways, PTL DEF Spec, ReportsAreTrue

\* One step of the program is one step of Flight, or none.
LEMMA FlightStep ==
  ASSUME TypeOK, TypeOK', PatientInv, PatientInv', [Next]_vars
  PROVE  [F!Next]_<<phase, Patient /\ flying, "outage" \in env>>
<1> DEFINE Skip == UNCHANGED <<phase, Patient /\ flying>>
<1>1. Patient' = Patient /\ ("outage" \in env)' = ("outage" \in env)
  BY DEF Patient, Next, vars
<1>2. CASE ~ Patient
  BY <1>1, <1>2 DEF phase
<1>3. CASE Patient
  <2> SUFFICES F!Move \/ Skip
    BY <1>1 DEF F!Next
  <2> USE <1>1, <1>3 DEF PatientInv, OneAtATime, Informed, phase, TakingOff, Asks, RelayAtRest, backend, pilot, relay, air
  <2>u. CASE UNCHANGED vars
    BY <2>u DEF vars, state
  <2>1. ASSUME NEW p \in Pilots, Takeoff(p) \/ Land(p) \/ (\E c \in Commands : NewCommand(p, c)) \/ NewCommandSet(p)
        PROVE  Skip
    BY <2>1 DEF Takeoff, Land, NewCommand, NewCommandSet, Step, TypeOK
  <2>2. ASSUME NEW p \in Pilots, TakeoffTest(p) PROVE F!AskTakeoff \/ Skip
    BY <2>2 DEF TakeoffTest, Step, TypeOK, F!AskTakeoff
  <2>3. ASSUME NEW p \in Pilots, TakeoffSet(p) PROVE Skip
    BY <2>3 DEF TakeoffSet, Step, TypeOK
  <2>4. ASSUME NEW p \in Pilots, LandTest(p) PROVE F!AskLand \/ Skip
    BY <2>4 DEF LandTest, Step, TypeOK, F!AskLand
  <2>5. ASSUME NEW p \in Pilots, LandSet(p) PROVE Skip
    BY <2>5 DEF LandSet, Step, TypeOK
  <2>6. CASE RcTakeoffReport
    BY <2>6 DEF RcTakeoffReport, F!Move, F!Arrive
  <2>7. CASE RcStep /\ ~ RcTakeoffReport
    BY <2>7 DEF RcStep, RcPoll, RcTakeoffSend, RcTakeoffAgain, RcTakeoffDone, RcRead, RcSend
  <2>8. CASE LandReport
    BY <2>8 DEF LandReport, F!Move, F!Rest
  <2>9. CASE LandStep /\ ~ LandReport
    BY <2>9 DEF LandStep, LandPoll, LandSend, LandAgain, LandDone
  <2>10. CASE DroneTakeoff
    BY <2>10 DEF DroneTakeoff, Link, F!Move, F!Rise
  <2>11. CASE DroneLand
    BY <2>11 DEF DroneLand, Link, F!Move, F!Touch
  <2>12. CASE RcPollFails
    BY <2>12 DEF RcPollFails, F!Move, F!LoseTakeoff, TypeOK, RcPoints
  <2>13. CASE RcDies
    BY <2>13 DEF RcDies, F!Move, F!Arrive
  <2>14. CASE LandDies
    BY <2>14 DEF LandDies, F!Move, F!LoseLand, F!Rest
  <2> HIDE DEF PatientInv, OneAtATime, Informed, phase, TakingOff, Asks, RelayAtRest, backend, pilot, relay, air
  <2> QED
    BY <2>u, <2>1, <2>2, <2>3, <2>4, <2>5, <2>6, <2>7, <2>8, <2>9, <2>10, <2>11, <2>12, <2>13, <2>14
    DEF Next, Act, Ask, PilotStep, DroneStep, Failure, F!Move
<1> QED BY <1>2, <1>3

\* Backend, relay box and drone together implement Flight: for any number of
\* patient pilots, and whatever is lost, each request leads to one takeoff or one
\* landing, and the next is accepted when it is over; a request comes to nothing
\* only if requests of the relay fail, and then the drone stays where it is.
THEOREM ImplementsFlight == Spec => FlightSpec
<1>1. Init => F!Init
  BY DEF Init, F!Init, phase, TakingOff
<1>2. (TypeOK /\ PatientInv) /\ (TypeOK /\ PatientInv)' /\ [Next]_vars
      => [F!Next]_<<phase, Patient /\ flying, "outage" \in env>>
  BY FlightStep
<1> QED BY <1>1, <1>2, PatientAlways, PTL DEF Spec, FlightSpec, F!Spec
=============================================================================
