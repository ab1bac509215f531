--------------------------- MODULE RelayBox_proofs ---------------------------
(***************************************************************************)
(* Theorems about RelayBox, for every set of addresses, names, ports and   *)
(* liberties.                                                              *)
(***************************************************************************)
EXTENDS RelayBox, TLAPS

\* A name is reported only while the scan stands still for it.
GoneInv ==
  /\ gone \notin listed
  /\ gone # NULL => scan \in {"post", "dead"}
  /\ scan = "post" => gone # NULL

\* Who asks for a port is known to the scan, and not to the backend.
AskInv == \A n \in Names : Asks(n) => n \in listed \cup {gone} /\ n \notin registered

\* Listed drones have addresses, and status ports of their own; used_status_ports
\* is the set of those.
PortInv ==
  /\ \A n \in listed : host[n] \in Addrs /\ statusPort[n] \in StatusPorts
  /\ \A m, n \in listed : statusPort[m] = statusPort[n] => m = n
  /\ NoPortLost

BoxInv == TypeOK /\ NoGhost /\ GoneInv /\ AskInv /\ PortInv

-----------------------------------------------------------------------------
LEMMA BoxInit == Init => BoxInv
BY BoxAssumption DEF Init, BoxInv, TypeOK, NoGhost, GoneInv, AskInv, Asks, PortInv, NoPortLost

LEMMA LowestIn == ASSUME NEW S, NEW x \in Lowest(S) PROVE x \in S
BY DEF Lowest

\* add_drone gives a name and a status port that nobody has.
LEMMA AddFacts ==
  ASSUME BoxInv, NEW a \in Addrs, AddDrone(a)
  PROVE  \E n \in Names \ listed, p \in StatusPorts \ used :
           /\ listed' = listed \cup {n} /\ used' = used \cup {p}
           /\ host' = [host EXCEPT ![n] = a] /\ statusPort' = [statusPort EXCEPT ![n] = p]
           /\ thread' = [thread EXCEPT ![n] = "ask"]
           /\ gone = NULL /\ n \notin registered
           /\ UNCHANGED <<air, backend, scanner, socket>>
<1>1. PICK n \in Lowest(Names \ listed), p \in Lowest(StatusPorts \ used) :
           /\ listed' = listed \cup {n} /\ used' = used \cup {p}
           /\ host' = [host EXCEPT ![n] = a] /\ statusPort' = [statusPort EXCEPT ![n] = p]
           /\ thread' = [thread EXCEPT ![n] = "ask"]
  BY DEF AddDrone
<1>2. n \in Names \ listed /\ p \in StatusPorts \ used
  BY LowestIn
<1>3. scan = "filter" /\ UNCHANGED <<air, backend, scanner, socket>>
  BY DEF AddDrone
<1>4. gone = NULL
  BY <1>3 DEF BoxInv, GoneInv
<1>5. n \notin registered
  BY <1>2, <1>4, BoxAssumption DEF BoxInv, NoGhost
<1>. QED  BY <1>1, <1>2, <1>3, <1>4, <1>5

LEMMA TypeStep == BoxInv /\ [Next]_vars => TypeOK'
<1>. SUFFICES ASSUME BoxInv, [Next]_vars PROVE TypeOK'
  OBVIOUS
<1>. env' = env
  BY DEF Next, vars
<1>. USE BoxAssumption DEF BoxInv, TypeOK, Goto, Move, air, backend, scanner, list, socket
<1>1. ASSUME NEW a \in Addrs, AddDrone(a) PROVE TypeOK'
  <2>1. PICK n \in Names \ listed, p \in StatusPorts \ used :
           /\ listed' = listed \cup {n} /\ used' = used \cup {p}
           /\ host' = [host EXCEPT ![n] = a] /\ statusPort' = [statusPort EXCEPT ![n] = p]
           /\ thread' = [thread EXCEPT ![n] = "ask"]
           /\ UNCHANGED <<air, backend, scanner, socket>>
    BY <1>1, AddFacts
  <2>. QED  BY <2>1
<1>2. ASSUME NEW a \in Addrs, Ping(a) PROVE TypeOK'
  BY <1>2 DEF Ping
<1>3. ASSUME NEW n \in Names, DropDrone(n) PROVE TypeOK'
  BY <1>3 DEF DropDrone
<1>4. CASE Authenticate \/ AuthRefused
  BY <1>4 DEF Authenticate, AuthRefused
<1>5. CASE NextScan \/ Report \/ ReportDies
  BY <1>5 DEF NextScan, Report, ReportDies
<1>6. ASSUME NEW n \in Names, AskOk(n) \/ AskRefused(n) \/ AskDies(n) PROVE TypeOK'
  <2>1. registered' \subseteq registered \cup {n}
    BY <1>6 DEF AskOk, AskRefused, AskDies
  <2>2. thread' \in [Names -> {"ask", "ask_again", "send", "wait", "ready", "ended"}]
    BY <1>6 DEF AskOk, AskRefused, AskDies
  <2>3. UNCHANGED <<air, online, scanner, list, socket>>
    BY <1>6 DEF AskOk, AskRefused, AskDies
  <2>. QED  BY <2>1, <2>2, <2>3
<1>7. ASSUME NEW n \in Names, Send(n) PROVE TypeOK'
  BY <1>7 DEF Send, PortInv
<1>8. ASSUME NEW n \in Names, TakeOwn(n) \/ TakeForeign(n) \/ GiveUp(n) \/ Inactive(n) PROVE TypeOK'
  BY <1>8 DEF TakeOwn, TakeForeign, GiveUp, Inactive
<1>9. ASSUME NEW a \in Addrs, Arrive(a) \/ Leave(a) \/ Execute(a) \/ Lose(a) PROVE TypeOK'
  BY <1>9 DEF Arrive, Leave, Execute, Lose
<1>10. CASE TimedOut
  BY <1>10 DEF TimedOut
<1>11. CASE UNCHANGED vars
  BY <1>11 DEF vars, state
<1>. QED  BY <1>1, <1>2, <1>3, <1>4, <1>5, <1>6, <1>7, <1>8, <1>9, <1>10, <1>11 DEF Next, Act, ScanStep, DroneStep

(* The steps that touch what the scan knows or what the backend knows; the *)
(* others leave the rest of the invariant alone.                           *)
LEMMA BoxStep == BoxInv /\ [Next]_vars => BoxInv'
<1>. SUFFICES ASSUME BoxInv, [Next]_vars PROVE BoxInv'
  OBVIOUS
<1>. TypeOK'
  BY TypeStep
<1>. DEFINE Rest == NoGhost /\ GoneInv /\ AskInv /\ PortInv
<1>. SUFFICES Rest'
  BY DEF BoxInv
<1>. USE BoxAssumption DEF BoxInv, TypeOK, NoGhost, GoneInv, AskInv, Asks, PortInv, NoPortLost, Goto, Move,
           air, backend, scanner, list, socket
<1>1. ASSUME NEW a \in Addrs, AddDrone(a) PROVE Rest'
  <2>1. PICK n \in Names \ listed, p \in StatusPorts \ used :
           /\ listed' = listed \cup {n} /\ used' = used \cup {p}
           /\ host' = [host EXCEPT ![n] = a] /\ statusPort' = [statusPort EXCEPT ![n] = p]
           /\ thread' = [thread EXCEPT ![n] = "ask"]
           /\ gone = NULL /\ n \notin registered
           /\ UNCHANGED <<air, backend, scanner, socket>>
    BY <1>1, AddFacts
  <2>2. NoGhost' /\ GoneInv'
    BY <2>1
  <2>3. AskInv'
    BY <2>1
  <2>4. PortInv'
    BY <2>1
  <2>. QED  BY <2>2, <2>3, <2>4
<1>2. ASSUME NEW n \in Names, DropDrone(n) PROVE Rest'
  <2>1. gone = NULL /\ gone' = n /\ listed' = listed \ {n} /\ used' = used \ {statusPort[n]} /\ scan' = "post"
    BY <1>2 DEF DropDrone
  <2>2. UNCHANGED <<registered, thread, host, statusPort>> /\ n \in listed
    BY <1>2 DEF DropDrone
  <2>3. NoGhost' /\ GoneInv'
    BY <2>1, <2>2
  <2>4. AskInv'
    BY <2>1, <2>2
  <2>5. PortInv'
    BY <2>1, <2>2
  <2>. QED  BY <2>3, <2>4, <2>5
<1>3. CASE Report
  BY <1>3 DEF Report
<1>4. CASE Authenticate \/ AuthRefused \/ NextScan
  BY <1>4 DEF Authenticate, AuthRefused, NextScan
<1>12. CASE ReportDies
  <2>1. registered' \subseteq registered /\ scan' = "dead" /\ scan = "post"
    BY <1>12 DEF ReportDies
  <2>2. UNCHANGED <<gone, list, thread>>
    BY <1>12 DEF ReportDies
  <2>. QED  BY <2>1, <2>2
<1>5. ASSUME NEW a \in Addrs, Ping(a) PROVE Rest'
  BY <1>5 DEF Ping
<1>6. ASSUME NEW n \in Names, AskOk(n) PROVE Rest'
  BY <1>6 DEF AskOk
<1>7. ASSUME NEW n \in Names, AskRefused(n) PROVE Rest'
  BY <1>7 DEF AskRefused
<1>13. ASSUME NEW n \in Names, AskDies(n) PROVE Rest'
  <2>1. n \in listed \cup {gone} /\ registered' \subseteq registered \cup {n}
    BY <1>13 DEF AskDies
  <2>2. thread' = [thread EXCEPT ![n] = "ended"] /\ UNCHANGED <<scanner, list>>
    BY <1>13 DEF AskDies
  <2>. QED  BY <2>1, <2>2
<1>8. ASSUME NEW n \in Names, Send(n) \/ TakeOwn(n) \/ TakeForeign(n) \/ GiveUp(n) \/ Inactive(n) PROVE Rest'
  BY <1>8 DEF Send, TakeOwn, TakeForeign, GiveUp, Inactive
<1>9. ASSUME NEW a \in Addrs, Arrive(a) \/ Leave(a) \/ Execute(a) \/ Lose(a) PROVE Rest'
  BY <1>9 DEF Arrive, Leave, Execute, Lose
<1>10. CASE TimedOut
  BY <1>10 DEF TimedOut
<1>11. CASE UNCHANGED vars
  BY <1>11 DEF vars, state
<1>. QED  BY <1>1, <1>2, <1>3, <1>4, <1>5, <1>6, <1>7, <1>8, <1>9, <1>10, <1>11, <1>12, <1>13 DEF Next, Act, ScanStep, DroneStep

LEMMA BoxAlways == Spec => []BoxInv
BY BoxInit, BoxStep, PTL DEF Spec

-----------------------------------------------------------------------------
\* Every variable keeps its type.
THEOREM BoxTypes == Spec => []TypeOK
<1>1. BoxInv => TypeOK
  BY DEF BoxInv
<1>. QED  BY BoxAlways, <1>1, PTL

\* The backend never has a drone that the relay box neither lists nor is about to
\* report: whatever requests fail, and whatever becomes of the drones.
THEOREM NoGhosts == Spec => []NoGhost
<1>1. BoxInv => NoGhost
  BY DEF BoxInv
<1>. QED  BY BoxAlways, <1>1, PTL

\* used_status_ports holds the ports of the listed drones and no other
\* (get_status_port, delete_drone).
THEOREM PortsComeBack == Spec => []NoPortLost
<1>1. BoxInv => NoPortLost
  BY DEF BoxInv, PortInv
<1>. QED  BY BoxAlways, <1>1, PTL

\* No port is asked for under a name that the backend has.
THEOREM AsksOnce == Spec => NeverReregisters
<1>1. BoxInv /\ [Next]_vars => [\A n \in Names : AskOk(n) \/ AskDies(n) => n \notin registered]_vars
  BY DEF BoxInv, AskInv, AskOk, AskDies
<1>. QED  BY BoxAlways, <1>1, PTL DEF Spec, NeverReregisters

\* A name that is used again is one under which nobody asks any more.
THEOREM OneAsks == Spec => OneAsksPerName
<1>1. BoxInv /\ [Next]_vars => [\A n \in listed' \ listed : ~ Asks(n)]_vars
  <2>. SUFFICES ASSUME BoxInv, Next, NEW n \in listed' \ listed PROVE ~ Asks(n)
    OBVIOUS
  <2>1. PICK a \in Addrs : AddDrone(a)
    BY DEF Next, Act, ScanStep, DroneStep, Ping, Authenticate, AuthRefused, NextScan, DropDrone, Report, ReportDies,
           AskOk, AskRefused, AskDies, Send, TakeOwn, TakeForeign, GiveUp, Inactive, Arrive, Leave, Execute, Lose, TimedOut, list
  <2>2. gone = NULL /\ n \in Names
    BY <2>1, AddFacts DEF BoxInv, TypeOK
  <2>. QED  BY <2>2, BoxAssumption DEF BoxInv, AskInv
<1>. QED  BY BoxAlways, <1>1, PTL DEF Spec, OneAsksPerName
-----------------------------------------------------------------------------
(* The answers in the response socket.  While a drone has not been         *)
(* forgotten it cannot come back, so an answer of a drone that is there is *)
(* of its present visit: it has entered SDK mode.                          *)
AnswersInv ==
  "blink" \notin env => (\A a \in replies : a \in present => a \in commanded) /\ ReadyIsCommanded

LEMMA AnswersStep == BoxInv /\ AnswersInv /\ [Next]_vars => AnswersInv'
<1>. SUFFICES ASSUME BoxInv, AnswersInv, [Next]_vars PROVE AnswersInv'
  OBVIOUS
<1>. DEFINE Answers == \A a \in replies : a \in present => a \in commanded
            Ready   == \A n \in listed : thread[n] = "ready" /\ host[n] \in present => host[n] \in commanded
<1>. env' = env
  BY DEF Next, vars
<1>. SUFFICES ASSUME "blink" \notin env PROVE Answers' /\ Ready'
  BY DEF AnswersInv, ReadyIsCommanded
<1>a. Answers /\ Ready
  BY DEF AnswersInv, ReadyIsCommanded
<1>. USE BoxAssumption DEF BoxInv, TypeOK, Goto, Move, air, backend, scanner, list, socket
<1>1. ASSUME NEW a \in Addrs, Arrive(a) PROVE Answers' /\ Ready'
  \* It is forgotten: no answer of it is left, and no listed drone has its address.
  <2>1. a \notin replies /\ \A n \in listed : host[n] # a
    BY <1>1 DEF Arrive, Forgotten, Listed
  <2>. QED  BY <1>1, <1>a, <2>1 DEF Arrive
<1>2. ASSUME NEW a \in Addrs, Leave(a) PROVE Answers' /\ Ready'
  BY <1>2, <1>a DEF Leave
<1>3. ASSUME NEW a \in Addrs, Execute(a) PROVE Answers' /\ Ready'
  BY <1>3, <1>a DEF Execute
<1>4. ASSUME NEW a \in Addrs, Lose(a) PROVE Answers' /\ Ready'
  BY <1>4, <1>a DEF Lose
<1>5. ASSUME NEW a \in Addrs, AddDrone(a) PROVE Answers' /\ Ready'
  <2>1. PICK n \in Names \ listed, p \in StatusPorts \ used :
           /\ listed' = listed \cup {n} /\ host' = [host EXCEPT ![n] = a]
           /\ thread' = [thread EXCEPT ![n] = "ask"]
           /\ UNCHANGED <<air, backend, scanner, socket>>
    BY <1>5, AddFacts
  <2>. QED  BY <1>a, <2>1
<1>6. ASSUME NEW n \in Names, TakeOwn(n) PROVE Answers' /\ Ready'
  \* The answer it takes is its own.
  <2>1. host[n] \in replies
    BY <1>6 DEF TakeOwn
  <2>. QED  BY <1>6, <1>a, <2>1 DEF TakeOwn
<1>7. ASSUME NEW n \in Names, Send(n) \/ TakeForeign(n) \/ GiveUp(n) \/ Inactive(n) PROVE Answers' /\ Ready'
  BY <1>7, <1>a DEF Send, TakeForeign, GiveUp, Inactive
<1>8. ASSUME NEW n \in Names, AskOk(n) \/ AskRefused(n) \/ AskDies(n) PROVE Answers' /\ Ready'
  BY <1>8, <1>a DEF AskOk, AskRefused, AskDies
<1>9. ASSUME NEW n \in Names, DropDrone(n) PROVE Answers' /\ Ready'
  BY <1>9, <1>a DEF DropDrone
<1>10. ASSUME UNCHANGED <<air, listed, host, thread, replies>> PROVE Answers' /\ Ready'
  BY <1>10, <1>a
<1>. QED
  BY <1>1, <1>2, <1>3, <1>4, <1>5, <1>6, <1>7, <1>8, <1>9, <1>10
     DEF Next, Act, ScanStep, DroneStep, vars, state, Ping, Authenticate, AuthRefused, NextScan, Report, ReportDies, TimedOut

\* A drone that is ready has itself answered, whatever is lost, late or refused:
\* send_control_command takes an answer by its address.
THEOREM AnswersAreOwn == Spec => []ReadyIsCommanded
<1>1. Init => AnswersInv
  BY DEF Init, AnswersInv, ReadyIsCommanded
<1>2. AnswersInv => ReadyIsCommanded
  BY DEF AnswersInv, ReadyIsCommanded
<1>. QED  BY <1>1, <1>2, BoxAlways, AnswersStep, PTL DEF Spec

-----------------------------------------------------------------------------
(* Status ports: add_drone grants one, delete_drone gives one back, and    *)
(* every other step leaves them alone.                                     *)
LEMMA StatusLeaseStep == BoxInv /\ [Next]_vars => [StatusLease!Next]_statusLease
<1>. SUFFICES ASSUME BoxInv, [Next]_vars PROVE [StatusLease!Next]_statusLease
  OBVIOUS
<1>1. ASSUME UNCHANGED <<listed, statusPort>> PROVE [StatusLease!Next]_statusLease
  BY <1>1 DEF statusLease
<1>2. ASSUME NEW a \in Addrs, AddDrone(a) PROVE StatusLease!Next
  <2>1. PICK n \in Names \ listed, p \in StatusPorts \ used :
           listed' = listed \cup {n} /\ statusPort' = [statusPort EXCEPT ![n] = p]
    BY <1>2, AddFacts
  <2>2. statusLease["box"][n] = NULL
    BY <2>1 DEF statusLease
  <2>3. \A m \in {"box"}, e \in Names : statusLease[m][e] # p
    BY <2>1, BoxAssumption DEF statusLease, BoxInv, PortInv, NoPortLost
  <2>4. statusLease' = [statusLease EXCEPT !["box"][n] = p]
    BY <2>1 DEF statusLease, BoxInv, TypeOK
  <2>. QED  BY <2>1, <2>2, <2>3, <2>4 DEF StatusLease!Next, StatusLease!Grant
<1>3. ASSUME NEW n \in Names, DropDrone(n) PROVE StatusLease!Next
  <2>1. n \in listed /\ listed' = listed \ {n} /\ statusPort' = statusPort
    BY <1>3 DEF DropDrone
  <2>2. statusLease["box"][n] # NULL
    BY <2>1, BoxAssumption DEF statusLease, BoxInv, PortInv
  <2>3. statusLease' = [statusLease EXCEPT !["box"][n] = NULL]
    BY <2>1 DEF statusLease, BoxInv, TypeOK
  <2>. QED  BY <2>2, <2>3 DEF StatusLease!Next, StatusLease!Return
<1>. QED
  BY <1>1, <1>2, <1>3
     DEF Next, Act, ScanStep, DroneStep, vars, state, list, Ping, Authenticate, AuthRefused, NextScan, Report, ReportDies,
         AskOk, AskRefused, AskDies, Send, TakeOwn, TakeForeign, GiveUp, Inactive, Arrive, Leave, Execute, Lose, TimedOut

\* The relay box keeps its status ports as PortLease promises.
THEOREM ImplementsStatusLease == Spec => StatusLeaseSpec
<1>1. Init => StatusLease!Init
  BY DEF Init, StatusLease!Init, statusLease
<1>. QED  BY <1>1, BoxAlways, StatusLeaseStep, PTL DEF Spec, StatusLeaseSpec, StatusLease!Spec

-----------------------------------------------------------------------------
(* The backend, as RelayBox has it, is one of those RelayView allows, which*)
(* RelayRegistry implements.                                               *)

\* The relay box shakes hands once, and the backend has drones of an online relay
\* only.
JoinInv == (scan = "auth" => ~ online) /\ (~ online => registered = {})

LEMMA JoinStep == JoinInv /\ [Next]_vars => JoinInv'
<1>. SUFFICES ASSUME JoinInv, [Next]_vars PROVE JoinInv'
  OBVIOUS
<1>1. ASSUME UNCHANGED <<online, registered>>, scan' = "auth" => scan = "auth" PROVE JoinInv'
  BY <1>1 DEF JoinInv
<1>2. CASE Authenticate
  BY <1>2 DEF Authenticate, Goto, JoinInv
<1>3. CASE TimedOut
  BY <1>3 DEF TimedOut, scanner, JoinInv
<1>4. CASE Report
  BY <1>4 DEF Report, Goto, JoinInv
<1>5. ASSUME NEW n \in Names, AskOk(n) PROVE JoinInv'
  BY <1>5 DEF AskOk, scanner, JoinInv
<1>12. ASSUME NEW n \in Names, AskDies(n) PROVE JoinInv'
  BY <1>12 DEF AskDies, scanner, JoinInv
<1>13. CASE ReportDies
  BY <1>13 DEF ReportDies, Goto, JoinInv
<1>6. ASSUME NEW n \in Names, AskRefused(n) \/ Send(n) \/ TakeOwn(n) \/ TakeForeign(n) \/ GiveUp(n) \/ Inactive(n)
      PROVE  JoinInv'
  BY <1>1, <1>6 DEF AskRefused, Send, TakeOwn, TakeForeign, GiveUp, Inactive, backend, scanner
<1>7. ASSUME NEW a \in Addrs, Ping(a) \/ AddDrone(a) PROVE JoinInv'
  BY <1>1, <1>7 DEF Ping, AddDrone, Goto, backend, scanner
<1>8. ASSUME NEW n \in Names, DropDrone(n) PROVE JoinInv'
  BY <1>1, <1>8 DEF DropDrone, Goto, backend
<1>9. CASE AuthRefused \/ NextScan
  BY <1>1, <1>9 DEF AuthRefused, NextScan, Goto, backend
<1>10. ASSUME NEW a \in Addrs, Arrive(a) \/ Leave(a) \/ Execute(a) \/ Lose(a) PROVE JoinInv'
  BY <1>1, <1>10 DEF Arrive, Leave, Execute, Lose, backend, scanner
<1>11. CASE UNCHANGED vars
  BY <1>1, <1>11 DEF vars, state, backend, scanner
<1>. QED  BY <1>2, <1>3, <1>4, <1>5, <1>6, <1>7, <1>8, <1>9, <1>10, <1>11, <1>12, <1>13 DEF Next, Act, ScanStep, DroneStep

LEMMA BackendStep ==
  BoxInv /\ JoinInv /\ [Next]_vars
    => [Backend!Next]_<<IF online THEN {"box"} ELSE {}, [r \in {"box"} |-> registered]>>
<1>. SUFFICES ASSUME BoxInv, JoinInv, [Next]_vars
              PROVE  Backend!Next \/ UNCHANGED <<online, registered>>
  OBVIOUS
<1>1. CASE Authenticate
  BY <1>1 DEF Authenticate, Goto, JoinInv, Backend!Next, Backend!Join
<1>2. CASE TimedOut
  <2>1. [r \in {"box"} |-> registered'] = [[r \in {"box"} |-> registered] EXCEPT !["box"] = {}]
    BY <1>2 DEF TimedOut
  <2>. QED  BY <1>2, <2>1 DEF TimedOut, Backend!Next, Backend!Leave
<1>3. ASSUME NEW n \in Names, Asks(n), online, UNCHANGED online, registered' = registered \cup {n}
      PROVE  Backend!Next
  <2>1. n \notin registered
    BY <1>3 DEF BoxInv, AskInv
  <2>2. [r \in {"box"} |-> registered'] = [[r \in {"box"} |-> registered] EXCEPT !["box"] = @ \cup {n}]
    BY <1>3
  <2>. QED  BY <1>3, <2>1, <2>2 DEF Backend!Next, Backend!Register
<1>4. ASSUME UNCHANGED online, gone # NULL, registered' = registered \ {gone}
      PROVE  Backend!Next \/ UNCHANGED <<online, registered>>
  <2>1. CASE gone \notin registered
    BY <1>4, <2>1
  <2>2. CASE gone \in registered
    <3>1. online /\ gone \in Names
      BY <2>2, <1>4 DEF JoinInv, BoxInv, TypeOK
    <3>2. [r \in {"box"} |-> registered'] = [[r \in {"box"} |-> registered] EXCEPT !["box"] = @ \ {gone}]
      BY <1>4
    <3>. QED  BY <1>4, <2>2, <3>1, <3>2 DEF Backend!Next, Backend!Unregister
  <2>. QED  BY <2>1, <2>2
<1>5. ASSUME NEW n \in Names, AskOk(n) \/ AskDies(n)
      PROVE  Backend!Next \/ UNCHANGED <<online, registered>>
  <2>1. Asks(n) /\ UNCHANGED online /\ ((online /\ registered' = registered \cup {n}) \/ UNCHANGED registered)
    BY <1>5 DEF AskOk, AskDies
  <2>. QED  BY <1>3, <2>1
<1>6. CASE Report \/ ReportDies
  <2>1. gone # NULL /\ UNCHANGED online /\ (registered' = registered \ {gone} \/ UNCHANGED registered)
    BY <1>6 DEF Report, ReportDies, Goto, BoxInv, GoneInv
  <2>. QED  BY <1>4, <2>1
<1>. QED
  BY <1>1, <1>2, <1>5, <1>6
     DEF Next, Act, ScanStep, DroneStep, vars, state, backend, Ping, AddDrone, AuthRefused, NextScan, DropDrone,
         AskRefused, Send, TakeOwn, TakeForeign, GiveUp, Inactive, Arrive, Leave, Execute, Lose

\* A relay box, whatever fails, finds the backend to behave as RelayView says: it
\* needs no more of the backend than RelayRegistry shows to relay boxes.
THEOREM MeetsView == Spec => BackendSpec
<1>1. Init => JoinInv /\ Backend!Init
  BY DEF Init, JoinInv, Backend!Init
<1>. QED  BY <1>1, BoxAlways, JoinStep, BackendStep, PTL DEF Spec, BackendSpec, Backend!Spec

=============================================================================
