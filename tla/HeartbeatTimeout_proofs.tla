---------------------- MODULE HeartbeatTimeout_proofs ----------------------
(***************************************************************************)
(* Theorems about HeartbeatTimeout, for every choice of its times.         *)
(***************************************************************************)
EXTENDS HeartbeatTimeout, TLAPS

(* A heartbeat is kept as the second it came in.                           *)

LEMMA DivBounds ==
  ASSUME NEW a \in Nat, NEW r \in Nat \ {0}
  PROVE  /\ a \div r \in Nat
         /\ r * (a \div r) <= a
         /\ a < r * (a \div r) + r
OBVIOUS

LEMMA DivMonotone ==
  ASSUME NEW a \in Nat, NEW b \in Nat, NEW r \in Nat \ {0}, a <= b
  PROVE  a \div r <= b \div r
BY DivBounds

LEMMA DivStrict ==
  ASSUME NEW a \in Nat, NEW b \in Nat, NEW r \in Nat \ {0}, a + r <= b
  PROVE  a \div r < b \div r
BY DivBounds

\* The code's times, in ticks.
LEMMA Ticks == SleepTicks \in Nat /\ IntervalTicks \in Nat /\ TimeoutTicks \in Nat /\ TokenLife \in Nat /\ (Interval >= 1 => IntervalTicks >= Res)
BY TimeAssumption DEF SleepTicks, IntervalTicks, TimeoutTicks

-----------------------------------------------------------------------------
(* What timeout_check does, whatever becomes of the messages.              *)

LEMMA TimeInit == Init => TimeInv
BY TimeAssumption DEF Init, TimeInv, TypeOK, None

LEMMA TimeStep == TimeInv /\ [Next]_vars => TimeInv'
<1>. SUFFICES ASSUME TimeInv, [Next]_vars PROVE TimeInv'
  OBVIOUS
<1>. faults' = faults
  BY DEF Next, vars
<1>. USE TimeAssumption, Ticks DEF TimeInv, TypeOK, None, relayVars, netVars, beatVars, watchVars
<1>1. CASE Send
  BY <1>1 DEF Send
<1>2. CASE Answered
  BY <1>2 DEF Answered
<1>3. CASE TimedOut
  BY <1>3 DEF TimedOut
<1>4. CASE Rest
  BY <1>4 DEF Rest
<1>5. ASSUME NEW s \in requests, Heartbeat(s)
      PROVE  TimeInv'
  <2>1. TypeOK'
    <3>1. now \div Res \in Nat
      BY DivBounds
    <3>2. replies' \subseteq Nat /\ bare' \subseteq Nat /\ requests' \subseteq Nat
      BY <1>5 DEF Heartbeat, Given
    <3>3. last' \in Nat \cup {None} /\ heard' \in Nat \cup {None}
      BY <1>5, <3>1 DEF Heartbeat
    <3>4. UNCHANGED <<now, relayVars, losses, watchVars>>
      BY <1>5 DEF Heartbeat
    <3>. QED  BY <3>2, <3>3, <3>4
  <2>2. CASE watch = "removed"
    BY <1>5, <2>1, <2>2 DEF Heartbeat
  <2>3. CASE watch # "removed"
    <3>1. last' = now \div Res /\ heard' = now /\ UNCHANGED <<now, watchVars>>
      BY <1>5, <2>3 DEF Heartbeat
    <3>2. now \div Res \in Nat
      BY DivBounds
    <3>. QED  BY <2>1, <3>1, <3>2
  <2>. QED  BY <2>2, <2>3
<1>6. CASE Lose
  <2>1. requests' \subseteq requests /\ replies' \subseteq replies /\ bare' \subseteq bare /\ losses' = losses + 1
    BY <1>6 DEF Lose
  <2>2. UNCHANGED <<now, relayVars, beatVars, watchVars>>
    BY <1>6 DEF Lose
  <2>. QED  BY <2>1, <2>2
<1>7. CASE Stamp
  <2>1. heard \in Nat /\ heard <= now /\ last = heard \div Res
    BY <1>7 DEF Stamp
  <2>2. last <= now \div Res
    BY <2>1, DivMonotone
  <2>. QED  BY <1>7, <2>1, <2>2 DEF Stamp
<1>8. CASE Look
  BY <1>8 DEF Look
<1>9. CASE Tick
  BY <1>9 DEF Tick
<1>10. CASE UNCHANGED vars
  BY <1>10 DEF vars
<1>11. CASE Failed
  BY <1>11 DEF Failed
<1>12. ASSUME NEW s \in requests, Refuse(s)
       PROVE  TimeInv'
  <2>1. bare' \subseteq Nat /\ requests' \subseteq Nat
    BY <1>12 DEF Refuse, Given
  <2>2. UNCHANGED <<now, relayVars, replies, losses, beatVars, watchVars>>
    BY <1>12 DEF Refuse
  <2>. QED  BY <2>1, <2>2
<1>. QED
  BY <1>1, <1>2, <1>3, <1>4, <1>5, <1>6, <1>7, <1>8, <1>9, <1>10, <1>11, <1>12 DEF Next, Step

LEMMA TimeAlways == Spec => []TimeInv
BY TimeInit, TimeStep, PTL DEF Spec

\* Every variable keeps its type.
THEOREM TypeCorrect == Spec => []TypeOK
<1>1. TimeInv => TypeOK
  BY DEF TimeInv
<1>. QED  BY <1>1, TimeAlways, PTL

\* A silent relay is removed within two sleeps, whatever else goes wrong.
THEOREM SilentRemoved == Spec => []SilentRelayRemoved
<1>1. TimeInv => SilentRelayRemoved
  BY Ticks, TimeAssumption DEF TimeInv, TypeOK, None, SilentRelayRemoved
<1>. QED  BY <1>1, TimeAlways, PTL

\* A relay is removed only if it was not heard from for more than Sleep - 1
\* seconds, whatever else goes wrong.
THEOREM HeardStays == Spec => HeardRelayStays
<1>1. TimeInv /\ [Next]_vars => [watch' = "removed" /\ watch # "removed" => now - heard > SleepTicks - Res]_vars
  <2>. SUFFICES ASSUME TimeInv, [Next]_vars, watch' = "removed", watch # "removed"
                PROVE  now - heard > SleepTicks - Res
    OBVIOUS
  <2>. USE TimeAssumption, Ticks DEF TimeInv, TypeOK, None, relayVars, netVars, beatVars, watchVars
  <2>1. Look
    BY DEF Next, Step, vars, Send, Answered, TimedOut, Rest, Failed, Heartbeat, Refuse, Lose, Stamp, Tick
  <2>. DEFINE slept == wake - SleepTicks
  <2>2. last = stamp /\ now >= wake /\ heard \in Nat /\ slept \in Nat /\ stamp <= slept \div Res /\ last = heard \div Res
    BY <2>1 DEF Look
  <2>3. ~ (slept + Res <= heard)
    BY <2>2, DivStrict, DivBounds
  <2>. QED  BY <2>2, <2>3
<1>. QED  BY <1>1, TimeAlways, PTL DEF Spec, HeardRelayStays

-----------------------------------------------------------------------------
(* What punctual messages and a valid token add.  A heartbeat is heard at  *)
(* most IntervalTicks + 2 * Delay after the one before it, and at least a  *)
(* second after it.                                                        *)

Punctual ==
  /\ Interval >= 1
  /\ IntervalTicks + 2 * Delay < SleepTicks
  /\ 2 * Delay < TimeoutTicks

PunctualInv == faults = {} /\ ~Expired => LoopInv

LEMMA LoopInit == Init => PunctualInv
BY DEF Init, LoopInv, None, PunctualInv

LEMMA LoopStep ==
  ASSUME Punctual
  PROVE  TimeInv /\ TimeInv' /\ PunctualInv /\ [Next]_vars => PunctualInv'
<1>. SUFFICES ASSUME TimeInv, TimeInv', PunctualInv, [Next]_vars, faults = {}, ~Expired' PROVE LoopInv'
  BY DEF PunctualInv, Next, vars
<1>. faults' = faults
  BY DEF Next, vars
<1>. ~Expired /\ LoopInv
  <2>1. now \in Nat /\ now' \in Nat
    BY DEF TimeInv, TypeOK
  <2>2. now <= now'
    BY <2>1 DEF Next, Step, vars, Send, Answered, Failed, TimedOut, Rest, Heartbeat, Refuse, Lose, Stamp, Look, Tick
  <2>3. now \div Res <= now' \div Res /\ now \div Res \in Nat /\ now' \div Res \in Nat
    BY <2>1, <2>2, DivMonotone, DivBounds, TimeAssumption
  <2>4. ~Expired
    BY <2>3, Ticks DEF Expired
  <2>. QED  BY <2>4 DEF PunctualInv
<1>. TypeOK /\ TypeOK'
  BY DEF TimeInv
<1>. USE TimeAssumption, Ticks DEF Punctual, LoopInv, TypeOK, None, relayVars, netVars, beatVars, watchVars
<1>1. CASE Send
  <2>1. requests' = {now} /\ replies' = {} /\ sent' = now
    BY <1>1 DEF Send
  <2>. QED  BY <1>1, <2>1 DEF Send
<1>2. CASE Answered
  <2>1. /\ requests = {} /\ heard # None /\ now <= heard + Delay /\ heard <= now
        /\ phase' = "sleep" /\ until' = now + IntervalTicks /\ replies' = {} /\ UNCHANGED <<now, requests, bare, beatVars, watchVars>>
    BY <1>2 DEF Answered, TimeInv
  <2>. QED  BY <2>1
<1>3. CASE TimedOut
  BY <1>3 DEF TimedOut
<1>4. CASE Rest
  BY <1>4 DEF Rest
<1>5. ASSUME NEW s \in requests, Heartbeat(s)
      PROVE  LoopInv'
  <2>1. phase = "wait" /\ replies = {} /\ requests = {sent} /\ s = sent
    OBVIOUS
  <2>2. /\ phase' = "wait" /\ replies' = {now} /\ requests' = {} /\ heard' = now /\ last' = now \div Res
        /\ UNCHANGED <<now, until, sent, bare, watchVars>>
    BY <1>5, <2>1 DEF Heartbeat, Given
  <2>3. heard # None => last < last'
    <3>1. heard # None => last = heard \div Res /\ heard + Res <= now
      BY <2>1 DEF TimeInv
    <3>. QED  BY <3>1, <2>2, DivStrict
  <2>4. watch' = "sleep" => stamp' <= last' /\ last' # stamp'
    BY <2>2, <2>3 DEF TimeInv
  <2>. QED  BY <2>1, <2>2, <2>4
<1>6. CASE Lose
  BY <1>6 DEF Lose
<1>7. CASE Stamp
  BY <1>7 DEF Stamp, TimeInv
<1>8. CASE Look
  <2>1. now <= heard + IntervalTicks + 2 * Delay /\ heard \in Nat
    BY <1>8 DEF Look, TimeInv
  <2>2. last # stamp
    BY <1>8, <2>1 DEF Look, TimeInv
  <2>. QED  BY <1>8, <2>2 DEF Look
<1>9. CASE Tick
  BY <1>9 DEF Tick
<1>10. CASE UNCHANGED vars
  BY <1>10 DEF vars
<1>11. CASE Failed
  BY <1>11 DEF Failed
<1>12. ASSUME NEW s \in requests, Refuse(s)
       PROVE  LoopInv'
  BY <1>12 DEF Refuse
<1>. QED
  BY <1>1, <1>2, <1>3, <1>4, <1>5, <1>6, <1>7, <1>8, <1>9, <1>10, <1>11, <1>12 DEF Next, Step

\* A relay whose messages are punctual is not removed while its token is valid
\* (RelayBox.heartbeat and the middleware against timeout_check).
THEOREM RunningStays ==
  ASSUME Punctual
  PROVE  Spec => []RunningRelayStays
<1>1. PunctualInv => RunningRelayStays
  BY DEF LoopInv, PunctualInv, RunningRelayStays, RelayStays
<1>2. Spec => []PunctualInv
  BY LoopInit, LoopStep, TimeAlways, PTL DEF Spec
<1>. QED  BY <1>1, <1>2, PTL
=============================================================================
