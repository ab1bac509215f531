-------------------------- MODULE HeartbeatTimeout --------------------------
(***************************************************************************)
(* The relay box's heartbeat loop (relay/relaybox.py) against the backend's*)
(* timeout_check thread (backend/routes/relay_routes.py), in real time.    *)
(*                                                                         *)
(* Time is a count of ticks, Res of them to a second: the backend keeps a  *)
(* heartbeat as a whole second, int(time.time()), but sleeps and messages  *)
(* begin and end between seconds.  A thread whose time has come runs       *)
(* before the next tick.  Wall clock and sleeps are taken to agree.        *)
(***************************************************************************)
EXTENDS Integers

CONSTANTS
  Res,        \* ticks per second
  Sleep,      \* seconds between two looks of timeout_check
  Interval,   \* seconds between an answer and the next heartbeat
  Timeout,    \* seconds the relay waits for an answer
  TokenLife,  \* seconds the relay's token is good for: 24*60 minutes
  Delay,      \* ticks a message takes at most, unless it is late or lost
  FaultSets,  \* what may go wrong: sets of "lost", "late", "refused" connections
              \* and "error" (relay.drones changes while the answer is encoded)
  MaxLost,    \* bound: how many messages are lost
  MaxTime     \* bound: the last tick

ASSUME TimeAssumption ==
  /\ Res \in Nat \ {0} /\ Sleep \in Nat \ {0} /\ Interval \in Nat /\ Timeout \in Nat /\ TokenLife \in Nat
  /\ Delay \in Nat /\ MaxLost \in Nat /\ MaxTime \in Nat
  /\ FaultSets \subseteq SUBSET {"lost", "late", "refused", "error"}

VARIABLES
  now,        \* the current tick
  phase,      \* the relay's loop: "send", "wait" for the answer, "sleep"
  until,      \* when the relay stops waiting or sleeping
  requests,   \* heartbeats under way, each named by the tick it was sent
  replies,    \* the JSON answer under way, if any, named by the tick it was given
  bare,       \* likewise an answer without JSON: a 401 is empty, a 500 plain text
  sent,       \* the request whose answer the relay waits for
  last,       \* last_heartbeat_received, in seconds; None before the first
  heard,      \* the tick at which it was written (history variable)
  watch,      \* timeout_check: "watch", "sleep", or "removed" its relay
  stamp,      \* TIME_STAMP
  wake,       \* when timeout_check's sleep ends
  losses,     \* messages lost so far
  faults      \* what goes wrong in this behaviour: one of FaultSets

relayVars == <<phase, until, sent>>
netVars   == <<requests, replies, bare, losses>>
beatVars  == <<last, heard>>
watchVars == <<watch, stamp, wake>>
vars == <<now, phase, until, requests, replies, bare, sent, last, heard, watch, stamp, wake, losses, faults>>

None == -1

SleepTicks    == Sleep * Res
IntervalTicks == Interval * Res
TimeoutTicks  == Timeout * Res

\* The handshake's token has expired; the relay never asks for another.
Expired == now \div Res > TokenLife

\* The relay has just shaken hands: timeout_check starts, no heartbeat yet.
Init ==
  /\ faults \in FaultSets
  /\ now = 0 /\ phase = "send" /\ until = 0 /\ sent = 0
  /\ requests = {} /\ replies = {} /\ bare = {} /\ losses = 0
  /\ last = None /\ heard = None
  /\ watch = "watch" /\ stamp = None /\ wake = 0

(* RelayBox.heartbeat                                                      *)

Send ==
  /\ phase = "send"
  /\ phase' = "wait" /\ until' = now + TimeoutTicks /\ sent' = now
  /\ requests' = requests \cup {now}
  /\ UNCHANGED <<now, replies, bare, losses, beatVars, watchVars>>

\* Seeded faults: the relay rests three times too long; it never rests.
Answered_Slow ==
  /\ phase = "wait" /\ replies # {}
  /\ replies' = {}
  /\ phase' = "sleep" /\ until' = now + 3 * IntervalTicks
  /\ UNCHANGED <<now, sent, requests, bare, losses, beatVars, watchVars>>

Answered_Backwards ==
  /\ phase = "wait" /\ replies # {}
  /\ replies' = {}
  /\ phase' = "sleep" /\ until' = now - IntervalTicks
  /\ UNCHANGED <<now, sent, requests, bare, losses, beatVars, watchVars>>

\* Any JSON will do, the 404 of a removed relay too: the status is not looked at.
Answered ==
  /\ phase = "wait" /\ replies # {}
  /\ replies' = {}
  /\ phase' = "sleep" /\ until' = now + IntervalTicks
  /\ UNCHANGED <<now, sent, requests, bare, losses, beatVars, watchVars>>

\* Without JSON .json() raises a RequestException: the loop goes on without rest.
Failed ==
  /\ phase = "wait" /\ bare # {}
  /\ bare' = {}
  /\ phase' = "send" /\ until' = 0
  /\ UNCHANGED <<now, sent, requests, replies, losses, beatVars, watchVars>>

\* requests.exceptions.Timeout: the connection is closed, so an answer is
\* dropped, and the next heartbeat is sent at once.
TimedOut ==
  /\ phase = "wait" /\ now >= until
  /\ phase' = "send" /\ until' = 0 /\ replies' = {} /\ bare' = {}
  /\ UNCHANGED <<now, sent, requests, losses, beatVars, watchVars>>

Rest ==
  /\ phase = "sleep" /\ now >= until
  /\ phase' = "send" /\ until' = 0
  /\ UNCHANGED <<now, sent, netVars, beatVars, watchVars>>

(* GET /heartbeat: the answer matters only to a relay that still waits.    *)

Given(answers, s) == IF phase = "wait" /\ s = sent THEN {now} ELSE answers

\* 404 once the relay is removed.
Heartbeat(s) ==
  /\ ~Expired /\ s \in requests
  /\ requests' = requests \ {s}
  /\ IF watch = "removed" THEN UNCHANGED beatVars
     ELSE last' = now \div Res /\ heard' = now
  /\ \/ replies' = Given(replies, s) /\ UNCHANGED bare
     \/ "error" \in faults /\ watch # "removed" /\ bare' = Given(bare, s) /\ UNCHANGED replies
  /\ UNCHANGED <<now, relayVars, losses, watchVars>>

\* The middleware answers 401 to an expired token: the handler is not called.
Refuse(s) ==
  /\ Expired /\ s \in requests
  /\ requests' = requests \ {s}
  /\ bare' = Given(bare, s)
  /\ UNCHANGED <<now, relayVars, replies, losses, beatVars, watchVars>>

Lose ==
  /\ "lost" \in faults /\ losses < MaxLost
  /\ \/ \E s \in requests : requests' = requests \ {s} /\ UNCHANGED <<replies, bare>>
     \/ replies \cup bare # {} /\ replies' = {} /\ bare' = {} /\ UNCHANGED requests
  /\ losses' = losses + 1
  /\ UNCHANGED <<now, relayVars, beatVars, watchVars>>

(* timeout_check                                                           *)

Stamp ==
  /\ watch = "watch" /\ last # None
  /\ watch' = "sleep" /\ stamp' = last /\ wake' = now + SleepTicks
  /\ UNCHANGED <<now, relayVars, netVars, beatVars>>

\* Seeded fault: the time of the last heartbeat is not looked at again.
Look_Stale ==
  /\ watch = "sleep" /\ now >= wake
  /\ watch' = "removed"
  /\ stamp' = None /\ wake' = 0
  /\ UNCHANGED <<now, relayVars, netVars, beatVars>>

\* Seeded fault: the comparison only lets an older heartbeat time out.
Look_Older ==
  /\ watch = "sleep" /\ now >= wake
  /\ watch' = IF last < stamp THEN "removed" ELSE "watch"
  /\ stamp' = None /\ wake' = 0
  /\ UNCHANGED <<now, relayVars, netVars, beatVars>>

Look ==
  /\ watch = "sleep" /\ now >= wake
  /\ watch' = IF last = stamp THEN "removed" ELSE "watch"
  /\ stamp' = None /\ wake' = 0
  /\ UNCHANGED <<now, relayVars, netVars, beatVars>>

(* Time passes when no thread and no punctual message is due.              *)

Tick ==
  /\ now < MaxTime
  /\ phase = "send" => "refused" \in faults   \* the loop spins on refused connections
  /\ phase \in {"wait", "sleep"} => now < until
  /\ watch = "watch" => last = None
  /\ watch = "sleep" => now < wake
  /\ "late" \notin faults =>
       /\ \A s \in requests : now < s + Delay
       /\ \A a \in replies \cup bare : now < a + Delay
  /\ now' = now + 1
  /\ UNCHANGED <<relayVars, netVars, beatVars, watchVars>>

Step ==
  \/ Send \/ Answered \/ Failed \/ TimedOut \/ Rest
  \/ \E s \in requests : Heartbeat(s) \/ Refuse(s)
  \/ Lose
  \/ Stamp \/ Look
  \/ Tick

Next == Step /\ UNCHANGED faults

Spec == Init /\ [][Next]_vars

-----------------------------------------------------------------------------
TypeOK ==
  /\ now \in Nat /\ until \in Nat /\ sent \in Nat /\ wake \in Nat /\ losses \in Nat
  /\ phase \in {"send", "wait", "sleep"} /\ watch \in {"watch", "sleep", "removed"}
  /\ requests \subseteq Nat /\ replies \subseteq Nat /\ bare \subseteq Nat
  /\ faults \in FaultSets
  /\ last \in Nat \cup {None} /\ heard \in Nat \cup {None} /\ stamp \in Nat \cup {None}

\* A relay that runs is never removed (relaybox.py: "Maintains a connection for
\* the relaybox so that is does not time out").
RelayStays == watch # "removed"

\* So it is while messages are punctual, nothing goes wrong and the relay's token
\* (relay_routes.py, /handshake) has not expired.
RunningRelayStays == faults = {} /\ ~Expired => RelayStays

\* Whatever goes wrong, a relay heard from during the last Sleep - 1 seconds is
\* not removed: one second is lost to int(time.time()).
HeardRelayStays ==
  [][watch' = "removed" /\ watch # "removed" => now - heard > SleepTicks - Res]_vars

\* A relay not heard from for 2 * Sleep seconds has been removed: a heartbeat
\* just after timeout_check's look costs a second sleep.
SilentRelayRemoved ==
  watch # "removed" /\ heard # None => now - heard <= 2 * SleepTicks

\* The inductive invariant behind HeardRelayStays and SilentRelayRemoved.  The
\* timeout_check thread went to sleep at wake - SleepTicks.
TimeInv ==
  /\ TypeOK
  /\ heard = None <=> last = None
  /\ heard # None => last = heard \div Res /\ heard <= now
  /\ watch = "watch" /\ heard # None => now <= heard + SleepTicks
  /\ watch = "sleep" =>
       LET slept == wake - SleepTicks IN
       /\ slept \in Nat /\ slept <= now /\ now <= wake /\ heard # None
       /\ stamp <= slept \div Res
       /\ slept <= heard + SleepTicks
       /\ last # stamp => slept <= heard

\* The inductive invariant behind RunningRelayStays: where the relay's loop is,
\* and how long ago the backend can have heard from it.
LoopInv ==
  /\ bare = {}
  /\ phase = "send" =>
       /\ requests = {} /\ replies = {}
       /\ heard # None => heard + IntervalTicks <= now /\ now <= heard + IntervalTicks + Delay
  /\ phase = "wait" /\ replies = {} =>
       /\ requests = {sent} /\ until = sent + TimeoutTicks /\ sent <= now /\ now <= sent + Delay
       /\ heard # None => heard + IntervalTicks <= sent /\ sent <= heard + IntervalTicks + Delay
  /\ phase = "wait" /\ replies # {} =>
       /\ requests = {} /\ replies = {heard} /\ until = sent + TimeoutTicks
       /\ heard # None /\ heard <= sent + Delay /\ now <= heard + Delay
  /\ phase = "sleep" =>
       /\ requests = {} /\ replies = {} /\ heard # None /\ now <= until
       /\ heard + IntervalTicks <= until /\ until <= heard + IntervalTicks + Delay
  /\ watch # "removed"
  /\ watch = "sleep" => stamp <= last /\ (last = stamp => heard <= wake - SleepTicks)
=============================================================================
