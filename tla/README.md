# Verification of the camera-drone system

TLA+ models of the backend, relay box, drone control and pilot's client of this
repository, the TLC runs that check them and the TLAPS proofs about them.

## 1. The system

| Part | State | Operations | Talks to |
|---|---|---|---|
| Backend registry (`backend/routes/relay_routes.py`, `backend/relaybox.py`) | `active_relays`, `Relay.drones`, `last_heartbeat_received`, `active_sessions` | `/handshake`, `/heartbeat`, `/new_drone`, `/drone/disconnected`, one `timeout_check` thread per relay | relay boxes (HTTP), video streams |
| Drone object (`backend/relaybox.py`) | `airborn`, `should_takeoff`, `should_land`, `cmd_queue` | pilots' `/drone/takeoff`, `/drone/land`, `/drone/new_command`; relay's `/drone/should_*`, `/drone/successful_*`, `/cmd_queue` | pilots and relay boxes (HTTP) |
| Video stream (`backend/drone_video_stream.py`) | socket, `connections`, `active` | `start`, `check_conn`, `handle_stream` in a thread of its own | drone side and pilot (UDP) |
| Tokens (`backend/middleware.py`, `helper_functions.py`, `mongodb_handler.py`) | `blacklisted_tokens` | log in, check, log out | every protected route |
| Relay box (`relay/relaybox.py`) | `drones`, `used_status_ports` | heartbeat loop, scan, add and delete drones, report those that are gone | backend (HTTP), hot-spot |
| Drone on the relay box (`relay/tello_edu_drone.py`) | `drone_active`, `takeoff`, `video_port` | start-up, `rc_thread`, `landing_thread`, `status_thread`, `video_thread`; one response socket for all drones | backend (HTTP, UDP), drone (UDP) |
| Client (`client/client.py`) | `JWT`, `server_info`, selection | log-in and log-out windows, `InfoThread`, connect, disconnect | backend (HTTP) |
| Controller (`client/controller.py`) | `pressed_keys`, four velocities | announcement to the stream, requests on key press and release | backend (HTTP, UDP) |
| Web frontend (`frontend/`) | cookie | log-in, log-out, list of drones | backend (HTTP) |

All HTTP handlers are plain functions, so FastAPI runs them in threads of a pool,
and nothing in the backend takes a lock. The two handlers that `yield`
(`should_land`, `should_takeoff`) are iterated while the answer is built, so the
flag is reset before the answer is sent.

What makes the code hard to test, line by line, is the list `hazards` of
`PROJECT.json`. In short: checks and stores of shared dictionaries in several
steps; requests about a relay while its timeout removes it; an exception that ends
a thread for good; ports available again while they are still bound; a heartbeat
period, an HTTP timeout and a sleep that must fit together; relay threads and whole drones
that share one socket; flags consumed before the work is done; handshakes over UDP that
any datagram ends; tokens that are the same to the second; requests whose failure ends
the program that steers.

For each part, what makes it correct:

- **Registry**: no port is given twice, unless two requests race for it; drones and sessions correspond; every stream
  that runs can be closed; a silent relay, and nobody else, leaves, with its drones.
- **Heartbeat**: a running relay stays while its token is valid, a silent one is removed, each in bounded time.
- **Flight control**: one flight for each accepted request; backend, relay box and drone
  agree at rest; accepted requests are carried out; velocities arrive, and stop.
- **Relay box**: names and status ports are given out once and given back; the backend
  forgets a drone that is gone; a drone that is there is brought up, by its own answers.
- **Video session**: a handshake that ends confirms the link; the stream outlasts
  the start-up; the pilot sees the video.
- **Tokens**: whoever is logged in is let in until the token expires, whoever logged out is not.
- **Pilot**: with all keys up the drone hovers; it takes off and lands when a key for it is held.

## 2. The modules

| Module | What it models |
|---|---|
| `RelayRegistry` | the backend registry: request threads, timeout threads, stream threads |
| `PortLease` | abstract: ports are granted to drones that hold none, returned, forgotten |
| `RelayView` | abstract: what a relay box sees of the backend: a relay joins, its drones are registered and unregistered, it leaves with all of them |
| `HeartbeatTimeout` | the heartbeat loop against the middleware and `timeout_check`, in real time |
| `FlightControl` | pilots, backend flags, `rc_thread`, `landing_thread`, drone |
| `Flight` | abstract: one takeoff and one landing in turn for each accepted request; where requests of the relay fail, one may come to nothing |
| `RelayBox` | the scan, the drones' threads until they are in SDK mode, the shared socket |
| `VideoSession` | stream, drone and pilots from the handshakes to the video, in seconds |
| `AccessTokens` | tokens, accounts and the blacklist |
| `PilotSession` | extends `AccessTokens`: clients, keyboards and their requests to one drone |
| `MC*` | the constants of the runs |
| `*_proofs`, `RelayRegistry_sessions`, `RelayRegistry_relays` | theorems and their proofs |

The modules meet where the parts do: `RelayBox` sees the backend as the names it has registered
and whether it still has the relay, which is what `RelayRegistry` keeps from within: `RelayView` is the
common view, which the registry implements and the relay box meets (section 4). And
`NeverReregisters` is what allows `RelayRegistryCareful` to leave re-registrations to
relay boxes that start anew. `VideoSession` starts where `RelayBox` ends (the drone has a port and is in SDK mode)
and where the registry has started the stream; `FlightControl` starts after it. `PilotSession`
has the same handlers and flags as `FlightControl`, with the relay's part in three
steps and the pilots' part in full.

`map` in `PROJECT.json` gives the lines of each definition. Definitions that follow
the words *Seeded fault* belong to no specification: each is a plausible mistake in
the definition it precedes, and the property it goes with must notice it.

### Liberties

What may happen around the program is a set of *liberties*: messages lost, requests that overlap,
pilots who do not wait. Most modules choose one of the sets in `EnvSets` (`FaultSets`) in `Init` and
keep it in `env` (`faults`) for good, so that one run checks several of them, and a property says
itself which of them it leaves out (`env = {} => ...`). `RelayRegistry` has the set as a constant.
The code excludes no liberty. A passing property says what holds without some of them; where a
liberty breaks what the code claims, a run that expects a violation shows it.
Because `env` never changes, fairness is stated of the other variables (`WF_state`).

### RelayRegistry

A handler or thread is a sequence of steps, `pc[p]` naming the next one and `loc[p]`
its local variables; between two steps any other thread may run. Steps end where
the code touches another dictionary or object. `active[n]` is the `Relay` object
of a name, `drones[r][d]` the port of its `Drone`, `sessions[p]` the
`DroneVideoStream` of a port. Objects are identities, reused only when no thread and
no dictionary refers to them. A `KeyError` or `RuntimeError` is an action of its own
(`NewDroneFails`, `DcFails`, `WatchFails`): it ends a request, but a `timeout_check`
thread for good. Time is abstracted to whether a heartbeat came since `timeout_check`
last looked; `HeartbeatTimeout` has the clocks.

The liberties: overlapping `/new_drone`
requests, overlapping requests about one drone, overlapping handshakes, requests
during a timeout, re-registration of a drone, ports that a closed socket holds
(`linger`: Linux; on Windows closing ends the receive).
`overlap_add` is the ordinary case: each drone of a relay box asks for its port from a thread of its own as soon as it is
found, and the backend serves requests in parallel. Two requests may then both scan before either stores its drone, and both take
the same port. `contended`, a history variable that no guard reads, is the set of the ports chosen
like that. `OnlyRacersShare` says that a port is double only if it is contended, that is, that nothing else makes a port double and that it is
single again once it is chosen alone. `add_drone`'s scan of several relays is one step here; a scan that takes several only
widens the same race.

`overlap_handshake` is in no run. With it one handshake replaces the relay of the
other, ports of the replaced relay's drones are handed out again, and a `timeout_check` thread
can end in a `KeyError`; the theorems about ports of *online* relays allow it.

The messages of `/handshake` (token, authentication), the answer of `/heartbeat` and
the status information are left out. Tests and reads of dictionaries at the top of a
handler are one step: an entry that goes in between only turns a refusal into
another error. `/new_drone` starts the stream's thread (`nd_stream`) and stores its session (`nd_store`) in two steps;
in between the stream is known to the request only.

### HeartbeatTimeout

Time is a count of ticks, `Res` to a second, and `last` is kept as a whole second, as
`int(time.time())` does. `timeout_check` and the relay's loop run when their sleep
ends, before the next tick; messages take up to `Delay` ticks unless the faults
`late` or `lost` allow otherwise; `refused` lets the relay's loop spin.
The relay's loop takes whatever JSON it gets for an answer (`Answered`). What is no JSON, the empty body of a 401 or the plain text of a 500, makes
`.json()` raise, and the loop sends again without a rest (`Failed`, `bare`). The middleware answers 401 as soon as the relay's token has expired (`Refuse`), and the relay
never asks for another. `TokenLife` is 24 hours in the code and seconds in the runs.
`heard` is a history variable. `MaxTime` and `MaxLost` bound the runs only.

### FlightControl

One registered drone. Pilots' requests have the steps the handlers have (test, test,
set). `rc` and `landing` are where the two relay threads are; both receive from
`replies` (the one response socket), so either takes the other's answer. `inbox` holds
commands under way. A drone that already is where it is told to go may answer ok or
error. A failed request ends the thread that made it for good, whether or not the backend carried it out before
(`RcDies`, `LandDies`), and a pilot goes on asking when a thread has ended. Liberties: `impatient` (a takeoff or land request before the earlier one is
over), `held_key`, `lost`, `late`, `outage`. `impatient` is not exotic: every press of t
sends one takeoff request on the press and one on the
release (`client/controller.py:188`; `PilotSession` has these keys).
Velocity requests come at any time. `MaxReplies` bounds the replies waiting.

### RelayBox

One relay box and the drones of its hot-spot. The scan is a thread: ping each address, then add those
that are new, then delete and report those that are gone, one after the other. A
drone's name stands for its `Drone` object, and its thread goes on (`thread[n]`) after the
drone is deleted, until it looks at `drone_active`. `get_video_port` is a call within a call: after a refusal
(`ask_again`) the inner call may be served, but the outer one then parses its own refused answer. Where a backend that would have served the request
refuses it, that is a 500, whose plain text raises an exception, and the thread ends (`AskOk`). A 400 is JSON without a port, but the backend gives it only to relays
it does not know, and it does not get to know this one again. That very many refusals in a row nest too many calls is left out. `inbox` and `replies` are the commands and answers under way; any thread
that waits may read any answer. A request is one step: the relay box sees no more of it.
`Forgotten` keeps drones from coming back, without the liberty `blink`, before
the relay box is done with their last visit. The program starts with a backend it reaches; an
unreachable one is asked again every ten seconds and the step repeats nothing else.

### VideoSession

`stage` is the stream's thread, `pc` the drone's, `viewer[v]` a pilot's client; `link` is the drone's
entry at relay box and backend. Sockets are sets: which datagram is read first is open,
and a datagram is a note (the handshakes' flags) or a frame. Time advances only when every thread
waits (`Idle`); the timeouts are the code's own. A command is answered at once or fails, which costs three
seconds, or nine when another drone's takeoff has set the shared socket's timeout. The
client is the one in `client/backup_of_main.py`; with the liberty `controller` it is
`client/controller.py`, whose announcement is never sent. All controllers of a client bind one UDP port, 6969, so that
the stream of a drone the client has left can still reach the client that waits for another one: the liberty `elsewhere` (`Stray`).
`reset` lets the stream's receive fail with an error.

### AccessTokens and PilotSession

A token is its claims, user and expiry to the second: that is all the code puts into it, so two that are
alike are equal. `blacklisted` maps seconds to tokens, as the dictionary does.

`screen[c]` is where a client's main thread is, `req[c]` how far its keyboard's request has come
(`check`: the middleware; `route`: the tests; `store`: the assignment). `Ends` is the end of the program, by
the pilot or by an exception. The drone object may be removed between the tests and the store; a store in a removed
object is lost (`Forsaken`). The relay's part is three steps; takeoff and landing succeed, since what goes wrong there is
`FlightControl`'s. `MayUse` says which keys careful pilots touch: no takeoff or landing while one is under way (`quick`),
no landing while they steer and no steering while it lands (`held_key`).

## 3. The runs

| Run | Instance | Result |
|---|---|---|
| `RelayRegistryCareful` | two relays, two drones, two ports, `linger` | dictionaries consistent, ports are leased as `PortLease` promises, sessions and drones correspond, watchers alive, only silent relays leave, they do, and leave nothing behind |
| `RelayRegistryRace` | one relay, two drones, two request threads that serve anything at once, about one drone too, timeouts, re-registrations | two drones share a port only if their requests raced for it |
| `RelayRegistryReregister` | one drone | **violated**: the old stream of a drone that registers again is leaked |
| `RelayRegistryOverlapTimeout` | one drone | **violated**: `/drone/disconnected` during a timeout ends `timeout_check`; the relay stays for ever |
| `Heartbeat` | the code's times in half seconds, 22 seconds | without faults a running relay stays until its token expires (after 14 of the 22 seconds), messages taking up to two seconds; with all of them removal within 16 s of the last heartbeat, and never within 7 s |
| `HeartbeatLost` | 30 seconds, one loss | **violated**: one lost heartbeat removes a running relay (10 s wait against 8 s sleep) |
| `Flight` | two pilots, two velocities, five sets of liberties | flags agree, reports are true, refines `Flight`, all that with datagrams lost and requests of the relay failing; accepted takeoffs and landings happen, velocities arrive and stop |
| `FlightStuck` | one pilot, impatient | **violated**: after a doubled takeoff request the drone can never take off again |
| `RelayBox` | two addresses, names, status ports, seven sets of liberties | no ghost at the backend, ports given back, status ports refine `PortLease`, no name asked for twice, a drone that is ready has answered itself, gone drones are forgotten, one that is alone comes up |
| `RelayBoxRefused` | one address | **violated**: one request for a port answered 500 before one that is served, and the drone never comes up |
| `VideoSession` | two pilots, two tries of the client, nine seconds of failed commands | who is verified is linked, the stream ends only after seven seconds of failures, the video arrives |
| `PilotSession` | two clients, one at the keyboard, two users, one wrong name, keys w, s, t, l, three seconds, six sets of liberties | let in until expiry, refused after log-out, hovering with the keys up, flagged only while the key is held |

**Bounds.** Two of each actor let a port or a name be reused, the last one be taken, and a pair of operations interleave, where the run has two
threads for them. `RelayRegistryCareful` has one request thread and two `timeout_check` threads: it shows how requests interleave with timeouts and timeouts with each other.
How requests interleave with requests is left to `RelayRegistryRace`, which has two request threads, and to the theorems, which have any number of all threads. A token's 24 hours are 14 seconds in `Heartbeat`: longer than the backend's first sleep, and short enough that
a timeout follows its end before `MaxTime`. In `Flight` two velocities tell a new command from an old one. A client in `VideoSession` gives up
after two tries instead of ten, which happens in more
states; nine seconds of failures reach past the stream's eight and include one nine-second try.
In `PilotSession` w and s share an axis, so two keys cancel out and outlast each other; the
axes do not meet in the code. A token lives for one second of three, so that it expires while a client
uses it, and is removed nowhere, as in the code. Two clients share users; the second one, without a keyboard, is
there for log-ins. Threads, relays, drones and streams of the registry, and the users of `PilotSession`, are
symmetric where no liveness is checked.

Each run that expects a violation is a finding in `PROJECT.json`, with the line of the
repository it contradicts:

- **A drone that leaves while its relay times out** (`RelayRegistryOverlapTimeout`).
  `timeout_check` copies the drones, `/drone/disconnected` removes one, `disconnect_drone`
  raises `KeyError` and the thread ends before it removes the relay.
- **A drone that registers again** (`RelayRegistryReregister`). The call of
  `disconnect_drone` in `/new_drone` uses `relay` before it is assigned and always fails;
  the old stream keeps its thread, its port and, until the port is reused, its session.
- **One lost heartbeat** (`HeartbeatLost`). The relay waits ten seconds for its answer,
  the backend removes it after eight, and the relay never handshakes again.
- **A doubled takeoff request** (`FlightStuck`). The flag is reset before the drone takes off,
  so the second request waits until the next landing; then `landing_thread` and `rc_thread`
  wait on one socket, take each other's answers, and `rc_thread` sets `takeoff` after
  `landing_thread` cleared it. It never polls for a takeoff again, and landing is
  refused because the drone is not airborn.
- **A refused request for a video port** (`RelayBoxRefused`). The first request is answered 500, the second is served and the
  backend registers the drone. Back in the first call `response.json()` is applied to the plain text of the 500 and raises: the
  drone's thread ends before it has sent a command, and as the relay box still lists the drone nothing starts it again.

**What the liberties break.** Each liberty that a property leaves out is needed: with it TLC finds the property
violated. Three of these matter as much as the findings. With `overlap_add`, `PortsUnique` fails: two drones of a relay box that are found together ask together
and are both given one port (`backend/relaybox.py:113-134`), although `/new_drone` promises "an available video port"; the second session takes the place of
the first, whose stream nothing can close. Without its clause on the token, `RunningRelayStays` fails: after 24 hours each heartbeat is answered
401, the relay repeats it without a pause, and `timeout_check` removes the running relay, which never handshakes again. And with `elsewhere` a client is
verified without being linked: nobody tells the backend that a client has left a drone, so its video goes on coming to port 6969, and the controller for the next drone
takes it for the verification and stops announcing itself. `NoDrift` fails when a pilot lands while steering (the release is refused with 425 and the velocity waits in
`cmd_queue` for the next flight), when the token expires or a request fails while a key is held (the
exception ends the listener and the program), and when another client of the same user, logged in within the same second, logs out.
`LoggedOutRefused` fails when the backend restarts, and without its last clause for two log-outs in one
second. `StaysIn` fails for two log-ins of a user in one second. `AsPressed` fails when t or l is let go while the drone takes
off or lands: the release asks once more, and is accepted as soon as the flag is consumed. In `RelayBox`, an
answer of its last visit is taken for that of a drone that has gone and come unnoticed (`blink`), and two drones that start together may read each other's
answers for ever.

**Deadlock.** The heartbeat runs end at `MaxTime`; with failures the threads of the relay may all end, and programs of
pilots may all have been closed: those runs do not check deadlock. The others do.

**Fairness.** Every thread that can run eventually runs: weak fairness for each request
thread's own steps, each `timeout_check` thread, each relay thread, the scan, each drone's thread, the stream's thread, each
client's waiting loop, and for the drone's handling of each command; where there are seconds, they pass. Nothing obliges a relay to send a
heartbeat, a pilot to ask or to stay, a drone to come, or
the network to lose or fail, and no choice between two answers in a socket is fair. Liveness of the flight runs excludes loss, since a datagram may
be lost every time, and failures of HTTP requests, which end the relay threads; `GoneIsForgotten` excludes backends that refuse requests,
and `VideoArrives` every liberty.

## 4. The theorems

| Theorem | For every value of the constants |
|---|---|
| `RelayRegistry_proofs!TypeCorrect` | types, under every liberty |
| `RelayRegistry_proofs!OnlyRacesShare` | `OnlyRacersShare`, under every liberty, `overlap_add` included |
| `RelayRegistry_proofs!ImplementsLease` | the registry implements `PortLease` if `overlap_add` is not in `Env`, all other liberties allowed |
| `RelayRegistry_sessions!DronesHaveSessions`, `WatchersLive` | `EveryDroneHasSession`, `WatcherAlive` if `Env` allows `linger` and `reregister` at most (`NoOverlap`) |
| `RelayRegistry_sessions!SessionsHaveDrones`, `NoneLeaked` | `EverySessionHasDrone`, `NoLeakedStream` if it allows `linger` at most |
| `RelayRegistry_relays!OnlySilentLeave` | `OnlyTimedOutRelaysLeave` if `overlap_handshake` is not in `Env`, all other liberties allowed |
| `RelayRegistry_relays!NothingLeftBehind` | `LeavesNothingBehind` if neither `overlap_handshake` nor `overlap_timeout` is in `Env` |
| `RelayRegistry_relays!ImplementsView` | under the same assumption the registry implements `RelayView`, and a request is carried out only while its relay is served |
| `HeartbeatTimeout_proofs!TypeCorrect` | types |
| `HeartbeatTimeout_proofs!SilentRemoved` | a silent relay is removed within two sleeps, under all faults |
| `HeartbeatTimeout_proofs!HeardStays` | nobody heard from within `Sleep - 1` seconds is removed, under all faults |
| `HeartbeatTimeout_proofs!RunningStays` | without faults a running relay stays until its token expires, if `Interval + 2 Delay < Sleep` and `2 Delay < Timeout` |
| `FlightControl_proofs!TypeCorrect` | types, under every liberty |
| `FlightControl_proofs!Agreement` | `FlagsAgree`, for any number of patient pilots, whatever is lost and whichever requests of the relay fail |
| `FlightControl_proofs!TrueReports` | `ReportsAreTrue`, likewise |
| `FlightControl_proofs!ImplementsFlight` | `FlightSpec`, likewise |
| `RelayBox_proofs!BoxTypes` | types, under every liberty |
| `RelayBox_proofs!NoGhosts`, `PortsComeBack` | `NoGhost`, `NoPortLost`, under every liberty |
| `RelayBox_proofs!AnswersAreOwn` | `ReadyIsCommanded`, under every liberty but `blink` |
| `RelayBox_proofs!AsksOnce`, `OneAsks` | `NeverReregisters`, `OneAsksPerName`, under every liberty |
| `RelayBox_proofs!ImplementsStatusLease` | the status ports implement `PortLease`, under every liberty |
| `RelayBox_proofs!MeetsView` | the relay box finds the backend to be `RelayView`, under every liberty |
| `VideoSession_proofs!VideoTypes` | types, under every liberty |
| `VideoSession_proofs!VerifiedLinked` | `VerifiedIsLinked`: the drone's side under every liberty, the clients' under every liberty but `elsewhere` |
| `VideoSession_proofs!SilenceTakesFailures` | `SilenceNeedsFailures` |
| `PilotSession_proofs!PilotTypes` | types and the range of the velocities |
| `PilotSession_proofs!PilotStaysIn`, `PilotLoggedOut` | `StaysIn`, `LoggedOutRefused` |
| `PilotSession_proofs!PilotHovers`, `PilotsPress` | `NoDrift`, `AsPressed`, for any keys and any number of them held |

**Registry.** A port is chosen in one step and inserted in a later one. For `OnlyRacersShare` two more facts make the invariant inductive, both of ports that are not
contended: two requests that have chosen and not stored have chosen different ports (`BothChose`), and what a request has chosen no drone of an online relay
has (`StoresLate`). A `Relay` object is online under its own name only (`OwnName`), so that a removal changes one relay's ports. For the
refinement, where requests do not overlap, `PortInv` says the same of all ports: the thread between the two steps is the only adder
(`OneAdder`), its port is still unused and its drone's entry empty (`Reserved`). `ImplementsLease` maps `drones` of the online relays to leases; each
action that changes it is a grant, a return or a forget, and every other step stutters.

**Sessions.** `SessionInv` says of each thread what it knows of the dictionaries: whom a request is about, that its relay stays
online and is not being removed (`WorkerInv`), that no two requests are about one drone (`OneRequest`), which drones a
`timeout_check` thread has still to remove (`WatchInv`), and where the drone's port, session and stream are at each step of
`/new_drone` and `disconnect_drone` (`WorkInv`), and that a stream a request has started and not stored is nobody else's (`MadeInv`); for drones nobody works on, that they have their sessions. Two threads at work are then
never at work on one drone (`OneAtWork`), nor, by `PortsUnique`, on one port (`OnePort`), so no step
disturbs what another thread knows. The `KeyError`s of `disconnect_drone` and `timeout_check` cannot happen (`NoFailure`);
`RelayRegistryOverlapTimeout` shows that they do once requests overlap a timeout. A drone that registers again only
loses its entry in between (`NewDronePop`); its old stream runs on for ever, in a session that no drone has. So `CleanInv`, that every session belongs to a drone
(`ListedInv`), every stream to a session or to the request that is about to store it (`FoundInv`), and the port under work to neither (`AddInv`), needs that none does.

**Relays.** How a relay comes and goes does not depend on its drones. `RelayInv`: a name has one `Relay` object, the `timeout_check`
thread of that object owns it, and nobody stores another one meanwhile. `ServeInv` follows a removal: every drone still in
the relay is in the copied list or being removed, and no request is about the relay. `ViewInv` adds that a relay being removed is overdue, so a request under way
is for a relay that is served (`RequestsSeen`). The refinement maps `HandshakeStore` to `Join`, `NewDroneInsert` to `Register`,
`DcDelete` by a request and `NewDronePop` to `Unregister`, and `WatchTimeOut` to `Leave`: from then on the thread takes the drones away one by one,
but no request can see it. All other steps stutter.

**Heartbeat.** `TimeInv` says when `timeout_check` went to sleep and relates its stamp to the
last heartbeat; the second lost to truncation appears as `Sleep - 1`. `LoopInv` bounds
where the relay's loop can be since the backend heard from it; it holds as long as the token does.

**Flight.** None of the three properties is inductive: whether a report is true depends on what is under way. `PatientInv`
has three parts, for pilots who wait: one request is under way at a time, with
a pilot, in a flag of the backend or with one of the two threads (`OneAtATime`); for each place where it can be, who
already knows that the drone flies (`Informed`); and at most one datagram is between relay box and drone, and belongs to the
thread that waits (`Link`), which is why sending a command again does no harm. A thread that a failed request has ended has nothing
under way, so that the other thread is left with the drone where it is; what may be wrong then is `airborn`, if the request that failed
was the report. From it, one lemma per actor; the refinement maps
the test that accepts a request, the drone's own movement and the report to the steps of `Flight`, and a request that fails before the
drone has moved to `LoseTakeoff` or `LoseLand`.

**Relay box.** `BoxInv` joins `PortInv` (listed drones have ports of their own, and these are the used ones; the backend's
names are listed or about to be reported) with `AskInv`: a thread that asks does so for a name
that is listed or about to be reported and that the backend does not have. The point is the report: it waits until the backend
knows the drone, and so until its thread has stopped asking.
`AnswersInv`: every answer in the socket of a drone that is there is of its present visit, since `Forgotten` keeps a drone away until its
answers are gone. With `JoinInv` (a relay box shakes hands once, and the backend has no drones of a relay it does not have) each request of the
relay box is a step of `RelayView`. So the two models fit: what `RelayBox` takes for one step, the registry does in many, as `ImplementsView` allows it
to, where no request falls into the removal of its relay. No run checks `ViewSpec` and `BackendSpec`; they are proved only.

**Video.** `LinkInv` follows the datagrams: nothing comes out of the stream before it has two addresses, so whatever
ends a handshake was sent over the link. For the silence, a second invariant
bounds the seconds the stream has waited by those the drone's thread has spent since its last datagram.

**Pilot.** `PilotStaysIn` and `PilotLoggedOut` relate tokens to the histories of log-ins and log-outs: without
two log-ins in a second a token belongs to one client at most, and what is on the blacklist was logged out. For
`NoDrift`, the velocities are the sum of the held keys, and the backend has the client's velocity or
the client's request is on its way (or nobody steers and the drone hovers); that the routes accept it needs
that nobody lands while a key is held. For `AsPressed`, a request of a release finds the flag it asks for
set, or its work done.

Assumptions are the named `ASSUME`s of the modules and those in the theorems. Only model-checked are liveness
(`SilentRelayLeaves`, `TakeoffHappens`, `LandHappens`, `CommandsStop`, `CommandArrives`, `GoneIsForgotten`, `AloneComesUp`, `VideoArrives`),
which is out of the prover's reach.

## 5. Not modelled, and what could follow

Left out for good: rendering and layout, the web frontend (its keyboard sends requests without a token, which
the middleware refuses), the connection to the database and the JWT library (external), configuration
scripts, backups (but for the pilot's announcement) and experiments, `status_thread` and the status information.

Also left out: a drone that is removed while it flies (its threads end, the drone hovers and lands by itself), the answer to the
`port` command, and several drones' video sessions at once. Those meet in the
relay box's response socket, which `RelayBox` has, and in the client's one UDP port, of which `VideoSession` has what comes in from another session (`Stray`).

What could follow: drones that are removed in flight; the
registry and several relay boxes composed in one module.
