---------------------------- MODULE PilotSession ----------------------------
(***************************************************************************)
(* Pilots at their clients: log-in, list of drones and log-out             *)
(* (client/client.py), the keyboard (client/controller.py), and what their *)
(* requests do in the backend (middleware.py, routes/frontend_routes.py)   *)
(* to the one drone they may choose.  A pilot at the keyboard is served by *)
(* one thread, which waits for the answer of each request.                 *)
(***************************************************************************)
EXTENDS AccessTokens, Integers, FiniteSets

CONSTANTS
  Clients,      \* clients that run
  Flyers,       \* those whose pilots connect to the drone
  Credentials,  \* what pilots type
  Keys,         \* keys they use
  Hands,        \* bound: keys held at once
  EnvSets       \* what may happen around the program: sets of liberties

Liberties ==
  { "clock",         \* time passes, tokens expire
    "same_second",   \* a user logs in more than once within a second
    "outage",        \* requests fail, the backend restarts
    "lost_drone",    \* the drone is removed and registered again
    "held_key",      \* pilots land while they steer
    "quick" }        \* pilots let go of t or l, or press them, while the drone takes off or lands

Axes  == {"for_back", "left_right", "up_down", "yaw"}
Plus  == [for_back |-> "w", left_right |-> "d", up_down |-> "space", yaw |-> "e"]
Minus == [for_back |-> "s", left_right |-> "a", up_down |-> "shift", yaw |-> "q"]
MoveKeys == {Plus[a] : a \in Axes} \cup {Minus[a] : a \in Axes}
AllKeys  == MoveKeys \cup {"t", "l"}
VelSpeed == 80
Neutral  == [a \in Axes |-> 0]
Velocities == [Axes -> {- VelSpeed, 0, VelSpeed}]

ASSUME PilotAssumption ==
  /\ Flyers \subseteq Clients /\ Keys \subseteq AllKeys /\ Hands \in Nat
  /\ EnvSets \subseteq SUBSET Liberties

VARIABLES
  screen,     \* what the client shows, or where its main thread waits
  token,      \* its JWT
  known,      \* server_info lists the drone
  chosen,     \* the drone is selected
  pressed,    \* pressed_keys
  velocity,   \* the four velocities
  req, what,  \* the keyboard's request: how far it is, and what it asks
  drone,      \* the backend's Drone object; listed if it is in active_relays
  relay,      \* the relay box: nothing to do, taking off or landing
  logins,     \* history: who has logged in, and when
  revoked,    \* history: which tokens the backend has logged out, and when
  env         \* the liberties taken in this behaviour

window == <<token, known, chosen>>
hands  == <<pressed, velocity, req, what>>
air    == <<drone, relay>>
past   == <<logins, revoked>>
state  == <<tokens, screen, window, hands, air, past>>
vars   == <<state, env>>

Drones == [listed : BOOLEAN, airborn : BOOLEAN, should_takeoff : BOOLEAN, should_land : BOOLEAN,
           cmd_queue : Velocities]

NoToken  == [sub |-> "nobody"]
\* A Drone object as __init__ leaves it.
NewDrone == [listed |-> TRUE, airborn |-> FALSE, should_takeoff |-> FALSE, should_land |-> FALSE,
             cmd_queue |-> Neutral]
Removed  == [NewDrone EXCEPT !.listed = FALSE]

Init ==
  /\ TokensInit
  /\ env \in EnvSets
  /\ screen = [c \in Clients |-> "login"] /\ token = [c \in Clients |-> NoToken]
  /\ known = [c \in Clients |-> FALSE] /\ chosen = [c \in Clients |-> FALSE]
  /\ pressed = [c \in Clients |-> {}] /\ velocity = [c \in Clients |-> Neutral]
  /\ req = [c \in Clients |-> "none"] /\ what = [c \in Clients |-> "cmd"]
  /\ drone = NewDrone /\ relay = "rest"
  /\ logins = {} /\ revoked = {}

\* Screens of a client that is logged in and has not asked to log out.
LoggedIn == {"list", "linked", "await", "fly"}

Shows(c, from, to) == screen[c] = from /\ screen' = [screen EXCEPT ![c] = to]

\* The program ends, and what it knew is gone.
Ends(c) ==
  /\ screen' = [screen EXCEPT ![c] = "gone"]
  /\ token' = [token EXCEPT ![c] = NoToken]
  /\ known' = [known EXCEPT ![c] = FALSE] /\ chosen' = [chosen EXCEPT ![c] = FALSE]
  /\ pressed' = [pressed EXCEPT ![c] = {}] /\ velocity' = [velocity EXCEPT ![c] = Neutral]
  /\ req' = [req EXCEPT ![c] = "none"]
  /\ UNCHANGED what

(* Log-in and log-out.                                                     *)

\* POST /login.  A wrong name or password changes nothing.
Login(c) ==
  \E credentials \in Credentials :
    /\ Shows(c, "login", "list")
    /\ Authenticate(credentials)
    /\ "same_second" \in env \/ <<credentials[1], now>> \notin logins
    /\ token' = [token EXCEPT ![c] = GenerateAccessToken(credentials[1])]
    /\ logins' = logins \cup {<<credentials[1], now>>}
    /\ UNCHANGED <<tokens, known, chosen, hands, air, revoked>>

Restart(c) ==
  /\ Shows(c, "gone", "login")
  /\ UNCHANGED <<tokens, window, hands, air, past>>

\* The window is closed: logout_GUI asks the backend.
Close(c) ==
  /\ Shows(c, "list", "logout") \/ Shows(c, "linked", "logout")
  /\ UNCHANGED <<tokens, window, hands, air, past>>

\* The middleware tests the token and waits for the route.
LogoutCheck(c) ==
  /\ Shows(c, "logout", IF Admits(token[c]) THEN "logout_route" ELSE "failed")
  /\ UNCHANGED <<tokens, window, hands, air, past>>

\* Then it puts the token on the blacklist.  The answer may be lost.
LogoutDone(c) ==
  /\ screen[c] = "logout_route"
  /\ Blacklist(token[c]) /\ revoked' = revoked \cup {<<token[c], now>>}
  /\ \/ Ends(c)
     \/ "outage" \in env /\ Shows(c, "logout_route", "failed") /\ UNCHANGED <<window, hands>>
  /\ UNCHANGED <<now, air, logins>>

LogoutFails(c) ==
  /\ "outage" \in env
  /\ Shows(c, "logout", "failed")
  /\ UNCHANGED <<tokens, window, hands, air, past>>

\* "Try again?"
TryAgain(c) ==
  /\ screen[c] = "failed"
  /\ \/ Shows(c, "failed", "logout") /\ UNCHANGED <<window, hands>>
     \/ Ends(c)
  /\ UNCHANGED <<tokens, air, past>>

(* The list of drones.                                                     *)

\* GET /relayboxes/all, by InfoThread.  A request that is refused or fails leaves
\* the old list.
Information(c) ==
  /\ screen[c] \in LoggedIn \cup {"logout", "failed"} /\ c \in Flyers
  /\ Admits(token[c])
  /\ known' = [known EXCEPT ![c] = drone.listed]
  /\ UNCHANGED <<tokens, screen, token, chosen, hands, air, past>>

\* The pilot selects the drone; an update of the list takes the selection away.
Select(c) ==
  /\ screen[c] = "list" /\ c \in Flyers
  /\ chosen[c] # known[c] /\ chosen' = [chosen EXCEPT ![c] = known[c]]
  /\ UNCHANGED <<tokens, screen, token, known, hands, air, past>>

\* The program ends if the selected drone is no longer listed (KeyError), or if the
\* port of its video is taken.  Otherwise the main thread waits for the backend.
Connect(c) ==
  /\ screen[c] = "list" /\ chosen[c]
  /\ \/ known[c] /\ Shows(c, "list", "await") /\ UNCHANGED <<window, hands>>
     \/ Ends(c)
  /\ UNCHANGED <<tokens, air, past>>

\* A datagram has come, and the main thread joins the listener; or ten timeouts
\* have gone by.
Awaited(c) ==
  /\ \/ Shows(c, "await", "fly")
     \/ Shows(c, "await", "linked")
  /\ UNCHANGED <<tokens, window, hands, air, past>>

Disconnect(c) ==
  /\ Shows(c, "linked", "list")
  /\ UNCHANGED <<tokens, window, hands, air, past>>

(* The keyboard: on_press and on_release end with a request.               *)

Asks(k) == CASE k = "t" -> "takeoff" [] k = "l" -> "land" [] OTHER -> "cmd"
Asked(c, kind) == req[c] # "none" /\ what[c] = kind
Steering  == \E c \in Clients : pressed[c] \cap MoveKeys # {} \/ Asked(c, "cmd")
Landing   == drone.should_land \/ relay = "landing" \/ \E c \in Clients : Asked(c, "land")
TakingOff == drone.should_takeoff \/ relay = "takeoff" \/ \E c \in Clients : Asked(c, "takeoff")
Flagging  == \E c \in Clients : pressed[c] \cap {"t", "l"} # {}

\* What pilots let be, unless they are at liberty to do it.
MayUse(k) ==
  CASE k \in MoveKeys -> "held_key" \in env \/ ~ Landing
    [] k = "t" -> "quick" \in env \/ ~ (TakingOff \/ Landing)
    [] k = "l" -> /\ "quick" \in env \/ ~ (TakingOff \/ Landing)
                  /\ "held_key" \in env \/ ~ Steering

Ready(c, k)  == screen[c] = "fly" /\ req[c] = "none" /\ MayUse(k)
Requests(c, k) == req' = [req EXCEPT ![c] = "check"] /\ what' = [what EXCEPT ![c] = Asks(k)]

\* key_mapping (dir = 1), and key_mapping_release (dir = -1)
Moved(v, k, dir) ==
  [a \in Axes |-> v[a] + dir * VelSpeed * (IF k = Plus[a] THEN 1 ELSE IF k = Minus[a] THEN -1 ELSE 0)]

\* Seeded fault in Press: a key that is held is pressed again.
Press_Repeats(c, k) ==
  /\ Ready(c, k)
  /\ Cardinality(pressed[c] \cup {k}) <= Hands
  /\ k \in MoveKeys \/ "quick" \in env \/ ~ Flagging
  /\ pressed' = [pressed EXCEPT ![c] = @ \cup {k}]
  /\ velocity' = [velocity EXCEPT ![c] = Moved(@, k, 1)]
  /\ Requests(c, k)
  /\ UNCHANGED <<tokens, screen, window, air, past>>

\* Every key is remembered as pressed, t and l too.
Press(c, k) ==
  /\ Ready(c, k) /\ k \notin pressed[c]
  /\ Cardinality(pressed[c] \cup {k}) <= Hands
  /\ k \in MoveKeys \/ "quick" \in env \/ ~ Flagging
  /\ pressed' = [pressed EXCEPT ![c] = @ \cup {k}]
  /\ velocity' = [velocity EXCEPT ![c] = Moved(@, k, 1)]
  /\ Requests(c, k)
  /\ UNCHANGED <<tokens, screen, window, air, past>>

\* Seeded fault in Release: the backend is not told.
Release_Silent(c, k) ==
  /\ Ready(c, k) /\ k \in pressed[c]
  /\ pressed' = [pressed EXCEPT ![c] = @ \ {k}]
  /\ velocity' = [velocity EXCEPT ![c] = Moved(@, k, -1)]
  /\ UNCHANGED <<req, what, tokens, screen, window, air, past>>

\* So their release asks for a takeoff or a landing once more.
Release(c, k) ==
  /\ Ready(c, k) /\ k \in pressed[c]
  /\ pressed' = [pressed EXCEPT ![c] = @ \ {k}]
  /\ velocity' = [velocity EXCEPT ![c] = Moved(@, k, -1)]
  /\ Requests(c, k)
  /\ UNCHANGED <<tokens, screen, window, air, past>>

\* The answer reaches the client, or the request fails; then the exception ends
\* the listener, and with it the program.
Answered(c) ==
  \/ req' = [req EXCEPT ![c] = "none"] /\ UNCHANGED <<screen, window, pressed, velocity, what>>
  \/ "outage" \in env /\ Ends(c)

Fails(c) ==
  /\ "outage" \in env /\ req[c] = "check"
  /\ Ends(c)
  /\ UNCHANGED <<tokens, air, past>>

\* The middleware.  A 401 has no body, and json() raises an exception for that.
Check(c) ==
  /\ req[c] = "check"
  /\ IF Admits(token[c]) THEN req' = [req EXCEPT ![c] = "route"]
                              /\ UNCHANGED <<screen, window, pressed, velocity, what>>
     ELSE IF what[c] = "cmd" THEN Answered(c)
     ELSE Ends(c)
  /\ UNCHANGED <<tokens, air, past>>

\* Seeded fault in Accepts: a drone may be asked to take off as often as one likes.
Accepts_Always(kind) ==
  /\ drone.listed
  /\ kind = "land" => ~ drone.should_land /\ drone.airborn
  /\ kind = "cmd" => drone.airborn

\* The routes' answers 404, 208, 406 and 425 refuse the request.
Accepts(kind) ==
  /\ drone.listed
  /\ kind = "takeoff" => ~ drone.should_takeoff /\ ~ drone.airborn
  /\ kind = "land" => ~ drone.should_land /\ drone.airborn
  /\ kind = "cmd" => drone.airborn

Route(c) ==
  /\ req[c] = "route"
  /\ IF Accepts(what[c]) THEN req' = [req EXCEPT ![c] = "store"]
                              /\ UNCHANGED <<screen, window, pressed, velocity, what>>
                         ELSE Answered(c)
  /\ UNCHANGED <<tokens, air, past>>

Store(c) ==
  /\ req[c] = "store"
  /\ drone' = CASE what[c] = "takeoff" -> [drone EXCEPT !.should_takeoff = TRUE]
                [] what[c] = "land"    -> [drone EXCEPT !.should_land = TRUE]
                [] what[c] = "cmd"     -> [drone EXCEPT !.cmd_queue = velocity[c]]
  /\ Answered(c)
  /\ UNCHANGED <<tokens, relay, past>>

(* Relay box, drone and backend around them (see FlightControl).           *)

TakeoffFlag ==
  /\ relay = "rest" /\ drone.should_takeoff /\ ~ drone.airborn
  /\ relay' = "takeoff" /\ drone' = [drone EXCEPT !.should_takeoff = FALSE]
  /\ UNCHANGED <<tokens, screen, window, hands, past>>

LandFlag ==
  /\ relay = "rest" /\ drone.should_land
  /\ relay' = "landing" /\ drone' = [drone EXCEPT !.should_land = FALSE]
  /\ UNCHANGED <<tokens, screen, window, hands, past>>

Reported ==
  /\ relay # "rest" /\ relay' = "rest"
  /\ drone' = [drone EXCEPT !.airborn = (relay = "takeoff")]
  /\ UNCHANGED <<tokens, screen, window, hands, past>>

\* The routes keep the object they have found: what they store in it is lost.
Forsaken == [c \in Clients |-> IF req[c] = "store" THEN "none" ELSE req[c]]

DroneLeaves ==
  /\ "lost_drone" \in env /\ drone.listed
  /\ drone' = Removed /\ relay' = "rest" /\ req' = Forsaken
  /\ UNCHANGED <<tokens, screen, window, pressed, velocity, what, past>>

DroneReturns ==
  /\ ~ drone.listed
  /\ drone' = NewDrone
  /\ UNCHANGED <<tokens, screen, window, hands, relay, past>>

\* The backend starts anew, with the key it signs tokens with and nothing else.
BackendRestarts ==
  /\ "outage" \in env
  /\ blacklisted' = [s \in {} |-> 0]
  /\ drone' = Removed /\ relay' = "rest"
  /\ LET dead == {c \in Clients : req[c] # "none"} IN
     /\ screen' = [c \in Clients |-> CASE c \in dead -> "gone"
                                       [] screen[c] = "logout_route" -> "failed"
                                       [] OTHER -> screen[c]]
     /\ token' = [c \in Clients |-> IF c \in dead THEN NoToken ELSE token[c]]
     /\ known' = [c \in Clients |-> known[c] /\ c \notin dead]
     /\ chosen' = [c \in Clients |-> chosen[c] /\ c \notin dead]
     /\ pressed' = [c \in Clients |-> IF c \in dead THEN {} ELSE pressed[c]]
     /\ velocity' = [c \in Clients |-> IF c \in dead THEN Neutral ELSE velocity[c]]
     /\ req' = [c \in Clients |-> "none"]
  /\ UNCHANGED <<now, what, past>>

TimePasses ==
  /\ "clock" \in env /\ Tick
  /\ UNCHANGED <<screen, window, hands, air, past>>

-----------------------------------------------------------------------------
Main(c)     == \/ Login(c) \/ Restart(c) \/ Close(c) \/ LogoutCheck(c) \/ LogoutDone(c) \/ LogoutFails(c)
               \/ TryAgain(c) \/ Select(c) \/ Connect(c) \/ Awaited(c) \/ Disconnect(c)
Request(c)  == Check(c) \/ Route(c) \/ Store(c)
Keyboard(c) == Fails(c) \/ Request(c) \/ \E k \in Keys : Press(c, k) \/ Release(c, k)
Around      == TakeoffFlag \/ LandFlag \/ Reported \/ DroneLeaves \/ DroneReturns \/ BackendRestarts \/ TimePasses

Act  == (\E c \in Clients : Main(c) \/ Information(c) \/ Keyboard(c)) \/ Around
Next == Act /\ UNCHANGED env

Spec == Init /\ [][Next]_vars

-----------------------------------------------------------------------------
(* Properties.                                                             *)

Screens == LoggedIn \cup {"login", "logout", "logout_route", "failed", "gone"}

\* Every variable keeps its type; no velocity is ever more than the speed of one
\* key, so that it stays in the range of the drone's rc command.
TypeOK ==
  /\ TokensTypeOK /\ logins \subseteq Subjects \X (0 .. MaxTime) /\ revoked \subseteq Token \X (0 .. MaxTime)
  /\ screen \in [Clients -> Screens] /\ token \in [Clients -> Token \cup {NoToken}]
  /\ known \in [Clients -> BOOLEAN] /\ chosen \in [Clients -> BOOLEAN]
  /\ pressed \in [Clients -> SUBSET Keys]
  /\ velocity \in [Clients -> Velocities]
  /\ req \in [Clients -> {"none", "check", "route", "store"}]
  /\ what \in [Clients -> {"takeoff", "land", "cmd"}]
  /\ drone \in Drones
  /\ relay \in {"rest", "takeoff", "landing"}

\* A pilot who is logged in is let in, whatever other pilots do, until the token
\* expires (middleware.py: "Is access token blacklisted?").
StaysIn ==
  "same_second" \notin env =>
    \A c \in Clients : screen[c] \in LoggedIn /\ now <= token[c].exp => Admits(token[c])

\* A token that has been logged out is refused from then on (middleware.py: "force
\* expire the access token"), unless another one was logged out in the same second
\* or the backend restarts.
LoggedOutRefused ==
  "outage" \notin env =>
    \A r \in revoked : Admits(r[1]) => \E q \in revoked : q[2] = r[2] /\ q[1] # r[1]

\* The commands reach the drone as the keys are, unless time or failures interfere.
Careful == env \subseteq {"quick", "lost_drone"}

\* When every key that steers is up and no request is under way, the backend tells
\* the drone to hover: the command of a key never outlasts the key.
NoDrift == Careful /\ ~ Steering => drone.cmd_queue = Neutral

\* A drone is flagged to take off or to land only while a pilot holds the key for
\* it, although the release of the key sends the request once more.
AsPressed ==
  [][env \cap {"quick", "lost_drone", "outage"} = {} =>
       /\ drone'.should_takeoff /\ ~ drone.should_takeoff => \E c \in Clients : "t" \in pressed[c]
       /\ drone'.should_land /\ ~ drone.should_land => \E c \in Clients : "l" \in pressed[c]]_vars
=============================================================================
