------------------------- MODULE PilotSession_proofs -------------------------
(***************************************************************************)
(* Theorems about PilotSession, for any accounts, clients, keys and        *)
(* liberties.                                                              *)
(***************************************************************************)
EXTENDS PilotSession, TLAPS

\* The velocities that the keys in P stand for.
Push(P) ==
  [a \in Axes |-> VelSpeed * ((IF Plus[a] \in P THEN 1 ELSE 0) - (IF Minus[a] \in P THEN 1 ELSE 0))]

LEMMA PlusMinus == \A a \in Axes : /\ Plus[a] # Minus[a]
                                   /\ Plus[a] \in MoveKeys /\ Minus[a] \in MoveKeys
                                   /\ Plus[a] \notin {"t", "l"} /\ Minus[a] \notin {"t", "l"}
BY DEF Axes, Plus, Minus, MoveKeys

\* The velocities follow the keys through every press and release.
LEMMA PushMoves ==
  ASSUME NEW P, NEW k
  PROVE  /\ k \notin P => Moved(Push(P), k, 1) = Push(P \cup {k})
         /\ k \in P => Moved(Push(P), k, -1) = Push(P \ {k})
BY PlusMinus DEF Push, Moved, VelSpeed

LEMMA PushTypes ==
  ASSUME NEW P PROVE Push(P) \in Velocities
BY DEF Push, VelSpeed, Velocities

\* No key that steers, no velocity.
LEMMA PushNeutral ==
  ASSUME NEW P, P \cap MoveKeys = {} PROVE Push(P) = Neutral
<1>1. \A a \in Axes : Plus[a] \notin P /\ Minus[a] \notin P
  BY PlusMinus
<1>. QED  BY <1>1 DEF Push, VelSpeed, Neutral

LEMMA NeutralTypes == Neutral \in Velocities /\ Push({}) = Neutral
BY DEF Neutral, Push, VelSpeed, Velocities

-----------------------------------------------------------------------------
(* Types.                                                                  *)

Out == {"login", "gone"}

\* The velocities are those of the keys; keys and requests are only a flyer's; a
\* client that has logged in has a token.
TypeInv ==
  /\ TypeOK
  /\ \A c \in Clients : velocity[c] = Push(pressed[c])
  /\ \A c \in Clients : (pressed[c] # {} \/ req[c] # "none") => screen[c] = "fly"
  /\ \A c \in Clients : screen[c] \notin Out => token[c] \in Token

LEMMA DroneTypes == NewDrone \in Drones /\ Removed \in Drones
BY NeutralTypes DEF NewDrone, Removed, Drones

LEMMA SameTokens == TokensTypeOK /\ UNCHANGED tokens => TokensTypeOK'
BY DEF TokensTypeOK, tokens, Listed

LEMMA TypeInit == Init => TypeInv
BY NeutralTypes, DroneTypes, TokenAssumption
   DEF Init, TokensInit, TypeInv, TypeOK, TokensTypeOK, Listed, Screens, LoggedIn, Out

LEMMA EndsTypes ==
  ASSUME TypeInv, NEW c \in Clients, Ends(c)
  PROVE  /\ screen' \in [Clients -> Screens] /\ token' \in [Clients -> Token \cup {NoToken}]
         /\ known' \in [Clients -> BOOLEAN] /\ chosen' \in [Clients -> BOOLEAN]
         /\ pressed' \in [Clients -> SUBSET Keys]
         /\ velocity' \in [Clients -> Velocities]
         /\ req' \in [Clients -> {"none", "check", "route", "store"}]
         /\ what' = what
         /\ \A d \in Clients : velocity'[d] = Push(pressed'[d])
         /\ \A d \in Clients : (pressed'[d] # {} \/ req'[d] # "none") => screen'[d] = "fly"
         /\ \A d \in Clients : screen'[d] \notin Out => token'[d] \in Token
BY NeutralTypes DEF TypeInv, TypeOK, Ends, Screens, Out

LEMMA TypeStep == TypeInv /\ [Next]_vars => TypeInv'
<1>. SUFFICES ASSUME TypeInv, [Next]_vars PROVE TypeInv'
  OBVIOUS
<1>. USE SameTokens DEF TypeInv, TypeOK, Screens, LoggedIn, Out, tokens, window, hands, air, past
<1>1. ASSUME NEW c \in Clients, Login(c) PROVE TypeInv'
  <2>1. PICK credentials \in Accounts :
            /\ token' = [token EXCEPT ![c] = GenerateAccessToken(credentials[1])]
            /\ logins' = logins \cup {<<credentials[1], now>>}
    BY <1>1 DEF Login, Authenticate
  <2>2. credentials[1] \in Subjects /\ now \in 0 .. MaxTime
    BY DEF Subjects, TokensTypeOK
  <2>3. GenerateAccessToken(credentials[1]) \in Token
    BY <2>2, TokenAssumption DEF GenerateAccessToken, Token
  <2>. QED  BY <1>1, <2>1, <2>2, <2>3 DEF Login, Shows
<1>2. ASSUME NEW c \in Clients, Restart(c) \/ Close(c) \/ LogoutCheck(c) \/ LogoutFails(c)
                                \/ Awaited(c) \/ Disconnect(c) PROVE TypeInv'
  BY <1>2 DEF Restart, Close, LogoutCheck, LogoutFails, Awaited, Disconnect, Shows
<1>3. ASSUME NEW c \in Clients, LogoutDone(c) PROVE TypeInv'
  <2>1. token[c] \in Token
    BY <1>3 DEF LogoutDone
  <2>2. TokensTypeOK'
    <3>1. Blacklist(token[c]) /\ now' = now
      BY <1>3 DEF LogoutDone
    <3>2. now \in 0 .. MaxTime /\ now + Lifetime \in Lifetime .. MaxTime + Lifetime
      BY TokenAssumption DEF TokensTypeOK
    <3>3. DOMAIN blacklisted' = DOMAIN blacklisted \cup {now + Lifetime}
      BY <3>1 DEF Blacklist
    <3>4. \A s \in DOMAIN blacklisted' : blacklisted'[s] \in Token
      BY <2>1, <3>1 DEF Blacklist, TokensTypeOK, Listed
    <3>. QED  BY <3>1, <3>2, <3>3, <3>4 DEF TokensTypeOK, Listed
  <2>3. revoked' \subseteq Token \X (0 .. MaxTime)
    BY <1>3, <2>1 DEF LogoutDone, TokensTypeOK
  <2>4. CASE Ends(c)
    BY <1>3, <2>2, <2>3, <2>4, EndsTypes DEF LogoutDone
  <2>5. CASE Shows(c, "logout_route", "failed") /\ UNCHANGED <<window, hands>>
    BY <1>3, <2>2, <2>3, <2>5 DEF LogoutDone, Shows
  <2>. QED  BY <1>3, <2>4, <2>5 DEF LogoutDone
<1>4. ASSUME NEW c \in Clients, TryAgain(c) \/ Connect(c) PROVE TypeInv'
  <2>1. CASE Ends(c)
    BY <1>4, <2>1, EndsTypes DEF TryAgain, Connect
  <2>2. CASE ~ Ends(c)
    BY <1>4, <2>2 DEF TryAgain, Connect, Shows
  <2>. QED  BY <2>1, <2>2
<1>5. ASSUME NEW c \in Clients, Select(c) \/ Information(c) PROVE TypeInv'
  <2>1. /\ known' \in [Clients -> BOOLEAN] /\ chosen' \in [Clients -> BOOLEAN]
        /\ UNCHANGED <<tokens, screen, token, hands, air, past>>
    <3>1. CASE Select(c)
      BY <3>1 DEF Select
    <3>2. CASE Information(c)
      <4>1. drone.listed \in BOOLEAN
        BY DEF Drones
      <4>. QED  BY <3>2, <4>1 DEF Information
    <3>. QED  BY <1>5, <3>1, <3>2
  <2>. QED  BY <2>1
<1>6. ASSUME NEW c \in Clients, NEW k \in Keys, Press(c, k) \/ Release(c, k) PROVE TypeInv'
  <2>1. Asks(k) \in {"takeoff", "land", "cmd"}
    BY DEF Asks
  <2>2. /\ pressed' \in [Clients -> SUBSET Keys]
        /\ req' \in [Clients -> {"none", "check", "route", "store"}]
        /\ what' \in [Clients -> {"takeoff", "land", "cmd"}]
        /\ screen[c] = "fly"
        /\ \A d \in Clients : d # c => /\ pressed'[d] = pressed[d] /\ req'[d] = req[d]
                                       /\ velocity'[d] = velocity[d]
    BY <1>6, <2>1 DEF Press, Release, Ready, Requests
  <2>3. velocity'[c] = Push(pressed'[c])
    <3>1. CASE Press(c, k)
      <4>1. pressed'[c] = pressed[c] \cup {k} /\ velocity'[c] = Moved(Push(pressed[c]), k, 1)
        <5>1. /\ pressed' = [pressed EXCEPT ![c] = pressed[c] \cup {k}]
              /\ velocity' = [velocity EXCEPT ![c] = Moved(velocity[c], k, 1)]
          BY <3>1 DEF Press
        <5>. QED  BY <5>1
      <4>2. k \notin pressed[c]
        BY <3>1 DEF Press
      <4>3. Push(pressed[c] \cup {k}) = Moved(Push(pressed[c]), k, 1)
        BY <4>2, PushMoves
      <4>. QED  BY <4>1, <4>3
    <3>2. CASE Release(c, k)
      <4>1. pressed'[c] = pressed[c] \ {k} /\ velocity'[c] = Moved(Push(pressed[c]), k, -1)
        BY <3>2 DEF Release
      <4>. QED  BY <3>2, <4>1, PushMoves DEF Release
    <3>. QED  BY <1>6, <3>1, <3>2
  <2>4. velocity' \in [Clients -> Velocities]
    <3>1. velocity' = [velocity EXCEPT ![c] = velocity'[c]]
      BY <1>6 DEF Press, Release
    <3>. QED  BY <2>3, <3>1, PushTypes
  <2>. QED  BY <1>6, <2>2, <2>3, <2>4 DEF Press, Release
<1>7. ASSUME NEW c \in Clients, Fails(c) PROVE TypeInv'
  BY <1>7, EndsTypes DEF Fails
<1>8. ASSUME NEW c \in Clients, Check(c) \/ Route(c) \/ Store(c) PROVE TypeInv'
  <2>1. drone' \in Drones
    <3>1. CASE Store(c)
      BY <3>1 DEF Store, Drones
    <3>2. CASE Check(c) \/ Route(c)
      BY <3>2 DEF Check, Route
    <3>. QED  BY <1>8, <3>1, <3>2
  <2>2. UNCHANGED <<now, blacklisted, past, relay>>
    BY <1>8 DEF Check, Route, Store
  <2>3. CASE Ends(c)
    BY <2>1, <2>2, <2>3, EndsTypes
  <2>4. CASE ~ Ends(c)
    BY <1>8, <2>1, <2>2, <2>4 DEF Check, Route, Store, Answered
  <2>. QED  BY <2>3, <2>4
<1>9. CASE TakeoffFlag \/ LandFlag \/ Reported
  BY <1>9, ZenonT(60) DEF TakeoffFlag, LandFlag, Reported, Drones
<1>10. CASE DroneLeaves \/ DroneReturns
  <2>1. drone' \in Drones
    <3>1. drone' = NewDrone \/ drone' = Removed
      BY <1>10 DEF DroneLeaves, DroneReturns
    <3>. QED  BY <3>1, DroneTypes
  <2>. QED  BY <1>10, <2>1 DEF DroneLeaves, DroneReturns, Forsaken
<1>11. CASE BackendRestarts
  <2>1. velocity' \in [Clients -> Velocities]
    BY <1>11, NeutralTypes DEF BackendRestarts
  <2>2. drone' \in Drones
    BY <1>11, DroneTypes DEF BackendRestarts
  <2>3. screen' \in [Clients -> Screens] /\ \A d \in Clients : pressed'[d] # {} => screen'[d] = "fly"
    BY <1>11 DEF BackendRestarts
  <2>4. \A d \in Clients : velocity'[d] = Push(pressed'[d])
    BY <1>11, NeutralTypes DEF BackendRestarts
  <2>5. \A d \in Clients : screen'[d] \notin Out => token'[d] \in Token
    BY <1>11 DEF BackendRestarts
  <2>6. TokensTypeOK'
    BY <1>11 DEF BackendRestarts, TokensTypeOK, Listed
  <2>. QED  BY <1>11, <2>1, <2>2, <2>3, <2>4, <2>5, <2>6 DEF BackendRestarts
<1>12. CASE TimePasses
  <2>1. now' \in 0 .. MaxTime /\ Listed' = Listed /\ DOMAIN blacklisted' = DOMAIN blacklisted
    BY <1>12, TokenAssumption DEF TimePasses, Tick, TokensTypeOK, Listed
  <2>2. TokensTypeOK'
    BY <2>1 DEF TokensTypeOK
  <2>. QED  BY <1>12, <2>2 DEF TimePasses
<1>13. CASE UNCHANGED vars
  BY <1>13 DEF vars, state
<1>. QED  BY <1>1, <1>2, <1>3, <1>4, <1>5, <1>6, <1>7, <1>8, <1>9, <1>10, <1>11, <1>12, <1>13
             DEF Next, Act, Main, Keyboard, Request, Around

\* Every variable keeps its type, and no velocity ever exceeds the speed of one
\* key (controller.py, update_velocity).
THEOREM PilotTypes == Spec => []TypeOK
<1>1. TypeInv => TypeOK
  BY DEF TypeInv
<1>. QED  BY <1>1, TypeInit, TypeStep, PTL DEF Spec
-----------------------------------------------------------------------------
(* Tokens.                                                                 *)

Issued  == {[sub |-> l[1], exp |-> l[2] + Lifetime] : l \in logins}
Revoked == {r[1] : r \in revoked}
Fresh   == "same_second" \notin env

\* Tokens in use or logged out have been issued, and those on the blacklist have
\* been logged out.  If no user logs in twice in a second, no two clients share a
\* token and none works with a token that has been logged out.
TokenInv ==
  /\ TypeInv
  /\ \A s \in DOMAIN blacklisted : blacklisted[s] \in Revoked
  /\ \A r \in revoked : r[1] \in Issued
  /\ \A c \in Clients : screen[c] \notin Out => token[c] \in Issued
  /\ Fresh => \A c, d \in Clients :
                c # d /\ screen[c] \notin Out /\ screen[d] \notin Out => token[c] # token[d]
  /\ Fresh => \A c \in Clients : screen[c] \in LoggedIn => token[c] \notin Revoked

\* What every step does that is not a log-in or a log-out.
Calm ==
  /\ UNCHANGED past
  /\ UNCHANGED blacklisted \/ DOMAIN blacklisted' = {}
  /\ \A c \in Clients :
       /\ screen'[c] \notin Out => screen[c] \notin Out /\ token'[c] = token[c]
       /\ screen'[c] \in LoggedIn => screen[c] \in LoggedIn

LEMMA EndsCalm ==
  ASSUME TypeOK, NEW c \in Clients, Ends(c)
  PROVE  \A d \in Clients : /\ screen'[d] \notin Out => screen[d] \notin Out /\ token'[d] = token[d]
                            /\ screen'[d] \in LoggedIn => screen[d] \in LoggedIn
BY DEF TypeOK, Ends, Out, LoggedIn

LEMMA CalmSteps ==
  ASSUME TypeInv, [Next]_vars
  PROVE  Calm \/ \E c \in Clients : Login(c) \/ LogoutDone(c)
<1>. TypeOK
  BY DEF TypeInv
<1>. USE DEF TypeOK, Calm, Out, LoggedIn, tokens, window, hands, air, past
<1>1. ASSUME NEW c \in Clients, Restart(c) \/ Close(c) \/ LogoutCheck(c) \/ LogoutFails(c)
                                \/ Awaited(c) \/ Disconnect(c) PROVE Calm
  BY <1>1 DEF Restart, Close, LogoutCheck, LogoutFails, Awaited, Disconnect, Shows
<1>2. ASSUME NEW c \in Clients, TryAgain(c) \/ Connect(c) PROVE Calm
  BY <1>2, EndsCalm DEF TryAgain, Connect, Shows
<1>3. ASSUME NEW c \in Clients, Select(c) \/ Information(c) PROVE Calm
  BY <1>3 DEF Select, Information
<1>4. ASSUME NEW c \in Clients, NEW k \in Keys, Press(c, k) \/ Release(c, k) PROVE Calm
  BY <1>4 DEF Press, Release
<1>5. ASSUME NEW c \in Clients, Fails(c) \/ Check(c) \/ Route(c) \/ Store(c) PROVE Calm
  <2>1. UNCHANGED <<blacklisted, past>> /\ (Ends(c) \/ UNCHANGED <<screen, token>>)
    BY <1>5 DEF Fails, Check, Route, Store, Answered
  <2>. QED  BY <2>1, EndsCalm
<1>6. CASE TakeoffFlag \/ LandFlag \/ Reported \/ DroneLeaves \/ DroneReturns \/ TimePasses
  BY <1>6 DEF TakeoffFlag, LandFlag, Reported, DroneLeaves, DroneReturns, TimePasses, Tick
<1>7. CASE BackendRestarts
  <2>1. UNCHANGED past /\ DOMAIN blacklisted' = {}
    BY <1>7 DEF BackendRestarts
  <2>2. \A c \in Clients :
          /\ screen'[c] \notin Out => screen[c] \notin Out /\ token'[c] = token[c]
          /\ screen'[c] \in LoggedIn => screen[c] \in LoggedIn
    <3>1. SUFFICES ASSUME NEW c \in Clients
                   PROVE  /\ screen'[c] \notin Out => screen[c] \notin Out /\ token'[c] = token[c]
                          /\ screen'[c] \in LoggedIn => screen[c] \in LoggedIn
      OBVIOUS
    <3>2. CASE req[c] # "none"
      <4>1. screen[c] = "fly"
        BY <3>2 DEF TypeInv
      <4>. QED  BY <1>7, <3>2, <4>1 DEF BackendRestarts
    <3>3. CASE req[c] = "none" /\ screen[c] = "logout_route"
      BY <1>7, <3>3 DEF BackendRestarts
    <3>4. CASE req[c] = "none" /\ screen[c] # "logout_route"
      BY <1>7, <3>4 DEF BackendRestarts
    <3>. QED  BY <3>2, <3>3, <3>4
  <2>. QED  BY <2>1, <2>2
<1>8. CASE UNCHANGED vars
  BY <1>8 DEF vars, state
<1>. QED  BY <1>1, <1>2, <1>3, <1>4, <1>5, <1>6, <1>7, <1>8
             DEF Next, Act, Main, Keyboard, Request, Around

LEMMA TokenInit == Init => TokenInv
BY TypeInit DEF Init, TokensInit, TokenInv, Out, LoggedIn

LEMMA TokenStep == TokenInv /\ [Next]_vars => TokenInv'
<1>. SUFFICES ASSUME TokenInv, [Next]_vars PROVE TokenInv'
  OBVIOUS
<1>0. TypeInv' /\ TypeOK /\ env' = env
  BY TypeStep DEF TokenInv, TypeInv, Next, vars
<1>1. CASE Calm
  <2>1. Issued' = Issued /\ Revoked' = Revoked
    BY <1>1 DEF Calm, past, Issued, Revoked
  <2>2. \A s \in DOMAIN blacklisted' : blacklisted'[s] \in Revoked
    BY <1>1 DEF Calm, TokenInv
  <2>3. revoked' = revoked
    BY <1>1 DEF Calm, past
  <2>4. \A c \in Clients : screen'[c] \notin Out => screen[c] \notin Out /\ token'[c] = token[c]
    BY <1>1 DEF Calm
  <2>5. \A c \in Clients : screen'[c] \in LoggedIn => screen'[c] \notin Out /\ screen[c] \in LoggedIn
    BY <1>1 DEF Calm, Out, LoggedIn
  <2>6. Fresh => \A d, e \in Clients :
                   d # e /\ screen'[d] \notin Out /\ screen'[e] \notin Out => token'[d] # token'[e]
    BY <2>4 DEF TokenInv
  <2>7. Fresh => \A d \in Clients : screen'[d] \in LoggedIn => token'[d] \notin Revoked
    BY <2>4, <2>5 DEF TokenInv
  <2>8. /\ \A d \in Clients : screen'[d] \notin Out => token'[d] \in Issued
        /\ \A r \in revoked' : r[1] \in Issued
    BY <2>3, <2>4 DEF TokenInv
  <2>. QED  BY <1>0, <2>1, <2>2, <2>6, <2>7, <2>8 DEF TokenInv, Fresh
<1>2. ASSUME NEW c \in Clients, Login(c) PROVE TokenInv'
  <2>1. PICK credentials \in Credentials :
          /\ screen[c] = "login" /\ screen' = [screen EXCEPT ![c] = "list"]
          /\ "same_second" \in env \/ <<credentials[1], now>> \notin logins
          /\ token' = [token EXCEPT ![c] = GenerateAccessToken(credentials[1])]
          /\ logins' = logins \cup {<<credentials[1], now>>}
          /\ UNCHANGED <<blacklisted, revoked>>
    BY <1>2 DEF Login, Shows, tokens
  <2>. DEFINE new == [sub |-> credentials[1], exp |-> now + Lifetime]
  <2>2. token' = [token EXCEPT ![c] = new]
    BY <2>1 DEF GenerateAccessToken
  <2>3. Issued \subseteq Issued'
    BY <2>1 DEF Issued
  <2>4. new \in Issued'
    BY <2>1 DEF Issued
  <2>5. Fresh => new \notin Issued
    <3>1. SUFFICES ASSUME Fresh, NEW l \in logins, new = [sub |-> l[1], exp |-> l[2] + Lifetime]
                   PROVE FALSE
      BY DEF Issued
    <3>2. l \in Subjects \X (0 .. MaxTime) /\ now \in 0 .. MaxTime
      BY <1>0 DEF TypeOK, TokensTypeOK
    <3>3. l[1] = credentials[1] /\ l[2] + Lifetime = now + Lifetime
      BY <3>1
    <3>4. l[2] = now
      BY <3>2, <3>3, TokenAssumption
    <3>. QED  BY <2>1, <3>1, <3>2, <3>3, <3>4 DEF Fresh
  <2>6. Revoked' = Revoked
    BY <2>1 DEF Revoked
  <2>7. \A d \in Clients : /\ d # c => token'[d] = token[d] /\ screen'[d] = screen[d]
                           /\ token'[c] = new /\ screen'[c] = "list"
    BY <1>0, <2>1, <2>2 DEF TypeOK
  <2>8. Revoked \subseteq Issued
    BY DEF TokenInv, Revoked
  <2>9. /\ \A s \in DOMAIN blacklisted' : blacklisted'[s] \in Revoked'
        /\ \A r \in revoked' : r[1] \in Issued'
    BY <2>1, <2>3, <2>6 DEF TokenInv
  <2>10. \A d \in Clients : screen'[d] \notin Out => token'[d] \in Issued'
    BY <2>3, <2>4, <2>7 DEF TokenInv
  <2>11. Fresh => \A d, e \in Clients :
                    d # e /\ screen'[d] \notin Out /\ screen'[e] \notin Out => token'[d] # token'[e]
    BY <2>5, <2>7 DEF TokenInv
  <2>12. Fresh => \A d \in Clients : screen'[d] \in LoggedIn => token'[d] \notin Revoked
    BY <2>5, <2>7, <2>8 DEF TokenInv
  <2>. QED  BY <1>0, <2>6, <2>9, <2>10, <2>11, <2>12 DEF TokenInv, Fresh
<1>3. ASSUME NEW c \in Clients, LogoutDone(c) PROVE TokenInv'
  <2>1. /\ screen[c] = "logout_route" /\ Blacklist(token[c])
        /\ revoked' = revoked \cup {<<token[c], now>>} /\ logins' = logins
    BY <1>3 DEF LogoutDone
  <2>2. \A d \in Clients : /\ screen'[d] \notin Out => screen[d] \notin Out /\ token'[d] = token[d]
                           /\ screen'[d] \in LoggedIn => screen[d] \in LoggedIn /\ d # c
    BY <1>0, <1>3 DEF LogoutDone, Ends, Shows, window, TypeOK, Out, LoggedIn
  <2>3. Issued' = Issued /\ Revoked' = Revoked \cup {token[c]}
    <3>1. Issued' = Issued
      BY <2>1 DEF Issued
    <3>2. \A r : r \in revoked' <=> r \in revoked \/ r = <<token[c], now>>
      BY <2>1
    <3>3. Revoked' = {r[1] : r \in revoked'} /\ <<token[c], now>>[1] = token[c]
      BY DEF Revoked
    <3>4. \A t : t \in Revoked' <=> t \in Revoked \/ t = token[c]
      BY <3>2, <3>3 DEF Revoked
    <3>. QED  BY <3>1, <3>4
  <2>4. token[c] \in Issued /\ screen[c] \notin Out
    BY <2>1 DEF TokenInv, Out
  <2>5. \A s \in DOMAIN blacklisted' : blacklisted'[s] \in Revoked'
    <3>1. \A s \in DOMAIN blacklisted' : blacklisted'[s] = token[c]
                                         \/ (s \in DOMAIN blacklisted /\ blacklisted'[s] = blacklisted[s])
      BY <2>1 DEF Blacklist
    <3>. QED  BY <2>3, <3>1 DEF TokenInv
  <2>6. \A r \in revoked' : r[1] \in Issued'
    BY <2>1, <2>3, <2>4 DEF TokenInv
  <2>7. \A d \in Clients : screen'[d] \notin Out => token'[d] \in Issued'
    BY <2>2, <2>3 DEF TokenInv
  <2>8. Fresh => \A d, e \in Clients :
                   d # e /\ screen'[d] \notin Out /\ screen'[e] \notin Out => token'[d] # token'[e]
    BY <2>2 DEF TokenInv
  <2>9. Fresh => \A d \in Clients : screen'[d] \in LoggedIn => token'[d] \notin Revoked'
    BY <2>2, <2>3, <2>4 DEF TokenInv, Out, LoggedIn
  <2>. QED  BY <1>0, <2>5, <2>6, <2>7, <2>8, <2>9 DEF TokenInv, Fresh
<1>4. TypeInv
  BY DEF TokenInv
<1>. QED  BY <1>1, <1>2, <1>3, <1>4, CalmSteps

LEMMA TokenStays == TokenInv => StaysIn
<1>. SUFFICES ASSUME TokenInv, Fresh, NEW c \in Clients, screen[c] \in LoggedIn, now <= token[c].exp
              PROVE  Admits(token[c])
  BY DEF StaysIn, Fresh
<1>1. token[c] \notin Revoked
  BY DEF TokenInv
<1>2. token[c] \notin Listed
  BY <1>1 DEF TokenInv, Listed
<1>. QED  BY <1>2 DEF Admits

\* If no user logs in twice in a second, a pilot who is logged in is let in until
\* the token expires, whatever other pilots do (middleware.py).
THEOREM PilotStaysIn == Spec => []StaysIn
BY TokenInit, TokenStep, TokenStays, PTL DEF Spec

-----------------------------------------------------------------------------
(* Log-outs.                                                               *)

\* In the second of each log-out the blacklist holds a token logged out in it.
LogoutInv ==
  /\ TypeInv
  /\ "outage" \notin env =>
       \A r \in revoked : /\ r[2] + Lifetime \in DOMAIN blacklisted
                          /\ <<blacklisted[r[2] + Lifetime], r[2]>> \in revoked

LEMMA LogoutInit == Init => LogoutInv
BY TypeInit DEF Init, LogoutInv

LEMMA LogoutStep == LogoutInv /\ [Next]_vars => LogoutInv'
<1>. SUFFICES ASSUME LogoutInv, [Next]_vars, "outage" \notin env
              PROVE  \A r \in revoked' : /\ r[2] + Lifetime \in DOMAIN blacklisted'
                                         /\ <<blacklisted'[r[2] + Lifetime], r[2]>> \in revoked'
  BY TypeStep DEF LogoutInv, Next, vars
<1>1. CASE UNCHANGED <<blacklisted, revoked>>
  BY <1>1 DEF LogoutInv
<1>2. ASSUME NEW c \in Clients, LogoutDone(c)
      PROVE  \A r \in revoked' : /\ r[2] + Lifetime \in DOMAIN blacklisted'
                                 /\ <<blacklisted'[r[2] + Lifetime], r[2]>> \in revoked'
  <2>1. Blacklist(token[c]) /\ revoked' = revoked \cup {<<token[c], now>>}
    BY <1>2 DEF LogoutDone
  <2>2. TAKE r \in revoked'
  <2>3. r[2] \in 0 .. MaxTime /\ now \in 0 .. MaxTime
    BY <2>1 DEF LogoutInv, TypeInv, TypeOK, TokensTypeOK
  <2>4. CASE r[2] = now
    BY <2>1, <2>4 DEF Blacklist
  <2>5. CASE r[2] # now
    <3>1. r \in revoked /\ r[2] + Lifetime # now + Lifetime
      BY <2>1, <2>3, <2>5, TokenAssumption
    <3>2. r[2] + Lifetime \in DOMAIN blacklisted'
          /\ blacklisted'[r[2] + Lifetime] = blacklisted[r[2] + Lifetime]
      BY <2>1, <3>1 DEF Blacklist, LogoutInv
    <3>. QED  BY <2>1, <3>1, <3>2 DEF LogoutInv
  <2>. QED  BY <2>4, <2>5
<1>3. UNCHANGED <<blacklisted, revoked>> \/ \E c \in Clients : LogoutDone(c)
  <2>. USE DEF tokens, past
  <2>1. ASSUME NEW c \in Clients, Main(c) PROVE UNCHANGED <<blacklisted, revoked>> \/ LogoutDone(c)
    BY <2>1 DEF Main, Login, Restart, Close, LogoutCheck, LogoutFails, TryAgain, Select, Connect,
                Awaited, Disconnect
  <2>2. ASSUME NEW c \in Clients, Information(c) \/ Keyboard(c)
        PROVE UNCHANGED <<blacklisted, revoked>>
    BY <2>2 DEF Information, Keyboard, Fails, Request, Check, Route, Store, Press, Release
  <2>3. CASE Around
    BY <2>3 DEF Around, TakeoffFlag, LandFlag, Reported, DroneLeaves, DroneReturns, BackendRestarts,
                TimePasses, Tick
  <2>4. CASE UNCHANGED vars
    BY <2>4 DEF vars, state
  <2>. QED  BY <2>1, <2>2, <2>3, <2>4 DEF Next, Act
<1>. QED  BY <1>1, <1>2, <1>3

\* A token that has been logged out is refused, unless another one was logged out
\* in the same second or the backend restarts (middleware.py, blacklisted_tokens).
THEOREM PilotLoggedOut == Spec => []LoggedOutRefused
<1>1. LogoutInv => LoggedOutRefused
  <2>. SUFFICES ASSUME LogoutInv, "outage" \notin env, NEW r \in revoked, Admits(r[1])
                PROVE  \E q \in revoked : q[2] = r[2] /\ q[1] # r[1]
    BY DEF LoggedOutRefused
  <2>. DEFINE q == <<blacklisted[r[2] + Lifetime], r[2]>>
  <2>1. q \in revoked /\ q[1] \in Listed
    BY DEF LogoutInv, Listed
  <2>2. r[1] \notin Listed
    BY DEF Admits
  <2>. QED  BY <2>1, <2>2
<1>. QED  BY <1>1, LogoutInit, LogoutStep, PTL DEF Spec
-----------------------------------------------------------------------------
(* Commands.                                                               *)

\* A queue that is not neutral has someone to empty it, and a drone that takes the
\* command to do so: nobody steers while the drone lands, and what the route has
\* accepted is still acceptable when it is stored.
DriftInv ==
  /\ TokenInv
  /\ Careful =>
       /\ now = 0
       /\ drone.cmd_queue # Neutral => drone.airborn /\ drone.listed /\ Steering
       /\ Steering => ~ Landing
       /\ \A c \in Clients : req[c] = "store" /\ what[c] = "cmd" => drone.airborn /\ drone.listed

\* The last three facts, which the requests have to keep.
Steered ==
  /\ drone.cmd_queue # Neutral => drone.airborn /\ drone.listed /\ Steering
  /\ Steering => ~ Landing
  /\ \A c \in Clients : req[c] = "store" /\ what[c] = "cmd" => drone.airborn /\ drone.listed

LEMMA DriftInit == Init => DriftInv
BY TokenInit DEF Init, TokensInit, DriftInv, Steering, Asked, NewDrone

LEMMA MainKeepsHands ==
  ASSUME TypeInv, NEW c \in Clients, Main(c) \/ Information(c)
  PROVE  UNCHANGED <<now, pressed, req, what, drone, relay>>
<1>. USE DEF TypeInv, TypeOK, tokens, window, hands, air, past
<1>1. CASE LogoutDone(c) \/ TryAgain(c) \/ Connect(c)
  <2>1. pressed[c] = {} /\ req[c] = "none"
    BY <1>1 DEF LogoutDone, TryAgain, Connect
  <2>2. Ends(c) => UNCHANGED <<pressed, req, what>>
    BY <2>1 DEF Ends
  <2>. QED  BY <1>1, <2>2 DEF LogoutDone, TryAgain, Connect
<1>2. CASE ~ (LogoutDone(c) \/ TryAgain(c) \/ Connect(c))
  BY <1>2 DEF Main, Information, Login, Restart, Close, LogoutCheck, LogoutFails, Select, Awaited, Disconnect
<1>. QED  BY <1>1, <1>2

LEMMA AsksWhat ==
  ASSUME NEW k \in Keys
  PROVE  /\ \/ k \in MoveKeys /\ Asks(k) = "cmd"
            \/ k = "t" /\ Asks(k) = "takeoff"
            \/ k = "l" /\ Asks(k) = "land"
         /\ "t" \notin MoveKeys /\ "l" \notin MoveKeys
<1>1. "t" \notin MoveKeys /\ "l" \notin MoveKeys
  BY PlusMinus DEF MoveKeys
<1>2. k \in MoveKeys \/ k = "t" \/ k = "l"
  BY PilotAssumption DEF AllKeys
<1>. QED  BY <1>1, <1>2 DEF Asks

\* Whoever is logged in is let in, in a careful behaviour.
LEMMA CarefulAdmits ==
  ASSUME DriftInv, Careful, NEW c \in Clients, req[c] # "none"
  PROVE  Admits(token[c])
<1>1. TypeInv /\ TokenInv /\ now = 0
  BY DEF DriftInv, TokenInv
<1>2. screen[c] = "fly" /\ token[c] \in Token
  BY <1>1 DEF TypeInv, Out
<1>3. now <= token[c].exp
  BY <1>1, <1>2, TokenAssumption DEF Token
<1>. QED  BY <1>1, <1>2, <1>3, TokenStays DEF Careful, StaysIn, LoggedIn

LEMMA KeysSteer ==
  ASSUME TypeInv, Steered, NEW c \in Clients, NEW k \in Keys, "held_key" \notin env,
         Press(c, k) \/ Release(c, k)
  PROVE  Steered'
<1>. USE AsksWhat DEF TypeInv, TypeOK, air, tokens, window
<1>1. /\ req[c] = "none" /\ MayUse(k)
      /\ req' = [req EXCEPT ![c] = "check"] /\ what' = [what EXCEPT ![c] = Asks(k)]
      /\ UNCHANGED <<drone, relay>>
      /\ \A d \in Clients : d # c => pressed'[d] = pressed[d]
      /\ \A j : j # k => (j \in pressed'[c] <=> j \in pressed[c])
  BY DEF Press, Release, Ready, Requests
<1>2. CASE k \in MoveKeys
  <2>1. ~ Landing /\ k # "t" /\ k # "l"
    <3>1. k # "t" /\ k # "l"
      BY <1>2, AsksWhat
    <3>. QED  BY <1>1, <1>2, <3>1 DEF MayUse
  <2>2. Steering'
    BY <1>1, <1>2, <2>1 DEF Steering, Asked
  <2>3. ~ Landing'
    <3>1. Asks(k) = "cmd"
      BY <2>1, <1>2
    <3>2. \A d \in Clients : ~ Asked(d, "land")'
      BY <1>1, <2>1, <3>1 DEF Landing, Asked
    <3>. QED  BY <1>1, <2>1, <3>2 DEF Landing
  <2>. QED  BY <1>1, <1>2, <2>1, <2>2, <2>3 DEF Steered
<1>3. CASE k = "t" \/ k = "l"
  <2>1. Asks(k) # "cmd" /\ k \notin MoveKeys
    BY <1>3
  <2>2. \A d \in Clients : /\ pressed'[d] \cap MoveKeys = pressed[d] \cap MoveKeys
                           /\ Asked(d, "cmd")' <=> Asked(d, "cmd")
    <3>1. pressed'[c] \cap MoveKeys = pressed[c] \cap MoveKeys
      BY <1>1, <2>1
    <3>. QED  BY <1>1, <2>1, <3>1 DEF Asked
  <2>3. Steering' <=> Steering
    BY <2>2 DEF Steering
  <2>4. k = "l" => ~ Steering
    BY <1>1 DEF MayUse
  <2>5. k = "t" => (Landing' <=> Landing)
    BY <1>1 DEF Landing, Asked
  <2>. QED  BY <1>1, <1>3, <2>1, <2>3, <2>4, <2>5 DEF Steered
<1>. QED  BY <1>2, <1>3

LEMMA RequestsSteer ==
  ASSUME TypeInv, Steered, NEW c \in Clients, "outage" \notin env,
         Admits(token[c]), Check(c) \/ Route(c) \/ Store(c)
  PROVE  Steered'
<1>. USE DEF TypeInv, TypeOK
<1>1. CASE Check(c)
  <2>1. /\ req[c] = "check" /\ req' = [req EXCEPT ![c] = "route"]
        /\ UNCHANGED <<pressed, what, drone, relay>>
    BY <1>1 DEF Check, air
  <2>2. (Steering' <=> Steering) /\ (Landing' <=> Landing)
    BY <2>1 DEF Steering, Landing, Asked
  <2>. QED  BY <2>1, <2>2 DEF Steered
<1>2. CASE Route(c)
  <2>1. CASE Accepts(what[c])
    <3>1. req' = [req EXCEPT ![c] = "store"] /\ UNCHANGED <<pressed, what, drone, relay>>
      BY <1>2, <2>1 DEF Route, air
    <3>2. req[c] = "route" /\ (Steering' <=> Steering) /\ (Landing' <=> Landing)
      BY <1>2, <3>1 DEF Route, Steering, Landing, Asked
    <3>. QED  BY <2>1, <3>1, <3>2 DEF Steered, Accepts
  <2>2. CASE ~ Accepts(what[c])
    <3>1. req' = [req EXCEPT ![c] = "none"] /\ UNCHANGED <<pressed, what, drone, relay>>
      BY <1>2, <2>2 DEF Route, Answered, air
    <3>2. (Steering' => Steering) /\ (Landing' => Landing)
      BY <3>1 DEF Steering, Landing, Asked
    <3>3. CASE what[c] = "cmd"
      <4>1. drone.cmd_queue = Neutral
        BY <2>2, <3>3 DEF Steered, Accepts
      <4>. QED  BY <3>1, <3>2, <4>1 DEF Steered
    <3>4. CASE what[c] # "cmd"
      <4>1. Steering => Steering'
        BY <3>1, <3>4 DEF Steering, Asked
      <4>. QED  BY <3>1, <3>2, <4>1 DEF Steered
    <3>. QED  BY <3>3, <3>4
  <2>. QED  BY <2>1, <2>2
<1>3. CASE Store(c)
  <2>1. /\ req[c] = "store" /\ req' = [req EXCEPT ![c] = "none"]
        /\ UNCHANGED <<pressed, what, relay>>
    BY <1>3 DEF Store, Answered
  <2>2. Steering' => Steering
    BY <2>1 DEF Steering, Asked
  <2>3. CASE what[c] = "takeoff"
    <3>1. drone' = [drone EXCEPT !.should_takeoff = TRUE]
      BY <1>3, <2>3 DEF Store
    <3>2. Steering => Steering'
      BY <2>1, <2>3 DEF Steering, Asked
    <3>3. Landing' => Landing
      BY <2>1, <3>1 DEF Landing, Asked, Drones
    <3>. QED  BY <2>1, <2>2, <3>1, <3>2, <3>3 DEF Steered, Drones
  <2>4. CASE what[c] = "land"
    <3>1. drone' = [drone EXCEPT !.should_land = TRUE]
      BY <1>3, <2>4 DEF Store
    <3>2. ~ Steering
      BY <2>1, <2>4 DEF Steered, Landing, Asked
    <3>3. ~ Steering' /\ drone'.cmd_queue = Neutral
      BY <2>2, <3>1, <3>2 DEF Steered, Drones
    <3>. QED  BY <2>1, <3>1, <3>3 DEF Steered, Drones
  <2>5. CASE what[c] = "cmd"
    <3>1. drone' = [drone EXCEPT !.cmd_queue = velocity[c]]
      BY <1>3, <2>5 DEF Store
    <3>2. drone.airborn /\ drone.listed /\ ~ Landing
      BY <2>1, <2>5 DEF Steered, Steering, Asked
    <3>3. ~ Landing' /\ drone'.airborn /\ drone'.listed /\ drone'.cmd_queue = velocity[c]
      BY <2>1, <3>1, <3>2 DEF Landing, Asked, Drones
    <3>4. velocity[c] # Neutral => Steering'
      BY <2>1, PushNeutral DEF Steering
    <3>. QED  BY <3>3, <3>4 DEF Steered
  <2>. QED  BY <2>3, <2>4, <2>5
<1>. QED  BY <1>1, <1>2, <1>3

LEMMA AroundSteers ==
  ASSUME TypeInv, Steered, Around, env \cap {"outage", "clock"} = {}
  PROVE  Steered'
<1>. USE DEF TypeInv, TypeOK, hands
<1>1. CASE TakeoffFlag
  <2>1. /\ drone' = [drone EXCEPT !.should_takeoff = FALSE] /\ relay' = "takeoff"
        /\ UNCHANGED <<pressed, req, what>>
    BY <1>1 DEF TakeoffFlag
  <2>2. (Steering' <=> Steering) /\ (Landing' => Landing)
    BY <2>1 DEF Steering, Landing, Asked, Drones
  <2>. QED  BY <2>1, <2>2 DEF Steered, Drones
<1>2. CASE LandFlag
  <2>1. /\ drone' = [drone EXCEPT !.should_land = FALSE] /\ drone.should_land
        /\ UNCHANGED <<pressed, req, what>>
    BY <1>2 DEF LandFlag
  <2>2. ~ Steering /\ ~ Steering'
    BY <2>1 DEF Steered, Steering, Landing, Asked
  <2>. QED  BY <2>1, <2>2 DEF Steered, Drones
<1>3. CASE Reported
  <2>1. /\ drone' = [drone EXCEPT !.airborn = (relay = "takeoff")] /\ relay' = "rest"
        /\ UNCHANGED <<pressed, req, what>>
    BY <1>3 DEF Reported
  <2>2. (Steering' <=> Steering) /\ (Landing' => Landing)
    BY <2>1 DEF Steering, Landing, Asked, Drones
  <2>3. CASE relay = "takeoff"
    BY <2>1, <2>2, <2>3 DEF Steered, Drones
  <2>4. CASE relay # "takeoff"
    <3>1. ~ Steering /\ drone.cmd_queue = Neutral
      BY <1>3, <2>4 DEF Reported, Steered, Landing
    <3>2. \A c \in Clients : ~ (req[c] = "store" /\ what[c] = "cmd")
      BY <3>1 DEF Steering, Asked
    <3>. QED  BY <2>1, <2>2, <3>1, <3>2 DEF Steered, Drones
  <2>. QED  BY <2>3, <2>4
<1>4. CASE DroneLeaves
  <2>1. /\ drone' = Removed /\ relay' = "rest" /\ UNCHANGED <<pressed, what>>
        /\ req' = [c \in Clients |-> IF req[c] = "store" THEN "none" ELSE req[c]]
    BY <1>4 DEF DroneLeaves, Forsaken
  <2>2. \A c \in Clients : req'[c] # "none" => req[c] # "none"
    BY <2>1
  <2>3. drone'.cmd_queue = Neutral /\ ~ drone'.should_land
    BY <2>1 DEF Removed, NewDrone
  <2>4. Steering' => Steering
    BY <2>1, <2>2 DEF Steering, Asked
  <2>5. Landing' => Landing
    BY <2>1, <2>2, <2>3 DEF Landing, Asked
  <2>6. \A c \in Clients : req'[c] # "store"
    BY <2>1
  <2>. QED  BY <2>3, <2>4, <2>5, <2>6 DEF Steered
<1>5. CASE DroneReturns
  <2>1. /\ drone' = NewDrone /\ ~ drone.listed /\ UNCHANGED <<pressed, req, what, relay>>
    BY <1>5 DEF DroneReturns
  <2>2. drone'.cmd_queue = Neutral /\ ~ drone'.should_land
    BY <2>1 DEF NewDrone
  <2>3. (Steering' <=> Steering) /\ (Landing' => Landing)
    BY <2>1, <2>2 DEF Steering, Landing, Asked
  <2>. QED  BY <2>1, <2>2, <2>3 DEF Steered
<1>. QED  BY <1>1, <1>2, <1>3, <1>4, <1>5 DEF Around, BackendRestarts, TimePasses

LEMMA DriftStep == DriftInv /\ [Next]_vars => DriftInv'
<1>. SUFFICES ASSUME DriftInv, [Next]_vars, Careful PROVE now' = 0 /\ Steered'
  BY TokenStep DEF DriftInv, Steered, Careful, Next, vars
<1>1. TypeInv /\ Steered /\ now = 0 /\ env \cap {"outage", "clock", "held_key"} = {}
  BY DEF DriftInv, TokenInv, Steered, Careful
<1>2. ASSUME NEW c \in Clients, Main(c) \/ Information(c) PROVE now' = 0 /\ Steered'
  <2>1. UNCHANGED <<now, pressed, req, what, drone, relay>>
    BY <1>1, <1>2, MainKeepsHands
  <2>. QED  BY <1>1, <2>1 DEF Steered, Steering, Landing, Asked
<1>3. ASSUME NEW c \in Clients, Keyboard(c) PROVE now' = 0 /\ Steered'
  <2>1. CASE Request(c)
    <3>1. req[c] # "none" /\ now' = now
      BY <2>1 DEF Request, Check, Route, Store, tokens
    <3>. QED  BY <1>1, <2>1, <3>1, CarefulAdmits, RequestsSteer DEF Request
  <2>2. ASSUME NEW k \in Keys, Press(c, k) \/ Release(c, k) PROVE now' = 0 /\ Steered'
    <3>1. now' = now
      BY <2>2 DEF Press, Release, tokens
    <3>. QED  BY <1>1, <2>2, <3>1, KeysSteer
  <2>. QED  BY <1>1, <1>3, <2>1, <2>2 DEF Keyboard, Fails
<1>4. CASE Around
  <2>1. now' = now
    BY <1>1, <1>4 DEF Around, TakeoffFlag, LandFlag, Reported, DroneLeaves, DroneReturns,
                      BackendRestarts, TimePasses, tokens
  <2>. QED  BY <1>1, <1>4, <2>1, AroundSteers
<1>5. CASE UNCHANGED vars
  BY <1>1, <1>5 DEF vars, state, tokens, hands, air, Steered, Steering, Landing, Asked
<1>. QED  BY <1>2, <1>3, <1>4, <1>5 DEF Next, Act

\* When the keys are up and no request is under way, the drone is told to hover
\* (controller.py, on_release; frontend_routes.py, new_command).
THEOREM PilotHovers == Spec => []NoDrift
<1>1. DriftInv => NoDrift
  BY DEF DriftInv, NoDrift
<1>. QED  BY <1>1, DriftInit, DriftStep, PTL DEF Spec
-----------------------------------------------------------------------------
(* Takeoffs and landings.                                                  *)

Settled == env \cap {"quick", "lost_drone", "outage"} = {}

\* While t is held nothing lands, and the drone takes off or is in the air; when it
\* has been let go, the request that is sent once more finds the drone in the air.
HeldT(c) ==
  "t" \in pressed[c] =>
    /\ drone.airborn \/ drone.should_takeoff \/ relay = "takeoff" \/ (req[c] # "none" /\ what[c] = "takeoff")
    /\ ~ drone.should_land /\ relay # "landing"
    /\ \A d \in Clients : /\ "l" \notin pressed[d] /\ (d # c => "t" \notin pressed[d])
                          /\ ~ (req[d] # "none" /\ what[d] = "land")
                          /\ d # c => ~ (req[d] # "none" /\ what[d] = "takeoff")
LeftT(c) ==
  "t" \notin pressed[c] /\ req[c] # "none" /\ what[c] = "takeoff" =>
    /\ drone.airborn /\ req[c] # "store"
    /\ ~ drone.should_takeoff /\ ~ drone.should_land /\ relay = "rest"
    /\ \A d \in Clients \ {c} : ~ (req[d] # "none" /\ what[d] \in {"takeoff", "land"})

\* So it is with l, the other way round.
HeldL(c) ==
  "l" \in pressed[c] =>
    /\ ~ drone.airborn \/ drone.should_land \/ relay = "landing" \/ (req[c] # "none" /\ what[c] = "land")
    /\ ~ drone.should_takeoff /\ relay # "takeoff"
    /\ \A d \in Clients : /\ "t" \notin pressed[d] /\ (d # c => "l" \notin pressed[d])
                          /\ ~ (req[d] # "none" /\ what[d] = "takeoff")
                          /\ d # c => ~ (req[d] # "none" /\ what[d] = "land")
LeftL(c) ==
  "l" \notin pressed[c] /\ req[c] # "none" /\ what[c] = "land" =>
    /\ ~ drone.airborn /\ req[c] # "store"
    /\ ~ drone.should_takeoff /\ ~ drone.should_land /\ relay = "rest"
    /\ \A d \in Clients \ {c} : ~ (req[d] # "none" /\ what[d] \in {"takeoff", "land"})

Held == drone.listed /\ \A c \in Clients : HeldT(c) /\ LeftT(c) /\ HeldL(c) /\ LeftL(c)

PressInv == TypeInv /\ (Settled => Held)

LEMMA PressInit == Init => PressInv
BY TypeInit DEF Init, PressInv, Held, HeldT, LeftT, HeldL, LeftL, NewDrone

LEMMA KeysHold ==
  ASSUME TypeInv, Held, NEW c \in Clients, NEW k \in Keys, "quick" \notin env,
         Press(c, k) \/ Release(c, k)
  PROVE  Held'
<1>. USE AsksWhat DEF TypeInv, TypeOK, Held, HeldT, LeftT, HeldL, LeftL
<1>1. /\ req[c] = "none" /\ MayUse(k) /\ UNCHANGED <<drone, relay>>
      /\ req' = [req EXCEPT ![c] = "check"] /\ what' = [what EXCEPT ![c] = Asks(k)]
  BY DEF Press, Release, Ready, Requests, air
<1>2. /\ \A d \in Clients : d # c => pressed'[d] = pressed[d]
      /\ \A j : j # k => (j \in pressed'[c] <=> j \in pressed[c])
  BY DEF Press, Release
<1>3. CASE k \in MoveKeys
  <2>1. Asks(k) = "cmd" /\ k # "t" /\ k # "l"
    BY <1>3
  <2>2. \A d \in Clients : /\ "t" \in pressed'[d] <=> "t" \in pressed[d]
                           /\ "l" \in pressed'[d] <=> "l" \in pressed[d]
    BY <1>2, <2>1
  <2>3. what'[c] = "cmd" /\ \A d \in Clients \ {c} : what'[d] = what[d] /\ req'[d] = req[d]
    BY <1>1, <2>1
  <2>. QED  BY <1>1, <2>2, <2>3
<1>4. CASE k \in {"t", "l"}
  <2>1. /\ ~ drone.should_takeoff /\ ~ drone.should_land /\ relay = "rest"
        /\ \A d \in Clients : ~ (req[d] # "none" /\ what[d] \in {"takeoff", "land"})
    <3>1. k \notin MoveKeys
      BY <1>4
    <3>2. ~ (TakingOff \/ Landing)
      BY <1>1, <1>4, <3>1 DEF MayUse
    <3>. QED  BY <3>2 DEF TakingOff, Landing, Asked
  <2>2. \A d \in Clients \ {c} : what'[d] = what[d] /\ req'[d] = req[d] /\ pressed'[d] = pressed[d]
    BY <1>1, <1>2
  <2>3. CASE Press(c, k)
    <3>1. \A d \in Clients : "t" \notin pressed[d] /\ "l" \notin pressed[d]
      BY <1>4, <2>3 DEF Press, Flagging
    <3>2. pressed'[c] = pressed[c] \cup {k} /\ req'[c] = "check" /\ what'[c] = Asks(k)
      BY <1>1, <2>3 DEF Press
    <3>3. CASE k = "t"
      BY <1>1, <2>1, <2>2, <3>1, <3>2, <3>3
    <3>4. CASE k = "l"
      BY <1>1, <2>1, <2>2, <3>1, <3>2, <3>4
    <3>. QED  BY <1>4, <3>3, <3>4
  <2>4. CASE Release(c, k)
    <3>1. pressed'[c] = pressed[c] \ {k} /\ k \in pressed[c] /\ req'[c] = "check" /\ what'[c] = Asks(k)
      BY <1>1, <2>4 DEF Release
    <3>2. CASE k = "t"
      <4>1. drone.airborn /\ \A d \in Clients : "l" \notin pressed[d] /\ (d # c => "t" \notin pressed[d])
        BY <1>1, <2>1, <3>1, <3>2
      <4>. QED  BY <1>1, <2>1, <2>2, <3>1, <3>2, <4>1
    <3>3. CASE k = "l"
      <4>1. ~ drone.airborn /\ \A d \in Clients : "t" \notin pressed[d] /\ (d # c => "l" \notin pressed[d])
        BY <1>1, <2>1, <3>1, <3>3
      <4>. QED  BY <1>1, <2>1, <2>2, <3>1, <3>3, <4>1
    <3>. QED  BY <1>4, <3>2, <3>3
  <2>. QED  BY <2>3, <2>4
<1>. QED  BY <1>3, <1>4

LEMMA RequestsHold ==
  ASSUME TypeInv, Held, NEW c \in Clients, "outage" \notin env, Check(c) \/ Route(c) \/ Store(c)
  PROVE  Held'
<1>. USE DEF TypeInv, TypeOK, Held, HeldT, LeftT, HeldL, LeftL
<1>1. \A d \in Clients \ {c} : what'[d] = what[d] /\ req'[d] = req[d] /\ pressed'[d] = pressed[d]
  BY DEF Check, Route, Store, Answered, Ends
<1>2. what'[c] = what[c] /\ (pressed'[c] = pressed[c] \/ (pressed'[c] = {} /\ req'[c] = "none"))
  BY DEF Check, Route, Store, Answered, Ends
<1>3. CASE Check(c)
  <2>1. UNCHANGED <<drone, relay>> /\ req[c] = "check" /\ req'[c] \in {"none", "route"}
    BY <1>3 DEF Check, Answered, Ends, air
  <2>2. CASE what[c] = "cmd"
    BY <1>1, <1>2, <2>1, <2>2
  <2>3. CASE what[c] # "cmd" /\ req'[c] = "route"
    BY <1>1, <1>2, <2>1, <2>3
  <2>4. CASE what[c] # "cmd" /\ req'[c] = "none"
    <3>1. pressed'[c] = {}
      BY <1>3, <2>1, <2>4 DEF Check, Answered, Ends
    <3>. QED  BY <1>1, <1>2, <2>1, <2>4, <3>1
  <2>. QED  BY <2>1, <2>2, <2>3, <2>4
<1>4. CASE Route(c)
  <2>1. UNCHANGED <<drone, relay, pressed>> /\ req[c] = "route"
        /\ req'[c] = IF Accepts(what[c]) THEN "store" ELSE "none"
    BY <1>4 DEF Route, Answered, air
  <2>2. CASE what[c] = "cmd"
    BY <1>1, <1>2, <2>1, <2>2
  <2>3. CASE what[c] = "takeoff"
    BY <1>1, <1>2, <2>1, <2>3 DEF Accepts
  <2>4. CASE what[c] = "land"
    BY <1>1, <1>2, <2>1, <2>4 DEF Accepts
  <2>. QED  BY <2>2, <2>3, <2>4
<1>5. CASE Store(c)
  <2>1. UNCHANGED <<relay, pressed>> /\ req[c] = "store" /\ req'[c] = "none"
    BY <1>5 DEF Store, Answered
  <2>2. CASE what[c] = "cmd"
    <3>1. UNCHANGED <<drone.listed, drone.airborn, drone.should_takeoff, drone.should_land>>
      BY <1>5, <2>2 DEF Store, Drones
    <3>. QED  BY <1>1, <1>2, <2>1, <2>2, <3>1
  <2>3. CASE what[c] = "takeoff"
    <3>1. UNCHANGED <<drone.listed, drone.airborn, drone.should_land>> /\ drone'.should_takeoff
      BY <1>5, <2>3 DEF Store, Drones
    <3>2. "t" \in pressed[c]
      BY <2>1, <2>3
    <3>. QED  BY <1>1, <1>2, <2>1, <2>3, <3>1, <3>2
  <2>4. CASE what[c] = "land"
    <3>1. UNCHANGED <<drone.listed, drone.airborn, drone.should_takeoff>> /\ drone'.should_land
      BY <1>5, <2>4 DEF Store, Drones
    <3>2. "l" \in pressed[c]
      BY <2>1, <2>4
    <3>. QED  BY <1>1, <1>2, <2>1, <2>4, <3>1, <3>2
  <2>. QED  BY <2>2, <2>3, <2>4
<1>. QED  BY <1>3, <1>4, <1>5

LEMMA AroundHolds ==
  ASSUME TypeInv, Held, Around, env \cap {"outage", "lost_drone"} = {}
  PROVE  Held'
<1>. USE DEF TypeInv, TypeOK, Held, HeldT, LeftT, HeldL, LeftL, hands
<1>1. CASE TakeoffFlag
  <2>1. UNCHANGED <<drone.listed, drone.airborn, drone.should_land>>
        /\ drone.should_takeoff /\ ~ drone'.should_takeoff
    BY <1>1 DEF TakeoffFlag, Drones
  <2>. QED  BY <1>1, <2>1 DEF TakeoffFlag
<1>2. CASE LandFlag
  <2>1. UNCHANGED <<drone.listed, drone.airborn, drone.should_takeoff>>
        /\ drone.should_land /\ ~ drone'.should_land
    BY <1>2 DEF LandFlag, Drones
  <2>. QED  BY <1>2, <2>1 DEF LandFlag
<1>3. CASE Reported
  <2>1. UNCHANGED <<drone.listed, drone.should_land, drone.should_takeoff>>
        /\ drone'.airborn = (relay = "takeoff")
    BY <1>3 DEF Reported, Drones
  <2>. QED  BY <1>3, <2>1, ZenonT(60) DEF Reported
<1>4. CASE TimePasses
  BY <1>4 DEF TimePasses, air
<1>. QED  BY <1>1, <1>2, <1>3, <1>4 DEF Around, DroneLeaves, DroneReturns, BackendRestarts

LEMMA PressStep == PressInv /\ [Next]_vars => PressInv'
<1>. SUFFICES ASSUME PressInv, [Next]_vars, Settled PROVE Held'
  BY TypeStep DEF PressInv, Settled, Next, vars
<1>1. TypeInv /\ Held /\ env \cap {"quick", "lost_drone", "outage"} = {}
  BY DEF PressInv, Settled
<1>2. ASSUME UNCHANGED <<pressed, req, what, drone, relay>> PROVE Held'
  BY <1>1, <1>2 DEF Held, HeldT, LeftT, HeldL, LeftL
<1>3. ASSUME NEW c \in Clients, Main(c) \/ Information(c) PROVE Held'
  BY <1>1, <1>2, <1>3, MainKeepsHands
<1>4. ASSUME NEW c \in Clients, Keyboard(c) PROVE Held'
  BY <1>1, <1>4, KeysHold, RequestsHold DEF Keyboard, Fails, Request
<1>5. CASE Around
  BY <1>1, <1>5, AroundHolds
<1>6. CASE UNCHANGED vars
  BY <1>2, <1>6 DEF vars, state, hands, air
<1>. QED  BY <1>3, <1>4, <1>5, <1>6 DEF Next, Act

\* The request that the release of t or l sends (controller.py, on_release) flags
\* nothing, if pilots wait for the outcome before they let go.
LEMMA FlagsArePressed ==
  PressInv /\ [Next]_vars =>
    [env \cap {"quick", "lost_drone", "outage"} = {} =>
       /\ drone'.should_takeoff /\ ~ drone.should_takeoff => \E c \in Clients : "t" \in pressed[c]
       /\ drone'.should_land /\ ~ drone.should_land => \E c \in Clients : "l" \in pressed[c]]_vars
<1>. SUFFICES ASSUME PressInv, Settled, Next
              PROVE  /\ drone'.should_takeoff /\ ~ drone.should_takeoff => \E c \in Clients : "t" \in pressed[c]
                     /\ drone'.should_land /\ ~ drone.should_land => \E c \in Clients : "l" \in pressed[c]
  BY DEF Settled
<1>1. TypeInv /\ Held /\ env \cap {"quick", "lost_drone", "outage"} = {} /\ drone \in Drones
  BY DEF PressInv, Settled, TypeInv, TypeOK
<1>2. ASSUME NEW c \in Clients, Store(c)
      PROVE  /\ drone'.should_takeoff /\ ~ drone.should_takeoff => "t" \in pressed[c]
             /\ drone'.should_land /\ ~ drone.should_land => "l" \in pressed[c]
  <2>1. what[c] \in {"takeoff", "land", "cmd"} /\ req[c] = "store"
    BY <1>1, <1>2 DEF TypeInv, TypeOK, Store
  <2>2. CASE what[c] = "takeoff"
    BY <1>1, <1>2, <2>1, <2>2 DEF Store, Drones, Held, LeftT
  <2>3. CASE what[c] = "land"
    BY <1>1, <1>2, <2>1, <2>3 DEF Store, Drones, Held, LeftL
  <2>4. CASE what[c] = "cmd"
    BY <1>1, <1>2, <2>4 DEF Store, Drones
  <2>. QED  BY <2>1, <2>2, <2>3, <2>4
<1>3. ASSUME NEW c \in Clients, Main(c) \/ Information(c) \/ (Keyboard(c) /\ ~ Store(c)) PROVE drone' = drone
  <2>1. CASE Keyboard(c) /\ ~ Store(c)
    <3>1. CASE Fails(c)
      BY <3>1 DEF Fails, air
    <3>2. CASE Check(c)
      BY <3>2 DEF Check, air
    <3>3. CASE Route(c)
      BY <3>3 DEF Route, air
    <3>4. ASSUME NEW k \in Keys, Press(c, k) \/ Release(c, k) PROVE drone' = drone
      BY <3>4 DEF Press, Release, air
    <3>. QED  BY <2>1, <3>1, <3>2, <3>3, <3>4 DEF Keyboard, Request
  <2>2. CASE Main(c) \/ Information(c)
    BY <1>1, <2>2, MainKeepsHands
  <2>. QED  BY <1>3, <2>1, <2>2
<1>4. CASE Around
  BY <1>1, <1>4 DEF Around, TakeoffFlag, LandFlag, Reported, DroneLeaves, DroneReturns, BackendRestarts,
                    TimePasses, air, Drones, Held
<1>. QED  BY <1>2, <1>3, <1>4 DEF Next, Act

\* In every behaviour with at liberty only what AsPressed names, a drone is flagged
\* to take off or to land only while some pilot holds t or l (frontend_routes.py,
\* takeoff and land; controller.py, on_release).
THEOREM PilotsPress == Spec => AsPressed
BY PressInit, PressStep, FlagsArePressed, PTL DEF Spec, AsPressed
=============================================================================
