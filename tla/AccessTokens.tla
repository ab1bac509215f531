---------------------------- MODULE AccessTokens ----------------------------
(***************************************************************************)
(* The access tokens of the pilots (backend/helper_functions.py), their    *)
(* blacklist (backend/middleware.py) and the accounts                      *)
(* (backend/mongodb_handler.py).  A token is what its claims make it: the  *)
(* same claims give the same token.                                        *)
(***************************************************************************)
EXTENDS Naturals

CONSTANTS
  Accounts,   \* <<name, password>> of the users in the database
  Lifetime,   \* 24*60 minutes: of a token, and of its place on the blacklist
  MaxTime     \* bound: seconds

ASSUME TokenAssumption == Lifetime \in Nat /\ MaxTime \in Nat

VARIABLES
  now,          \* seconds
  blacklisted   \* blacklisted_tokens: the tokens, by the second they are kept until

tokens == <<now, blacklisted>>

Subjects   == {account[1] : account \in Accounts}
Token      == [sub : Subjects, exp : 0 .. MaxTime + Lifetime]
Listed     == {blacklisted[s] : s \in DOMAIN blacklisted}

TokensInit == now = 0 /\ blacklisted = [s \in {} |-> 0]

\* The name is known and the password matches its hash.
Authenticate(credentials) == credentials \in Accounts

\* Seeded fault in GenerateAccessToken: the token does not say whose it is.
GenerateAccessToken_NoSub(name) == [sub |-> "user", exp |-> now + Lifetime]

GenerateAccessToken(name) == [sub |-> name, exp |-> now + Lifetime]

\* Seeded fault in Admits: only is_user_authorized, which looks at the keys of the
\* blacklist, finds out about log-outs.
Admits_KeysOnly(token) == now <= token.exp

\* The middleware's tests.  is_user_authorized also looks for the token among
\* the keys of the blacklist, which are seconds: it is never there.
Admits(token) == token \notin Listed /\ now <= token.exp

\* Whatever was kept until the same second is no longer on the blacklist.
Blacklist(token) ==
  blacklisted' = [s \in DOMAIN blacklisted \cup {now + Lifetime} |->
                    IF s = now + Lifetime THEN token ELSE blacklisted[s]]

Tick == now < MaxTime /\ now' = now + 1 /\ UNCHANGED blacklisted

TokensTypeOK ==
  /\ now \in 0 .. MaxTime
  /\ DOMAIN blacklisted \subseteq Lifetime .. MaxTime + Lifetime
  /\ Listed \subseteq Token
=============================================================================
