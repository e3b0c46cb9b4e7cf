------------------------------ MODULE Sessions ------------------------------
(***************************************************************************)
(* Sign-in, sign-up, refresh, logout and password reset (auth.service.ts,  *)
(* users.service.ts) over the keys refresh:<user>:<session> and            *)
(* pwdreset:<user>:<reset> of redis.service.ts.  The client behind it is   *)
(* chosen at startup: a Redis server, whose errors the service swallows (a *)
(* failed get reads null, a failed write does nothing), or a map in the    *)
(* memory of the process (config/redis.ts).                                *)
(*                                                                         *)
(* A session descends from the sign-in that verified its user, its root,   *)
(* and from the password of that moment, its basis; a refresh passes both  *)
(* on.  Passwords are numbered, per user, in the order they are set.       *)
(***************************************************************************)
EXTENDS Naturals, FiniteSets

CONSTANTS
  Users,            \* accounts, and e-mail addresses not registered yet
  SessionIds,       \* sessions, numbered in the order they are issued
  ResetIds,         \* the random UUIDs of reset tokens
  SessionCalls,     \* handlers that may be in flight together
  MaxPassword,      \* bound: passwords set per user
  NoOne

ASSUME SessionsAssumption ==
  /\ NoOne \notin Users /\ NoOne \notin SessionIds /\ NoOne \notin ResetIds
  /\ SessionIds \subseteq Nat
  /\ MaxPassword \in Nat

VARIABLES
  account,          \* the users collection
  session,          \* the refresh keys of Redis
  resetKey,         \* the pwdreset keys of Redis
  redisMode,        \* the client chosen at startup: "redis" or "memory"
  sCall,            \* the handlers in flight
  lastReset,        \* history: the password set by the last reset that succeeded
  forked            \* history: roots of sessions two refreshes have read at once

sessionVars == <<account, session, resetKey, redisMode, sCall, lastReset, forked>>

-----------------------------------------------------------------------------
(* Keys and handlers *)

Unused == [state |-> "unused", user |-> NoOne, root |-> NoOne, basis |-> 0, late |-> FALSE]

\* A key that was deleted or has expired, or that Redis never stored.
Gone == [Unused EXCEPT !.state = "gone"]

Asleep == [at |-> "idle", user |-> NoOne, session |-> NoOne, root |-> NoOne,
           basis |-> 0, late |-> FALSE, reset |-> NoOne, keys |-> {}]

Live(s) == session[s].state = "live"

SessionsOf(u) == {s \in SessionIds : Live(s) /\ session[s].user = u}

Deleted(ids) ==
  [s \in SessionIds |-> IF s \in ids /\ Live(s) THEN Gone ELSE session[s]]

InStep(h, step) == sCall[h].at = step

MoveTo(h, step) == sCall' = [sCall EXCEPT ![h] = [@ EXCEPT !.at = step]]

Ends(h) == sCall' = [sCall EXCEPT ![h] = Asleep]

\* Only a server can fail; the map answers at once.
ServerFails == redisMode = "redis"

\* The handler has read the account of u and found it in order.
Reads(h, u, step) ==
  /\ InStep(h, "idle")
  /\ account[u].exists /\ ~account[u].blocked
  /\ sCall' = [sCall EXCEPT ![h] = [Asleep EXCEPT !.at = step, !.user = u,
                                                  !.basis = account[u].password]]

NewAccount == [exists |-> TRUE, consent |-> TRUE, blocked |-> FALSE, password |-> 0]

NoAccount == [NewAccount EXCEPT !.exists = FALSE, !.consent = FALSE]

SessionsInit ==
  /\ account \in [Users -> {NoAccount, NewAccount, [NewAccount EXCEPT !.consent = FALSE]}]
  /\ session = [s \in SessionIds |-> Unused]
  /\ resetKey = [r \in ResetIds |-> [state |-> "unused", user |-> NoOne]]
  /\ redisMode \in {"redis", "memory"}
  /\ sCall = [h \in SessionCalls |-> Asleep]
  /\ lastReset = [u \in Users |-> 0]
  /\ forked = {}

-----------------------------------------------------------------------------
(* Sign-in and sign-up: the account is read or made, then tokens are issued. *)

\* The caller presents the password of the moment the account is read.
Login(h, u) ==
  /\ Reads(h, u, "issue")
  /\ UNCHANGED <<account, session, resetKey, lastReset, forked, redisMode>>

\* usersService.create(): the unique index on email stands behind its findOne.
Register(h, u) ==
  /\ InStep(h, "idle")
  /\ ~account[u].exists
  /\ account' = [account EXCEPT ![u] = NewAccount]
  /\ sCall' = [sCall EXCEPT ![h] = [Asleep EXCEPT !.at = "issue", !.user = u]]
  /\ UNCHANGED <<session, resetKey, lastReset, forked, redisMode>>

\* Without consent no session is issued: completeOauthSignup() comes next.
ResolveSocialAuth(h, u) ==
  /\ account[u].consent
  /\ Reads(h, u, "issue")
  /\ UNCHANGED <<account, session, resetKey, lastReset, forked, redisMode>>

CompleteSignupRead(h, u) ==
  /\ IF account[u].exists
       THEN Reads(h, u, IF account[u].consent THEN "issue" ELSE "consent")
       ELSE /\ InStep(h, "idle")
            /\ sCall' = [sCall EXCEPT ![h] = [Asleep EXCEPT !.at = "signup", !.user = u]]
  /\ UNCHANGED <<account, session, resetKey, lastReset, forked, redisMode>>

\* create() refuses an address registered since.
CompleteSignupCreate(h) ==
  LET u == sCall[h].user IN
  /\ InStep(h, "signup")
  /\ IF account[u].exists
       THEN Ends(h) /\ UNCHANGED account
       ELSE /\ account' = [account EXCEPT ![u] = NewAccount]
            /\ MoveTo(h, "issue")
  /\ UNCHANGED <<session, resetKey, lastReset, forked, redisMode>>

CompleteSignupConsent(h) ==
  LET u == sCall[h].user IN
  /\ InStep(h, "consent")
  /\ account' = [account EXCEPT ![u].consent = TRUE]
  /\ MoveTo(h, "issue")
  /\ UNCHANGED <<session, resetKey, lastReset, forked, redisMode>>

\* A reset of u has read the keys and not deleted them yet.
Overlapped(u) == \E g \in SessionCalls : InStep(g, "purge") /\ sCall[g].user = u

\* generateTokens(): a session under a new random id.  A sign-in is its own root.
Issue(h) ==
  LET c == sCall[h] IN
  /\ InStep(h, "issue")
  /\ \E s \in SessionIds, stored \in BOOLEAN :
       /\ session[s] = Unused
       /\ \A t \in SessionIds : t < s => session[t] # Unused
       /\ stored \/ ServerFails
       /\ session' = [session EXCEPT ![s] =
            IF ~stored THEN Gone
            ELSE [state |-> "live", user |-> c.user, basis |-> c.basis,
                  late |-> c.late \/ Overlapped(c.user),
                  root |-> IF c.root = NoOne THEN s ELSE c.root]]
  /\ Ends(h)
  /\ UNCHANGED <<account, resetKey, lastReset, forked, redisMode>>

-----------------------------------------------------------------------------
(* Refresh and logout *)

\* A token whose key is gone already is refused by the get, and has no step.
RefreshRead(h, s) ==
  /\ InStep(h, "idle")
  /\ Live(s)
  /\ account[session[s].user].exists /\ ~account[session[s].user].blocked
  /\ sCall' = [sCall EXCEPT ![h] = [Asleep EXCEPT !.at = "get", !.user = session[s].user,
                                                  !.session = s]]
  /\ UNCHANGED <<account, session, resetKey, lastReset, forked, redisMode>>

\* redisService.get(): null for a key that is gone and for an error.
RefreshGet(h) ==
  LET s == sCall[h].session IN
  /\ InStep(h, "get")
  /\ \/ /\ Live(s)
        /\ sCall' = [sCall EXCEPT ![h] = [@ EXCEPT !.at = "del", !.root = session[s].root,
                           !.basis = session[s].basis, !.late = sCall[h].late \/ session[s].late]]
        /\ forked' = IF \E g \in SessionCalls : InStep(g, "del") /\ sCall[g].session = s
                     THEN forked \union {session[s].root} ELSE forked
     \/ /\ ~Live(s) \/ ServerFails
        /\ Ends(h)
        /\ UNCHANGED forked
  /\ UNCHANGED <<account, session, resetKey, lastReset, redisMode>>

\* Variant: the token stays valid until it expires.
RefreshKeep(h) ==
  /\ InStep(h, "del")
  /\ MoveTo(h, "issue")
  /\ UNCHANGED <<account, session, resetKey, lastReset, forked, redisMode>>

\* A failed deletion goes unnoticed; the old token then works again.
RefreshDel(h) ==
  LET c == sCall[h] IN
  /\ InStep(h, "del")
  /\ \/ session' = Deleted({c.session}) /\ UNCHANGED forked
     \/ /\ ServerFails
        /\ UNCHANGED session
        /\ forked' = forked \union {c.root}
  /\ MoveTo(h, "issue")
  /\ UNCHANGED <<account, resetKey, lastReset, redisMode>>

\* del() of logout() and the expiry of the key, both one operation.
Logout(s) ==
  /\ Live(s)
  /\ session' = Deleted({s})
  /\ UNCHANGED <<account, resetKey, sCall, lastReset, forked, redisMode>>

-----------------------------------------------------------------------------
(* Password reset and change *)

ForgotPassword(u, r) ==
  /\ account[u].exists /\ ~account[u].blocked
  /\ resetKey[r].state = "unused"
  /\ resetKey' = [resetKey EXCEPT ![r] = [state |-> "live", user |-> u]]
  /\ UNCHANGED <<account, session, sCall, lastReset, forked, redisMode>>

\* The stored hash and the account are read; the token may be read twice.
ResetRead(h, r) ==
  /\ InStep(h, "idle")
  /\ resetKey[r].state = "live"
  /\ LET u == resetKey[r].user IN
       /\ account[u].exists /\ ~account[u].blocked
       /\ sCall' = [sCall EXCEPT ![h] = [Asleep EXCEPT !.at = "set", !.user = u, !.reset = r]]
  /\ UNCHANGED <<account, session, resetKey, lastReset, forked, redisMode>>

ResetSetPassword(h) ==
  LET u == sCall[h].user IN
  /\ InStep(h, "set")
  /\ account[u].password < MaxPassword
  /\ account' = [account EXCEPT ![u].password = @ + 1]
  /\ sCall' = [sCall EXCEPT ![h] = [@ EXCEPT !.at = "delkey", !.basis = account[u].password + 1]]
  /\ UNCHANGED <<session, resetKey, lastReset, forked, redisMode>>

ResetDelKey(h) ==
  /\ InStep(h, "delkey")
  /\ \/ ServerFails /\ UNCHANGED resetKey
     \/ resetKey' = [resetKey EXCEPT ![sCall[h].reset].state = "gone"]
  /\ MoveTo(h, "scan")
  /\ UNCHANGED <<account, session, lastReset, forked, redisMode>>

\* Variant: only the first page of the scan is deleted.
ResetScanFirstPage(h) ==
  /\ InStep(h, "scan")
  /\ \E page \in SUBSET SessionsOf(sCall[h].user) :
       sCall' = [sCall EXCEPT ![h] = [@ EXCEPT !.at = "purge", !.keys = page]]
  /\ UNCHANGED <<account, session, resetKey, lastReset, forked, redisMode>>

\* deleteByPattern() reads the keys.  It calls scan() without its client, which the
\* map does not need and the Redis client rejects: the error is swallowed.
ResetScan(h) ==
  /\ InStep(h, "scan")
  /\ sCall' = [sCall EXCEPT ![h] =
       [@ EXCEPT !.at = "purge",
                 !.keys = IF redisMode = "redis" THEN {} ELSE SessionsOf(sCall[h].user)]]
  /\ UNCHANGED <<account, session, resetKey, lastReset, forked, redisMode>>

\* It deletes the keys it has read, and the reset has succeeded.  Whatever the user
\* still has in flight overlapped it: the sessions that come of it are late.
ResetPurge(h) ==
  LET c == sCall[h] IN
  /\ InStep(h, "purge")
  /\ session' = Deleted(c.keys)
  /\ sCall' = [g \in SessionCalls |->
                 IF g = h THEN Asleep
                 ELSE IF sCall[g].user = c.user THEN [sCall[g] EXCEPT !.late = TRUE]
                 ELSE sCall[g]]
  /\ lastReset' = [lastReset EXCEPT ![c.user] = IF c.basis > @ THEN c.basis ELSE @]
  /\ UNCHANGED <<account, resetKey, forked, redisMode>>

\* changePassword() leaves the sessions alone.
ChangeRead(h, u) ==
  /\ InStep(h, "idle")
  /\ account[u].exists
  /\ sCall' = [sCall EXCEPT ![h] = [Asleep EXCEPT !.at = "change", !.user = u]]
  /\ UNCHANGED <<account, session, resetKey, lastReset, forked, redisMode>>

ChangeWrite(h) ==
  LET u == sCall[h].user IN
  /\ InStep(h, "change")
  /\ account[u].password < MaxPassword
  /\ account' = [account EXCEPT ![u].password = @ + 1]
  /\ Ends(h)
  /\ UNCHANGED <<session, resetKey, lastReset, forked, redisMode>>

\* blockUser() and unblockUser()
SetBlocked(u) ==
  /\ account[u].exists
  /\ account' = [account EXCEPT ![u].blocked = ~@]
  /\ UNCHANGED <<session, resetKey, sCall, lastReset, forked, redisMode>>

\* A rejected database call or a stopped process.
SessionsFail(h) ==
  /\ ~InStep(h, "idle")
  /\ Ends(h)
  /\ UNCHANGED <<account, session, resetKey, lastReset, forked, redisMode>>

\* The process stops, and with it every handler and the map.
Restart ==
  /\ redisMode = "memory"
  /\ session' = Deleted(SessionIds)
  /\ resetKey' = [r \in ResetIds |-> IF resetKey[r].state = "live"
                                    THEN [resetKey[r] EXCEPT !.state = "gone"] ELSE resetKey[r]]
  /\ sCall' = [h \in SessionCalls |-> Asleep]
  /\ UNCHANGED <<account, lastReset, forked, redisMode>>

-----------------------------------------------------------------------------
SignIn(h, u) ==
  Login(h, u) \/ Register(h, u) \/ ResolveSocialAuth(h, u) \/ CompleteSignupRead(h, u)

SignUp(h) == CompleteSignupCreate(h) \/ CompleteSignupConsent(h) \/ Issue(h)

Refresh(h) == (\E s \in SessionIds : RefreshRead(h, s)) \/ RefreshGet(h) \/ RefreshDel(h)

ResetPassword(h) ==
  \/ \E r \in ResetIds : ResetRead(h, r)
  \/ ResetSetPassword(h) \/ ResetDelKey(h) \/ ResetScan(h) \/ ResetPurge(h)

SessionsNext ==
  \/ \E h \in SessionCalls :
       \/ SignUp(h) \/ Refresh(h) \/ ResetPassword(h) \/ ChangeWrite(h) \/ SessionsFail(h)
       \/ \E u \in Users : SignIn(h, u) \/ ChangeRead(h, u)
  \/ \E s \in SessionIds : Logout(s)
  \/ Restart
  \/ \E u \in Users : SetBlocked(u) \/ \E r \in ResetIds : ForgotPassword(u, r)

SessionsSpec == SessionsInit /\ [][SessionsNext]_sessionVars

-----------------------------------------------------------------------------
(* Properties *)

Accounts ==
  [exists: BOOLEAN, consent: BOOLEAN, blocked: BOOLEAN, password: 0..MaxPassword]

Keys ==
  [state: {"live"}, user: Users, root: SessionIds, basis: 0..MaxPassword, late: BOOLEAN]

ResetKeys ==
  [state: {"live"}, user: Users] \union [state: {"unused", "gone"}, user: Users \union {NoOne}]

SessionSteps ==
  {"idle", "issue", "signup", "consent", "get", "del", "set", "delkey", "scan", "purge",
   "change"}

\* The type of the accounts, the keys in Redis and the handlers in flight.
SessionsTypeOK ==
  /\ account \in [Users -> Accounts]
  /\ session \in [SessionIds -> Keys \union {Unused, Gone}]
  /\ resetKey \in [ResetIds -> ResetKeys]
  /\ sCall \in [SessionCalls -> [at: SessionSteps, user: Users \union {NoOne},
        session: SessionIds \union {NoOne}, root: SessionIds \union {NoOne},
        basis: 0..MaxPassword, late: BOOLEAN, reset: ResetIds \union {NoOne},
        keys: SUBSET SessionIds]]
  /\ redisMode \in {"redis", "memory"}
  /\ lastReset \in [Users -> 0..MaxPassword]
  /\ forked \subseteq SessionIds

\* A session started with a password from before the last successful reset, and
\* that no call overlapping the reset has stored.
Outlives(s) ==
  /\ Live(s)
  /\ session[s].basis < lastReset[session[s].user]
  /\ ~session[s].late

\* With the map in memory, a successful password reset ends every session that was
\* started with an earlier password; what is left of those comes from calls that
\* overlapped the reset (resetPassword() sets the password before it deletes).  Over a
\* Redis server they all survive: see ResetScan.
ResetEndsSessions == redisMode = "memory" => \A s \in SessionIds : ~Outlives(s)

\* One sign-in keeps at most one session alive, however often it is refreshed
\* (refresh() deletes the key it has checked before it issues the next), unless
\* two refreshes read one key together or the server drops the deletion.
OneSessionPerSignIn ==
  \A s, t \in SessionIds :
    /\ s # t /\ Live(s) /\ Live(t) /\ session[s].root = session[t].root
    => session[s].root \in forked

-----------------------------------------------------------------------------
(* The inductive invariant. *)

\* A handler that has checked a session of root r and has not issued the next one.
Renews(h, r) == (InStep(h, "del") \/ InStep(h, "issue")) /\ sCall[h].root = r

\* A root is the id of a session that was issued.
RootsAreIssued ==
  /\ \A s \in SessionIds : Live(s) =>
       session[s].root \in SessionIds /\ session[session[s].root].state # "unused"
  /\ \A h \in SessionCalls, r \in SessionIds : Renews(h, r) => session[r].state # "unused"
  /\ \A h \in SessionCalls : InStep(h, "get") \/ InStep(h, "del") =>
       /\ sCall[h].session \in SessionIds
       /\ session[sCall[h].session].state # "unused"
       /\ Live(sCall[h].session) => session[sCall[h].session].user = sCall[h].user
  /\ \A h \in SessionCalls : InStep(h, "del") => sCall[h].root \in SessionIds
  /\ \A h \in SessionCalls : InStep(h, "signup") \/ InStep(h, "consent") =>
       sCall[h].root = NoOne

\* Unless a root is forked one session of it is live or one handler renews it, or both if
\* that session is the one the handler is about to delete.
OneHolder(r) ==
  /\ \A g, h \in SessionCalls : Renews(g, r) /\ Renews(h, r) => g = h
  /\ \A s, t \in SessionIds :
       Live(s) /\ Live(t) /\ session[s].root = r /\ session[t].root = r => s = t
  /\ \A s \in SessionIds, h \in SessionCalls :
       Live(s) /\ session[s].root = r /\ Renews(h, r) =>
         InStep(h, "del") /\ sCall[h].session = s

Resets(h) == InStep(h, "delkey") \/ InStep(h, "scan") \/ InStep(h, "purge")

\* No reset is later than the account's password.
PasswordsComeInTurn ==
  \A u \in Users :
    /\ lastReset[u] <= account[u].password
    /\ ~account[u].exists => account[u].password = 0
    /\ \A h \in SessionCalls :
         Resets(h) /\ sCall[h].user = u => sCall[h].basis <= account[u].password

Signs(h) == InStep(h, "issue") \/ InStep(h, "consent") \/ InStep(h, "del")

\* What is older than a reset, or was stored after its handler had read the keys, is late.
OlderIsLate ==
  /\ \A s \in SessionIds : ~Outlives(s)
  /\ \A h \in SessionCalls :
       Signs(h) /\ sCall[h].basis < lastReset[sCall[h].user] => sCall[h].late
  /\ \A h \in SessionCalls : InStep(h, "purge") =>
       \A s \in SessionsOf(sCall[h].user) : s \in sCall[h].keys \/ session[s].late

UsersKnown ==
  \A h \in SessionCalls : ~InStep(h, "idle") =>
    sCall[h].user \in Users /\ (InStep(h, "signup") \/ account[sCall[h].user].exists)

SessionsInv ==
  /\ SessionsTypeOK /\ UsersKnown /\ RootsAreIssued
  /\ \A r \in SessionIds \ forked : OneHolder(r)
  /\ PasswordsComeInTurn
  /\ redisMode = "memory" => OlderIsLate
=============================================================================
