-------------------------- MODULE SessionsProofs --------------------------
(* Theorems about Sessions, for any users, sessions, resets and calls, and *)
(* about Presence, for every time to live, window and delay that fit.      *)
EXTENDS Sessions, Presence, TLAPS

\* What a handler in flight may be.
SessionHandlers ==
  [at: SessionSteps, user: Users \union {NoOne}, session: SessionIds \union {NoOne},
   root: SessionIds \union {NoOne}, basis: 0..MaxPassword, late: BOOLEAN,
   reset: ResetIds \union {NoOne}, keys: SUBSET SessionIds]

LEMMA AsleepIsHandler ==
  /\ Asleep \in SessionHandlers /\ Asleep.at = "idle" /\ Asleep.root = NoOne /\ Asleep.basis = 0
BY SessionsAssumption DEF Asleep, SessionHandlers, SessionSteps

LEMMA AccountFields ==
  ASSUME NEW a \in Accounts, NEW b \in BOOLEAN
  PROVE  /\ [a EXCEPT !.consent = b] \in Accounts
         /\ [a EXCEPT !.consent = b].password = a.password
         /\ [a EXCEPT !.consent = b].exists = a.exists
         /\ [a EXCEPT !.exists = b] \in Accounts
         /\ [a EXCEPT !.exists = b].password = a.password
         /\ [a EXCEPT !.blocked = b] \in Accounts
         /\ [a EXCEPT !.blocked = b].password = a.password
         /\ [a EXCEPT !.blocked = b].exists = a.exists
BY DEF Accounts

LEMMA NewAccounts ==
  /\ NewAccount \in Accounts /\ NoAccount \in Accounts
  /\ [NewAccount EXCEPT !.consent = FALSE] \in Accounts
  /\ NewAccount.password = 0 /\ NoAccount.password = 0
  /\ [NewAccount EXCEPT !.consent = FALSE].password = 0
  /\ NewAccount.exists
<1>1. NewAccount \in Accounts /\ NewAccount.password = 0 /\ NewAccount.exists
  BY SessionsAssumption DEF NewAccount, Accounts
<1>2. [NewAccount EXCEPT !.exists = FALSE] \in Accounts
      /\ [NewAccount EXCEPT !.exists = FALSE].password = 0
  BY <1>1, AccountFields
<1>3. NoAccount = [[NewAccount EXCEPT !.exists = FALSE] EXCEPT !.consent = FALSE]
  BY DEF NoAccount
<1> QED
  BY <1>1, <1>2, <1>3, AccountFields

LEMMA SessionsInvInit == SessionsInit => SessionsInv
<1> SUFFICES ASSUME SessionsInit PROVE SessionsInv
  OBVIOUS
<1>1. \A h \in SessionCalls : InStep(h, "idle") /\ sCall[h] = Asleep
  BY DEF SessionsInit, InStep, Asleep
<1>2. \A s \in SessionIds : session[s] = Unused /\ ~Live(s)
  BY DEF SessionsInit, Live, Unused
<1>3. SessionsTypeOK
  <2>1. account \in [Users -> Accounts]
    BY NewAccounts DEF SessionsInit
  <2>2. sCall \in [SessionCalls -> SessionHandlers]
    BY AsleepIsHandler DEF SessionsInit
  <2> QED
    BY <2>1, <2>2, SessionsAssumption DEF SessionsInit, SessionsTypeOK, SessionHandlers, ResetKeys
<1>4. PasswordsComeInTurn
  <2>1. \A u \in Users : account[u].password = 0 /\ lastReset[u] = 0
    BY NewAccounts DEF SessionsInit
  <2> QED
    BY <1>1, <2>1 DEF PasswordsComeInTurn, InStep, Resets
<1> QED
  BY <1>1, <1>2, <1>3, <1>4
     DEF SessionsInv, UsersKnown, RootsAreIssued, OneHolder, Renews, OlderIsLate, Outlives,
         Signs, InStep

-----------------------------------------------------------------------------
\* A handler moves on and no session changes.  The conditions are those of its new step.
LEMMA HandlerMoves ==
  ASSUME SessionsInv, NEW h \in SessionCalls, NEW c \in SessionHandlers,
         sCall' = [sCall EXCEPT ![h] = c],
         UNCHANGED <<session, lastReset, forked, redisMode>>,
         account' \in [Users -> Accounts],
         resetKey' \in [ResetIds -> ResetKeys],
         \A u \in Users : /\ account[u].password <= account'[u].password
                          /\ ~account'[u].exists => account'[u].password = 0
                          /\ account[u].exists => account'[u].exists,
         c.at # "idle" => c.user \in Users /\ (c.at = "signup" \/ account'[c.user].exists),
         c.at # "del",
         c.at \in {"issue", "signup", "consent"} => c.root = NoOne,
         c.at = "get" => /\ c.session \in SessionIds /\ Live(c.session)
                         /\ session[c.session].user = c.user,
         c.at \in {"delkey", "scan", "purge"} => c.basis <= account'[c.user].password,
         c.at \in {"issue", "consent"} /\ redisMode = "memory" =>
           c.late \/ lastReset[c.user] <= c.basis,
         c.at = "purge" /\ redisMode = "memory" => c.keys = SessionsOf(c.user)
  PROVE  SessionsInv'
<1>0. SessionsTypeOK /\ sCall \in [SessionCalls -> SessionHandlers]
  BY DEF SessionsInv, SessionsTypeOK, SessionHandlers
<1>1. /\ sCall'[h] = c /\ sCall' \in [SessionCalls -> SessionHandlers]
      /\ \A g \in SessionCalls : g # h => sCall'[g] = sCall[g]
  BY <1>0
<1>2. SessionsTypeOK'
  BY <1>0, <1>1 DEF SessionsTypeOK, SessionHandlers
<1>3. UsersKnown'
  BY <1>1 DEF SessionsInv, UsersKnown, InStep
<1>4. \A s \in SessionIds : Live(s)' = Live(s)
  BY DEF Live
<1>5. RootsAreIssued'
  <2>1. Live(c.session) => session[c.session].state # "unused"
    BY DEF Live
  <2> QED
    BY <1>1, <1>4, <2>1, SessionsAssumption
       DEF SessionsInv, RootsAreIssued, Renews, InStep, Live
<1>6. ASSUME NEW r \in SessionIds \ forked'
      PROVE  OneHolder(r)'
  <2>1. OneHolder(r)
    BY DEF SessionsInv
  <2>2. \A g \in SessionCalls : Renews(g, r)' => g # h /\ Renews(g, r)
    BY <1>1, SessionsAssumption DEF Renews, InStep
  <2> QED
    BY <1>1, <1>4, <2>1, <2>2 DEF OneHolder, InStep
<1>7. PasswordsComeInTurn'
  <2> SUFFICES ASSUME NEW u \in Users
               PROVE  /\ lastReset'[u] <= account'[u].password
                      /\ ~account'[u].exists => account'[u].password = 0
                      /\ \A g \in SessionCalls : Resets(g)' /\ sCall'[g].user = u
                           => sCall'[g].basis <= account'[u].password
    BY DEF PasswordsComeInTurn
  <2>1. /\ account[u].password \in Nat /\ account'[u].password \in Nat /\ lastReset[u] \in Nat
        /\ \A g \in SessionCalls : sCall[g].basis \in Nat /\ sCall'[g].basis \in Nat
    BY <1>0, <1>1, SessionsAssumption DEF SessionsTypeOK, Accounts, SessionHandlers
  <2>2. \A g \in SessionCalls : Resets(g)' /\ sCall'[g].user = u
          => sCall'[g].basis <= account'[u].password
    <3> SUFFICES ASSUME NEW g \in SessionCalls, Resets(g)', sCall'[g].user = u
                 PROVE  sCall'[g].basis <= account'[u].password
      OBVIOUS
    <3>1. CASE g = h
      BY <1>1, <3>1 DEF Resets, InStep
    <3>2. CASE g # h
      <4>1. sCall[g].basis <= account[u].password
        BY <1>1, <3>2 DEF SessionsInv, PasswordsComeInTurn, Resets, InStep
      <4> QED
        BY <1>1, <2>1, <3>2, <4>1
    <3> QED
      BY <3>1, <3>2
  <2> QED
    BY <2>1, <2>2 DEF SessionsInv, PasswordsComeInTurn
<1>8. ASSUME redisMode' = "memory" PROVE OlderIsLate'
  <2>1. OlderIsLate
    BY <1>8 DEF SessionsInv
  <2>2. \A s \in SessionIds : ~Outlives(s)'
    BY <1>4, <2>1 DEF OlderIsLate, Outlives
  <2>3. \A g \in SessionCalls :
          (Signs(g) /\ sCall[g].basis < lastReset[sCall[g].user])' => sCall'[g].late
    <3> SUFFICES ASSUME NEW g \in SessionCalls, Signs(g)',
                        sCall'[g].basis < lastReset[sCall'[g].user]
                 PROVE  sCall'[g].late
      OBVIOUS
    <3>1. CASE g = h
      <4>1. c.user \in Users /\ (c.late \/ lastReset[c.user] <= c.basis)
        BY <1>1, <1>8, <3>1 DEF Signs, InStep
      <4>2. lastReset[c.user] \in Nat /\ c.basis \in Nat
        BY <1>0, <4>1, SessionsAssumption DEF SessionsTypeOK, SessionHandlers
      <4> QED
        BY <1>1, <3>1, <4>1, <4>2
    <3>2. CASE g # h
      BY <1>1, <2>1, <3>2 DEF OlderIsLate, Signs, InStep
    <3> QED
      BY <3>1, <3>2
  <2>4. \A g \in SessionCalls : InStep(g, "purge")' =>
          \A s \in SessionsOf(sCall'[g].user) : s \in sCall'[g].keys \/ session[s].late
    BY <1>1, <1>8, <2>1 DEF OlderIsLate, InStep
  <2>5. \A u \in Users \union {NoOne} : SessionsOf(u)' = SessionsOf(u)
    BY DEF SessionsOf, Live
  <2> QED
    BY <1>1, <2>2, <2>3, <2>4 DEF OlderIsLate, SessionsOf, Live
<1> QED
  BY <1>2, <1>3, <1>5, <1>6, <1>7, <1>8 DEF SessionsInv

LEMMA SameAccounts ==
  ASSUME SessionsInv
  PROVE  /\ account \in [Users -> Accounts]
         /\ resetKey \in [ResetIds -> ResetKeys]
         /\ \A u \in Users : /\ account[u].password \in Nat
                             /\ account[u].password <= account[u].password
                             /\ ~account[u].exists => account[u].password = 0
                             /\ lastReset[u] \in Nat /\ lastReset[u] <= account[u].password
BY SessionsAssumption DEF SessionsInv, SessionsTypeOK, PasswordsComeInTurn, Accounts

\* A handler ends without a trace.
LEMMA HandlerEnds ==
  ASSUME SessionsInv, NEW h \in SessionCalls, Ends(h),
         UNCHANGED <<account, session, resetKey, lastReset, forked, redisMode>>
  PROVE  SessionsInv'
<1>1. sCall' = [sCall EXCEPT ![h] = Asleep]
  BY DEF Ends
<1>2. Asleep \in SessionHandlers /\ Asleep.at = "idle"
  BY AsleepIsHandler
<1>3. \A u \in Users : /\ account[u].password <= account'[u].password
                       /\ ~account'[u].exists => account'[u].password = 0
                       /\ account[u].exists => account'[u].exists
  BY SameAccounts
<1>4. account' \in [Users -> Accounts]
  BY SameAccounts
<1>5. resetKey' \in [ResetIds -> ResetKeys]
  BY SameAccounts
<1> HIDE DEF Asleep
<1> QED
  BY <1>1, <1>2, <1>3, <1>4, <1>5, HandlerMoves

-----------------------------------------------------------------------------
\* Sessions end, and handlers with them or not.
LEMMA SessionsEnd ==
  ASSUME SessionsInv, NEW ids \in SUBSET SessionIds,
         session' = Deleted(ids),
         UNCHANGED <<account, forked, redisMode>>,
         sCall' \in [SessionCalls -> SessionHandlers],
         \A g \in SessionCalls :
           \/ sCall'[g] = Asleep
           \/ sCall'[g] = sCall[g]
           \/ sCall'[g] = [sCall[g] EXCEPT !.late = TRUE],
         resetKey' \in [ResetIds -> ResetKeys],
         lastReset' \in [Users -> 0..MaxPassword],
         \A u \in Users : lastReset'[u] <= account[u].password,
         redisMode = "memory" =>
           /\ \A s \in SessionIds \ ids : ~Live(s) \/ ~(session[s].basis < lastReset'[session[s].user])
                                           \/ session[s].late
           /\ \A g \in SessionCalls :
                Signs(g)' /\ sCall'[g].basis < lastReset'[sCall'[g].user] => sCall'[g].late
  PROVE  SessionsInv'
<1>0. SessionsTypeOK /\ sCall \in [SessionCalls -> SessionHandlers]
  BY DEF SessionsInv, SessionsTypeOK, SessionHandlers
<1>1. \A s \in SessionIds :
        /\ session'[s] = IF s \in ids /\ Live(s) THEN Gone ELSE session[s]
        /\ Live(s)' => Live(s) /\ s \notin ids /\ session'[s] = session[s]
        /\ session[s].state # "unused" => session'[s].state # "unused"
  <2>1. Gone.state = "gone"
    BY DEF Gone, Unused
  <2> QED
    BY <2>1 DEF Deleted, Live
<1>2. \A g \in SessionCalls :
        \/ sCall'[g].at = "idle"
        \/ /\ sCall'[g].at = sCall[g].at /\ sCall'[g].user = sCall[g].user
           /\ sCall'[g].session = sCall[g].session /\ sCall'[g].root = sCall[g].root
           /\ sCall'[g].basis = sCall[g].basis /\ sCall'[g].keys = sCall[g].keys
  <2> SUFFICES ASSUME NEW g \in SessionCalls, sCall'[g] = [sCall[g] EXCEPT !.late = TRUE]
               PROVE  /\ sCall'[g].at = sCall[g].at /\ sCall'[g].user = sCall[g].user
                      /\ sCall'[g].session = sCall[g].session /\ sCall'[g].root = sCall[g].root
                      /\ sCall'[g].basis = sCall[g].basis /\ sCall'[g].keys = sCall[g].keys
    BY AsleepIsHandler
  <2>1. sCall[g] \in SessionHandlers
    BY <1>0
  <2> QED
    BY <2>1 DEF SessionHandlers
<1>3. SessionsTypeOK'
  <2>1. session' \in [SessionIds -> Keys \union {Unused, Gone}]
    BY <1>0, <1>1 DEF SessionsTypeOK, Deleted
  <2> QED
    BY <1>0, <2>1 DEF SessionsTypeOK, SessionHandlers
<1>4. UsersKnown'
  BY <1>2 DEF SessionsInv, UsersKnown, InStep
<1>5. RootsAreIssued'
  BY <1>1, <1>2 DEF SessionsInv, RootsAreIssued, Renews, InStep
<1>6. ASSUME NEW r \in SessionIds \ forked'
      PROVE  OneHolder(r)'
  <2>1. OneHolder(r)
    BY DEF SessionsInv
  <2>2. \A g \in SessionCalls : Renews(g, r)' => Renews(g, r)
    BY <1>2 DEF Renews, InStep
  <2>3. \A g \in SessionCalls : Renews(g, r)' =>
          sCall'[g].at = sCall[g].at /\ sCall'[g].session = sCall[g].session
    BY <1>2 DEF Renews, InStep
  <2> QED
    BY <1>1, <2>1, <2>2, <2>3 DEF OneHolder, InStep
<1>7. PasswordsComeInTurn'
  BY <1>2 DEF SessionsInv, PasswordsComeInTurn, Resets, InStep
<1>8. ASSUME redisMode' = "memory" PROVE OlderIsLate'
  <2>1. OlderIsLate
    BY <1>8 DEF SessionsInv
  <2>2. \A s \in SessionIds : ~Outlives(s)'
    BY <1>1, <1>8 DEF Outlives
  <2>3. \A g \in SessionCalls : InStep(g, "purge")' =>
          \A s \in SessionsOf(sCall[g].user)' : s \in sCall'[g].keys \/ session'[s].late
    BY <1>1, <1>2, <2>1 DEF OlderIsLate, InStep, SessionsOf
  <2> QED
    BY <1>2, <1>8, <2>2, <2>3 DEF OlderIsLate, InStep, SessionsOf
<1> QED
  BY <1>3, <1>4, <1>5, <1>6, <1>7, <1>8 DEF SessionsInv

-----------------------------------------------------------------------------
\* The fields of a handler whose step alone changes.
LEMMA NextStep ==
  ASSUME NEW c \in SessionHandlers, NEW step \in SessionSteps
  PROVE  LET d == [c EXCEPT !.at = step] IN
         /\ d \in SessionHandlers /\ d.at = step /\ d.user = c.user /\ d.session = c.session
         /\ d.root = c.root /\ d.basis = c.basis /\ d.late = c.late /\ d.keys = c.keys
BY DEF SessionHandlers

LEMMA IssueKeeps ==
  ASSUME SessionsInv, NEW h \in SessionCalls, Issue(h)
  PROVE  SessionsInv'
<1>0. /\ SessionsTypeOK /\ sCall \in [SessionCalls -> SessionHandlers]
      /\ sCall[h].user \in Users /\ InStep(h, "issue")
  BY DEF SessionsInv, SessionsTypeOK, SessionHandlers, UsersKnown, Issue, InStep
<1>1. /\ UNCHANGED <<account, resetKey, lastReset, forked, redisMode>>
      /\ sCall'[h] = Asleep /\ sCall' \in [SessionCalls -> SessionHandlers]
      /\ \A g \in SessionCalls : g # h => sCall'[g] = sCall[g]
  BY <1>0, AsleepIsHandler DEF Issue, Ends
<1>2. PICK s \in SessionIds, new \in Keys \union {Gone} :
        /\ session[s] = Unused
        /\ session' = [session EXCEPT ![s] = new]
        /\ \/ new = Gone
           \/ /\ new.state = "live" /\ new.user = sCall[h].user /\ new.basis = sCall[h].basis
              /\ new.late = (sCall[h].late \/ Overlapped(sCall[h].user))
              /\ new.root = IF sCall[h].root = NoOne THEN s ELSE sCall[h].root
  <2>1. PICK s \in SessionIds, stored \in BOOLEAN :
          /\ session[s] = Unused
          /\ session' = [session EXCEPT ![s] =
               IF ~stored THEN Gone
               ELSE [state |-> "live", user |-> sCall[h].user, basis |-> sCall[h].basis,
                     late |-> sCall[h].late \/ Overlapped(sCall[h].user),
                     root |-> IF sCall[h].root = NoOne THEN s ELSE sCall[h].root]]
    BY DEF Issue
  <2>2. CASE ~stored
    BY <2>1, <2>2
  <2>3. CASE stored
    <3> DEFINE new == [state |-> "live", user |-> sCall[h].user, basis |-> sCall[h].basis,
                       late |-> sCall[h].late \/ Overlapped(sCall[h].user),
                       root |-> IF sCall[h].root = NoOne THEN s ELSE sCall[h].root]
    <3>1. /\ sCall[h].basis \in 0..MaxPassword /\ sCall[h].late \in BOOLEAN
          /\ sCall[h].root \in SessionIds \union {NoOne}
      BY <1>0 DEF SessionHandlers
    <3>2. (sCall[h].late \/ Overlapped(sCall[h].user)) \in BOOLEAN
      OBVIOUS
    <3>3. new \in Keys
      BY <1>0, <3>1, <3>2 DEF Keys
    <3>4. session' = [session EXCEPT ![s] = new]
      BY <2>1, <2>3
    <3>5. /\ new.state = "live" /\ new.user = sCall[h].user /\ new.basis = sCall[h].basis
          /\ new.late = (sCall[h].late \/ Overlapped(sCall[h].user))
          /\ new.root = IF sCall[h].root = NoOne THEN s ELSE sCall[h].root
      BY Zenon
    <3> HIDE DEF new
    <3> QED
      BY <2>1, <3>3, <3>4, <3>5
  <2> QED
    BY <2>2, <2>3
<1>3. /\ session'[s] = new /\ ~Live(s) /\ session[s].state = "unused"
      /\ \A t \in SessionIds : t # s => session'[t] = session[t] /\ Live(t)' = Live(t)
      /\ new.state # "unused"
  BY <1>0, <1>2 DEF SessionsTypeOK, Live, Unused, Gone, Keys
<1>4. SessionsTypeOK'
  BY <1>0, <1>1, <1>2 DEF SessionsTypeOK, SessionHandlers
<1>5. UsersKnown'
  BY <1>1, AsleepIsHandler DEF SessionsInv, UsersKnown, InStep
<1>6. RootsAreIssued'
  <2>1. Live(s)' => new.root \in SessionIds /\ session'[new.root].state # "unused"
    <3>1. sCall[h].root # NoOne => Renews(h, sCall[h].root) /\ sCall[h].root \in SessionIds
      BY <1>0 DEF Renews, SessionHandlers
    <3>2. new.state = "live" => new # Gone
      BY DEF Gone, Unused
    <3> QED
      BY <1>2, <1>3, <3>1, <3>2 DEF SessionsInv, RootsAreIssued, Live
  <2> QED
    BY <1>1, <1>3, <2>1, AsleepIsHandler DEF SessionsInv, RootsAreIssued, Renews, InStep
<1>7. ASSUME NEW r \in SessionIds \ forked'
      PROVE  OneHolder(r)'
  <2>1. OneHolder(r)
    BY <1>1 DEF SessionsInv
  <2>2. \A g \in SessionCalls : Renews(g, r)' => g # h /\ Renews(g, r)
    BY <1>1, AsleepIsHandler DEF Renews, InStep
  <2>3. ASSUME Live(s)', new.root = r
        PROVE  /\ \A g \in SessionCalls : ~Renews(g, r)'
               /\ \A t \in SessionIds : t # s => ~(Live(t) /\ session[t].root = r)
    <3>1. new # Gone
      BY <1>3, <2>3 DEF Live, Gone, Unused
    <3>2. CASE sCall[h].root = NoOne
      <4>1. r = s
        BY <1>2, <2>3, <3>1, <3>2
      <4> QED
        BY <1>3, <2>2, <4>1 DEF SessionsInv, RootsAreIssued
    <3>3. CASE sCall[h].root # NoOne
      <4>1. Renews(h, r) /\ ~InStep(h, "del")
        BY <1>0, <1>2, <2>3, <3>1, <3>3 DEF Renews, InStep
      <4> QED
        BY <2>1, <2>2, <4>1 DEF OneHolder
    <3> QED
      BY <3>2, <3>3
  <2> QED
    BY <1>1, <1>3, <2>1, <2>2, <2>3 DEF OneHolder, InStep
<1>8. PasswordsComeInTurn'
  BY <1>1, AsleepIsHandler DEF SessionsInv, PasswordsComeInTurn, Resets, InStep
<1>9. ASSUME redisMode' = "memory" PROVE OlderIsLate'
  <2>1. OlderIsLate
    BY <1>1, <1>9 DEF SessionsInv
  <2>2. \A t \in SessionIds : ~Outlives(t)'
    <3>1. ~Outlives(s)'
      <4>1. new.state = "live" => new # Gone
        BY DEF Gone, Unused
      <4> QED
        BY <1>0, <1>1, <1>2, <1>3, <2>1, <4>1 DEF OlderIsLate, Outlives, Live, Signs
    <3> QED
      BY <1>1, <1>3, <2>1, <3>1 DEF OlderIsLate, Outlives
  <2>3. ASSUME NEW g \in SessionCalls, InStep(g, "purge")', NEW t \in SessionsOf(sCall[g].user)'
        PROVE  t \in sCall'[g].keys \/ session'[t].late
    <3>1. g # h /\ InStep(g, "purge") /\ sCall'[g] = sCall[g]
      BY <1>1, <2>3, AsleepIsHandler DEF InStep
    <3>2. CASE t = s
      <4>1. new.state = "live" /\ new.user = sCall[g].user
        BY <1>3, <2>3, <3>1, <3>2 DEF SessionsOf, Live
      <4>2. new # Gone
        BY <4>1 DEF Gone, Unused
      <4>3. Overlapped(sCall[h].user)
        BY <1>2, <3>1, <4>1, <4>2 DEF Overlapped
      <4> QED
        BY <1>2, <1>3, <3>2, <4>2, <4>3
    <3>3. CASE t # s
      BY <1>3, <2>1, <2>3, <3>1, <3>3 DEF OlderIsLate, SessionsOf
    <3> QED
      BY <3>2, <3>3
  <2>4. \A g \in SessionCalls :
          (Signs(g) /\ sCall[g].basis < lastReset[sCall[g].user])' => sCall'[g].late
    BY <1>1, <2>1, AsleepIsHandler DEF OlderIsLate, Signs, InStep
  <2>5. \A g \in SessionCalls : InStep(g, "purge")' => sCall'[g] = sCall[g]
    BY <1>1, AsleepIsHandler DEF InStep
  <2> QED
    BY <2>2, <2>3, <2>4, <2>5 DEF OlderIsLate, SessionsOf
<1> QED
  BY <1>4, <1>5, <1>6, <1>7, <1>8, <1>9 DEF SessionsInv

-----------------------------------------------------------------------------
(* Refresh *)

LEMMA RefreshGetKeeps ==
  ASSUME SessionsInv, NEW h \in SessionCalls, RefreshGet(h)
  PROVE  SessionsInv'
<1> DEFINE s == sCall[h].session
           taken == [sCall[h] EXCEPT !.at = "del", !.root = session[s].root,
                       !.basis = session[s].basis, !.late = sCall[h].late \/ session[s].late]
<1>0. /\ SessionsTypeOK /\ sCall \in [SessionCalls -> SessionHandlers] /\ sCall[h] \in SessionHandlers
      /\ sCall[h].user \in Users /\ InStep(h, "get")
  BY DEF SessionsInv, SessionsTypeOK, SessionHandlers, UsersKnown, RefreshGet, InStep
<1>1. UNCHANGED <<account, session, resetKey, lastReset, redisMode>>
  BY DEF RefreshGet
<1>2. CASE Ends(h) /\ UNCHANGED forked
  BY <1>1, <1>2, HandlerEnds
<1>3. CASE /\ Live(s) /\ sCall' = [sCall EXCEPT ![h] = taken]
           /\ forked' = IF \E g \in SessionCalls : InStep(g, "del") /\ sCall[g].session = s
                        THEN forked \union {session[s].root} ELSE forked
  <2>1. /\ s \in SessionIds /\ session[s] \in Keys /\ session[s].user = sCall[h].user
        /\ session[s].root \in SessionIds
    BY <1>0, <1>3 DEF SessionsInv, RootsAreIssued, SessionsTypeOK, Live, Unused, Gone
  <2>2. PICK c \in SessionHandlers :
          /\ c.at = "del" /\ c.user = sCall[h].user /\ c.session = s
          /\ c.root = session[s].root /\ c.basis = session[s].basis
          /\ c.late = (sCall[h].late \/ session[s].late)
          /\ sCall' = [sCall EXCEPT ![h] = c]
    <3>1. /\ session[s].basis \in 0..MaxPassword
          /\ (sCall[h].late \/ session[s].late) \in BOOLEAN
      BY <2>1 DEF Keys
    <3>2. taken \in SessionHandlers
      BY <1>0, <2>1, <3>1, ZenonT(30) DEF SessionHandlers, SessionSteps
    <3>3. /\ taken.at = "del" /\ taken.user = sCall[h].user /\ taken.session = s
          /\ taken.root = session[s].root /\ taken.basis = session[s].basis
          /\ taken.late = (sCall[h].late \/ session[s].late)
      BY <1>0 DEF SessionHandlers
    <3> HIDE DEF taken
    <3> QED
      BY <1>3, <3>2, <3>3
  <2>3. /\ sCall'[h] = c /\ sCall' \in [SessionCalls -> SessionHandlers]
        /\ \A g \in SessionCalls : g # h => sCall'[g] = sCall[g]
    BY <1>0, <2>2
  <2>4. forked \subseteq forked'
    BY <1>3
  <2>5. SessionsTypeOK'
    <3>1. forked' \subseteq SessionIds
      BY <1>0, <1>3, <2>1 DEF SessionsTypeOK
    <3>2. sCall' \in [SessionCalls -> SessionHandlers]
      BY <2>3
    <3> QED
      BY <1>0, <1>1, <3>1, <3>2, Zenon DEF SessionsTypeOK, SessionHandlers
  <2>6. UsersKnown'
    BY <1>0, <1>1, <2>2, <2>3, ZenonT(30) DEF SessionsInv, UsersKnown, InStep
  <2>7. RootsAreIssued'
    <3>1. RootsAreIssued
      BY DEF SessionsInv
    <3>2. (\A t \in SessionIds :
             Live(t) => session[t].root \in SessionIds /\ session[session[t].root].state # "unused")'
      BY <1>1, <3>1 DEF RootsAreIssued, Live
    <3>3. session[session[s].root].state # "unused" /\ session[s].state # "unused"
      BY <1>3, <2>1, <3>1 DEF RootsAreIssued, Live
    <3>4. ASSUME NEW g \in SessionCalls
          PROVE  (/\ \A r \in SessionIds : Renews(g, r) => session[r].state # "unused"
                  /\ InStep(g, "get") \/ InStep(g, "del") =>
                       /\ sCall[g].session \in SessionIds
                       /\ session[sCall[g].session].state # "unused"
                       /\ Live(sCall[g].session) =>
                            session[sCall[g].session].user = sCall[g].user
                  /\ InStep(g, "del") => sCall[g].root \in SessionIds
                  /\ InStep(g, "signup") \/ InStep(g, "consent") => sCall[g].root = NoOne)'
      <4>1. CASE g = h
        BY <1>1, <2>1, <2>2, <2>3, <3>3, <4>1 DEF Renews, InStep, Live
      <4>2. CASE g # h
        <5>1. sCall'[g] = sCall[g] /\ session' = session
          BY <1>1, <2>3, <4>2
        <5>2. /\ \A r \in SessionIds : Renews(g, r) => session[r].state # "unused"
              /\ InStep(g, "get") \/ InStep(g, "del") =>
                   /\ sCall[g].session \in SessionIds
                   /\ session[sCall[g].session].state # "unused"
                   /\ Live(sCall[g].session) => session[sCall[g].session].user = sCall[g].user
              /\ InStep(g, "del") => sCall[g].root \in SessionIds
              /\ InStep(g, "signup") \/ InStep(g, "consent") => sCall[g].root = NoOne
          BY <3>1, Zenon DEF RootsAreIssued
        <5> QED
          BY <5>1, <5>2 DEF Renews, InStep, Live
      <4> QED
        BY <4>1, <4>2, Zenon
    <3> QED
      BY <3>2, <3>4, Zenon DEF RootsAreIssued
  <2>8. ASSUME NEW r \in SessionIds \ forked'
        PROVE  OneHolder(r)'
    <3>1. OneHolder(r)
      BY <2>4 DEF SessionsInv
    <3>2. ASSUME session[s].root = r, NEW g \in SessionCalls, g # h
          PROVE  ~Renews(g, r)
      <4>1. SUFFICES ASSUME Renews(g, r) PROVE FALSE
        OBVIOUS
      <4>2. InStep(g, "del") /\ sCall[g].session = s
        BY <1>3, <2>1, <3>1, <3>2, <4>1 DEF OneHolder
      <4> QED
        BY <1>3, <3>2, <4>2
    <3>3. \A g \in SessionCalls : Renews(g, r)' =>
            (g = h /\ session[s].root = r) \/ (g # h /\ Renews(g, r))
      BY <2>2, <2>3 DEF Renews, InStep
    <3>4. \A t \in SessionIds : Live(t)' = Live(t) /\ session'[t] = session[t]
      BY <1>1 DEF Live
    <3>5. \A g, k \in SessionCalls : Renews(g, r)' /\ Renews(k, r)' => g = k
      BY <3>1, <3>2, <3>3 DEF OneHolder
    <3>6. \A t \in SessionIds, g \in SessionCalls :
            Live(t) /\ session[t].root = r /\ Renews(g, r)'
              => sCall'[g].at = "del" /\ sCall'[g].session = t
      BY <1>3, <2>1, <2>2, <2>3, <3>1, <3>3 DEF OneHolder, InStep
    <3> QED
      BY <3>1, <3>4, <3>5, <3>6 DEF OneHolder, InStep
  <2>9. PasswordsComeInTurn'
    BY <1>1, <2>2, <2>3 DEF SessionsInv, PasswordsComeInTurn, Resets, InStep
  <2>10. ASSUME redisMode' = "memory" PROVE OlderIsLate'
    <3>1. OlderIsLate
      BY <1>1, <2>10 DEF SessionsInv
    <3>2. c.basis < lastReset[c.user] => c.late
      BY <1>3, <2>1, <2>2, <3>1 DEF OlderIsLate, Outlives
    <3> QED
      BY <1>1, <2>2, <2>3, <3>1, <3>2
         DEF OlderIsLate, Outlives, Live, Signs, InStep, SessionsOf
  <2> QED
    BY <2>5, <2>6, <2>7, <2>8, <2>9, <2>10 DEF SessionsInv
<1>4. \/ Ends(h) /\ UNCHANGED forked
      \/ /\ Live(s) /\ sCall' = [sCall EXCEPT ![h] = taken]
         /\ forked' = IF \E g \in SessionCalls : InStep(g, "del") /\ sCall[g].session = s
                      THEN forked \union {session[s].root} ELSE forked
  BY DEF RefreshGet
<1> QED
  BY <1>2, <1>3, <1>4

LEMMA RefreshDelKeeps ==
  ASSUME SessionsInv, NEW h \in SessionCalls, RefreshDel(h)
  PROVE  SessionsInv'
<1>0. /\ SessionsTypeOK /\ sCall \in [SessionCalls -> SessionHandlers] /\ sCall[h] \in SessionHandlers
      /\ sCall[h].user \in Users /\ InStep(h, "del")
      /\ sCall[h].session \in SessionIds /\ sCall[h].root \in SessionIds
  BY DEF SessionsInv, SessionsTypeOK, SessionHandlers, UsersKnown, RefreshDel, InStep, RootsAreIssued
<1>1. UNCHANGED <<account, resetKey, lastReset, redisMode>>
  BY DEF RefreshDel
<1>2. PICK c \in SessionHandlers :
        /\ c.at = "issue" /\ c.user = sCall[h].user /\ c.root = sCall[h].root
        /\ c.basis = sCall[h].basis /\ c.late = sCall[h].late
        /\ sCall' = [sCall EXCEPT ![h] = c]
  <2> DEFINE c == [sCall[h] EXCEPT !.at = "issue"]
  <2>1. /\ c \in SessionHandlers /\ c.at = "issue" /\ c.user = sCall[h].user
        /\ c.root = sCall[h].root /\ c.basis = sCall[h].basis /\ c.late = sCall[h].late
    BY <1>0, NextStep, ZenonT(30) DEF SessionSteps
  <2>2. sCall' = [sCall EXCEPT ![h] = c]
    BY DEF RefreshDel, MoveTo
  <2> HIDE DEF c
  <2> QED
    BY <2>1, <2>2
<1>3. /\ sCall'[h] = c /\ sCall' \in [SessionCalls -> SessionHandlers]
      /\ \A g \in SessionCalls : g # h => sCall'[g] = sCall[g]
  BY <1>0, <1>2
<1>4. \/ session' = Deleted({sCall[h].session}) /\ forked' = forked
      \/ session' = session /\ forked' = forked \union {sCall[h].root}
  BY DEF RefreshDel
<1>5. \A t \in SessionIds :
        /\ Live(t)' => Live(t) /\ session'[t] = session[t]
        /\ session[t].state # "unused" => session'[t].state # "unused"
        /\ Live(t)' /\ t = sCall[h].session => sCall[h].root \in forked'
  <2>1. Gone.state = "gone"
    BY DEF Gone, Unused
  <2> QED
    BY <1>4, <2>1 DEF Deleted, Live
<1>6. SessionsTypeOK'
  <2>1. session' \in [SessionIds -> Keys \union {Unused, Gone}]
    BY <1>0, <1>4 DEF SessionsTypeOK, Deleted
  <2> QED
    BY <1>0, <1>1, <1>3, <1>4, <2>1 DEF SessionsTypeOK, SessionHandlers
<1>7. UsersKnown'
  BY <1>0, <1>1, <1>2, <1>3 DEF SessionsInv, UsersKnown, InStep
<1>8. RootsAreIssued'
  <2>1. \A g \in SessionCalls, r \in SessionIds : Renews(g, r)' => Renews(g, r)
    BY <1>0, <1>2, <1>3 DEF Renews, InStep
  <2>2. \A g \in SessionCalls : (InStep(g, "get") \/ InStep(g, "del"))' => sCall'[g] = sCall[g]
    BY <1>2, <1>3 DEF InStep
  <2>3. \A g \in SessionCalls : (InStep(g, "signup") \/ InStep(g, "consent"))' =>
          sCall'[g] = sCall[g] /\ (InStep(g, "signup") \/ InStep(g, "consent"))
    BY <1>2, <1>3 DEF InStep
  <2> QED
    BY <1>5, <2>1, <2>2, <2>3 DEF SessionsInv, RootsAreIssued, InStep
<1>9. ASSUME NEW r \in SessionIds \ forked'
      PROVE  OneHolder(r)'
  <2>1. OneHolder(r)
    BY <1>4 DEF SessionsInv
  <2>2. \A g \in SessionCalls : Renews(g, r)' => Renews(g, r)
    BY <1>0, <1>2, <1>3 DEF Renews, InStep
  <2>3. \A t \in SessionIds, g \in SessionCalls :
          Live(t)' /\ session[t].root = r /\ Renews(g, r) => g # h
    BY <1>0, <1>5, <2>1 DEF OneHolder, Renews
  <2> QED
    BY <1>3, <1>5, <2>1, <2>2, <2>3 DEF OneHolder, InStep
<1>10. PasswordsComeInTurn'
  BY <1>1, <1>2, <1>3 DEF SessionsInv, PasswordsComeInTurn, Resets, InStep
<1>11. ASSUME redisMode' = "memory" PROVE OlderIsLate'
  <2>1. OlderIsLate
    BY <1>1, <1>11 DEF SessionsInv
  <2>2. \A t \in SessionIds : ~Outlives(t)'
    BY <1>1, <1>5, <2>1 DEF OlderIsLate, Outlives
  <2>3. \A g \in SessionCalls :
          (Signs(g) /\ sCall[g].basis < lastReset[sCall[g].user])' => sCall'[g].late
    BY <1>0, <1>1, <1>2, <1>3, <2>1 DEF OlderIsLate, Signs, InStep
  <2>4. \A g \in SessionCalls : InStep(g, "purge")' => sCall'[g] = sCall[g] /\ InStep(g, "purge")
    BY <1>2, <1>3 DEF InStep
  <2> QED
    BY <1>5, <2>1, <2>2, <2>3, <2>4 DEF OlderIsLate, SessionsOf
<1> QED
  BY <1>6, <1>7, <1>8, <1>9, <1>10, <1>11 DEF SessionsInv

-----------------------------------------------------------------------------
(* The steps that move one handler and touch no session *)

\* A handler that starts for u with the password of the account.
LEMMA ReadsMoves ==
  ASSUME SessionsInv, NEW h \in SessionCalls, NEW u \in Users,
         NEW step \in {"issue", "consent"}, Reads(h, u, step),
         UNCHANGED <<account, session, resetKey, lastReset, forked, redisMode>>
  PROVE  SessionsInv'
<1>0. PICK a \in SessionHandlers : a = Asleep /\ a.root = NoOne
  BY AsleepIsHandler
<1> DEFINE c == [a EXCEPT !.at = step, !.user = u, !.basis = account[u].password]
<1>1. sCall' = [sCall EXCEPT ![h] = c] /\ account[u].exists
  BY <1>0 DEF Reads
<1>2. account[u].password \in 0..MaxPassword
  BY DEF SessionsInv, SessionsTypeOK, Accounts
<1>3. step \in SessionSteps
  BY DEF SessionSteps
<1>4. /\ c \in SessionHandlers /\ c.at = step /\ c.user = u /\ c.root = NoOne
      /\ c.basis = account[u].password
  BY <1>0, <1>2, <1>3 DEF SessionHandlers
<1> HIDE DEF c
<1> QED
  BY <1>1, <1>4, SameAccounts, HandlerMoves

\* A handler that starts with no password.
LEMMA StartMoves ==
  ASSUME SessionsInv, NEW h \in SessionCalls, NEW u \in Users,
         NEW step \in {"signup", "set", "change"},
         \/ sCall' = [sCall EXCEPT ![h] = [Asleep EXCEPT !.at = step, !.user = u]]
         \/ \E r \in ResetIds :
              sCall' = [sCall EXCEPT ![h] = [Asleep EXCEPT !.at = step, !.user = u, !.reset = r]],
         step = "signup" \/ account[u].exists,
         UNCHANGED <<account, session, resetKey, lastReset, forked, redisMode>>
  PROVE  SessionsInv'
<1>0. PICK a \in SessionHandlers : a = Asleep /\ a.root = NoOne
  BY AsleepIsHandler
<1>1. step \in SessionSteps
  BY DEF SessionSteps
<1>2. CASE sCall' = [sCall EXCEPT ![h] = [a EXCEPT !.at = step, !.user = u]]
  <2> DEFINE c == [a EXCEPT !.at = step, !.user = u]
  <2>1. c \in SessionHandlers /\ c.at = step /\ c.user = u /\ c.root = NoOne
    BY <1>0, <1>1 DEF SessionHandlers
  <2>2. sCall' = [sCall EXCEPT ![h] = c]
    BY <1>2
  <2> HIDE DEF c
  <2> QED
    BY <2>1, <2>2, SameAccounts, HandlerMoves
<1>3. ASSUME NEW r \in ResetIds,
             sCall' = [sCall EXCEPT ![h] = [a EXCEPT !.at = step, !.user = u, !.reset = r]]
      PROVE  SessionsInv'
  <2> DEFINE c == [a EXCEPT !.at = step, !.user = u, !.reset = r]
  <2>1. c \in SessionHandlers /\ c.at = step /\ c.user = u /\ c.root = NoOne
    BY <1>0, <1>1 DEF SessionHandlers
  <2>2. sCall' = [sCall EXCEPT ![h] = c]
    BY <1>3
  <2> HIDE DEF c
  <2> QED
    BY <2>1, <2>2, SameAccounts, HandlerMoves
<1> QED
  BY <1>0, <1>2, <1>3

LEMMA LoginKeeps ==
  ASSUME SessionsInv, NEW h \in SessionCalls, NEW u \in Users, Login(h, u)
  PROVE  SessionsInv'
BY ReadsMoves DEF Login

LEMMA ResolveSocialAuthKeeps ==
  ASSUME SessionsInv, NEW h \in SessionCalls, NEW u \in Users, ResolveSocialAuth(h, u)
  PROVE  SessionsInv'
BY ReadsMoves DEF ResolveSocialAuth

LEMMA CompleteSignupReadKeeps ==
  ASSUME SessionsInv, NEW h \in SessionCalls, NEW u \in Users, CompleteSignupRead(h, u)
  PROVE  SessionsInv'
<1>1. CASE account[u].exists
  <2> DEFINE step == IF account[u].consent THEN "issue" ELSE "consent"
  <2>1. step \in {"issue", "consent"} /\ Reads(h, u, step)
    BY <1>1 DEF CompleteSignupRead
  <2> HIDE DEF step
  <2> QED
    BY <2>1, ReadsMoves DEF CompleteSignupRead
<1>2. CASE ~account[u].exists
  <2>1. sCall' = [sCall EXCEPT ![h] = [Asleep EXCEPT !.at = "signup", !.user = u]]
    BY <1>2 DEF CompleteSignupRead
  <2> QED
    BY <2>1, StartMoves DEF CompleteSignupRead
<1> QED
  BY <1>1, <1>2

LEMMA ChangeReadKeeps ==
  ASSUME SessionsInv, NEW h \in SessionCalls, NEW u \in Users, ChangeRead(h, u)
  PROVE  SessionsInv'
BY StartMoves DEF ChangeRead

LEMMA ResetReadKeeps ==
  ASSUME SessionsInv, NEW h \in SessionCalls, NEW r \in ResetIds, ResetRead(h, r)
  PROVE  SessionsInv'
<1>1. resetKey[r].user \in Users
  BY DEF SessionsInv, SessionsTypeOK, ResetKeys, ResetRead
<1> QED
  BY <1>1, StartMoves DEF ResetRead

LEMMA SessionsFailKeeps ==
  ASSUME SessionsInv, NEW h \in SessionCalls, SessionsFail(h)
  PROVE  SessionsInv'
BY HandlerEnds DEF SessionsFail

LEMMA RefreshReadKeeps ==
  ASSUME SessionsInv, NEW h \in SessionCalls, NEW s \in SessionIds, RefreshRead(h, s)
  PROVE  SessionsInv'
<1>0. PICK a \in SessionHandlers : a = Asleep /\ a.root = NoOne
  BY AsleepIsHandler
<1> DEFINE c == [a EXCEPT !.at = "get", !.user = session[s].user, !.session = s]
<1>1. sCall' = [sCall EXCEPT ![h] = c] /\ Live(s) /\ account[session[s].user].exists
      /\ UNCHANGED <<account, session, resetKey, lastReset, forked, redisMode>>
  BY <1>0 DEF RefreshRead
<1>2. session[s].user \in Users
  BY <1>1 DEF SessionsInv, SessionsTypeOK, Live, Keys, Unused, Gone
<1>3. "get" \in SessionSteps
  BY DEF SessionSteps
<1>4. c \in SessionHandlers /\ c.at = "get" /\ c.user = session[s].user /\ c.session = s
  BY <1>2, <1>3 DEF SessionHandlers
<1> HIDE DEF c
<1> QED
  BY <1>1, <1>2, <1>4, SameAccounts, HandlerMoves

\* An account changes with the handler's step.
LEMMA NewPassword ==
  ASSUME SessionsInv, NEW u \in Users, account[u].password < MaxPassword, account[u].exists,
         account' = [account EXCEPT ![u].password = @ + 1]
  PROVE  /\ account' \in [Users -> Accounts]
         /\ account'[u].password = account[u].password + 1
         /\ account'[u].password \in 1..MaxPassword
         /\ \A v \in Users : /\ account[v].password <= account'[v].password
                             /\ ~account'[v].exists => account'[v].password = 0
                             /\ account[v].exists => account'[v].exists
<1>1. account \in [Users -> Accounts] /\ account[u] \in Accounts
  BY DEF SessionsInv, SessionsTypeOK
<1>2. account[u].password + 1 \in 1..MaxPassword
  BY <1>1, SessionsAssumption DEF Accounts
<1> DEFINE a == [account[u] EXCEPT !.password = account[u].password + 1]
<1>3. a \in Accounts /\ a.password = account[u].password + 1 /\ a.exists = account[u].exists
  <2>1. PICK n \in 0..MaxPassword : n = account[u].password + 1
    BY <1>2, SessionsAssumption
  <2> QED
    BY <1>1, <2>1, Zenon DEF Accounts
<1>4. account' = [account EXCEPT ![u] = a]
  OBVIOUS
<1> HIDE DEF a
<1>5. account'[u] = a /\ \A v \in Users : v # u => account'[v] = account[v]
  BY <1>1, <1>4
<1>6. account' \in [Users -> Accounts]
  BY <1>1, <1>3, <1>4
<1>7. \A v \in Users : account[v].password \in Nat
  BY <1>1, SessionsAssumption DEF Accounts
<1> QED
  BY <1>2, <1>3, <1>5, <1>6, <1>7, SameAccounts

LEMMA ChangeWriteKeeps ==
  ASSUME SessionsInv, NEW h \in SessionCalls, ChangeWrite(h)
  PROVE  SessionsInv'
<1>1. sCall[h].user \in Users /\ account[sCall[h].user].exists
  BY DEF SessionsInv, UsersKnown, ChangeWrite, InStep
<1>2. /\ account' \in [Users -> Accounts]
      /\ \A v \in Users : /\ account[v].password <= account'[v].password
                          /\ ~account'[v].exists => account'[v].password = 0
                          /\ account[v].exists => account'[v].exists
  BY <1>1, NewPassword DEF ChangeWrite
<1>3. sCall' = [sCall EXCEPT ![h] = Asleep] /\ Asleep \in SessionHandlers /\ Asleep.at = "idle"
  BY AsleepIsHandler DEF ChangeWrite, Ends
<1>4. UNCHANGED <<session, resetKey, lastReset, forked, redisMode>>
  BY DEF ChangeWrite
<1> QED
  BY <1>2, <1>3, <1>4, SameAccounts, HandlerMoves

LEMMA ResetSetPasswordKeeps ==
  ASSUME SessionsInv, NEW h \in SessionCalls, ResetSetPassword(h)
  PROVE  SessionsInv'
<1> DEFINE u == sCall[h].user
           c == [sCall[h] EXCEPT !.at = "delkey", !.basis = account[u].password + 1]
<1>1. /\ u \in Users /\ account[u].exists /\ sCall \in [SessionCalls -> SessionHandlers]
      /\ sCall[h] \in SessionHandlers
  BY DEF SessionsInv, SessionsTypeOK, SessionHandlers, UsersKnown, ResetSetPassword, InStep
<1>2. /\ account' \in [Users -> Accounts]
      /\ account'[u].password = account[u].password + 1
      /\ account'[u].password \in 1..MaxPassword
      /\ \A v \in Users : /\ account[v].password <= account'[v].password
                          /\ ~account'[v].exists => account'[v].password = 0
                          /\ account[v].exists => account'[v].exists
  BY <1>1, NewPassword DEF ResetSetPassword
<1>3. /\ sCall' = [sCall EXCEPT ![h] = c]
      /\ UNCHANGED <<session, resetKey, lastReset, forked, redisMode>>
  BY DEF ResetSetPassword
<1>4. c \in SessionHandlers /\ c.at = "delkey" /\ c.user = u /\ c.basis = account'[u].password
  <2>1. PICK n \in 0..MaxPassword : n = account[u].password + 1
    BY <1>2, SessionsAssumption
  <2>2. "delkey" \in SessionSteps
    BY DEF SessionSteps
  <2> QED
    BY <1>1, <1>2, <2>1, <2>2, Zenon DEF SessionHandlers
<1>5. c.basis <= account'[u].password /\ account'[u].exists
  BY <1>1, <1>2, <1>4
<1> HIDE DEF c, u
<1> QED
  BY <1>1, <1>2, <1>3, <1>4, <1>5, SameAccounts, HandlerMoves

\* Sign-up makes the account, or finds it made.
LEMMA MadeAccount ==
  ASSUME SessionsInv, NEW u \in Users, ~account[u].exists,
         account' = [account EXCEPT ![u] = NewAccount]
  PROVE  /\ account' \in [Users -> Accounts]
         /\ account'[u].exists
         /\ lastReset[u] <= 0
         /\ \A v \in Users : /\ account[v].password <= account'[v].password
                             /\ ~account'[v].exists => account'[v].password = 0
                             /\ account[v].exists => account'[v].exists
<1>1. account'[u] = NewAccount /\ \A v \in Users : v # u => account'[v] = account[v]
  BY SameAccounts
<1>2. account' \in [Users -> Accounts]
  BY SameAccounts, NewAccounts
<1>3. account[u].password = 0 /\ lastReset[u] <= 0
  BY SameAccounts
<1>4. NewAccount.password = 0 /\ NewAccount.exists
  BY NewAccounts
<1> HIDE DEF NewAccount
<1> QED
  BY <1>1, <1>2, <1>3, <1>4, SameAccounts

LEMMA RegisterKeeps ==
  ASSUME SessionsInv, NEW h \in SessionCalls, NEW u \in Users, Register(h, u)
  PROVE  SessionsInv'
<1>0. PICK a \in SessionHandlers : a = Asleep /\ a.root = NoOne /\ a.basis = 0
  BY AsleepIsHandler
<1> DEFINE c == [a EXCEPT !.at = "issue", !.user = u]
<1>1. sCall' = [sCall EXCEPT ![h] = c]
  BY <1>0 DEF Register
<1>2. "issue" \in SessionSteps
  BY DEF SessionSteps
<1>3. c \in SessionHandlers /\ c.at = "issue" /\ c.user = u /\ c.root = NoOne /\ c.basis = 0
  BY <1>0, <1>2 DEF SessionHandlers
<1>4. /\ account' \in [Users -> Accounts] /\ account'[u].exists /\ lastReset[u] <= 0
      /\ \A v \in Users : /\ account[v].password <= account'[v].password
                          /\ ~account'[v].exists => account'[v].password = 0
                          /\ account[v].exists => account'[v].exists
  BY MadeAccount DEF Register
<1>5. UNCHANGED <<session, resetKey, lastReset, forked, redisMode>>
  BY DEF Register
<1> HIDE DEF c
<1> QED
  BY <1>1, <1>3, <1>4, <1>5, SameAccounts, HandlerMoves

LEMMA CompleteSignupCreateKeeps ==
  ASSUME SessionsInv, NEW h \in SessionCalls, CompleteSignupCreate(h)
  PROVE  SessionsInv'
<1> DEFINE u == sCall[h].user
           c == [sCall[h] EXCEPT !.at = "issue"]
<1>1. /\ u \in Users /\ sCall[h] \in SessionHandlers /\ sCall[h].root = NoOne
      /\ sCall[h].basis \in Nat
  BY SessionsAssumption
     DEF SessionsInv, SessionsTypeOK, SessionHandlers, UsersKnown, RootsAreIssued,
         CompleteSignupCreate, InStep
<1>2. CASE account[u].exists
  <2>1. Ends(h) /\ UNCHANGED <<account, session, resetKey, lastReset, forked, redisMode>>
    BY <1>2 DEF CompleteSignupCreate
  <2> QED
    BY <2>1, HandlerEnds
<1>3. CASE ~account[u].exists
  <2>1. /\ account' = [account EXCEPT ![u] = NewAccount]
        /\ sCall' = [sCall EXCEPT ![h] = c]
        /\ UNCHANGED <<session, resetKey, lastReset, forked, redisMode>>
    BY <1>3 DEF CompleteSignupCreate, MoveTo
  <2>2. /\ account' \in [Users -> Accounts] /\ account'[u].exists /\ lastReset[u] <= 0
        /\ \A v \in Users : /\ account[v].password <= account'[v].password
                            /\ ~account'[v].exists => account'[v].password = 0
                            /\ account[v].exists => account'[v].exists
    BY <1>1, <1>3, <2>1, MadeAccount
  <2>3. "issue" \in SessionSteps
    BY DEF SessionSteps
  <2>4. /\ c \in SessionHandlers /\ c.at = "issue" /\ c.user = u /\ c.root = NoOne
        /\ c.basis = sCall[h].basis
    BY <1>1, <2>3, NextStep
  <2>5. lastReset[c.user] <= c.basis
    BY <1>1, <2>2, <2>4, SameAccounts
  <2> HIDE DEF c, u
  <2> QED
    BY <1>1, <2>1, <2>2, <2>4, <2>5, SameAccounts, HandlerMoves
<1> QED
  BY <1>2, <1>3

LEMMA CompleteSignupConsentKeeps ==
  ASSUME SessionsInv, NEW h \in SessionCalls, CompleteSignupConsent(h)
  PROVE  SessionsInv'
<1> DEFINE u == sCall[h].user
           c == [sCall[h] EXCEPT !.at = "issue"]
           a == [account[u] EXCEPT !.consent = TRUE]
<1>1. /\ u \in Users /\ account[u].exists /\ sCall[h] \in SessionHandlers /\ sCall[h].root = NoOne
      /\ InStep(h, "consent")
  BY DEF SessionsInv, SessionsTypeOK, SessionHandlers, UsersKnown, RootsAreIssued,
         CompleteSignupConsent, InStep
<1>2. /\ account' = [account EXCEPT ![u] = a]
      /\ sCall' = [sCall EXCEPT ![h] = c]
      /\ UNCHANGED <<session, resetKey, lastReset, forked, redisMode>>
  BY DEF CompleteSignupConsent, MoveTo
<1>3. /\ a \in Accounts /\ a.password = account[u].password /\ a.exists = account[u].exists
  BY <1>1, SameAccounts, AccountFields
<1>4. "issue" \in SessionSteps
  BY DEF SessionSteps
<1>5. /\ c \in SessionHandlers /\ c.at = "issue" /\ c.user = u /\ c.root = NoOne
      /\ c.basis = sCall[h].basis /\ c.late = sCall[h].late
  BY <1>1, <1>4, NextStep
<1> HIDE DEF a, c
<1>6. account'[u] = a /\ \A v \in Users : v # u => account'[v] = account[v]
  BY <1>1, <1>2, SameAccounts
<1>7. account' \in [Users -> Accounts] /\ account'[u].exists
  BY <1>1, <1>2, <1>3, <1>6, SameAccounts
<1>8. \A v \in Users : /\ account[v].password <= account'[v].password
                       /\ ~account'[v].exists => account'[v].password = 0
                       /\ account[v].exists => account'[v].exists
  BY <1>3, <1>6, SameAccounts
<1>9. redisMode = "memory" => c.late \/ lastReset[c.user] <= c.basis
  <2>1. lastReset[u] \in Nat /\ sCall[h].basis \in Nat
    BY <1>1, SessionsAssumption, SameAccounts DEF SessionHandlers
  <2>2. redisMode = "memory" /\ sCall[h].basis < lastReset[u] => sCall[h].late
    BY <1>1 DEF SessionsInv, OlderIsLate, Signs
  <2> QED
    BY <1>5, <2>1, <2>2
<1> HIDE DEF u
<1> QED
  BY <1>1, <1>2, <1>5, <1>7, <1>8, <1>9, SameAccounts, HandlerMoves

LEMMA ResetDelKeyKeeps ==
  ASSUME SessionsInv, NEW h \in SessionCalls, ResetDelKey(h)
  PROVE  SessionsInv'
<1> DEFINE u == sCall[h].user
           c == [sCall[h] EXCEPT !.at = "scan"]
<1>1. /\ u \in Users /\ account[u].exists /\ sCall[h] \in SessionHandlers
      /\ sCall[h].basis <= account[u].password
  BY DEF SessionsInv, SessionsTypeOK, SessionHandlers, UsersKnown, PasswordsComeInTurn, Resets,
         ResetDelKey, InStep
<1>2. /\ sCall' = [sCall EXCEPT ![h] = c]
      /\ UNCHANGED <<account, session, lastReset, forked, redisMode>>
  BY DEF ResetDelKey, MoveTo
<1>3. resetKey' \in [ResetIds -> ResetKeys]
  <2>1. \A r \in ResetIds : [resetKey[r] EXCEPT !.state = "gone"] \in ResetKeys
    BY SameAccounts DEF ResetKeys
  <2> QED
    BY <2>1, SameAccounts DEF ResetDelKey
<1>4. "scan" \in SessionSteps
  BY DEF SessionSteps
<1>5. c \in SessionHandlers /\ c.at = "scan" /\ c.user = u /\ c.basis = sCall[h].basis
  BY <1>1, <1>4, NextStep
<1> HIDE DEF c, u
<1> QED
  BY <1>1, <1>2, <1>3, <1>5, SameAccounts, HandlerMoves

LEMMA ResetScanKeeps ==
  ASSUME SessionsInv, NEW h \in SessionCalls, ResetScan(h)
  PROVE  SessionsInv'
<1> DEFINE u == sCall[h].user
           found == IF redisMode = "redis" THEN {} ELSE SessionsOf(u)
           c == [sCall[h] EXCEPT !.at = "purge", !.keys = found]
<1>1. /\ u \in Users /\ account[u].exists /\ sCall[h] \in SessionHandlers
      /\ sCall[h].basis <= account[u].password
  BY DEF SessionsInv, SessionsTypeOK, SessionHandlers, UsersKnown, PasswordsComeInTurn, Resets,
         ResetScan, InStep
<1>2. /\ sCall' = [sCall EXCEPT ![h] = c]
      /\ UNCHANGED <<account, session, resetKey, lastReset, forked, redisMode>>
  BY DEF ResetScan
<1>3. "purge" \in SessionSteps
  BY DEF SessionSteps
<1>4. found \in SUBSET SessionIds /\ (redisMode = "memory" => found = SessionsOf(u))
  BY DEF SessionsOf
<1> HIDE DEF found
<1>5. c \in SessionHandlers /\ c.at = "purge" /\ c.user = u /\ c.basis = sCall[h].basis /\ c.keys = found
  BY <1>1, <1>3, <1>4, Zenon DEF SessionHandlers
<1> HIDE DEF c, u
<1> QED
  BY <1>1, <1>2, <1>4, <1>5, SameAccounts, HandlerMoves

-----------------------------------------------------------------------------
(* The steps that end sessions, and those that move no handler *)

LEMMA LateFields ==
  ASSUME NEW c \in SessionHandlers
  PROVE  LET d == [c EXCEPT !.late = TRUE] IN
         /\ d \in SessionHandlers /\ d.at = c.at /\ d.user = c.user /\ d.basis = c.basis
         /\ d.late
BY DEF SessionHandlers

LEMMA ResetPurgeKeeps ==
  ASSUME SessionsInv, NEW h \in SessionCalls, ResetPurge(h)
  PROVE  SessionsInv'
<1> DEFINE u == sCall[h].user
           ids == sCall[h].keys
           basis == sCall[h].basis
<1>1. /\ sCall \in [SessionCalls -> SessionHandlers] /\ u \in Users /\ ids \in SUBSET SessionIds
      /\ basis \in 0..MaxPassword /\ basis <= account[u].password /\ InStep(h, "purge")
      /\ lastReset \in [Users -> 0..MaxPassword]
  BY DEF SessionsInv, SessionsTypeOK, SessionHandlers, UsersKnown, PasswordsComeInTurn, Resets,
         ResetPurge, InStep
<1>2. session' = Deleted(ids) /\ UNCHANGED <<account, resetKey, forked, redisMode>>
  BY DEF ResetPurge
<1>3. lastReset' = [lastReset EXCEPT ![u] = IF basis > lastReset[u] THEN basis ELSE lastReset[u]]
  BY DEF ResetPurge
<1>4. /\ sCall' \in [SessionCalls -> SessionHandlers] /\ sCall'[h] = Asleep
      /\ \A g \in SessionCalls : g # h =>
           sCall'[g] = IF sCall[g].user = u THEN [sCall[g] EXCEPT !.late = TRUE] ELSE sCall[g]
  BY <1>1, AsleepIsHandler, LateFields DEF ResetPurge
<1>5. /\ lastReset' \in [Users -> 0..MaxPassword]
      /\ \A v \in Users : v # u => lastReset'[v] = lastReset[v]
      /\ \A v \in Users : lastReset'[v] <= account[v].password
  BY <1>1, <1>3, SameAccounts
<1>6. ASSUME redisMode = "memory", NEW s \in SessionIds \ ids
      PROVE  ~Live(s) \/ ~(session[s].basis < lastReset'[session[s].user]) \/ session[s].late
  <2> SUFFICES ASSUME Live(s) PROVE ~(session[s].basis < lastReset'[session[s].user]) \/ session[s].late
    OBVIOUS
  <2>1. session[s].user \in Users
    BY DEF SessionsInv, SessionsTypeOK, Live, Keys, Unused, Gone
  <2>2. CASE session[s].user = u
    BY <1>1, <1>6, <2>2 DEF SessionsInv, OlderIsLate, SessionsOf
  <2>3. CASE session[s].user # u
    BY <1>5, <1>6, <2>1, <2>3 DEF SessionsInv, OlderIsLate, Outlives
  <2> QED
    BY <2>2, <2>3
<1>7. ASSUME redisMode = "memory", NEW g \in SessionCalls, Signs(g)',
             sCall'[g].basis < lastReset'[sCall'[g].user]
      PROVE  sCall'[g].late
  <2>1. g # h
    BY <1>4, <1>7, AsleepIsHandler DEF Signs, InStep
  <2>2. CASE sCall[g].user = u
    BY <1>1, <1>4, <2>1, <2>2, LateFields
  <2>3. CASE sCall[g].user # u
    <3>1. sCall'[g] = sCall[g] /\ Signs(g)
      BY <1>4, <1>7, <2>1, <2>3 DEF Signs, InStep
    <3>2. sCall[g].user \in Users
      BY <3>1 DEF SessionsInv, UsersKnown, Signs, InStep
    <3> QED
      BY <1>5, <1>7, <2>3, <3>1, <3>2 DEF SessionsInv, OlderIsLate
  <2> QED
    BY <2>2, <2>3
<1>8. \A g \in SessionCalls :
        \/ sCall'[g] = Asleep
        \/ sCall'[g] = sCall[g]
        \/ sCall'[g] = [sCall[g] EXCEPT !.late = TRUE]
  BY <1>4
<1> HIDE DEF u, ids, basis
<1> QED
  BY <1>1, <1>2, <1>4, <1>5, <1>6, <1>7, <1>8, SameAccounts, SessionsEnd

LEMMA LogoutKeeps ==
  ASSUME SessionsInv, NEW s \in SessionIds, Logout(s)
  PROVE  SessionsInv'
<1>1. /\ session' = Deleted({s}) /\ {s} \in SUBSET SessionIds
      /\ UNCHANGED <<account, resetKey, sCall, lastReset, forked, redisMode>>
  BY DEF Logout
<1>2. /\ sCall' \in [SessionCalls -> SessionHandlers] /\ lastReset' \in [Users -> 0..MaxPassword]
      /\ \A g \in SessionCalls : sCall'[g] = sCall[g]
  BY <1>1 DEF SessionsInv, SessionsTypeOK, SessionHandlers
<1>3. ASSUME redisMode = "memory"
      PROVE  /\ \A t \in SessionIds \ {s} :
                  ~Live(t) \/ ~(session[t].basis < lastReset'[session[t].user]) \/ session[t].late
             /\ \A g \in SessionCalls :
                  Signs(g)' /\ sCall'[g].basis < lastReset'[sCall'[g].user] => sCall'[g].late
  BY <1>1, <1>3 DEF SessionsInv, OlderIsLate, Outlives, Signs, InStep
<1> QED
  BY <1>1, <1>2, <1>3, SameAccounts, SessionsEnd

LEMMA RestartKeeps ==
  ASSUME SessionsInv, Restart
  PROVE  SessionsInv'
<1>1. /\ session' = Deleted(SessionIds) /\ SessionIds \in SUBSET SessionIds
      /\ UNCHANGED <<account, lastReset, forked, redisMode>>
      /\ sCall' = [h \in SessionCalls |-> Asleep]
  BY DEF Restart
<1>2. resetKey' \in [ResetIds -> ResetKeys]
  <2>1. \A r \in ResetIds : [resetKey[r] EXCEPT !.state = "gone"] \in ResetKeys
    BY SameAccounts DEF ResetKeys
  <2> QED
    BY <2>1, SameAccounts DEF Restart
<1>3. /\ sCall' \in [SessionCalls -> SessionHandlers] /\ lastReset' \in [Users -> 0..MaxPassword]
      /\ \A g \in SessionCalls : sCall'[g] = Asleep /\ ~Signs(g)'
  BY <1>1, AsleepIsHandler DEF SessionsInv, SessionsTypeOK, Signs, InStep
<1> QED
  BY <1>1, <1>2, <1>3, SameAccounts, SessionsEnd

LEMMA OthersKeep ==
  ASSUME SessionsInv, UNCHANGED <<session, sCall, lastReset, forked, redisMode>>,
         account' \in [Users -> Accounts], resetKey' \in [ResetIds -> ResetKeys],
         \A u \in Users : /\ account'[u].password = account[u].password
                          /\ account'[u].exists = account[u].exists
  PROVE  SessionsInv'
<1>1. SessionsTypeOK'
  BY DEF SessionsInv, SessionsTypeOK
<1>2. UsersKnown'
  BY DEF SessionsInv, UsersKnown, InStep
<1>3. RootsAreIssued'
  BY DEF SessionsInv, RootsAreIssued, Live, Renews, InStep
<1>4. \A r \in SessionIds \ forked' : OneHolder(r)'
  BY DEF SessionsInv, OneHolder, Live, Renews, InStep
<1>5. PasswordsComeInTurn'
  BY DEF SessionsInv, PasswordsComeInTurn, Resets, InStep
<1>6. redisMode' = "memory" => OlderIsLate'
  BY DEF SessionsInv, OlderIsLate, Outlives, Live, Signs, InStep, SessionsOf
<1> QED
  BY <1>1, <1>2, <1>3, <1>4, <1>5, <1>6 DEF SessionsInv

LEMMA ForgotPasswordKeeps ==
  ASSUME SessionsInv, NEW u \in Users, NEW r \in ResetIds, ForgotPassword(u, r)
  PROVE  SessionsInv'
<1>1. resetKey' \in [ResetIds -> ResetKeys]
  BY SameAccounts DEF ForgotPassword, ResetKeys
<1> QED
  BY <1>1, SameAccounts, OthersKeep DEF ForgotPassword

LEMMA SetBlockedKeeps ==
  ASSUME SessionsInv, NEW u \in Users, SetBlocked(u)
  PROVE  SessionsInv'
<1> DEFINE a == [account[u] EXCEPT !.blocked = ~account[u].blocked]
<1>1. account[u] \in Accounts /\ (~account[u].blocked) \in BOOLEAN
  BY SameAccounts
<1>2. a \in Accounts /\ a.password = account[u].password /\ a.exists = account[u].exists
  BY <1>1, AccountFields
<1>3. account' = [account EXCEPT ![u] = a]
  BY DEF SetBlocked
<1> HIDE DEF a
<1>4. /\ account' \in [Users -> Accounts]
      /\ \A v \in Users : /\ account'[v].password = account[v].password
                          /\ account'[v].exists = account[v].exists
  BY <1>2, <1>3, SameAccounts
<1> QED
  BY <1>4, SameAccounts, OthersKeep DEF SetBlocked

-----------------------------------------------------------------------------
LEMMA SessionsInvStep == SessionsInv /\ [SessionsNext]_sessionVars => SessionsInv'
<1> SUFFICES ASSUME SessionsInv, [SessionsNext]_sessionVars PROVE SessionsInv'
  OBVIOUS
<1>1. ASSUME NEW h \in SessionCalls, SignUp(h) PROVE SessionsInv'
  BY <1>1, CompleteSignupCreateKeeps, CompleteSignupConsentKeeps, IssueKeeps DEF SignUp
<1>2. ASSUME NEW h \in SessionCalls, Refresh(h) PROVE SessionsInv'
  BY <1>2, RefreshReadKeeps, RefreshGetKeeps, RefreshDelKeeps DEF Refresh
<1>3. ASSUME NEW h \in SessionCalls, ResetPassword(h) PROVE SessionsInv'
  BY <1>3, ResetReadKeeps, ResetSetPasswordKeeps, ResetDelKeyKeeps, ResetScanKeeps,
     ResetPurgeKeeps DEF ResetPassword
<1>4. ASSUME NEW h \in SessionCalls, NEW u \in Users, SignIn(h, u) PROVE SessionsInv'
  BY <1>4, LoginKeeps, RegisterKeeps, ResolveSocialAuthKeeps, CompleteSignupReadKeeps
     DEF SignIn
<1>5. ASSUME NEW h \in SessionCalls, ChangeWrite(h) \/ SessionsFail(h)
      PROVE  SessionsInv'
  BY <1>5, ChangeWriteKeeps, SessionsFailKeeps
<1>6. ASSUME NEW h \in SessionCalls, NEW u \in Users, ChangeRead(h, u) PROVE SessionsInv'
  BY <1>6, ChangeReadKeeps
<1>7. CASE UNCHANGED sessionVars
  BY <1>7, SameAccounts, OthersKeep DEF sessionVars
<1> QED
  BY <1>1, <1>2, <1>3, <1>4, <1>5, <1>6, <1>7, LogoutKeeps, RestartKeeps, SetBlockedKeeps,
     ForgotPasswordKeeps DEF SessionsNext

\* Sessions, handlers, accounts and resets stay in order, for any users, sessions and calls,
\* whatever the handlers of auth.service.ts interleave and the server loses.
THEOREM SessionsInOrder == SessionsSpec => []SessionsInv
<1> QED
  BY SessionsInvInit, SessionsInvStep, PTL DEF SessionsSpec

\* With the map in memory a reset that has succeeded leaves no session that was started
\* with an earlier password but those of calls that overlapped it.
THEOREM ResetsEndSessions == SessionsSpec => []ResetEndsSessions
<1>1. SessionsInv => ResetEndsSessions
  BY DEF SessionsInv, OlderIsLate, ResetEndsSessions
<1> QED
  BY <1>1, SessionsInOrder, PTL

\* However often and by however many calls it is refreshed, a sign-in has at most one
\* live session, unless two refreshes held one key or the server lost a deletion.
THEOREM OneSessionEach == SessionsSpec => []OneSessionPerSignIn
<1>1. SessionsInv => OneSessionPerSignIn
  BY DEF SessionsInv, RootsAreIssued, OneHolder, OneSessionPerSignIn
<1> QED
  BY <1>1, SessionsInOrder, PTL

-----------------------------------------------------------------------------
(* Presence. *)

LEMMA PresenceInvInit == PresenceInit => PresenceInv
BY PresenceAssumption
   DEF PresenceInit, PresenceInv, PresenceTypeOK, SentInTime, DateGoesWithKey, IsOnline,
       Marks, Touches, NoPresenceCall, Never

\* The types of the numbers.
LEMMA Moments ==
  PresenceTypeOK =>
    /\ moment \in Int /\ Ttl \in Nat \ {0} /\ Delay \in Nat /\ LastMoment \in Nat
    /\ SeenWindow \in Nat /\ Ttl + 2 * Delay <= SeenWindow
    /\ \A u \in Members : onlineUntil[u] \in Nat /\ lastSeen[u] \in Int /\ lastSeen[u] >= -1
    /\ \A h \in PresenceCalls : pCall[h].marks \in Int /\ pCall[h].seen \in Int
BY PresenceAssumption DEF PresenceTypeOK, Never

\* What a handler in flight may be.
Handlers == [user: Members \union {Nobody}, ping: BOOLEAN, marks: Never..LastMoment,
             seen: Never..LastMoment]

\* One handler changes.
LEMMA OneHandler ==
  ASSUME PresenceTypeOK, NEW h \in PresenceCalls, NEW c \in Handlers,
         pCall' = [pCall EXCEPT ![h] = c]
  PROVE  /\ pCall' \in [PresenceCalls -> Handlers]
         /\ pCall'[h] = c
         /\ \A g \in PresenceCalls : g # h => pCall'[g] = pCall[g]
BY DEF PresenceTypeOK, Handlers

LEMMA ActiveKeeps ==
  ASSUME PresenceInv, NEW h \in PresenceCalls, NEW u \in Members,
         Active(h, u) \/ Ping(h, u)
  PROVE  PresenceInv'
<1>0. PresenceTypeOK
  BY DEF PresenceInv
<1>1. PICK c \in Handlers :
        /\ c.user = u /\ c.marks = moment /\ c.seen = IF c.ping THEN Never ELSE moment
        /\ pCall' = [pCall EXCEPT ![h] = c]
  <2>1. moment \in Never..LastMoment /\ Never \in Never..LastMoment
    BY <1>0, Moments DEF PresenceTypeOK, Never
  <2>2. CASE Active(h, u)
    <3> DEFINE c == [user |-> u, ping |-> FALSE, marks |-> moment, seen |-> moment]
    <3>1. c \in Handlers
      BY <2>1 DEF Handlers
    <3>2. c.user = u /\ c.marks = moment /\ c.seen = IF c.ping THEN Never ELSE moment
      OBVIOUS
    <3>3. pCall' = [pCall EXCEPT ![h] = c]
      BY <2>2 DEF Active
    <3> HIDE DEF c
    <3> QED
      BY <3>1, <3>2, <3>3
  <2>3. CASE Ping(h, u)
    <3> DEFINE c == [user |-> u, ping |-> TRUE, marks |-> moment, seen |-> Never]
    <3>1. c \in Handlers
      BY <2>1 DEF Handlers
    <3>2. c.user = u /\ c.marks = moment /\ c.seen = IF c.ping THEN Never ELSE moment
      OBVIOUS
    <3>3. pCall' = [pCall EXCEPT ![h] = c]
      BY <2>3 DEF Ping
    <3> HIDE DEF c
    <3> QED
      BY <3>1, <3>2, <3>3
  <2> QED
    BY <2>2, <2>3
<1>2. /\ pCall[h].user \notin Members
      /\ UNCHANGED <<moment, onlineUntil, lastSeen, unseen>>
  BY PresenceAssumption DEF Active, Ping, InFlight
<1>3. /\ pCall'[h] = c /\ pCall' \in [PresenceCalls -> Handlers]
      /\ \A g \in PresenceCalls : g # h => pCall'[g] = pCall[g]
  BY <1>0, <1>1, OneHandler
<1>4. PresenceTypeOK'
  BY <1>0, <1>2, <1>3 DEF PresenceTypeOK, Handlers
<1>5. \A g \in PresenceCalls : SentInTime(g)'
  BY <1>0, <1>1, <1>2, <1>3, Moments DEF PresenceInv, SentInTime, Marks, Touches, Never
<1>6. \A v \in Members \ unseen' : DateGoesWithKey(v)'
  <2> SUFFICES ASSUME NEW v \in Members \ unseen PROVE DateGoesWithKey(v)'
    BY <1>2
  <2>1. DateGoesWithKey(v)
    BY DEF PresenceInv
  <2>2. moment # Never
    BY <1>0, Moments DEF PresenceTypeOK, Never
  <2> QED
    BY <1>1, <1>2, <1>3, <2>1, <2>2
       DEF DateGoesWithKey, IsOnline, SeenSince, Marks, Touches
<1> QED
  BY <1>2, <1>4, <1>5, <1>6 DEF PresenceInv, IsOnline

LEMMA MarkOnlineKeeps ==
  ASSUME PresenceInv, NEW h \in PresenceCalls, MarkOnline(h)
  PROVE  PresenceInv'
<1>0. PresenceTypeOK /\ SentInTime(h) /\ Marks(h)
  BY DEF PresenceInv, MarkOnline
<1>1. PICK c \in Handlers :
        /\ c.marks = Never
        /\ pCall[h].ping \/ Touches(h) =>
             c.user = pCall[h].user /\ c.seen = IF pCall[h].ping THEN moment ELSE pCall[h].seen
        /\ ~pCall[h].ping /\ ~Touches(h) => c = NoPresenceCall
        /\ pCall' = [pCall EXCEPT ![h] = c]
  <2>1. moment \in Never..LastMoment /\ Never \in Never..LastMoment /\ pCall[h] \in Handlers
    BY <1>0, Moments DEF PresenceTypeOK, Never, Handlers
  <2>2. CASE pCall[h].ping \/ Touches(h)
    <3> DEFINE c == [pCall[h] EXCEPT !.marks = Never,
                                     !.seen = IF pCall[h].ping THEN moment ELSE pCall[h].seen]
    <3>1. c \in Handlers
      BY <2>1 DEF Handlers
    <3>2. /\ c.marks = Never /\ c.user = pCall[h].user
          /\ c.seen = IF pCall[h].ping THEN moment ELSE pCall[h].seen
      BY <2>1 DEF Handlers
    <3>3. pCall' = [pCall EXCEPT ![h] = IF pCall[h].ping \/ Touches(h) THEN c ELSE NoPresenceCall]
      BY Zenon DEF MarkOnline
    <3>4. pCall' = [pCall EXCEPT ![h] = c]
      BY <2>2, <3>3, Zenon
    <3> HIDE DEF c
    <3> QED
      BY <2>2, <3>1, <3>2, <3>4
  <2>3. CASE ~(pCall[h].ping \/ Touches(h))
    <3>1. NoPresenceCall \in Handlers /\ NoPresenceCall.marks = Never
      BY <2>1 DEF Handlers, NoPresenceCall
    <3>2. pCall' = [pCall EXCEPT ![h] = NoPresenceCall]
      BY <2>3 DEF MarkOnline
    <3> QED
      BY <2>3, <3>1, <3>2
  <2> QED
    BY <2>2, <2>3
<1>2. /\ pCall[h].user \in Members
      /\ UNCHANGED <<moment, lastSeen, unseen>>
      /\ onlineUntil' = onlineUntil \/ SetsKey(h)
  BY <1>0 DEF MarkOnline, SentInTime
<1>3. /\ pCall'[h] = c /\ pCall' \in [PresenceCalls -> Handlers]
      /\ \A g \in PresenceCalls : g # h => pCall'[g] = pCall[g]
  BY <1>0, <1>1, OneHandler
<1>4. PresenceTypeOK'
  <2>1. onlineUntil' \in [Members -> 0..(LastMoment + Ttl)]
    BY <1>0, <1>2, Moments DEF PresenceTypeOK, SetsKey
  <2> QED
    BY <1>0, <1>2, <1>3, <2>1 DEF PresenceTypeOK, Handlers
<1>5. \A g \in PresenceCalls : SentInTime(g)'
  <2>1. SentInTime(h)'
    BY <1>0, <1>2, <1>1, <1>3, Moments DEF SentInTime, Marks, Touches, NoPresenceCall, Never
  <2> QED
    BY <1>1, <1>3, <1>2, <2>1 DEF PresenceInv, SentInTime, Marks, Touches
<1>6. \A u \in Members : IsOnline(u)' => onlineUntil'[u] \in (moment + 1)..(moment + Ttl)
  BY <1>0, <1>2, Moments DEF PresenceInv, IsOnline, SetsKey, PresenceTypeOK
<1>7. \A u \in Members \ unseen' : DateGoesWithKey(u)'
  <2> SUFFICES ASSUME NEW u \in Members \ unseen PROVE DateGoesWithKey(u)'
    BY <1>2
  <2>1. DateGoesWithKey(u)
    BY DEF PresenceInv
  <2>2. ASSUME NEW g \in PresenceCalls, pCall[g].user = u, Touches(g)
        PROVE  pCall'[g].user = u /\ Touches(g)'
    <3>1. moment # Never
      BY <1>0, Moments DEF PresenceTypeOK, Never
    <3> QED
      BY <1>1, <1>3, <2>2, <3>1 DEF Touches
  <2>3. \A g \in PresenceCalls :
          (pCall[g].user = u /\ Marks(g) /\ ~Touches(g) /\ ~pCall[g].ping)'
            => SeenSince(u, pCall[g].marks - Delay)'
    BY <1>1, <1>2, <1>3, <2>1 DEF DateGoesWithKey, SeenSince, Marks, Touches
  <2>4. CASE onlineUntil'[u] = onlineUntil[u]
    BY <1>2, <2>1, <2>2, <2>3, <2>4 DEF DateGoesWithKey, SeenSince, IsOnline
  <2>5. CASE SetsKey(h) /\ pCall[h].user = u
    <3>1. onlineUntil'[u] = moment + Ttl
      BY <1>0, <2>5 DEF SetsKey, PresenceTypeOK
    <3>2. CASE pCall[h].ping \/ Touches(h)
      <4>1. pCall'[h].user = u /\ Touches(h)'
        <5>1. moment # Never
          BY <1>0, Moments DEF PresenceTypeOK, Never
        <5> QED
          BY <1>0, <1>1, <1>3, <2>5, <3>2, <5>1 DEF Touches, SentInTime
      <4> QED
        BY <2>3, <4>1 DEF DateGoesWithKey
    <3>3. CASE ~pCall[h].ping /\ ~Touches(h)
      <4>1. SeenSince(u, pCall[h].marks - Delay)
        BY <1>0, <2>1, <2>5, <3>3 DEF DateGoesWithKey
      <4>2. pCall[h].marks >= moment - Delay
        BY <1>0, Moments DEF SentInTime
      <4>3. SeenSince(u, onlineUntil[u] - Ttl - 2 * Delay)'
        BY <1>0, <1>2, <3>1, <4>1, <4>2, Moments DEF SeenSince
      <4> QED
        BY <2>3, <4>3 DEF DateGoesWithKey
    <3> QED
      BY <3>2, <3>3
  <2> QED
    BY <1>0, <1>2, <2>4, <2>5 DEF SetsKey, PresenceTypeOK
<1> QED
  BY <1>2, <1>4, <1>5, <1>6, <1>7 DEF PresenceInv

LEMMA TouchLastSeenKeeps ==
  ASSUME PresenceInv, NEW h \in PresenceCalls, TouchLastSeen(h)
  PROVE  PresenceInv'
<1>0. PresenceTypeOK /\ SentInTime(h) /\ Touches(h)
  BY DEF PresenceInv, TouchLastSeen
<1>1. PICK c \in Handlers :
        /\ c.seen = Never
        /\ Marks(h) => c.user = pCall[h].user /\ c.marks = pCall[h].marks /\ c.ping = pCall[h].ping
        /\ ~Marks(h) => c = NoPresenceCall
        /\ pCall' = [pCall EXCEPT ![h] = c]
  <2>1. Never \in Never..LastMoment /\ pCall[h] \in Handlers
    BY <1>0, Moments DEF PresenceTypeOK, Never, Handlers
  <2>2. CASE Marks(h)
    <3> DEFINE c == [pCall[h] EXCEPT !.seen = Never]
    <3>1. c \in Handlers
      BY <2>1 DEF Handlers
    <3>2. /\ c.seen = Never /\ c.user = pCall[h].user
          /\ c.marks = pCall[h].marks /\ c.ping = pCall[h].ping
      BY <2>1 DEF Handlers
    <3>3. pCall' = [pCall EXCEPT ![h] = c]
      BY <2>2 DEF TouchLastSeen
    <3> HIDE DEF c
    <3> QED
      BY <2>2, <3>1, <3>2, <3>3
  <2>3. CASE ~Marks(h)
    <3>1. NoPresenceCall \in Handlers /\ NoPresenceCall.seen = Never
      BY <2>1 DEF Handlers, NoPresenceCall
    <3>2. pCall' = [pCall EXCEPT ![h] = NoPresenceCall]
      BY <2>3 DEF TouchLastSeen
    <3> QED
      BY <2>3, <3>1, <3>2
  <2> QED
    BY <2>2, <2>3
<1>2. PICK u \in Members :
        /\ u = pCall[h].user
        /\ UNCHANGED <<moment, onlineUntil>>
        /\ \/ lastSeen' = [lastSeen EXCEPT ![u] = pCall[h].seen] /\ unseen' = unseen \ {u}
           \/ unseen' = unseen \union {u} /\ lastSeen' = lastSeen
  BY <1>0 DEF TouchLastSeen, SentInTime
<1>3. /\ pCall'[h] = c /\ pCall' \in [PresenceCalls -> Handlers]
      /\ \A g \in PresenceCalls : g # h => pCall'[g] = pCall[g]
  BY <1>0, <1>1, OneHandler
<1>4. PresenceTypeOK'
  <2>1. lastSeen' \in [Members -> Never..LastMoment] /\ unseen' \subseteq Members
    BY <1>0, <1>2 DEF PresenceTypeOK
  <2> QED
    BY <1>0, <1>2, <1>3, <2>1 DEF PresenceTypeOK, Handlers
<1>5. \A g \in PresenceCalls : SentInTime(g)'
  <2>1. SentInTime(h)'
    BY <1>0, <1>2, <1>1, <1>3, Moments DEF SentInTime, Marks, Touches, NoPresenceCall, Never
  <2> QED
    BY <1>1, <1>3, <1>2, <2>1 DEF PresenceInv, SentInTime, Marks, Touches
<1>6. \A v \in Members : IsOnline(v)' => onlineUntil'[v] \in (moment + 1)..(moment + Ttl)
  BY <1>2 DEF PresenceInv, IsOnline
<1>7. \A v \in Members \ unseen' : DateGoesWithKey(v)'
  <2> SUFFICES ASSUME NEW v \in Members \ unseen' PROVE DateGoesWithKey(v)'
    OBVIOUS
  <2>1. CASE v # u
    <3>1. v \notin unseen /\ lastSeen'[v] = lastSeen[v]
      BY <1>0, <1>2, <2>1 DEF PresenceTypeOK
    <3>2. DateGoesWithKey(v)
      BY <3>1 DEF PresenceInv
    <3>3. \A g \in PresenceCalls :
            /\ pCall'[g].user = v => g # h
            /\ pCall[g].user = v => g # h
      BY <1>2, <1>1, <1>3, <2>1, PresenceAssumption DEF NoPresenceCall
    <3> QED
      BY <1>1, <1>3, <1>2, <3>1, <3>2, <3>3
         DEF DateGoesWithKey, IsOnline, SeenSince, Marks, Touches
  <2>2. CASE v = u
    <3>1. lastSeen'[u] = pCall[h].seen
      BY <1>0, <1>2, <2>2 DEF PresenceTypeOK
    <3>2. lastSeen'[u] # Never /\ lastSeen'[u] >= moment - Delay
      BY <1>0, <3>1, Moments DEF SentInTime, Touches
    <3>3. IsOnline(u)' => SeenSince(u, onlineUntil[u] - Ttl - 2 * Delay)'
      <4> SUFFICES ASSUME IsOnline(u)'
                   PROVE  SeenSince(u, onlineUntil[u] - Ttl - 2 * Delay)'
        OBVIOUS
      <4>1. onlineUntil'[u] <= moment + Ttl
        BY <1>0, <1>2, <1>6, Moments
      <4> QED
        BY <1>0, <1>2, <3>1, <3>2, <4>1, Moments DEF SeenSince
    <3>4. ASSUME NEW g \in PresenceCalls, Marks(g)'
          PROVE  SeenSince(u, pCall[g].marks - Delay)'
      <4>1. pCall'[g].marks <= moment
        BY <1>0, <1>2, <1>4, <1>5, <3>4, Moments DEF SentInTime
      <4>2. pCall'[g].marks \in Int
        BY <1>4, Moments DEF PresenceTypeOK, Never
      <4> QED
        BY <1>0, <3>1, <3>2, <4>1, <4>2, Moments DEF SeenSince
    <3> QED
      BY <2>2, <3>3, <3>4 DEF DateGoesWithKey
  <2> QED
    BY <2>1, <2>2
<1> QED
  BY <1>2, <1>4, <1>5, <1>6, <1>7 DEF PresenceInv

LEMMA PresenceFailKeeps ==
  ASSUME PresenceInv, NEW h \in PresenceCalls, PresenceFail(h)
  PROVE  PresenceInv'
<1>0. PresenceTypeOK
  BY DEF PresenceInv
<1>1. \A g \in PresenceCalls : g # h => pCall'[g] = pCall[g]
  BY <1>0 DEF PresenceFail, PresenceTypeOK
<1>2. /\ pCall'[h] = NoPresenceCall
      /\ UNCHANGED <<moment, onlineUntil, lastSeen>>
      /\ unseen' = unseen \union {pCall[h].user}
  BY <1>0 DEF PresenceFail, PresenceTypeOK
<1>3. PresenceTypeOK'
  <2>1. pCall[h].user \in Members
    BY <1>0 DEF PresenceTypeOK, PresenceFail, InFlight
  <2> QED
    BY <1>0, <1>2, <2>1, Moments
       DEF PresenceTypeOK, PresenceFail, NoPresenceCall, Never
<1>4. \A g \in PresenceCalls : SentInTime(g)'
  BY <1>1, <1>2 DEF PresenceInv, SentInTime, Marks, Touches, NoPresenceCall
<1>5. \A v \in Members \ unseen' : DateGoesWithKey(v)'
  <2> SUFFICES ASSUME NEW v \in Members \ unseen' PROVE DateGoesWithKey(v)'
    OBVIOUS
  <2>1. v \notin unseen /\ v # pCall[h].user
    BY <1>2
  <2>2. DateGoesWithKey(v)
    BY <2>1 DEF PresenceInv
  <2> QED
    BY <1>1, <1>2, <2>1, <2>2
       DEF DateGoesWithKey, IsOnline, SeenSince, Marks, Touches, NoPresenceCall
<1> QED
  BY <1>2, <1>3, <1>4, <1>5 DEF PresenceInv, IsOnline

LEMMA DisconnectKeeps ==
  ASSUME PresenceInv, NEW u \in Members, Disconnect(u)
  PROVE  PresenceInv'
<1>0. PresenceTypeOK
  BY DEF PresenceInv
<1>1. \A v \in Members : onlineUntil'[v] = IF v = u THEN 0 ELSE onlineUntil[v]
  BY <1>0 DEF Disconnect, PresenceTypeOK
<1>2. UNCHANGED <<moment, lastSeen, pCall, unseen>>
  BY DEF Disconnect
<1>3. PresenceTypeOK'
  BY <1>0, Moments DEF PresenceTypeOK, Disconnect
<1>4. \A g \in PresenceCalls : SentInTime(g)'
  BY <1>2 DEF PresenceInv, SentInTime, Marks, Touches
<1>5. \A v \in Members \ unseen' : DateGoesWithKey(v)'
  BY <1>1, <1>2 DEF PresenceInv, DateGoesWithKey, IsOnline, SeenSince, Marks, Touches
<1> QED
  BY <1>1, <1>2, <1>3, <1>4, <1>5 DEF PresenceInv, IsOnline

LEMMA PresenceTickKeeps ==
  ASSUME PresenceInv, PresenceTick
  PROVE  PresenceInv'
<1>0. PresenceTypeOK
  BY DEF PresenceInv
<1>1. \A v \in Members :
        onlineUntil'[v] = IF onlineUntil[v] > moment + 1 THEN onlineUntil[v] ELSE 0
  BY <1>0 DEF PresenceTick
<1>2. /\ moment' = moment + 1 /\ moment < LastMoment
      /\ UNCHANGED <<lastSeen, pCall, unseen>>
  BY DEF PresenceTick
<1>3. PresenceTypeOK'
  BY <1>0, <1>2, Moments DEF PresenceTypeOK, PresenceTick
<1>4. \A g \in PresenceCalls : SentInTime(g)'
  BY <1>0, <1>2, Moments DEF PresenceInv, PresenceTick, SentInTime, Marks, Touches
<1>5. \A v \in Members : IsOnline(v)' => onlineUntil'[v] \in (moment' + 1)..(moment' + Ttl)
  BY <1>0, <1>1, <1>2, Moments DEF PresenceInv, IsOnline
<1>6. \A v \in Members \ unseen' : DateGoesWithKey(v)'
  BY <1>1, <1>2 DEF PresenceInv, DateGoesWithKey, IsOnline, SeenSince, Marks, Touches
<1> QED
  BY <1>3, <1>4, <1>5, <1>6 DEF PresenceInv

LEMMA PresenceInvStep == PresenceInv /\ [PresenceNext]_presenceVars => PresenceInv'
<1> SUFFICES ASSUME PresenceInv, [PresenceNext]_presenceVars PROVE PresenceInv'
  OBVIOUS
<1>1. CASE UNCHANGED presenceVars
  BY <1>1 DEF presenceVars, PresenceInv, PresenceTypeOK, SentInTime, DateGoesWithKey,
              SeenSince, IsOnline, Marks, Touches
<1>2. CASE PresenceNext
  BY <1>2, ActiveKeeps, MarkOnlineKeeps, TouchLastSeenKeeps, PresenceFailKeeps,
     DisconnectKeeps, PresenceTickKeeps
     DEF PresenceNext
<1> QED
  BY <1>1, <1>2

\* The date of a user goes with his key, whatever calls overlap and whichever of their
\* operations is answered first.
THEOREM DatesGoWithKeys == PresenceSpec => []PresenceInv
<1> QED
  BY PresenceInvInit, PresenceInvStep, PTL DEF PresenceSpec

\* The pages of customers and the chats agree on who is online (presence.service.ts and
\* chats.service.ts), as long as the time to live and two delays fit into the two minutes
\* of the chats and no write of the date fails.
THEOREM OnlineInBothPlaces == PresenceSpec => []OnlineEverywhere
<1>1. PresenceInv => OnlineEverywhere
  <2> SUFFICES ASSUME PresenceInv, NEW u \in Members \ unseen, IsOnline(u),
                      \A h \in PresenceCalls : pCall[h].user # u
               PROVE  OnlineInChats(u)
    BY DEF OnlineEverywhere
  <2>1. SeenSince(u, onlineUntil[u] - Ttl - 2 * Delay)
    BY DEF PresenceInv, DateGoesWithKey
  <2>2. onlineUntil[u] > moment
    BY Moments DEF PresenceInv
  <2> QED
    BY <2>1, <2>2, Moments DEF PresenceInv, SeenSince, OnlineInChats
<1> QED
  BY <1>1, DatesGoWithKeys, PTL
=============================================================================
