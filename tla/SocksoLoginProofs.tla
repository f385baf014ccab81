--------------------------- MODULE SocksoLoginProofs ---------------------------
(***************************************************************************)
(* For any callers, accounts, session life and bounds: the types, and that *)
(* the time check of isAuthenticated means what its comment says, although *)
(* the time and the cookies are written by two threads.                    *)
(*                                                                         *)
(* The argument: results reach the main thread in the order in which the   *)
(* executor made them, so the newest one, stored or still waiting there,   *)
(* is the one that loginTimestamp is about, unless it is a failure.        *)
(***************************************************************************)
EXTENDS SocksoLogin, TLAPS

\* Cookies anywhere, or seen by a caller, are those of a login that succeeded, and
\* loginTimestamp is the last one's.
StampInv ==
  /\ lastSuccess # Never => loginTimestamp = lastSuccess
  /\ HasCookies => lastSuccess # Never
  /\ \A i \in 1..Len(looper) : looper[i].success => lastSuccess # Never
  /\ \A c \in Callers : pc[c] \in {"size", "time"} => lastSuccess # Never

\* The newest result, if it is a success, was made at loginTimestamp.
NewestInv ==
  IF looper = <<>>
  THEN HasCookies => loginResult[1].since = loginTimestamp
  ELSE looper[Len(looper)].success => looper[Len(looper)].since = loginTimestamp

IInv == TypeOK /\ StampInv /\ NewestInv

-----------------------------------------------------------------------------
\* The head of a sequence that is not empty is one of its elements.
LEMMA HeadType == ASSUME NEW S, NEW s \in Seq(S), s # <<>> PROVE Head(s) \in S
  OBVIOUS

\* The results that are made have the results' type.
LEMMA ResultsType ==
  /\ \A t \in [by: Callers, account: Accounts] :
       now \in 0..MaxTime => Success(<<t.by, t.account, now>>) \in Results
  /\ \A b \in Callers : Failure(b) \in Results
<1>1. ASSUME NEW t \in [by: Callers, account: Accounts], now \in 0..MaxTime
      PROVE  Success(<<t.by, t.account, now>>) \in Results
  <2>1. <<t.by, t.account, now>> \in Callers \X Accounts \X (0..MaxTime)
    BY <1>1
  <2> QED
    BY <2>1 DEF Results
<1>2. \A b \in Callers : Failure(b) \in Results
  BY DEF Results
<1> QED
  BY <1>1, <1>2

\* The initial states satisfy the inductive invariant.
LEMMA InitInv == Init => IInv
<1> SUFFICES ASSUME Init PROVE IInv
  OBVIOUS
<1> USE TimeAssumption DEF Init
<1>1. TypeOK
  BY DEF TypeOK
<1>2. StampInv /\ NewestInv
  BY DEF StampInv, NewestInv, HasCookies
<1> QED
  BY <1>1, <1>2 DEF IInv

\* Every step of the specification keeps it.
LEMMA StepInv == IInv /\ [Next]_vars => IInv'
<1> SUFFICES ASSUME IInv, [Next]_vars PROVE IInv'
  OBVIOUS
<1> USE TimeAssumption DEF IInv
<1>1. ASSUME NEW c \in Callers, Login(c) PROVE IInv'
  <2>1. TypeOK'
    BY <1>1 DEF Login, Begin, sessionVars, TypeOK
  <2>2. StampInv' /\ NewestInv'
    BY <1>1 DEF Login, Begin, sessionVars, StampInv, NewestInv, HasCookies, TypeOK
  <2> QED
    BY <2>1, <2>2
<1>2. ASSUME NEW c \in Callers,
             \/ LoginReturn(c) \/ IsAuthenticated(c) \/ CheckCookies(c) \/ CheckSize(c)
             \/ CheckTime(c) \/ ReadParams(c) \/ Compare(c)
      PROVE  IInv'
  <2>1. UNCHANGED <<preferences, now, taskVars, sessionVars, lastSuccess>>
    BY <1>2 DEF LoginReturn, IsAuthenticated, CheckCookies, CheckSize, CheckTime,
       ReadParams, Compare
  <2>2. /\ calls' \in 0..MaxCalls
        /\ returned' \in [Callers -> {None, "true", "false", "exception"}]
        /\ compared' \in [Callers -> Accounts \cup {None}]
    <3>1. LoginReturn(c) \/ IsAuthenticated(c) =>
             /\ calls' \in 0..MaxCalls /\ compared' = compared
             /\ \E v \in {None, "true", "false"} : returned' = [returned EXCEPT ![c] = v]
      BY DEF LoginReturn, IsAuthenticated, Begin, TypeOK
    <3>2. CheckCookies(c) \/ CheckSize(c) \/ CheckTime(c) \/ Compare(c) =>
             /\ calls' = calls /\ compared' = compared
             /\ \/ returned' = returned
                \/ \E v \in {"true", "false", "exception"} :
                      returned' = [returned EXCEPT ![c] = v]
      BY DEF CheckCookies, CheckSize, CheckTime, Compare, Answer
    <3>3. ReadParams(c) =>
             /\ calls' = calls /\ returned' = returned
             /\ compared' \in [Callers -> Accounts \cup {None}]
      BY DEF ReadParams, TypeOK
    <3> QED
      BY <1>2, <3>1, <3>2, <3>3 DEF TypeOK
  <2>3. \E p \in {"idle", "cookies", "size", "time", "params", "compare"} :
           /\ pc' = [pc EXCEPT ![c] = p]
           /\ p = "size" => HasCookies
           /\ p = "time" => HasCookies
    BY <1>2 DEF LoginReturn, IsAuthenticated, Begin, CheckCookies, CheckSize, CheckTime,
       ReadParams, Compare, Answer, TypeOK
  <2>4. TypeOK'
    BY <2>1, <2>2, <2>3 DEF taskVars, sessionVars, TypeOK
  <2>5. StampInv' /\ NewestInv'
    BY <2>1, <2>3 DEF taskVars, sessionVars, StampInv, NewestInv, HasCookies, TypeOK
  <2> QED
    BY <2>4, <2>5
<1>3. CASE LoginSucceeds
  <2> DEFINE r == Success(<<Head(executor).by, Head(executor).account, now>>)
  <2>1. Head(executor) \in [by: Callers, account: Accounts] /\ r \in Results
    <3>1. executor \in Seq([by: Callers, account: Accounts]) /\ executor # <<>>
      BY <1>3 DEF LoginSucceeds, TypeOK
    <3>2. Head(executor) \in [by: Callers, account: Accounts]
      BY <3>1, HeadType
    <3> QED
      BY <3>2, ResultsType DEF TypeOK
  <2>2. looper' = Append(looper, r) /\ r.success /\ r.since = now
    BY <1>3 DEF LoginSucceeds, Success
  <2>3. /\ looper' \in Seq(Results) /\ Len(looper') = Len(looper) + 1
        /\ looper'[Len(looper')] = r /\ looper' # <<>>
    BY <2>1, <2>2 DEF TypeOK
  <2>4. TypeOK'
    BY <1>3, <2>3 DEF LoginSucceeds, callVars, TypeOK
  <2>5. loginTimestamp' = now /\ lastSuccess' = now /\ now # Never
    BY <1>3 DEF LoginSucceeds, Never, TypeOK
  <2> QED
    BY <2>2, <2>3, <2>4, <2>5 DEF StampInv, NewestInv
<1>4. CASE LoginFails
  <2> DEFINE r == Failure(Head(executor).by)
  <2>1. r \in Results /\ ~r.success
    <3>1. executor \in Seq([by: Callers, account: Accounts]) /\ executor # <<>>
      BY <1>4 DEF LoginFails, TypeOK
    <3>2. Head(executor) \in [by: Callers, account: Accounts]
      BY <3>1, HeadType
    <3> QED
      BY <3>2, ResultsType DEF Failure
  <2>2. looper' = Append(looper, r) /\ UNCHANGED <<loginTimestamp, loginResult, lastSuccess, pc>>
    BY <1>4 DEF LoginFails, StampAfterFailure, callVars
  <2>3. /\ looper' \in Seq(Results) /\ Len(looper') = Len(looper) + 1
        /\ looper'[Len(looper')] = r /\ looper' # <<>>
        /\ \A i \in 1..Len(looper) : looper'[i] = looper[i]
    BY <2>1, <2>2 DEF TypeOK
  <2>4. TypeOK'
    BY <1>4, <2>2, <2>3 DEF LoginFails, callVars, TypeOK
  <2>5. StampInv'
    <3>1. \A i \in 1..Len(looper') : looper'[i].success => i \in 1..Len(looper)
      BY <2>1, <2>3 DEF TypeOK
    <3> QED
      BY <2>2, <2>3, <3>1 DEF StampInv, HasCookies
  <2>6. NewestInv'
    BY <2>1, <2>3 DEF NewestInv
  <2> QED
    BY <2>4, <2>5, <2>6
<1>5. CASE StoreResult
  <2>1. /\ looper # <<>> /\ loginResult' = <<looper[1]>> /\ looper' = Tail(looper)
        /\ UNCHANGED <<loginTimestamp, lastSuccess, pc>>
    BY <1>5 DEF StoreResult, Stored, callVars
  <2>2. /\ looper[1] \in Results /\ loginResult' \in Seq(Results)
        /\ Len(loginResult') = 1 /\ loginResult'[1] = looper[1]
    BY <2>1 DEF TypeOK
  <2>3. /\ looper' \in Seq(Results) /\ Len(looper') = Len(looper) - 1
        /\ \A i \in 1..Len(looper') : looper'[i] = looper[i + 1]
    BY <2>1 DEF TypeOK
  <2>4. TypeOK'
    <3>1. UNCHANGED <<callVars, preferences, now, executor, loginTimestamp, lastSuccess>>
      BY <1>5 DEF StoreResult
    <3> QED
      BY <2>2, <2>3, <3>1 DEF callVars, TypeOK
  <2>5. StampInv'
    BY <2>1, <2>2, <2>3 DEF StampInv, HasCookies, TypeOK
  <2>6. NewestInv'
    <3>1. CASE Len(looper) = 1
      BY <2>1, <2>2, <2>3, <3>1 DEF NewestInv, HasCookies
    <3>2. CASE Len(looper) # 1
      <4>1. looper \in Seq(Results) /\ Len(looper) \in Nat /\ Len(looper) > 1
        BY <2>1, <3>2 DEF TypeOK
      <4>2. looper' # <<>> /\ Len(looper') \in 1..Len(looper')
            /\ Len(looper') + 1 = Len(looper)
        BY <2>3, <4>1
      <4>3. looper'[Len(looper')] = looper[Len(looper)]
        BY <2>3, <4>2
      <4> QED
        BY <2>1, <4>2, <4>3 DEF NewestInv
    <3> QED
      BY <3>1, <3>2
  <2> QED
    BY <2>4, <2>5, <2>6
<1>6. CASE ChangePreferences \/ Tick \/ Finished \/ UNCHANGED vars
  <2>1. UNCHANGED <<callVars, taskVars, sessionVars, lastSuccess>>
    BY <1>6 DEF ChangePreferences, Tick, Finished, vars
  <2>2. preferences' \in Accounts /\ now' \in 0..MaxTime
    BY <1>6 DEF ChangePreferences, Tick, Finished, vars, TypeOK
  <2> QED
    BY <2>1, <2>2 DEF callVars, taskVars, sessionVars, TypeOK, StampInv, NewestInv,
       HasCookies
<1> QED
  BY <1>1, <1>2, <1>3, <1>4, <1>5, <1>6 DEF Next

\* The inductive invariant holds of every behaviour.
LEMMA Invariant == Spec => []IInv
<1> QED
  BY InitInv, StepInv, PTL DEF Spec

\* The variables keep their types: at most one result is stored, and it is one that
\* the task made.
THEOREM TypeCorrect == Spec => []TypeOK
<1>1. IInv => TypeOK
  BY DEF IInv
<1> QED
  BY <1>1, Invariant, PTL

\* Only CheckTime takes a caller from the time check to the comparison, and only while
\* loginTimestamp is young.
LEMMA PassesInTime ==
  ASSUME IInv, Next, NEW c \in Callers, Passes(c)
  PROVE  now - loginTimestamp <= Life
<1>1. CheckTime(c)
  BY DEF Passes, IInv, TypeOK, Next, Login, LoginReturn, IsAuthenticated, Begin,
     CheckCookies, CheckSize, CheckTime, ReadParams, Compare, Answer, LoginSucceeds,
     LoginFails, StoreResult, ChangePreferences, Tick, Finished, callVars, vars
<1> QED
  BY <1>1, TimeAssumption DEF CheckTime, Answer, Passes, IInv, TypeOK

\* The time check passes only within a session's life of a login that succeeded, for
\* any number of callers and of logins that run, fail or are repeated beside it.
THEOREM PassesOnlyAfterLoginHolds == Spec => PassesOnlyAfterLogin
<1>1. IInv /\ [Next]_vars =>
        [\A c \in Callers : Passes(c) =>
           lastSuccess # Never /\ now - lastSuccess <= Life]_vars
  <2> SUFFICES ASSUME IInv, Next, NEW c \in Callers, Passes(c)
               PROVE  lastSuccess # Never /\ now - lastSuccess <= Life
    BY DEF vars
  <2>1. lastSuccess # Never /\ loginTimestamp = lastSuccess
    BY DEF IInv, StampInv, Passes
  <2> QED
    BY <2>1, PassesInTime
<1> QED
  BY <1>1, Invariant, PTL DEF Spec, PassesOnlyAfterLogin

\* "Check if the last login is more than half an hour in the past": when no result
\* waits for the main thread, the cookies that pass the check are that young.
THEOREM CookiesAreYoungHolds == Spec => CookiesAreYoung
<1>1. IInv /\ [Next]_vars =>
        [\A c \in Callers : Passes(c) /\ HasCookies /\ looper = <<>> =>
           now - loginResult[1].since <= Life]_vars
  <2> SUFFICES ASSUME IInv, Next, NEW c \in Callers, Passes(c), HasCookies,
                      looper = <<>>
               PROVE  now - loginResult[1].since <= Life
    BY DEF vars
  <2>1. loginResult[1].since = loginTimestamp
    BY DEF IInv, NewestInv
  <2> QED
    BY <2>1, PassesInTime
<1> QED
  BY <1>1, Invariant, PTL DEF Spec, CookiesAreYoung
=============================================================================
