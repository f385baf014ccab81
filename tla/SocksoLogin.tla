------------------------------ MODULE SocksoLogin ------------------------------
(***************************************************************************)
(* SocksoService's session: login(), LoginTask, isAuthenticated() and the  *)
(* connection parameters they share.                                       *)
(*                                                                         *)
(* login() runs on a binder thread: it submits a LoginTask and spins until *)
(* the field loginResult is not null.  The task asks the server on the     *)
(* executor's thread, where it also sets loginTimestamp, and stores its    *)
(* result on the main thread.  isAuthenticated() reads the fields one by   *)
(* one.  The server's address and the account are preferences that the     *)
(* user may change at any time; the four strings are one account here.     *)
(***************************************************************************)
EXTENDS Integers, Sequences

CONSTANTS Callers,      \* binder threads
          Accounts,     \* what the preferences may say
          Life,         \* how long a session is good for (1800 seconds)
          MaxTime,      \* bound: the clock
          MaxCalls      \* bound: calls of login and isAuthenticated

None == "none"
Never == -1

ASSUME AccountsAssumption == Accounts # {} /\ None \notin Accounts
ASSUME TimeAssumption == Life \in Nat /\ MaxTime \in Nat /\ MaxCalls \in Nat

VARIABLES
  pc,             \* where each caller is
  returned,       \* what each caller's last call returned
  calls,          \* calls made so far
  preferences,    \* the account in the preferences
  now,            \* System.currentTimeMillis()/1000
  executor,       \* the LoginTasks submitted, in order
  looper,         \* the results posted to the main thread, in order
  loginResult,    \* the last result stored, as <<result>>; <<>> is null
  loginTimestamp,
  compared,       \* the account isAuthenticated compares the preferences with
  lastSuccess     \* history: when a login last succeeded, or Never

callVars == <<pc, returned, calls, compared>>
taskVars == <<executor, looper>>
sessionVars == <<loginResult, loginTimestamp>>
vars == <<callVars, preferences, now, taskVars, sessionVars, lastSuccess>>

\* A LoginResult: success with the session's cookies, or no cookies.
Success(c) == [by |-> c[1], success |-> TRUE, account |-> c[2], since |-> c[3]]
Failure(by) == [by |-> by, success |-> FALSE, account |-> None, since |-> 0]
Results == {Success(c) : c \in Callers \X Accounts \X (0..MaxTime)}
           \cup {Failure(b) : b \in Callers}

HasCookies == loginResult # <<>> /\ loginResult[1].success

Init ==
  /\ pc = [c \in Callers |-> "idle"]
  /\ returned = [c \in Callers |-> None]
  /\ calls = 0
  /\ preferences \in Accounts
  /\ now = 0
  /\ executor = <<>> /\ looper = <<>>
  /\ loginResult = <<>>
  /\ loginTimestamp = 0
  /\ compared = [c \in Callers |-> None]
  /\ lastSuccess = Never

-----------------------------------------------------------------------------
(* login() *)

Begin(c, next) ==
  /\ pc[c] = "idle"
  /\ calls < MaxCalls
  /\ calls' = calls + 1
  /\ pc' = [pc EXCEPT ![c] = next]
  /\ returned' = [returned EXCEPT ![c] = None]

\* new LoginTask().execute(...) with what the preferences say now.
Login(c) ==
  /\ Begin(c, "spin")
  /\ executor' = Append(executor, [by |-> c, account |-> preferences])
  /\ UNCHANGED <<preferences, now, looper, sessionVars, compared,
                 lastSuccess>>

\* while (loginResult == null); return loginResult.isSuccess();
LoginReturn(c) ==
  /\ pc[c] = "spin"
  /\ loginResult # <<>>
  /\ returned' = [returned EXCEPT ![c] =
                    IF loginResult[1].success THEN "true" ELSE "false"]
  /\ pc' = [pc EXCEPT ![c] = "idle"]
  /\ UNCHANGED <<calls, compared, preferences, now, taskVars, sessionVars, lastSuccess>>

-----------------------------------------------------------------------------
(* LoginTask *)

\* The server answers with cookies: the time is set here, on the executor's
\* thread, before the result is posted.
LoginSucceeds ==
  /\ executor # <<>>
  /\ LET t == Head(executor) IN
       looper' = Append(looper, Success(<<t.by, t.account, now>>))
  /\ loginTimestamp' = now
  /\ lastSuccess' = now
  /\ executor' = Tail(executor)
  /\ UNCHANGED <<callVars, preferences, now, loginResult>>

\* Mutant of StampAfterFailure: the time is set whatever the server says.
StampAlways == now

\* A login that fails leaves loginTimestamp alone.
StampAfterFailure == loginTimestamp

\* No cookies, or an exception that doInBackground catches.
LoginFails ==
  /\ executor # <<>>
  /\ looper' = Append(looper, Failure(Head(executor).by))
  /\ loginTimestamp' = StampAfterFailure
  /\ executor' = Tail(executor)
  /\ UNCHANGED <<callVars, preferences, now, loginResult, lastSuccess>>

\* Mutants of Stored: only a success is stored; only the first result is;
\* results pile up.
StoredSuccess(r) == IF r.success THEN <<r>> ELSE loginResult
StoredFirst(r) == IF loginResult = <<>> THEN <<r>> ELSE loginResult
StoredToo(r) == Append(loginResult, r)

Stored(r) == <<r>>

\* onPostExecute: loginResult = Result, on the main thread.
StoreResult ==
  /\ looper # <<>>
  /\ loginResult' = Stored(Head(looper))
  /\ looper' = Tail(looper)
  /\ UNCHANGED <<callVars, preferences, now, executor, loginTimestamp, lastSuccess>>

-----------------------------------------------------------------------------
(* isAuthenticated() *)

Answer(c, value) ==
  /\ returned' = [returned EXCEPT ![c] = value]
  /\ pc' = [pc EXCEPT ![c] = "idle"]

IsAuthenticated(c) ==
  /\ Begin(c, "cookies")
  /\ UNCHANGED <<compared, preferences, now, taskVars, sessionVars, lastSuccess>>

\* if (connParams.getCookies() == null) return false;
CheckCookies(c) ==
  /\ pc[c] = "cookies"
  /\ IF HasCookies
     THEN pc' = [pc EXCEPT ![c] = "size"] /\ UNCHANGED returned
     ELSE Answer(c, "false")
  /\ UNCHANGED <<calls, compared, preferences, now, taskVars, sessionVars, lastSuccess>>

\* connParams.getCookies().size(): the cookies are read again.  A success has
\* at least one; null throws NullPointerException.
CheckSize(c) ==
  /\ pc[c] = "size"
  /\ IF HasCookies
     THEN pc' = [pc EXCEPT ![c] = "time"] /\ UNCHANGED returned
     ELSE Answer(c, "exception")
  /\ UNCHANGED <<calls, compared, preferences, now, taskVars, sessionVars, lastSuccess>>

\* More than half an hour since loginTimestamp: false.
CheckTime(c) ==
  /\ pc[c] = "time"
  /\ IF now - loginTimestamp > Life
     THEN Answer(c, "false")
     ELSE pc' = [pc EXCEPT ![c] = "params"] /\ UNCHANGED returned
  /\ UNCHANGED <<calls, compared, preferences, now, taskVars, sessionVars, lastSuccess>>

\* connParams.getServerAddress() etc. read the preferences, not the login.
ReadParams(c) ==
  /\ pc[c] = "params"
  /\ compared' = [compared EXCEPT ![c] = preferences]
  /\ pc' = [pc EXCEPT ![c] = "compare"]
  /\ UNCHANGED <<returned, calls, preferences, now, taskVars, sessionVars, lastSuccess>>

\* They are compared with the preferences.
Compare(c) ==
  /\ pc[c] = "compare"
  /\ Answer(c, IF compared[c] = preferences THEN "true" ELSE "false")
  /\ UNCHANGED <<calls, compared, preferences, now, taskVars, sessionVars, lastSuccess>>

-----------------------------------------------------------------------------
(* The user and the clock. *)

ChangePreferences ==
  /\ preferences' \in Accounts \ {preferences}
  /\ UNCHANGED <<callVars, now, taskVars, sessionVars, lastSuccess>>

Tick ==
  /\ now < MaxTime
  /\ now' = now + 1
  /\ UNCHANGED <<callVars, preferences, taskVars, sessionVars, lastSuccess>>

Finished ==
  /\ calls = MaxCalls
  /\ \A c \in Callers : pc[c] = "idle"
  /\ UNCHANGED vars

Next ==
  \/ \E c \in Callers : \/ Login(c) \/ LoginReturn(c)
                        \/ IsAuthenticated(c) \/ CheckCookies(c) \/ CheckSize(c)
                        \/ CheckTime(c) \/ ReadParams(c) \/ Compare(c)
  \/ LoginSucceeds \/ LoginFails \/ StoreResult
  \/ ChangePreferences \/ Tick
  \/ Finished

Spec == Init /\ [][Next]_vars

\* The threads run, and a login is answered or fails.
Fairness ==
  /\ \A c \in Callers : WF_vars(LoginReturn(c))
  /\ WF_vars(LoginSucceeds \/ LoginFails)
  /\ WF_vars(StoreResult)

FairSpec == Spec /\ Fairness

-----------------------------------------------------------------------------
TypeOK ==
  /\ pc \in [Callers -> {"idle", "spin", "cookies", "size", "time", "params",
                         "compare"}]
  /\ returned \in [Callers -> {None, "true", "false", "exception"}]
  /\ calls \in 0..MaxCalls
  /\ preferences \in Accounts
  /\ now \in 0..MaxTime
  /\ executor \in Seq([by: Callers, account: Accounts])
  /\ looper \in Seq(Results)
  /\ loginResult \in Seq(Results) /\ Len(loginResult) <= 1
  /\ loginTimestamp \in 0..MaxTime
  /\ compared \in [Callers -> Accounts \cup {None}]
  /\ lastSuccess \in (0..MaxTime) \cup {Never}

Passes(c) == pc[c] = "time" /\ pc'[c] = "params"

\* The time check lets isAuthenticated() go on only if some login succeeded
\* within the life of a session, whatever logins run, fail or are repeated
\* beside it: a failed login does not make the session look young.
PassesOnlyAfterLogin ==
  [][\A c \in Callers : Passes(c) =>
       lastSuccess # Never /\ now - lastSuccess <= Life]_vars

\* "Check if the last login is more than half an hour in the past": the
\* cookies that the requests will carry are those of a login that young, unless
\* a newer login's result still waits for the main thread.
CookiesAreYoung ==
  [][\A c \in Callers : Passes(c) /\ HasCookies /\ looper = <<>> =>
       now - loginResult[1].since <= Life]_vars

\* Every login() comes back, when the server answers or the request fails.
LoginReturns == \A c \in Callers : pc[c] = "spin" ~> pc[c] = "idle"
=============================================================================
