--------------------------- MODULE AudioWriteProofs ---------------------------
(***************************************************************************)
(* For any threads, buffer capacities and number of calls: the types; that *)
(* no waiting call misses the notification of its own answer; and how far  *)
(* a thread that makes all the calls lags behind its answers.              *)
(*                                                                         *)
(* The argument: a message is not in the network before its sender has     *)
(* sent it, a waiter sends it inside the mutex and lets the mutex go only  *)
(* by starting to wait, and the event thread stores an answer only inside  *)
(* the mutex.  So the answer is stored when the call is waiting (and is    *)
(* then notified) or when it has stopped waiting.  The messages of a       *)
(* thread that is alone are in one line, so that each wait that ends has   *)
(* had an answer more or was cut short.                                    *)
(***************************************************************************)
EXTENDS AudioWrite, FiniteSetTheorems, SequenceTheorems, TLAPS

\* A waiter is inside the mutex from before its send until it waits.
MutexInv ==
  /\ \A w \in Waiters : pc[w] \in {"send", "sent"} <=> m_WrittenMutex = w
  /\ \A s \in Senders : pc[s] \in {"idle", "send"}

\* Each call has a number of its own, given in the order of the calls.
NameInv ==
  /\ \A t \in Threads : msg[t] <= calls
  /\ \A t \in Threads : pc[t] # "idle" => msg[t] > 0
  /\ \A t, u \in Threads : t # u /\ msg[t] > 0 => msg[t] # msg[u]

\* Nothing is in the network, or answered, that was not sent.
SentInv ==
  /\ \A m \in sent : m <= calls
  /\ \A i \in 1..Len(out) : out[i] \in sent
  /\ \A i \in 1..Len(in) : in[i].to \in sent
  /\ \A i \in 1..Len(ev) : ev[i].to \in sent
  /\ \A i \in 1..Len(host) : host[i] \in sent
  /\ answered \subseteq sent
  /\ \A t \in Threads : pc[t] \in {"lock", "send"} => msg[t] \notin sent

\* Between its send and its wait a call has no answer stored.
AnswerInv == \A w \in Waiters : pc[w] = "sent" => msg[w] \notin answered

IInv == TypeOK /\ MutexInv /\ NameInv /\ SentInv /\ AnswerInv /\ NoMissedNotify

-----------------------------------------------------------------------------
\* What a sequence that is not empty holds.
LEMMA NonEmptySeq ==
  ASSUME NEW S, NEW s \in Seq(S), s # <<>>
  PROVE  /\ Len(s) >= 1 /\ s[1] \in S
         /\ Head(s) \in S /\ Tail(s) \in Seq(S)
  OBVIOUS

\* A thread inside writeAudioData has a message.
LEMMA ActiveMessage ==
  TypeOK /\ NameInv => \A t \in Threads : pc[t] # "idle" => msg[t] \in Messages
  BY BoundAssumption DEF TypeOK, NameInv, Messages, Counts

\* The initial states satisfy the inductive invariant.
LEMMA InitInv == Init => IInv
  BY ThreadsAssumption, CapAssumption, BoundAssumption DEF Init, IInv,
     TypeOK, MutexInv, NameInv, SentInv, AnswerInv, NoMissedNotify, Counts,
     Threads

\* Every step of the specification keeps it.
LEMMA StepInv == IInv /\ [Next]_vars => IInv'
<1> SUFFICES ASSUME IInv, [Next]_vars PROVE IInv'
  OBVIOUS
<1> USE ThreadsAssumption, CapAssumption, BoundAssumption
        DEF IInv, Threads, Messages, Counts
<1>1. ASSUME NEW t \in Threads, Call(t) PROVE IInv'
  <2>1. TypeOK'
    BY <1>1 DEF Call, lockVars, netVars, histVars, TypeOK
  <2>2. MutexInv'
    BY <1>1 DEF Call, lockVars, MutexInv
  <2>3. NameInv'
    BY <1>1 DEF Call, TypeOK, NameInv
  <2>4. SentInv'
    BY <1>1 DEF Call, netVars, histVars, TypeOK, SentInv
  <2>5. AnswerInv'
    BY <1>1 DEF Call, histVars, AnswerInv
  <2>6. NoMissedNotify'
    BY <1>1 DEF Call, lockVars, histVars, NoMissedNotify
  <2> QED
    BY <2>1, <2>2, <2>3, <2>4, <2>5, <2>6
<1>2. ASSUME NEW t \in Threads, SendFails(t) PROVE IInv'
  <2>1. TypeOK'
    BY <1>2 DEF SendFails, netVars, histVars, TypeOK
  <2>2. MutexInv'
    BY <1>2 DEF SendFails, TypeOK, MutexInv
  <2>3. NameInv'
    BY <1>2 DEF SendFails, NameInv
  <2>4. SentInv'
    BY <1>2 DEF SendFails, netVars, histVars, SentInv
  <2>5. AnswerInv'
    BY <1>2 DEF SendFails, histVars, AnswerInv
  <2>6. NoMissedNotify'
    BY <1>2 DEF SendFails, histVars, NoMissedNotify
  <2> QED
    BY <2>1, <2>2, <2>3, <2>4, <2>5, <2>6
<1>3. ASSUME NEW w \in Waiters, Lock(w) PROVE IInv'
  <2>1. TypeOK'
    BY <1>3 DEF Lock, netVars, histVars, TypeOK
  <2>2. MutexInv'
    BY <1>3 DEF Lock, TypeOK, MutexInv
  <2>3. NameInv'
    BY <1>3 DEF Lock, NameInv
  <2>4. SentInv'
    BY <1>3 DEF Lock, netVars, histVars, SentInv
  <2>5. AnswerInv'
    BY <1>3 DEF Lock, histVars, AnswerInv
  <2>6. NoMissedNotify'
    BY <1>3 DEF Lock, histVars, NoMissedNotify
  <2> QED
    BY <2>1, <2>2, <2>3, <2>4, <2>5, <2>6
<1>4. ASSUME NEW w \in Waiters, SendLocked(w) PROVE IInv'
  <2>1. TypeOK'
    <3>1. msg[w] \in Messages
      BY <1>4, ActiveMessage DEF SendLocked, Put
    <3>2. out' \in Seq(Messages)
      BY <1>4, <3>1 DEF SendLocked, Put, TypeOK
    <3> QED
      BY <1>4, <3>1, <3>2 DEF SendLocked, Put, lockVars, TypeOK
  <2>2. MutexInv'
    BY <1>4 DEF SendLocked, Put, lockVars, MutexInv
  <2>3. NameInv'
    BY <1>4 DEF SendLocked, Put, NameInv
  <2>4. SentInv'
    <3>1. \A i \in 1..Len(out') : out'[i] \in sent'
      BY <1>4 DEF SendLocked, Put, SentInv
    <3>2. \A t \in Threads : pc'[t] \in {"lock", "send"} => msg'[t] \notin sent'
      BY <1>4 DEF SendLocked, Put, TypeOK, SentInv, NameInv
    <3>3. \A m \in sent' : m <= calls'
      BY <1>4 DEF SendLocked, Put, SentInv, NameInv
    <3> QED
      BY <1>4, <3>1, <3>2, <3>3 DEF SendLocked, Put, SentInv
  <2>5. AnswerInv'
    BY <1>4 DEF SendLocked, Put, AnswerInv, SentInv
  <2>6. NoMissedNotify'
    BY <1>4 DEF SendLocked, lockVars, NoMissedNotify
  <2> QED
    BY <2>1, <2>2, <2>3, <2>4, <2>5, <2>6
<1>5. ASSUME NEW w \in Waiters, StartWait(w) PROVE IInv'
  <2>1. TypeOK'
    BY <1>5 DEF StartWait, AfterSend, netVars, histVars, TypeOK
  <2>2. MutexInv'
    BY <1>5 DEF StartWait, AfterSend, TypeOK, MutexInv
  <2>3. NameInv'
    BY <1>5 DEF StartWait, NameInv
  <2>4. SentInv'
    BY <1>5 DEF StartWait, AfterSend, netVars, histVars, SentInv
  <2>5. AnswerInv'
    BY <1>5 DEF StartWait, histVars, AnswerInv
  <2>6. NoMissedNotify'
    BY <1>5 DEF StartWait, histVars, NoMissedNotify, AnswerInv
  <2> QED
    BY <2>1, <2>2, <2>3, <2>4, <2>5, <2>6
<1>6. ASSUME NEW w \in Waiters, Wake(w) \/ WakeSpuriously(w) \/ Timeout(w)
      PROVE  IInv'
  <2>1. TypeOK'
    <3>1. WakeSpuriously(w) => msg[w] \in Messages
      BY ActiveMessage DEF WakeSpuriously
    <3> QED
      BY <1>6, <3>1 DEF Wake, WakeSpuriously, Timeout, lockVars, netVars,
         histVars, TypeOK
  <2>2. MutexInv'
    BY <1>6 DEF Wake, WakeSpuriously, Timeout, lockVars, TypeOK, MutexInv
  <2>3. NameInv'
    BY <1>6 DEF Wake, WakeSpuriously, Timeout, TypeOK, NameInv
  <2>4. SentInv'
    <3>1. \A t \in Threads : pc'[t] \in {"lock", "send"} => pc[t] = pc'[t]
      BY <1>6 DEF Wake, WakeSpuriously, Timeout, TypeOK
    <3>2. UNCHANGED <<msg, calls, netVars, sent, answered>>
      BY <1>6 DEF Wake, WakeSpuriously, Timeout, histVars
    <3> QED
      BY <3>1, <3>2 DEF netVars, SentInv
  <2>5. AnswerInv'
    BY <1>6 DEF Wake, WakeSpuriously, Timeout, histVars, TypeOK, AnswerInv
  <2>6. NoMissedNotify'
    BY <1>6 DEF Wake, WakeSpuriously, Timeout, lockVars, histVars, TypeOK,
       NoMissedNotify
  <2> QED
    BY <2>1, <2>2, <2>3, <2>4, <2>5, <2>6
<1>7. ASSUME NEW w \in Waiters, Relock(w) PROVE IInv'
  <2>1. TypeOK'
    <3>1. msg[w] \in Messages
      BY <1>7, ActiveMessage DEF Relock
    <3>2. m_iWrittenSamples' \in Counts
      BY <1>7 DEF Relock, TypeOK
    <3>3. gaveUp' \in SUBSET Messages
      BY <1>7, <3>1 DEF Relock, TypeOK
    <3> QED
      BY <1>7, <3>2, <3>3 DEF Relock, netVars, TypeOK
  <2>2. MutexInv'
    BY <1>7 DEF Relock, MutexInv
  <2>3. NameInv'
    BY <1>7 DEF Relock, NameInv
  <2>4. SentInv'
    BY <1>7 DEF Relock, netVars, SentInv
  <2>5. AnswerInv'
    BY <1>7 DEF Relock, AnswerInv
  <2>6. NoMissedNotify'
    BY <1>7 DEF Relock, NoMissedNotify
  <2> QED
    BY <2>1, <2>2, <2>3, <2>4, <2>5, <2>6
<1>8. ASSUME NEW w \in Waiters, Return(w) PROVE IInv'
  <2>1. TypeOK'
    BY <1>8 DEF Return, lockVars, netVars, histVars, TypeOK
  <2>2. MutexInv'
    BY <1>8 DEF Return, lockVars, MutexInv
  <2>3. NameInv'
    BY <1>8 DEF Return, NameInv
  <2>4. SentInv'
    BY <1>8 DEF Return, netVars, histVars, SentInv
  <2>5. AnswerInv'
    BY <1>8 DEF Return, histVars, AnswerInv
  <2>6. NoMissedNotify'
    BY <1>8 DEF Return, lockVars, histVars, NoMissedNotify
  <2> QED
    BY <2>1, <2>2, <2>3, <2>4, <2>5, <2>6
<1>9. ASSUME NEW s \in Senders, SendOnly(s) PROVE IInv'
  <2>1. TypeOK'
    <3>1. msg[s] \in Messages
      BY <1>9, ActiveMessage DEF SendOnly, Put
    <3>2. out' \in Seq(Messages)
      BY <1>9, <3>1 DEF SendOnly, Put, TypeOK
    <3> QED
      BY <1>9, <3>1, <3>2 DEF SendOnly, Put, lockVars, TypeOK
  <2>2. MutexInv'
    BY <1>9 DEF SendOnly, lockVars, MutexInv
  <2>3. NameInv'
    BY <1>9 DEF SendOnly, NameInv
  <2>4. SentInv'
    <3>1. \A i \in 1..Len(out') : out'[i] \in sent'
      BY <1>9 DEF SendOnly, Put, SentInv
    <3>2. \A t \in Threads : pc'[t] \in {"lock", "send"} => msg'[t] \notin sent'
      BY <1>9 DEF SendOnly, Put, TypeOK, SentInv, NameInv
    <3>3. \A m \in sent' : m <= calls'
      BY <1>9 DEF SendOnly, Put, SentInv, NameInv
    <3> QED
      BY <1>9, <3>1, <3>2, <3>3 DEF SendOnly, Put, SentInv
  <2>5. AnswerInv'
    BY <1>9 DEF SendOnly, AnswerInv
  <2>6. NoMissedNotify'
    BY <1>9 DEF SendOnly, lockVars, NoMissedNotify
  <2> QED
    BY <2>1, <2>2, <2>3, <2>4, <2>5, <2>6
<1>10. ASSUME Receive PROVE IInv'
  <2>1. TypeOK'
    <3>1. Head(in) \in Responses /\ Tail(in) \in Seq(Responses)
      BY <1>10, NonEmptySeq DEF Receive, TypeOK
    <3>2. ev' = <<Head(in)>>
      BY <1>10 DEF Receive, Busy
    <3>3. ev' \in Seq(Responses) /\ Len(ev') <= 1
      BY <3>1, <3>2
    <3> QED
      BY <1>10, <3>1, <3>3 DEF Receive, callVars, lockVars, histVars, TypeOK
  <2>2. MutexInv'
    BY <1>10 DEF Receive, callVars, lockVars, MutexInv
  <2>3. NameInv'
    BY <1>10 DEF Receive, callVars, NameInv
  <2>4. SentInv'
    BY <1>10 DEF Receive, callVars, histVars, SentInv
  <2>5. AnswerInv'
    BY <1>10 DEF Receive, callVars, histVars, AnswerInv
  <2>6. NoMissedNotify'
    BY <1>10 DEF Receive, callVars, lockVars, histVars, NoMissedNotify
  <2> QED
    BY <2>1, <2>2, <2>3, <2>4, <2>5, <2>6
<1>11. ASSUME StoreAndNotify PROVE IInv'
  <2>1. TypeOK'
    <3>1. ev[1] \in Responses
      BY <1>11, NonEmptySeq DEF StoreAndNotify, TypeOK
    <3>2. m_iWrittenSamples' \in Counts /\ answered' \in SUBSET Messages
      BY <1>11, <3>1 DEF StoreAndNotify, TypeOK, Responses
    <3>3. ev' \in Seq(Responses) /\ Len(ev') <= 1
      BY <1>11 DEF StoreAndNotify
    <3> QED
      BY <1>11, <3>2, <3>3 DEF StoreAndNotify, callVars, TypeOK
  <2>2. MutexInv'
    BY <1>11 DEF StoreAndNotify, callVars, MutexInv
  <2>3. NameInv'
    BY <1>11 DEF StoreAndNotify, callVars, NameInv
  <2>4. SentInv'
    <3>1. ev[1].to \in sent
      BY <1>11 DEF StoreAndNotify, SentInv
    <3>2. answered' \subseteq sent
      BY <1>11, <3>1 DEF StoreAndNotify, SentInv
    <3> QED
      BY <1>11, <3>2 DEF StoreAndNotify, callVars, SentInv
  <2>5. AnswerInv'
    BY <1>11 DEF StoreAndNotify, StoreLock, callVars, AnswerInv, MutexInv
  <2>6. NoMissedNotify'
    BY <1>11 DEF StoreAndNotify, callVars, NoMissedNotify
  <2> QED
    BY <2>1, <2>2, <2>3, <2>4, <2>5, <2>6
<1>12. ASSUME HostRead PROVE IInv'
  <2>1. TypeOK'
    BY <1>12 DEF HostRead, callVars, lockVars, histVars, TypeOK
  <2>2. MutexInv'
    BY <1>12 DEF HostRead, callVars, lockVars, MutexInv
  <2>3. NameInv'
    BY <1>12 DEF HostRead, callVars, NameInv
  <2>4. SentInv'
    BY <1>12 DEF HostRead, callVars, histVars, SentInv
  <2>5. AnswerInv'
    BY <1>12 DEF HostRead, callVars, histVars, AnswerInv
  <2>6. NoMissedNotify'
    BY <1>12 DEF HostRead, callVars, lockVars, histVars, NoMissedNotify
  <2> QED
    BY <2>1, <2>2, <2>3, <2>4, <2>5, <2>6
<1>13. ASSUME HostAnswer PROVE IInv'
  <2>1. TypeOK'
    <3>1. PICK n \in {0, host[1]} :
            in' = Append(in, [to |-> host[1], written |-> n])
      BY <1>13 DEF HostAnswer
    <3>2. host[1] \in Messages
      BY <1>13, NonEmptySeq DEF HostAnswer, TypeOK
    <3>3. [to |-> host[1], written |-> n] \in Responses
      BY <3>2 DEF Responses
    <3>4. in' \in Seq(Responses)
      BY <3>1, <3>3 DEF TypeOK
    <3> QED
      BY <1>13, <3>4 DEF HostAnswer, callVars, lockVars, histVars, TypeOK
  <2>2. MutexInv'
    BY <1>13 DEF HostAnswer, callVars, lockVars, MutexInv
  <2>3. NameInv'
    BY <1>13 DEF HostAnswer, callVars, NameInv
  <2>4. SentInv'
    BY <1>13 DEF HostAnswer, callVars, histVars, SentInv
  <2>5. AnswerInv'
    BY <1>13 DEF HostAnswer, callVars, histVars, AnswerInv
  <2>6. NoMissedNotify'
    BY <1>13 DEF HostAnswer, callVars, lockVars, histVars, NoMissedNotify
  <2> QED
    BY <2>1, <2>2, <2>3, <2>4, <2>5, <2>6
<1>14. ASSUME Break PROVE IInv'
  <2>1. TypeOK'
    <3>1. out' \in Seq(Messages) /\ host' \in Seq(Messages) /\ Len(host') <= 1
      BY <1>14 DEF Break
    <3> QED
      BY <1>14, <3>1 DEF Break, callVars, lockVars, histVars, TypeOK
  <2>2. MutexInv'
    BY <1>14 DEF Break, callVars, lockVars, MutexInv
  <2>3. NameInv'
    BY <1>14 DEF Break, callVars, NameInv
  <2>4. SentInv'
    BY <1>14 DEF Break, callVars, histVars, SentInv
  <2>5. AnswerInv'
    BY <1>14 DEF Break, callVars, histVars, AnswerInv
  <2>6. NoMissedNotify'
    BY <1>14 DEF Break, callVars, lockVars, histVars, NoMissedNotify
  <2> QED
    BY <2>1, <2>2, <2>3, <2>4, <2>5, <2>6
<1>15. ASSUME UNCHANGED vars PROVE IInv'
  <2>1. TypeOK'
    BY <1>15 DEF vars, callVars, lockVars, netVars, histVars, TypeOK
  <2>2. MutexInv'
    BY <1>15 DEF vars, callVars, lockVars, MutexInv
  <2>3. NameInv'
    BY <1>15 DEF vars, callVars, NameInv
  <2>4. SentInv'
    BY <1>15 DEF vars, callVars, netVars, histVars, SentInv
  <2>5. AnswerInv'
    BY <1>15 DEF vars, callVars, histVars, AnswerInv
  <2>6. NoMissedNotify'
    BY <1>15 DEF vars, callVars, lockVars, histVars, NoMissedNotify
  <2> QED
    BY <2>1, <2>2, <2>3, <2>4, <2>5, <2>6
<1> QED
  BY <1>1, <1>2, <1>3, <1>4, <1>5, <1>6, <1>7, <1>8, <1>9, <1>10, <1>11,
     <1>12, <1>13, <1>14, <1>15 DEF Next, Finished

LEMMA Invariance == Spec => []IInv
  BY InitInv, StepInv, PTL DEF Spec

\* Type correctness, for every set of threads and every bound.
THEOREM TypeCorrect == Spec => []TypeOK
<1>1. IInv => TypeOK
  BY DEF IInv
<1> QED
  BY <1>1, Invariance, PTL

\* The claim of the comment in writeAudioData: a call that waits and is not
\* notified has no answer stored, for every number of threads and messages.
THEOREM NotifyNotMissed == Spec => []NoMissedNotify
<1>1. IInv => NoMissedNotify
  BY DEF IInv
<1> QED
  BY <1>1, Invariance, PTL

-----------------------------------------------------------------------------
(* How far a caller that is alone lags behind its answers. *)

\* No other thread has made a call.
Solo(w) == \A t \in Threads \ {w} : msg[t] = 0

\* The answers that were stored and the waits that were cut short.
Stored == Cardinality(answered)
Cuts == Cardinality(gaveUp)

\* Where the messages in the kernel and at the other end are in the line, the first of
\* which is answered next.
InAt == Stored + Len(ev)
HostAt == InAt + Len(in)
OutAt == HostAt + Len(host)
OnTheWay == OutAt + Len(out)

\* The answers stored are those of the first messages, and the messages on their way
\* are the next ones, each once and in order.
InLine ==
  /\ answered = 1..Stored
  /\ \A k \in 1..Len(ev) : ev[k].to = Stored + k /\ ev[k].written \in {0, ev[k].to}
  /\ \A k \in 1..Len(in) : in[k].to = InAt + k /\ in[k].written \in {0, in[k].to}
  /\ \A k \in 1..Len(host) : host[k] = HostAt + k
  /\ \A k \in 1..Len(out) : out[k] = OutAt + k
  /\ OnTheWay <= calls

\* While the connection is open all that was sent is on its way or answered.
AllSent(w) == up => OnTheWay = IF pc[w] \in {"lock", "send"} THEN calls - 1 ELSE calls

\* A wait that ends with neither a cut nor an answer of its own would be one more
\* message behind.
Behind(w) == calls - (Stored + Cuts)
LagInv(w) ==
  /\ m_iWrittenSamples \in {0, Stored}
  /\ gaveUp \subseteq 1..calls
  /\ pc[w] \in {"lock", "send", "sent", "waiting", "expired"} => calls \notin gaveUp
  /\ pc[w] \in {"woken", "return"} => Behind(w) <= 0
  /\ pc[w] = "waiting" /\ w \in m_WrittenCondition => Behind(w) <= 0
  /\ pc[w] \in {"sent", "waiting", "expired"} => Behind(w) <= 1
  /\ pc[w] \in {"lock", "send"} => Behind(w) <= 1 \/ ~up
  /\ pc[w] = "idle" => Behind(w) <= 0 \/ (~up /\ result[w] <= 0)

\* With the property, which speaks of a call that is over.
LagOf(w) == pc[w] = "idle" /\ result[w] > 0 => calls - result[w] \in 0..Cuts
Alone(w) == Solo(w) => msg[w] = calls /\ InLine /\ AllSent(w) /\ LagInv(w) /\ LagOf(w)
AloneInv == \A w \in Waiters : Alone(w)

\* The two counts are numbers, and all in the history was sent.
LEMMA CountsAreNumbers ==
  ASSUME TypeOK
  PROVE  /\ Stored \in Nat /\ Cuts \in Nat /\ calls \in Nat
         /\ IsFiniteSet(answered) /\ IsFiniteSet(gaveUp)
<1>1. IsFiniteSet(Messages)
  BY FS_Interval, BoundAssumption DEF Messages
<1>2. answered \subseteq Messages /\ gaveUp \subseteq Messages /\ calls \in 0..MaxCalls
  BY DEF TypeOK, Counts
<1>3. IsFiniteSet(answered) /\ IsFiniteSet(gaveUp)
  BY <1>1, <1>2, FS_Subset
<1> QED
  BY <1>2, <1>3, FS_CardinalityType, BoundAssumption DEF Stored, Cuts

\* One more answer.
LEMMA OneMoreStored ==
  ASSUME TypeOK, answered = 1..Stored, answered' = answered \cup {Stored + 1}
  PROVE  answered' = 1..Stored' /\ Stored' = Stored + 1
<1>1. Stored \in Nat
  BY CountsAreNumbers
<1>2. answered' = 1..(Stored + 1)
  BY <1>1
<1>3. Cardinality(1..(Stored + 1)) = Stored + 1
  BY <1>1, FS_Interval
<1>4. Stored' = Stored + 1
  BY <1>2, <1>3 DEF Stored
<1> QED
  BY <1>2, <1>4

\* One more cut.
LEMMA OneMoreCut ==
  ASSUME TypeOK, NEW m, m \notin gaveUp, gaveUp' = gaveUp \cup {m}
  PROVE  Cuts' = Cuts + 1
  BY CountsAreNumbers, FS_AddElement DEF Cuts

\* Who acts while w is alone is w.
LEMMA ActorIsAlone ==
  ASSUME IInv, NEW w \in Waiters, Solo(w), NEW t \in Threads, pc[t] # "idle"
  PROVE  t = w
  BY DEF IInv, NameInv, Solo, TypeOK, Counts

\* A step that leaves the caller, the connection and the counts alone.
LEMMA AloneKept ==
  ASSUME NEW w \in Waiters, Alone(w),
         UNCHANGED <<msg, calls, m_iWrittenSamples, netVars, answered, gaveUp>>,
         pc'[w] = pc[w] /\ result'[w] = result[w],
         w \in m_WrittenCondition' => w \in m_WrittenCondition
  PROVE  Alone(w)'
<1>1. Stored' = Stored /\ Cuts' = Cuts /\ (Solo(w)' <=> Solo(w))
  BY DEF Stored, Cuts, Solo
<1>2. (InLine' <=> InLine) /\ (AllSent(w)' <=> AllSent(w)) /\ Behind(w)' = Behind(w)
  BY <1>1 DEF InLine, AllSent, OnTheWay, OutAt, HostAt, InAt, Behind, netVars
<1>3. LagInv(w) => LagInv(w)'
  BY <1>1, <1>2 DEF LagInv, netVars
<1>4. LagOf(w)' <=> LagOf(w)
  BY <1>1 DEF LagOf
<1> QED
  BY <1>1, <1>2, <1>3, <1>4 DEF Alone

\* The initial states.
LEMMA AloneInit == Init => AloneInv
<1> SUFFICES ASSUME Init, NEW w \in Waiters PROVE Alone(w)
  BY DEF AloneInv
<1>1. Stored = 0 /\ Cuts = 0
  BY FS_EmptySet DEF Init, Stored, Cuts
<1>2. w \in Threads
  BY DEF Threads
<1> QED
  BY <1>1, <1>2 DEF Init, Alone, InLine, AllSent, OnTheWay, OutAt, HostAt, InAt, LagInv,
     LagOf, Behind

\* A message on its way is one of those that were sent.
LEMMA LineNumbers ==
  ASSUME TypeOK, InLine
  PROVE  /\ Stored \in Nat /\ Stored <= calls /\ OnTheWay \in Nat /\ OnTheWay <= calls
         /\ Len(ev) \in Nat /\ Len(in) \in Nat /\ Len(host) \in Nat /\ Len(out) \in Nat
<1>1. Stored \in Nat /\ calls \in Nat
  BY CountsAreNumbers
<1>2. Len(ev) \in Nat /\ Len(in) \in Nat /\ Len(host) \in Nat /\ Len(out) \in Nat
  BY DEF TypeOK
<1> QED
  BY <1>1, <1>2 DEF InLine, OnTheWay, OutAt, HostAt, InAt

\* A call begins.
LEMMA AloneCall ==
  ASSUME IInv, NEW w \in Waiters, Alone(w), NEW t \in Threads, Call(t)
  PROVE  Alone(w)'
<1> SUFFICES ASSUME Solo(w)'
             PROVE  msg'[w] = calls' /\ InLine' /\ AllSent(w)' /\ LagInv(w)' /\ LagOf(w)'
  BY DEF Alone
<1>1. calls \in Nat /\ Stored \in Nat /\ Cuts \in Nat
  BY CountsAreNumbers DEF IInv
<1>2. t = w
  BY <1>1 DEF Call, IInv, TypeOK, Solo
<1>3. Solo(w)
  BY <1>2 DEF Call, IInv, TypeOK, Solo
<1>4. /\ calls' = calls + 1 /\ msg'[w] = calls' /\ pc'[w] = "lock" /\ pc[w] = "idle"
      /\ UNCHANGED <<result, lockVars, netVars, histVars>>
  BY <1>2 DEF Call, IInv, TypeOK, Threads
<1>5. Stored' = Stored /\ Cuts' = Cuts
  BY <1>4 DEF Stored, Cuts, histVars
<1>6. InLine /\ AllSent(w) /\ LagInv(w) /\ OnTheWay \in Nat
  BY <1>3, LineNumbers DEF Alone, IInv
<1>7. InAt' = InAt /\ HostAt' = HostAt /\ OutAt' = OutAt /\ OnTheWay' = OnTheWay
  BY <1>4, <1>5 DEF InAt, HostAt, OutAt, OnTheWay, netVars
<1>8. InLine' /\ AllSent(w)'
  BY <1>1, <1>4, <1>5, <1>6, <1>7 DEF InLine, AllSent, netVars, histVars
<1>9. LagInv(w)'
  BY <1>1, <1>4, <1>5, <1>6 DEF LagInv, Behind, netVars, lockVars, histVars
<1>10. LagOf(w)'
  BY <1>4 DEF LagOf
<1> QED
  BY <1>4, <1>8, <1>9, <1>10

\* A message is put on its way: it is the next one.
LEMMA AloneSend ==
  ASSUME IInv, NEW w \in Waiters, Alone(w), NEW t \in Threads, Put(t),
         SendLocked(t) \/ SendOnly(t)
  PROVE  Alone(w)'
<1> SUFFICES ASSUME Solo(w)'
             PROVE  msg'[w] = calls' /\ InLine' /\ AllSent(w)' /\ LagInv(w)' /\ LagOf(w)'
  BY DEF Alone
<1>1. Solo(w)
  BY DEF SendLocked, SendOnly, Solo
<1>2. t = w
  BY <1>1, ActorIsAlone DEF Put
<1>3. SendLocked(w)
  BY <1>2, ThreadsAssumption DEF SendOnly
<1>4. /\ pc[w] = "send" /\ pc'[w] = "sent" /\ up
      /\ out' = Append(out, msg[w])
      /\ UNCHANGED <<msg, result, calls, lockVars, in, ev, host, up, answered, gaveUp>>
  BY <1>3 DEF SendLocked, Put, IInv, TypeOK, Threads
<1>5. Stored' = Stored /\ Cuts' = Cuts /\ calls \in Nat /\ Cuts \in Nat
  BY <1>4, CountsAreNumbers DEF Stored, Cuts, IInv
<1>6. InLine /\ AllSent(w) /\ LagInv(w) /\ msg[w] = calls
  BY <1>1 DEF Alone
<1>7. /\ Stored \in Nat /\ OnTheWay = calls - 1 /\ OutAt \in Nat
      /\ Len(ev) \in Nat /\ Len(in) \in Nat /\ Len(host) \in Nat /\ Len(out) \in Nat
  BY <1>4, <1>6, LineNumbers DEF AllSent, OutAt, HostAt, InAt, IInv
<1>8. /\ Len(out') = Len(out) + 1 /\ out'[Len(out) + 1] = calls
      /\ \A k \in 1..Len(out) : out'[k] = out[k]
  BY <1>4, <1>6, AppendProperties DEF IInv, TypeOK
<1>9. InAt' = InAt /\ HostAt' = HostAt /\ OutAt' = OutAt /\ OnTheWay' = calls
  <2>1. InAt' = InAt /\ HostAt' = HostAt /\ OutAt' = OutAt
    BY <1>4, <1>5 DEF InAt, HostAt, OutAt
  <2> QED
    BY <1>5, <1>7, <1>8, <2>1 DEF OnTheWay
<1>10. InLine' /\ AllSent(w)'
  <2>1. \A k \in 1..Len(out') : out'[k] = OutAt + k
    <3>1. \A k \in 1..Len(out) : out[k] = OutAt + k
      BY <1>6 DEF InLine
    <3>2. calls = OutAt + (Len(out) + 1)
      BY <1>5, <1>7 DEF OnTheWay
    <3>3. \A k \in 1..Len(out') : k \in 1..Len(out) \/ k = Len(out) + 1
      BY <1>7, <1>8
    <3>4. \A k \in 1..Len(out) : out'[k] = OutAt + k
      BY <1>8, <3>1
    <3>5. out'[Len(out) + 1] = OutAt + (Len(out) + 1)
      BY <1>8, <3>2
    <3> QED
      BY <3>3, <3>4, <3>5
  <2> QED
    BY <1>4, <1>5, <1>6, <1>9, <2>1 DEF InLine, AllSent
<1>11. LagInv(w)'
  BY <1>4, <1>5, <1>6, <1>7 DEF LagInv, Behind, lockVars
<1>12. LagOf(w)'
  BY <1>4 DEF LagOf
<1> QED
  BY <1>4, <1>6, <1>10, <1>11, <1>12

\* A step that moves nothing on its way and makes no call.
LEMMA AloneMoves ==
  ASSUME IInv, NEW w \in Waiters, Alone(w), UNCHANGED <<msg, calls, netVars, answered>>,
         up => (pc'[w] \in {"lock", "send"} <=> pc[w] \in {"lock", "send"}),
         LagInv(w) /\ InLine => LagInv(w)',
         LagInv(w) /\ InLine /\ LagOf(w) => LagOf(w)'
  PROVE  Alone(w)'
<1>1. Stored' = Stored /\ (Solo(w)' <=> Solo(w))
  BY DEF Stored, Solo
<1>2. (InLine' <=> InLine) /\ (AllSent(w) => AllSent(w)')
  BY <1>1 DEF InLine, AllSent, OnTheWay, OutAt, HostAt, InAt, netVars
<1> QED
  BY <1>1, <1>2 DEF Alone

\* The steps of a caller between its call and its return, but for the send.
LEMMA AloneCaller ==
  ASSUME IInv, NEW w \in Waiters, Alone(w), NEW t \in Threads,
         \/ SendFails(t)
         \/ t \in Waiters /\ \/ Lock(t) \/ StartWait(t) \/ Wake(t) \/ WakeSpuriously(t)
                             \/ Timeout(t) \/ Relock(t) \/ Return(t)
  PROVE  Alone(w)'
<1> SUFFICES ASSUME Solo(w) PROVE Alone(w)'
  BY DEF Alone, SendFails, Lock, StartWait, Wake, WakeSpuriously, Timeout, Relock,
     Return, Solo
<1>1. t = w
  BY ActorIsAlone DEF SendFails, Lock, StartWait, Wake, WakeSpuriously, Timeout, Relock,
     Return
<1>2. /\ calls \in Nat /\ Stored \in Nat /\ Cuts \in Nat /\ msg[w] = calls
      /\ w \in Threads /\ (answered' = answered => Stored' = Stored)
      /\ (gaveUp' = gaveUp => Cuts' = Cuts)
  BY CountsAreNumbers DEF IInv, Alone, Threads, Stored, Cuts
<1> USE DEF IInv, TypeOK, LagInv, Behind, LagOf
<1>3. CASE Lock(w)
  BY <1>2, <1>3, AloneMoves DEF Lock, netVars, histVars
<1>4. CASE SendFails(w)
  BY <1>2, <1>4, AloneMoves DEF SendFails, netVars, histVars
<1>5. CASE StartWait(w)
  BY <1>2, <1>5, AloneMoves DEF StartWait, AfterSend, netVars, histVars
<1>6. CASE Wake(w)
  BY <1>2, <1>6, AloneMoves DEF Wake, lockVars, netVars, histVars
<1>7. CASE WakeSpuriously(w)
  <2>1. LagInv(w) => Cuts' = Cuts + 1
    BY <1>2, <1>7, OneMoreCut DEF WakeSpuriously
  <2>2. LagInv(w) => LagInv(w)'
    <3>1. pc'[w] = "woken"
      BY <1>7, <1>2 DEF WakeSpuriously
    <3>2. LagInv(w) => gaveUp' \subseteq 1..calls'
      <4>1. calls >= 1
        BY <1>2, <1>7 DEF WakeSpuriously, NameInv
      <4> QED
        BY <1>2, <1>7, <4>1 DEF WakeSpuriously
    <3> QED
      BY <1>2, <1>7, <2>1, <3>1, <3>2 DEF WakeSpuriously, lockVars, netVars
  <2> QED
    BY <1>2, <1>7, <2>2, AloneMoves DEF WakeSpuriously, netVars
<1>8. CASE Timeout(w)
  BY <1>2, <1>8, AloneMoves DEF Timeout, lockVars, netVars, histVars
<1>9. CASE Relock(w)
  <2>1. CASE pc[w] = "expired"
    <3>1. LagInv(w) => Cuts' = Cuts + 1
      BY <1>2, <1>9, <2>1, OneMoreCut DEF Relock
    <3>2. LagInv(w) => LagInv(w)'
      <4>1. pc'[w] = "return" /\ m_iWrittenSamples' = 0
        BY <1>9, <1>2, <2>1 DEF Relock
      <4>2. LagInv(w) => gaveUp' \subseteq 1..calls'
        <5>1. calls >= 1
          BY <1>2, <1>9, <2>1 DEF NameInv
        <5> QED
          BY <1>2, <1>9, <2>1, <5>1 DEF Relock
      <4> QED
        BY <1>2, <1>9, <2>1, <3>1, <4>1, <4>2 DEF Relock, netVars
    <3> QED
      BY <1>2, <1>9, <2>1, <3>2, AloneMoves DEF Relock, netVars
  <2>2. CASE pc[w] = "woken"
    BY <1>2, <1>9, <2>2, AloneMoves DEF Relock, netVars
  <2> QED
    BY <1>9, <2>1, <2>2 DEF Relock
<1>10. CASE Return(w)
  <2>1. InLine => Stored <= calls
    BY LineNumbers
  <2> QED
    BY <1>2, <1>10, <2>1, AloneMoves DEF Return, lockVars, netVars, histVars
<1> QED
  BY <1>1, <1>3, <1>4, <1>5, <1>6, <1>7, <1>8, <1>9, <1>10

\* A sequence that is not empty and holds no more than one element.
LEMMA OneElement ==
  ASSUME NEW S, NEW s \in Seq(S), s # <<>>, Len(s) <= 1
  PROVE  Len(s) = 1 /\ s[1] \in S
  OBVIOUS

\* The event thread, the other end and the end of the connection: what is on its way
\* moves on in order, and an answer that is stored lets a waiting call go.
LEMMA AloneNetwork ==
  ASSUME IInv, NEW w \in Waiters, Alone(w),
         Receive \/ StoreAndNotify \/ HostRead \/ HostAnswer \/ Break
  PROVE  Alone(w)'
<1>1. UNCHANGED <<pc, msg, result, calls, gaveUp>>
  BY DEF Receive, StoreAndNotify, HostRead, HostAnswer, Break, callVars, histVars
<1> SUFFICES ASSUME Solo(w)
             PROVE  InLine' /\ AllSent(w)' /\ LagInv(w)' /\ LagOf(w)'
  BY <1>1 DEF Alone, Solo
<1>2. /\ msg[w] = calls /\ InLine /\ AllSent(w) /\ LagInv(w) /\ LagOf(w)
      /\ Cuts' = Cuts /\ Cuts \in Nat /\ calls \in Nat /\ TypeOK
  BY <1>1, CountsAreNumbers DEF Alone, Cuts, IInv
<1>3. /\ Stored \in Nat /\ Stored <= calls
      /\ Len(ev) \in Nat /\ Len(in) \in Nat /\ Len(host) \in Nat /\ Len(out) \in Nat
  BY <1>2, LineNumbers
<1>4. LagOf(w)'
  BY <1>1, <1>2 DEF LagOf
<1>5. /\ \A k \in 1..Len(ev) : ev[k].to = Stored + k /\ ev[k].written \in {0, ev[k].to}
      /\ \A k \in 1..Len(in) : in[k].to = InAt + k /\ in[k].written \in {0, in[k].to}
      /\ \A k \in 1..Len(host) : host[k] = HostAt + k
      /\ \A k \in 1..Len(out) : out[k] = OutAt + k
      /\ OnTheWay <= calls /\ answered = 1..Stored
  BY <1>2 DEF InLine
<1>6. ASSUME answered' = answered, UNCHANGED <<m_iWrittenSamples, m_WrittenCondition>>,
             up' => up
      PROVE  Stored' = Stored /\ LagInv(w)'
  <2>1. Stored' = Stored
    BY <1>6 DEF Stored
  <2> QED
    BY <1>1, <1>2, <1>6, <2>1 DEF LagInv, Behind
<1>7. CASE Receive
  <2>1. ev = <<>> /\ ev' = <<in[1]>> /\ in' = Tail(in) /\ Len(in) >= 1
        /\ UNCHANGED <<lockVars, out, host, up, answered>>
    BY <1>2, <1>7 DEF Receive, Busy, histVars, TypeOK
  <2>2. /\ Len(in') = Len(in) - 1 /\ \A k \in 1..Len(in') : in'[k] = in[k + 1]
        /\ Len(ev') = 1 /\ ev'[1] = in[1] /\ Len(ev) = 0
    BY <1>2, <2>1, HeadTailProperties DEF TypeOK
  <2>3. Stored' = Stored /\ LagInv(w)'
    BY <1>6, <2>1 DEF lockVars
  <2>4. InAt' = InAt + 1 /\ HostAt' = HostAt /\ OutAt' = OutAt /\ OnTheWay' = OnTheWay
    <3>1. InAt' = InAt + 1 /\ InAt = Stored
      BY <1>3, <2>2, <2>3 DEF InAt
    <3>2. HostAt' = HostAt
      BY <1>3, <2>2, <3>1 DEF HostAt
    <3>3. OutAt' = OutAt
      BY <2>1, <3>2 DEF OutAt
    <3> QED
      BY <2>1, <3>1, <3>2, <3>3 DEF OnTheWay
  <2>5. InAt = Stored /\ ev'[1].to = Stored + 1 /\ ev'[1].written \in {0, ev'[1].to}
    BY <1>3, <1>5, <2>1, <2>2 DEF InAt
  <2>6. InLine'
    BY <1>1, <1>3, <1>5, <2>1, <2>2, <2>3, <2>4, <2>5 DEF InLine
  <2> QED
    BY <1>1, <1>2, <1>4, <2>1, <2>3, <2>4, <2>6 DEF AllSent
<1>8. CASE StoreAndNotify
  <2>1. /\ ev # <<>> /\ ev' = <<>> /\ m_iWrittenSamples' = ev[1].written
        /\ answered' = answered \cup {ev[1].to}
        /\ m_WrittenCondition' = {v \in Waiters : pc[v] = "waiting"}
        /\ UNCHANGED <<out, in, host, up>>
    BY <1>8 DEF StoreAndNotify
  <2>2. Len(ev) = 1 /\ Len(ev') = 0
    <3>1. ev \in Seq(Responses) /\ Len(ev) <= 1
      BY <1>2 DEF TypeOK
    <3>2. Len(ev) = 1 /\ ev[1] \in Responses
      BY <2>1, <3>1, OneElement
    <3>3. Len(ev') = 0
      BY <2>1
    <3> QED
      BY <3>2, <3>3
  <2>3. ev[1].to = Stored + 1 /\ ev[1].written \in {0, Stored + 1}
    BY <1>5, <2>2
  <2>4. answered' = 1..Stored' /\ Stored' = Stored + 1
    BY <1>2, <1>5, <2>1, <2>3, OneMoreStored
  <2>5. InAt' = InAt /\ HostAt' = HostAt /\ OutAt' = OutAt /\ OnTheWay' = OnTheWay
    BY <1>3, <2>1, <2>2, <2>4 DEF InAt, HostAt, OutAt, OnTheWay
  <2>6. InLine'
    BY <1>1, <1>3, <1>5, <2>1, <2>2, <2>4, <2>5 DEF InLine
  <2>7. Behind(w)' = Behind(w) - 1 /\ Behind(w) \in Int
    BY <1>1, <1>2, <1>3, <2>4 DEF Behind
  <2>8. LagInv(w)'
    BY <1>1, <1>2, <2>1, <2>3, <2>4, <2>7 DEF LagInv
  <2> QED
    BY <1>1, <1>2, <1>4, <2>1, <2>5, <2>6, <2>8 DEF AllSent
<1>9. CASE HostRead
  <2>1. host = <<>> /\ host' = <<out[1]>> /\ out' = Tail(out) /\ Len(out) >= 1
        /\ UNCHANGED <<lockVars, ev, in, up, answered>>
    BY <1>2, <1>9 DEF HostRead, histVars, TypeOK
  <2>2. /\ Len(out') = Len(out) - 1 /\ \A k \in 1..Len(out') : out'[k] = out[k + 1]
        /\ Len(host') = 1 /\ host'[1] = out[1] /\ Len(host) = 0
    BY <1>2, <2>1, HeadTailProperties DEF TypeOK
  <2>3. Stored' = Stored /\ LagInv(w)'
    BY <1>6, <2>1 DEF lockVars
  <2>4. /\ InAt' = InAt /\ HostAt' = HostAt /\ OutAt' = OutAt + 1
        /\ OnTheWay' = OnTheWay /\ OutAt = HostAt
    <3>1. InAt' = InAt /\ HostAt' = HostAt
      BY <2>1, <2>3 DEF InAt, HostAt
    <3>2. OutAt' = HostAt + 1 /\ OutAt = HostAt /\ HostAt \in Nat
      BY <1>3, <2>2, <3>1 DEF InAt, HostAt, OutAt
    <3>3. OnTheWay' = OutAt' + (Len(out) - 1) /\ OnTheWay = OutAt + Len(out)
      BY <2>2 DEF OnTheWay
    <3> QED
      BY <1>3, <3>1, <3>2, <3>3
  <2>5. HostAt \in Nat /\ host'[1] = HostAt + 1
    <3>1. HostAt \in Nat
      BY <1>3 DEF InAt, HostAt
    <3>2. out[1] = OutAt + 1
      BY <1>5, <2>1
    <3> QED
      BY <2>2, <2>4, <3>1, <3>2
  <2>6. InLine'
    <3>1. /\ \A k \in 1..Len(ev') : ev'[k].to = Stored' + k
                                  /\ ev'[k].written \in {0, ev'[k].to}
          /\ \A k \in 1..Len(in') : in'[k].to = InAt' + k
                                  /\ in'[k].written \in {0, in'[k].to}
      BY <1>5, <2>1, <2>3, <2>4
    <3>2. \A k \in 1..Len(host') : host'[k] = HostAt' + k
      BY <2>2, <2>4, <2>5
    <3>3. \A k \in 1..Len(out') : out'[k] = OutAt' + k
      <4>1. ASSUME NEW k \in 1..Len(out') PROVE out[k + 1] = OutAt + (k + 1)
        BY <1>3, <1>5, <2>2
      <4>2. OutAt \in Nat
        BY <2>4, <2>5
      <4> QED
        BY <2>2, <2>4, <4>1, <4>2
    <3>4. OnTheWay' <= calls' /\ answered' = 1..Stored'
      BY <1>1, <1>5, <2>1, <2>3, <2>4
    <3> QED
      BY <3>1, <3>2, <3>3, <3>4 DEF InLine
  <2> QED
    BY <1>1, <1>2, <1>4, <2>1, <2>3, <2>4, <2>6 DEF AllSent
<1>10. CASE HostAnswer
  <2>1. PICK n \in {0, host[1]} : in' = Append(in, [to |-> host[1], written |-> n])
    BY <1>10 DEF HostAnswer
  <2>2. host # <<>> /\ host' = <<>> /\ UNCHANGED <<lockVars, ev, out, up, answered>>
    BY <1>10 DEF HostAnswer, histVars
  <2>3. Len(host) = 1 /\ Len(host') = 0 /\ host[1] \in Messages
    <3>1. host \in Seq(Messages) /\ Len(host) <= 1
      BY <1>2 DEF TypeOK
    <3>2. Len(host) = 1 /\ host[1] \in Messages
      BY <2>2, <3>1, OneElement
    <3>3. Len(host') = 0
      BY <2>2
    <3> QED
      BY <3>2, <3>3
  <2>4. /\ Len(in') = Len(in) + 1
        /\ in'[Len(in) + 1] = [to |-> host[1], written |-> n]
        /\ \A k \in 1..Len(in) : in'[k] = in[k]
    <3>1. [to |-> host[1], written |-> n] \in Responses
      BY <2>1, <2>3, BoundAssumption DEF Responses, Messages, Counts
    <3> QED
      BY <1>2, <2>1, <3>1, AppendProperties DEF TypeOK
  <2>5. Stored' = Stored /\ LagInv(w)'
    BY <1>6, <2>2 DEF lockVars
  <2>6. /\ InAt' = InAt /\ HostAt' = HostAt + 1 /\ OutAt' = OutAt
        /\ OnTheWay' = OnTheWay /\ HostAt = InAt + Len(in)
    <3>1. InAt' = InAt /\ HostAt = InAt + Len(in) /\ InAt \in Nat
      BY <1>3, <2>2, <2>5 DEF InAt, HostAt
    <3>2. HostAt' = HostAt + 1
      BY <1>3, <2>4, <3>1 DEF HostAt
    <3>3. OutAt' = OutAt
      BY <1>3, <2>3, <3>1, <3>2 DEF OutAt
    <3> QED
      BY <2>2, <3>1, <3>2, <3>3 DEF OnTheWay
  <2>7. \A k \in 1..Len(in') : in'[k].to = InAt + k /\ in'[k].written \in {0, in'[k].to}
    <3>1. host[1] = InAt + (Len(in) + 1)
      BY <1>3, <1>5, <2>3, <2>6 DEF InAt
    <3> QED
      BY <1>3, <1>5, <2>1, <2>4, <3>1
  <2>8. InLine'
    BY <1>1, <1>3, <1>5, <2>2, <2>3, <2>5, <2>6, <2>7 DEF InLine
  <2> QED
    BY <1>1, <1>2, <1>4, <2>2, <2>5, <2>6, <2>8 DEF AllSent
<1>11. CASE Break
  <2>1. ~up' /\ out' = <<>> /\ host' = <<>> /\ UNCHANGED <<lockVars, in, ev, answered>>
    BY <1>11 DEF Break, histVars
  <2>2. Stored' = Stored /\ LagInv(w)'
    BY <1>6, <2>1 DEF lockVars
  <2>3. InLine'
    <3>1. InAt' = InAt /\ HostAt' = HostAt /\ OnTheWay' = HostAt /\ HostAt <= OnTheWay
      BY <1>3, <2>1, <2>2 DEF InAt, HostAt, OutAt, OnTheWay
    <3>2. HostAt \in Nat /\ OnTheWay \in Nat
      BY <1>3 DEF InAt, HostAt, OutAt, OnTheWay
    <3> QED
      BY <1>1, <1>2, <1>3, <1>5, <2>1, <2>2, <3>1, <3>2 DEF InLine
  <2> QED
    BY <1>4, <2>1, <2>2, <2>3 DEF AllSent
<1> QED
  BY <1>7, <1>8, <1>9, <1>10, <1>11

\* Every step keeps it.
LEMMA AloneStep == IInv /\ AloneInv /\ [Next]_vars => AloneInv'
<1> SUFFICES ASSUME IInv, AloneInv, [Next]_vars, NEW w \in Waiters PROVE Alone(w)'
  BY DEF AloneInv
<1>1. Alone(w)
  BY DEF AloneInv
<1>2. ASSUME NEW t \in Threads, Call(t) PROVE Alone(w)'
  BY <1>1, <1>2, AloneCall
<1>3. ASSUME NEW t \in Threads, SendLocked(t) \/ SendOnly(t) PROVE Alone(w)'
  <2>1. Put(t)
    BY <1>3 DEF SendLocked, SendOnly
  <2> QED
    BY <1>1, <1>3, <2>1, AloneSend
<1>4. ASSUME NEW t \in Threads,
             \/ SendFails(t)
             \/ t \in Waiters /\ \/ Lock(t) \/ StartWait(t) \/ Wake(t)
                                 \/ WakeSpuriously(t) \/ Timeout(t) \/ Relock(t)
                                 \/ Return(t)
      PROVE  Alone(w)'
  BY <1>1, <1>4, AloneCaller
<1>5. CASE Receive \/ StoreAndNotify \/ HostRead \/ HostAnswer \/ Break
  BY <1>1, <1>5, AloneNetwork
<1>6. CASE UNCHANGED vars
  BY <1>1, <1>6, AloneKept DEF vars, callVars, lockVars, histVars
<1> QED
  BY <1>2, <1>3, <1>4, <1>5, <1>6 DEF Next, Finished, Threads

\* A thread that makes all the calls gets a count that is behind its own data by at
\* most one message for each wait that was cut short, and never one that is ahead,
\* for any number of calls and any delays of the answers.
THEOREM LagIsCutWaitsHolds == Spec => []LagIsCutWaits
<1>1. IInv /\ AloneInv => LagIsCutWaits
  <2> SUFFICES ASSUME IInv, AloneInv, NEW w \in Waiters,
                      pc[w] = "idle", result[w] > 0, Solo(w)
               PROVE  msg[w] - result[w] \in 0..Cardinality(gaveUp)
    BY DEF LagIsCutWaits, Solo
  <2> QED
    BY DEF AloneInv, Alone, LagOf, Cuts
<1>2. Spec => []AloneInv
  BY AloneInit, AloneStep, Invariance, PTL DEF Spec
<1> QED
  BY <1>1, <1>2, Invariance, PTL
=============================================================================
