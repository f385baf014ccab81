------------------------------ MODULE AudioWrite ------------------------------
(***************************************************************************)
(* SocketCommon::writeAudioData and the half of                            *)
(* SocketCommon::processMessage that answers it (nativesocket).            *)
(*                                                                         *)
(* A plug-in's threads push AUDIO_DATA messages.  A Waiter passes          *)
(* wait_for_response = true: it takes m_WrittenMutex, sends while holding  *)
(* it, and waits at most 500 ms on m_WrittenCondition, once and without a  *)
(* predicate.  A Sender passes false and never touches the mutex.  The     *)
(* socket's event thread receives the AUDIO_RESPONSE messages, stores the  *)
(* count in m_iWrittenSamples under the mutex and notifies.  The other     *)
(* end reads one message at a time and answers it (from the README: all    *)
(* the bytes, or zero when its buffers are full).                          *)
(*                                                                         *)
(* An AUDIO_DATA message is the number of the call that sent it; a count   *)
(* of written samples is 0 or the number of the message it counts, so that *)
(* a count can be traced to the data it is about.                          *)
(***************************************************************************)
EXTENDS Integers, Sequences, FiniteSets

CONSTANTS Waiters,      \* threads calling writeAudioData(data, len, true)
          Senders,      \* threads calling writeAudioData(data, len, false)
          OutCap,       \* messages the kernel buffers towards the host
          InCap,        \* messages the kernel buffers from the host
          MaxCalls,     \* bound: calls of writeAudioData
          CanWakeSpuriously \* whether a wait may end with no notification

Threads == Waiters \cup Senders
NoThread == "none"

ASSUME ThreadsAssumption == /\ Waiters \cap Senders = {}
                            /\ NoThread \notin Threads
ASSUME CapAssumption == OutCap \in Nat \ {0} /\ InCap \in Nat \ {0}
ASSUME BoundAssumption == MaxCalls \in Nat
ASSUME SwitchAssumption == CanWakeSpuriously \in BOOLEAN

VARIABLES
  pc,                 \* where each thread is in writeAudioData
  msg,                \* the message of each thread's current or last call
  result,             \* what each thread's last call returned
  calls,              \* calls made so far; names the messages
  m_WrittenMutex,     \* the thread inside the mutex
  m_iWrittenSamples,  \* the count of the last AUDIO_RESPONSE, or 0
  m_WrittenCondition, \* the waiting threads that have been notified
  out,                \* AUDIO_DATA messages in the kernel
  in,                 \* AUDIO_RESPONSE messages in the kernel
  ev,                 \* the response the event thread holds, as <<r>>, or <<>>
  host,               \* the message the other end handles, as <<m>>, or <<>>
  up,                 \* the connection is open
  sent,               \* history: the messages sent
  answered,           \* history: the messages whose response was stored
  gaveUp              \* history: the messages whose wait was cut short

callVars == <<pc, msg, result, calls>>
lockVars == <<m_WrittenMutex, m_iWrittenSamples, m_WrittenCondition>>
netVars == <<out, in, ev, host, up>>
histVars == <<sent, answered, gaveUp>>
vars == <<callVars, lockVars, netVars, histVars>>

Messages == 1..MaxCalls
Counts == 0..MaxCalls
Responses == [to: Messages, written: Counts]

Init ==
  /\ pc = [t \in Threads |-> "idle"]
  /\ msg = [t \in Threads |-> 0]
  /\ result = [t \in Threads |-> 0]
  /\ calls = 0
  /\ m_WrittenMutex = NoThread
  /\ m_iWrittenSamples = 0
  /\ m_WrittenCondition = {}
  /\ out = <<>> /\ in = <<>> /\ ev = <<>> /\ host = <<>>
  /\ up = TRUE
  /\ sent = {} /\ answered = {} /\ gaveUp = {}

-----------------------------------------------------------------------------
(* writeAudioData: the caller's threads. *)

\* Enter writeAudioData and build the message.
Call(t) ==
  /\ pc[t] = "idle"
  /\ calls < MaxCalls
  /\ calls' = calls + 1
  /\ msg' = [msg EXCEPT ![t] = calls + 1]
  /\ pc' = [pc EXCEPT ![t] = IF t \in Waiters THEN "lock" ELSE "send"]
  /\ UNCHANGED <<result, lockVars, netVars, histVars>>

\* std::unique_lock lock(m_WrittenMutex), before the message is sent.
Lock(w) ==
  /\ pc[w] = "lock"
  /\ m_WrittenMutex = NoThread
  /\ m_WrittenMutex' = w
  /\ pc' = [pc EXCEPT ![w] = "send"]
  /\ UNCHANGED <<msg, result, calls, m_iWrittenSamples, m_WrittenCondition,
                 netVars, histVars>>

\* writeProtoBufMessage puts the whole message in the kernel.
Put(t) ==
  /\ pc[t] = "send"
  /\ up
  /\ Len(out) < OutCap
  /\ out' = Append(out, msg[t])
  /\ sent' = sent \cup {msg[t]}

\* The send of a waiter; the mutex stays locked.
SendLocked(w) ==
  /\ w \in Waiters
  /\ Put(w)
  /\ pc' = [pc EXCEPT ![w] = "sent"]
  /\ UNCHANGED <<msg, result, calls, lockVars, in, ev, host, up,
                 answered, gaveUp>>

\* Mutant of AfterSend: a count that is already there ends the wait at once.
AfterSendIfZero == IF m_iWrittenSamples > 0 THEN "woken" ELSE "waiting"

\* Where a thread is after its send: wait_until has no predicate, it waits.
AfterSend == "waiting"

\* wait_until: the thread waits and lets the mutex go in one step.
StartWait(w) ==
  /\ pc[w] = "sent"
  /\ pc' = [pc EXCEPT ![w] = AfterSend]
  /\ m_WrittenMutex' = NoThread
  /\ m_WrittenCondition' = m_WrittenCondition \ {w}
  /\ UNCHANGED <<msg, result, calls, m_iWrittenSamples, netVars, histVars>>

\* The send of a caller that does not wait: it returns len.
SendOnly(s) ==
  /\ s \in Senders
  /\ Put(s)
  /\ pc' = [pc EXCEPT ![s] = "idle"]
  /\ result' = [result EXCEPT ![s] = msg[s]]
  /\ UNCHANGED <<msg, calls, lockVars, in, ev, host, up,
                 answered, gaveUp>>

\* writeToSocket fails: -1, and leaving the scope unlocks the mutex.
SendFails(t) ==
  /\ pc[t] = "send"
  /\ ~up
  /\ pc' = [pc EXCEPT ![t] = "idle"]
  /\ result' = [result EXCEPT ![t] = -1]
  /\ m_WrittenMutex' = IF t \in Waiters THEN NoThread ELSE m_WrittenMutex
  /\ UNCHANGED <<msg, calls, m_iWrittenSamples, m_WrittenCondition,
                 netVars, histVars>>

\* wait_until ends because of notify_all.
Wake(w) ==
  /\ pc[w] = "waiting"
  /\ w \in m_WrittenCondition
  /\ pc' = [pc EXCEPT ![w] = "woken"]
  /\ UNCHANGED <<msg, result, calls, lockVars, netVars, histVars>>

\* wait_until ends for no reason.
WakeSpuriously(w) ==
  /\ pc[w] = "waiting"
  /\ CanWakeSpuriously
  /\ pc' = [pc EXCEPT ![w] = "woken"]
  /\ gaveUp' = gaveUp \cup {msg[w]}
  /\ UNCHANGED <<msg, result, calls, lockVars, netVars, sent, answered>>

\* Mutant of Deadline: wait instead of wait_until.
NoDeadline == FALSE

\* now + std::chrono::milliseconds(500)
Deadline == TRUE

\* The deadline passes first.
Timeout(w) ==
  /\ pc[w] = "waiting"
  /\ Deadline
  /\ pc' = [pc EXCEPT ![w] = "expired"]
  /\ UNCHANGED <<msg, result, calls, lockVars, netVars, histVars>>

\* wait_until takes the mutex again; a timeout resets the count; the scope
\* ends and the mutex is free.
Relock(w) ==
  /\ pc[w] \in {"woken", "expired"}
  /\ m_WrittenMutex = NoThread
  /\ m_iWrittenSamples' = IF pc[w] = "expired" THEN 0 ELSE m_iWrittenSamples
  /\ gaveUp' = IF pc[w] = "expired" THEN gaveUp \cup {msg[w]} ELSE gaveUp
  /\ pc' = [pc EXCEPT ![w] = "return"]
  /\ m_WrittenCondition' = m_WrittenCondition \ {w}
  /\ UNCHANGED <<msg, result, calls, m_WrittenMutex, netVars, sent, answered>>

\* return m_iWrittenSamples, read after the mutex was let go.
Return(w) ==
  /\ pc[w] = "return"
  /\ result' = [result EXCEPT ![w] = m_iWrittenSamples]
  /\ pc' = [pc EXCEPT ![w] = "idle"]
  /\ UNCHANGED <<msg, calls, lockVars, netVars, histVars>>

-----------------------------------------------------------------------------
(* The event thread and the other end. *)

\* Mutant of Busy: the event thread reads on while it holds a response.
NeverBusy == FALSE

\* The event thread is one thread: it handles a message before it reads on.
Busy == ev # <<>>

\* processEvents has read an AUDIO_RESPONSE and processMessage parses it.
Receive ==
  /\ ~Busy
  /\ in # <<>>
  /\ ev' = Append(ev, Head(in))
  /\ in' = Tail(in)
  /\ UNCHANGED <<callVars, lockVars, out, host, up, histVars>>

\* Mutant of StoreLock: the count is stored without the mutex.
StoreUnlocked == TRUE

\* std::unique_lock lock(m_WrittenMutex) of the event thread.
StoreLock == m_WrittenMutex = NoThread

\* Under the mutex: m_iWrittenSamples = message.written(), notify_all().
StoreAndNotify ==
  /\ ev # <<>>
  /\ StoreLock
  /\ m_iWrittenSamples' = ev[1].written
  /\ m_WrittenCondition' = {w \in Waiters : pc[w] = "waiting"}
  /\ answered' = answered \cup {ev[1].to}
  /\ ev' = <<>>
  /\ UNCHANGED <<callVars, m_WrittenMutex, out, in, host, up, sent, gaveUp>>

HostRead ==
  /\ host = <<>>
  /\ out # <<>>
  /\ host' = <<Head(out)>>
  /\ out' = Tail(out)
  /\ UNCHANGED <<callVars, lockVars, in, ev, up, histVars>>

\* writeAudioResponse: blocks while the kernel's buffer is full.
HostAnswer ==
  /\ host # <<>>
  /\ up
  /\ Len(in) < InCap
  /\ \E n \in {0, host[1]} : in' = Append(in, [to |-> host[1], written |-> n])
  /\ host' = <<>>
  /\ UNCHANGED <<callVars, lockVars, out, ev, up, histVars>>

\* The other end goes away: what it has not read is lost, what it has sent
\* can still be received.
Break ==
  /\ up
  /\ up' = FALSE
  /\ out' = <<>>
  /\ host' = <<>>
  /\ UNCHANGED <<callVars, lockVars, in, ev, histVars>>

\* The calls of the bound are over and everything is at rest.
Finished ==
  /\ calls = MaxCalls
  /\ \A t \in Threads : pc[t] = "idle"
  /\ out = <<>> /\ in = <<>> /\ ev = <<>> /\ host = <<>>
  /\ UNCHANGED vars

-----------------------------------------------------------------------------
Next ==
  \/ \E t \in Threads : Call(t) \/ SendFails(t)
  \/ \E w \in Waiters : \/ Lock(w) \/ SendLocked(w) \/ StartWait(w)
                        \/ Wake(w) \/ WakeSpuriously(w) \/ Timeout(w)
                        \/ Relock(w) \/ Return(w)
  \/ \E s \in Senders : SendOnly(s)
  \/ Receive \/ StoreAndNotify
  \/ HostRead \/ HostAnswer
  \/ Break
  \/ Finished

Spec == Init /\ [][Next]_vars

\* The threads run and time passes; a mutex that keeps being free is not
\* refused to a thread for ever.  Nobody is obliged to call, to wake up
\* spuriously or to break the connection.
Fairness ==
  /\ \A w \in Waiters : /\ SF_vars(Lock(w)) /\ SF_vars(Relock(w))
                        /\ SF_vars(SendLocked(w))
                        /\ WF_vars(StartWait(w))
                        /\ WF_vars(Wake(w)) /\ WF_vars(Timeout(w))
                        /\ WF_vars(Return(w))
  /\ \A s \in Senders : SF_vars(SendOnly(s))
  /\ \A t \in Threads : WF_vars(SendFails(t))
  /\ WF_vars(Receive) /\ SF_vars(StoreAndNotify)
  /\ WF_vars(HostRead) /\ WF_vars(HostAnswer)

FairSpec == Spec /\ Fairness

-----------------------------------------------------------------------------
TypeOK ==
  /\ pc \in [Threads -> {"idle", "lock", "send", "sent", "waiting", "woken",
                         "expired", "return"}]
  /\ msg \in [Threads -> Counts]
  /\ result \in [Threads -> Counts \cup {-1}]
  /\ calls \in Counts
  /\ m_WrittenMutex \in Waiters \cup {NoThread}
  /\ m_iWrittenSamples \in Counts
  /\ m_WrittenCondition \in SUBSET Waiters
  /\ out \in Seq(Messages)
  /\ in \in Seq(Responses)
  /\ ev \in Seq(Responses) /\ Len(ev) <= 1
  /\ host \in Seq(Messages) /\ Len(host) <= 1
  /\ up \in BOOLEAN
  /\ sent \in SUBSET Messages
  /\ answered \in SUBSET Messages
  /\ gaveUp \in SUBSET Messages

\* The comment in writeAudioData: "we lock the mutex first so that we don't
\* miss the notify event".  A thread that still waits un-notified has no
\* answer already stored: however fast the other end and the event thread
\* are, the answer of a waiting call is stored after the wait began.
NoMissedNotify ==
  \A w \in Waiters :
    pc[w] = "waiting" /\ w \notin m_WrittenCondition => msg[w] \notin answered

\* SocketCommon.h: "the method call will wait for the other end to reply the
\* number of samples written, and that value will be returned".  The value a
\* waiting call returned is the other end's count for this very call, zero or
\* an error, never a count for other data.
ReturnsOwnCount ==
  \A w \in Waiters : pc[w] = "idle" => result[w] \in {0, -1, msg[w]}

\* While one thread has made all the calls, only a wait that was cut short (by
\* the deadline, or spuriously) makes later calls return the count of earlier
\* data, each such wait by one message more, and no call returns the count of
\* data yet to be sent.  With no such wait the value is the call's own.
LagIsCutWaits ==
  \A w \in Waiters :
    pc[w] = "idle" /\ result[w] > 0 /\ (\A t \in Threads \ {w} : msg[t] = 0) =>
      msg[w] - result[w] \in 0..Cardinality(gaveUp)

\* "Wait max. about 500 milliseconds for a response": a call with
\* wait_for_response set comes back, whatever becomes of its answer, as long as
\* the kernel has room for the messages under way.
WaitIsBounded ==
  \A w \in Waiters : pc[w] # "idle" ~> pc[w] = "idle"
=============================================================================
