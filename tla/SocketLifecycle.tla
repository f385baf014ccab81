---------------------------- MODULE SocketLifecycle ----------------------------
(***************************************************************************)
(* The life of the native sockets of one process: the constructors,        *)
(* initialize, processEventsThread and the destructors of SocketHost and   *)
(* SocketClient, and the count of their users by which SocketCommon shuts  *)
(* the protobuf library.                                                   *)
(*                                                                         *)
(* Each object has an owner, the thread that makes, initialises, uses and  *)
(* destroys it, and an event thread.  The kernel gives a new file the      *)
(* lowest free descriptor number; a number that is kept after its file was *)
(* closed means whatever was opened next.  A file lives as long as it has  *)
(* a number or a thread is inside a system call on it.  The peers are the  *)
(* other ends of the connections, in other processes.                      *)
(***************************************************************************)
EXTENDS Integers, Sequences, FiniteSets

CONSTANTS Hosts,        \* objects of SocketHost; each has a name of its own
          Clients,      \* objects of SocketClient
          Fds,          \* descriptor numbers
          Backlog,      \* connections listen(m_Server, 2) lets wait
          MaxFiles,     \* bound: sockets opened by anyone
          MaxInits,     \* bound: calls of initialize, of each object
          MaxMessages,  \* bound: messages the peers send
          OneAtATime    \* whether objects are made and destroyed one at a time

Sockets == Hosts \cup Clients

ASSUME SocketsAssumption == Hosts \cap Clients = {} /\ IsFiniteSet(Sockets)
ASSUME FdsAssumption == Fds \subseteq Nat
ASSUME LimitAssumption == /\ Backlog \in Nat
                          /\ MaxFiles \in Nat
                          /\ MaxInits \in [Sockets -> Nat]
                          /\ MaxMessages \in Nat
                          /\ OneAtATime \in BOOLEAN

VARIABLES
  owner,                \* where the owner of each object is
  inits,                \* calls of initialize on it
  failed,               \* history: objects whose last initialize failed late
  m_Server, m_Client,   \* the descriptor members, -1 when there is none
  joinable,             \* objects whose m_EventThread holds a thread
  thread,               \* where the event thread of each object is
  on,                   \* the file it is in accept or recv on
  fds,                  \* the file of each descriptor number, 0 for none
  files,                \* the sockets opened, oldest first
  messages,             \* messages sent by the peers
  gProtobufUsageCount,
  seen,                 \* the count an owner has read and not yet replaced, or 0
  raced,                \* history: two owners were changing the count
  library,              \* whether the protobuf library is "up" or "down"
  misuse                \* history: how files of other objects were touched

objectVars == <<owner, inits, failed, m_Server, m_Client, joinable>>
threadVars == <<thread, on>>
fileVars == <<fds, files, messages>>
countVars == <<gProtobufUsageCount, seen, raced, library>>
vars == <<objectVars, threadVars, fileVars, countVars, misuse>>

OwnerStates == {"none", "counting", "idle", "joining", "shutting", "freeing",
                "discounting", "gone"}
ThreadStates == {"none", "test", "accept", "recv", "process", "close", "reset",
                 "ended", "lost"}
Roles == {"listening", "pending", "stream", "late"}
FileIds == 1..MaxFiles
None == 0

Init ==
  /\ owner = [s \in Sockets |-> "none"]
  /\ inits = [s \in Sockets |-> 0]
  /\ failed = {}
  /\ m_Server = [s \in Sockets |-> -1]
  /\ m_Client = [s \in Sockets |-> -1]
  /\ joinable = {}
  /\ thread = [s \in Sockets |-> "none"]
  /\ on = [s \in Sockets |-> None]
  /\ fds = [n \in Fds |-> None] /\ files = <<>> /\ messages = 0
  /\ gProtobufUsageCount = 0
  /\ seen = [s \in Sockets |-> 0]
  /\ raced = FALSE
  /\ library = "up"
  /\ misuse = {}

-----------------------------------------------------------------------------
(* Descriptors and files. *)

FreeFds == {n \in Fds : fds[n] = None}
LowestFree == CHOOSE n \in FreeFds : \A k \in FreeFds : n <= k

\* The file a number stands for; None for -1 and for a number that is closed.
FileOf(n) == IF n \in Fds THEN fds[n] ELSE None

\* The file is open in the process, or a system call holds it.
Alive(f) == \/ \E n \in Fds : fds[n] = f
            \/ \E s \in Sockets : thread[s] \in {"accept", "recv"} /\ on[s] = f

\* A system call of s on a file that s did not open: with the stale number of a
\* failed initialize, or for no such reason.  Not recorded: that of a writer or a
\* destructor while the event thread has closed m_Client and not reset it.
Touch(s, f) ==
  IF f = None \/ files[f].by = s \/ thread[s] = "reset" THEN {}
  ELSE IF s \in failed THEN {"stale"} ELSE {"foreign"}

NewFile(s, role) ==
  [by |-> s, role |-> role, shut |-> FALSE, peer |-> role # "listening",
   inbox |-> 0, told |-> FALSE]

\* The connections to a host that it has not accepted, and the oldest of them.
Pending(h) == {f \in 1..Len(files) : files[f].by = h /\ files[f].role = "pending"}
Oldest(F) == CHOOSE f \in F : \A g \in F : f <= g

-----------------------------------------------------------------------------
(* The owner: constructor, initialize, write, destructor. *)

\* An owner has read the count and not yet written it back.
Counting == \E t \in Sockets : owner[t] \in {"counting", "discounting"}

\* gProtobufUsageCount++ is a read ...
Construct(s) ==
  /\ owner[s] = "none"
  /\ OneAtATime => ~Counting
  /\ owner' = [owner EXCEPT ![s] = "counting"]
  /\ seen' = [seen EXCEPT ![s] = gProtobufUsageCount]
  /\ raced' = (raced \/ Counting)
  /\ UNCHANGED <<inits, failed, m_Server, m_Client, joinable, threadVars, fileVars,
                 gProtobufUsageCount, library, misuse>>

\* ... and a write.
Counted(s) == seen[s] + 1

ConstructEnds(s) ==
  /\ owner[s] = "counting"
  /\ owner' = [owner EXCEPT ![s] = "idle"]
  /\ gProtobufUsageCount' = Counted(s)
  /\ seen' = [seen EXCEPT ![s] = 0]
  /\ UNCHANGED <<inits, failed, m_Server, m_Client, joinable, threadVars, fileVars,
                 raced, library, misuse>>

\* Mutant of Stopped: initialize only joins.
NotStopped(s) == m_Server[s]

\* What the event thread finds in m_Server after "Ensure we stop previous events".
Stopped(s) == -1

\* initialize, when there is an event thread: it is told to stop and joined.
Initialize(s) ==
  /\ owner[s] = "idle"
  /\ s \in joinable
  /\ inits[s] < MaxInits[s]
  /\ m_Server' = [m_Server EXCEPT ![s] = Stopped(s)]
  /\ owner' = [owner EXCEPT ![s] = "joining"]
  /\ UNCHANGED <<inits, failed, m_Client, joinable, threadVars, fileVars, countVars,
                 misuse>>

\* The rest of initialize, at once or when join has returned.
Opens(s) ==
  /\ \/ owner[s] = "idle" /\ s \notin joinable
     \/ owner[s] = "joining" /\ thread[s] = "ended"
  /\ inits[s] < MaxInits[s]
  /\ inits' = [inits EXCEPT ![s] = @ + 1]
  /\ owner' = [owner EXCEPT ![s] = "idle"]

\* socket() fails: initialize returns false with m_Server = -1.
SocketFails(s) ==
  /\ Opens(s)
  /\ m_Server' = [m_Server EXCEPT ![s] = -1]
  /\ failed' = failed \ {s}
  /\ joinable' = joinable \ {s}
  /\ UNCHANGED <<m_Client, threadVars, fileVars, countVars, misuse>>

\* bind, listen or connect fails: the new socket is closed, m_Server keeps its number.
OpenFails(s) ==
  /\ Opens(s)
  /\ FreeFds # {}
  /\ m_Server' = [m_Server EXCEPT ![s] = LowestFree]
  /\ failed' = failed \cup {s}
  /\ joinable' = joinable \ {s}
  /\ UNCHANGED <<m_Client, threadVars, fileVars, countVars, misuse>>

\* The name is bound as long as a socket that was bound to it is open: initialize
\* closes none, so bind fails for a host that has listened before.
NameIsFree(s) ==
  \A f \in 1..Len(files) : files[f].by = s /\ files[f].role = "listening" => ~Alive(f)

\* The socket listens, or is connected, and the event thread starts.
Open(s) ==
  /\ Opens(s)
  /\ FreeFds # {}
  /\ Len(files) < MaxFiles
  /\ s \in Hosts => NameIsFree(s)
  /\ files' = Append(files, NewFile(s, IF s \in Hosts THEN "listening" ELSE "stream"))
  /\ fds' = [fds EXCEPT ![LowestFree] = Len(files) + 1]
  /\ m_Server' = [m_Server EXCEPT ![s] = LowestFree]
  /\ failed' = failed \ {s}
  /\ joinable' = joinable \cup {s}
  /\ thread' = [thread EXCEPT ![s] = "test"]
  /\ UNCHANGED <<m_Client, on, messages, countVars, misuse>>

\* The descriptor writeToSocket sends on.
Target(s) == IF s \in Hosts THEN m_Client[s] ELSE m_Server[s]

\* A write: the message is sent on whatever the number stands for.
Write(s) ==
  /\ owner[s] = "idle"
  /\ misuse' = misuse \cup Touch(s, FileOf(Target(s)))
  /\ UNCHANGED <<objectVars, threadVars, fileVars, countVars>>

\* Mutant of ToldOn: the message goes where SocketClient would send it.
ToldOnServer(h) == m_Server[h]

\* The descriptor that the SHUTDOWN message is sent on.
ToldOn(h) == m_Client[h]

\* ~SocketHost writes the SHUTDOWN message to the client, if there is one.
Tell(h) ==
  /\ h \in Hosts
  /\ owner[h] = "idle"
  /\ owner' = [owner EXCEPT ![h] = "shutting"]
  /\ LET f == FileOf(ToldOn(h))
     IN /\ files' = IF f = None THEN files ELSE [files EXCEPT ![f].told = TRUE]
        /\ misuse' = misuse \cup Touch(h, f)
  /\ UNCHANGED <<inits, failed, m_Server, m_Client, joinable, threadVars, fds,
                 messages, countVars>>

\* shutdown(m_Server): the thread in accept will be woken; nothing is closed.
Shut(h) ==
  /\ owner[h] = "shutting"
  /\ LET f == FileOf(m_Server[h])
     IN /\ files' = IF f = None THEN files ELSE [files EXCEPT ![f].shut = TRUE]
        /\ misuse' = misuse \cup Touch(h, f)
  /\ m_Server' = [m_Server EXCEPT ![h] = -1]
  /\ owner' = [owner EXCEPT ![h] = "freeing"]
  /\ UNCHANGED <<inits, failed, m_Client, joinable, threadVars, fds, messages,
                 countVars>>

\* Mutant of ClosedServer: the number is kept.
KeptServer(c) == m_Server[c]

\* m_Server = -1
ClosedServer(c) == -1

\* ~SocketClient closes m_Server; a thread that is inside recv stays there.
CloseServer(c) ==
  /\ c \in Clients
  /\ owner[c] = "idle"
  /\ LET n == m_Server[c]
     IN /\ fds' = IF n \in Fds THEN [fds EXCEPT ![n] = None] ELSE fds
        /\ misuse' = misuse \cup Touch(c, FileOf(n))
  /\ m_Server' = [m_Server EXCEPT ![c] = ClosedServer(c)]
  /\ owner' = [owner EXCEPT ![c] = "freeing"]
  /\ UNCHANGED <<inits, failed, m_Client, joinable, threadVars, files, messages,
                 countVars>>

\* m_EventThread.detach(), delete[] m_pBuffer; then, in ~SocketCommon,
\* gProtobufUsageCount-- is a read ...
Free(s) ==
  /\ owner[s] = "freeing"
  /\ OneAtATime => ~Counting
  /\ joinable' = joinable \ {s}
  /\ owner' = [owner EXCEPT ![s] = "discounting"]
  /\ seen' = [seen EXCEPT ![s] = gProtobufUsageCount]
  /\ raced' = (raced \/ Counting)
  /\ UNCHANGED <<inits, failed, m_Server, m_Client, threadVars, fileVars,
                 gProtobufUsageCount, library, misuse>>

\* Mutant of IsLast: every destructor shuts the library.
EachIsLast(s) == TRUE

\* gProtobufUsageCount == 0
IsLast(s) == seen[s] - 1 = 0

\* ... and a write; the last user shuts the library.
DiscountEnds(s) ==
  /\ owner[s] = "discounting"
  /\ owner' = [owner EXCEPT ![s] = "gone"]
  /\ gProtobufUsageCount' = seen[s] - 1
  /\ library' = IF IsLast(s) THEN "down" ELSE library
  /\ seen' = [seen EXCEPT ![s] = 0]
  /\ UNCHANGED <<inits, failed, m_Server, m_Client, joinable, threadVars, fileVars,
                 raced, misuse>>

-----------------------------------------------------------------------------
(* The event thread. *)

\* Its object is destroyed: what it reads there is undefined, and the buffer it
\* reads into belongs to someone else.
Freed(s) == owner[s] \in {"discounting", "gone"}

\* The thread s is at p and its object exists.
ThreadAt(s, p) == thread[s] = p /\ ~Freed(s)

GoTo(s, p) == thread' = [thread EXCEPT ![s] = p] /\ on' = [on EXCEPT ![s] = None]
Call(s, p, f) == thread' = [thread EXCEPT ![s] = p] /\ on' = [on EXCEPT ![s] = f]

\* It uses the object after the destructor: no promise any more.
UseFreed(s) ==
  /\ Freed(s)
  /\ \/ thread[s] \in {"test", "process", "close", "reset"}
     \/ /\ thread[s] = "accept"
        /\ Pending(s) # {} \/ files[on[s]].shut
     \/ thread[s] = "recv" /\ (files[on[s]].inbox > 0 \/ s \in Hosts)
  /\ GoTo(s, "lost")
  /\ UNCHANGED <<objectVars, fileVars, countVars, misuse>>

\* while (m_Server >= 0), and the number the next system call is made on.
Test(s) ==
  /\ ThreadAt(s, "test")
  /\ IF m_Server[s] < 0
     THEN GoTo(s, "ended") /\ UNCHANGED misuse
     ELSE LET call == IF s \in Hosts /\ m_Client[s] < 0 THEN "accept" ELSE "recv"
              f == FileOf(IF call = "accept" THEN m_Server[s] ELSE Target(s))
              bad == IF call = "recv" /\ s \in Hosts THEN "close" ELSE "ended"
          IN /\ IF f = None THEN GoTo(s, bad) ELSE Call(s, call, f)
             /\ misuse' = misuse \cup Touch(s, f)
  /\ UNCHANGED <<objectVars, fileVars, countVars>>

\* accept returns a client and the thread reads from it; "late" when the
\* destructor has already looked for a client to tell.
Accept(h) ==
  /\ ThreadAt(h, "accept")
  /\ Pending(h) # {}
  /\ FreeFds # {}
  /\ LET f == Oldest(Pending(h))
         role == IF owner[h] \in {"shutting", "freeing"} THEN "late" ELSE "stream"
     IN /\ files' = [files EXCEPT ![f].role = role]
        /\ fds' = [fds EXCEPT ![LowestFree] = f]
        /\ Call(h, "recv", f)
  /\ m_Client' = [m_Client EXCEPT ![h] = LowestFree]
  /\ UNCHANGED <<owner, inits, failed, m_Server, joinable, messages, countVars,
                 misuse>>

\* accept fails: shut down, no descriptor left, a signal.  The thread is over.
AcceptFails(h) ==
  /\ ThreadAt(h, "accept")
  /\ GoTo(h, "ended")
  /\ UNCHANGED <<objectVars, fileVars, countVars, misuse>>

\* The recv loops have a whole message.
Recv(s) ==
  /\ ThreadAt(s, "recv")
  /\ files[on[s]].inbox > 0
  /\ files' = [files EXCEPT ![on[s]].inbox = @ - 1]
  /\ GoTo(s, "process")
  /\ UNCHANGED <<objectVars, fds, messages, countVars, misuse>>

\* The other end has closed, or recv fails.  SocketClient's thread ends without
\* another look at its object.
RecvEnds(s) ==
  /\ thread[s] = "recv"
  /\ Freed(s) => s \in Clients
  /\ GoTo(s, IF s \in Hosts THEN "close" ELSE "ended")
  /\ UNCHANGED <<objectVars, fileVars, countVars, misuse>>

\* processMessage parses; SocketHost takes an unknown opcode for an error.
Process(s) ==
  /\ ThreadAt(s, "process")
  /\ \E p \in {"test"} \cup (IF s \in Hosts THEN {"close"} ELSE {}) : GoTo(s, p)
  /\ UNCHANGED <<objectVars, fileVars, countVars, misuse>>

\* close(m_Client)
CloseClient(h) ==
  /\ ThreadAt(h, "close")
  /\ LET n == m_Client[h]
     IN /\ fds' = IF n \in Fds THEN [fds EXCEPT ![n] = None] ELSE fds
        /\ misuse' = misuse \cup Touch(h, FileOf(n))
  /\ GoTo(h, "reset")
  /\ UNCHANGED <<objectVars, files, messages, countVars>>

\* Mutants of ClosedClient: the number is kept, and 0 taken for no number.
KeptClient(h) == m_Client[h]
ZeroClient(h) == 0

\* m_Client = -1
ClosedClient(h) == -1

ResetClient(h) ==
  /\ ThreadAt(h, "reset")
  /\ m_Client' = [m_Client EXCEPT ![h] = ClosedClient(h)]
  /\ GoTo(h, "test")
  /\ UNCHANGED <<owner, inits, failed, m_Server, joinable, fileVars,
                 countVars, misuse>>

-----------------------------------------------------------------------------
(* The peers. *)

\* Another process connects to a host that listens.
PeerConnects(h) ==
  /\ Len(files) < MaxFiles
  /\ \E f \in 1..Len(files) :
       files[f].by = h /\ files[f].role = "listening" /\ ~files[f].shut
  /\ Cardinality(Pending(h)) <= Backlog
  /\ files' = Append(files, NewFile(h, "pending"))
  /\ UNCHANGED <<objectVars, threadVars, fds, messages, countVars, misuse>>

PeerSends(f) ==
  /\ files[f].peer
  /\ files[f].role # "pending" => Alive(f)
  /\ messages < MaxMessages
  /\ messages' = messages + 1
  /\ files' = [files EXCEPT ![f].inbox = @ + 1]
  /\ UNCHANGED <<objectVars, threadVars, fds, countVars, misuse>>

PeerCloses(f) ==
  /\ files[f].peer
  /\ files' = [files EXCEPT ![f].peer = FALSE]
  /\ UNCHANGED <<objectVars, threadVars, fds, messages, countVars, misuse>>

\* Everyone waits for the other end, or is done.
Finished ==
  /\ \A s \in Sockets :
       /\ owner[s] = "gone" \/ (owner[s] = "joining" /\ thread[s] # "ended")
       /\ thread[s] \in {"none", "ended", "lost", "accept", "recv"}
  /\ UNCHANGED vars

-----------------------------------------------------------------------------
OwnerStep(s) ==
  \/ Construct(s) \/ ConstructEnds(s)
  \/ Initialize(s) \/ SocketFails(s) \/ OpenFails(s) \/ Open(s)
  \/ Write(s)
  \/ Tell(s) \/ Shut(s) \/ CloseServer(s)
  \/ Free(s) \/ DiscountEnds(s)

ThreadStep(s) ==
  \/ Test(s) \/ Accept(s) \/ AcceptFails(s)
  \/ Recv(s) \/ RecvEnds(s) \/ Process(s) \/ CloseClient(s) \/ ResetClient(s)
  \/ UseFreed(s)

Next ==
  \/ \E s \in Sockets : OwnerStep(s) \/ ThreadStep(s)
  \/ \E h \in Hosts : PeerConnects(h)
  \/ \E f \in 1..Len(files) : PeerSends(f) \/ PeerCloses(f)
  \/ Finished

Spec == Init /\ [][Next]_vars

\* The event threads run, a recv returns what is there or the end of the stream,
\* and accept a connection that waits.  No owner and no peer is obliged to act,
\* and no system call to fail.
Fairness ==
  \A s \in Sockets :
    /\ WF_vars(Test(s)) /\ WF_vars(Process(s)) /\ WF_vars(Recv(s))
    /\ WF_vars(RecvEnds(s) /\ ~files[on[s]].peer)
    /\ WF_vars(Accept(s))
    /\ WF_vars(CloseClient(s)) /\ WF_vars(ResetClient(s))

FairSpec == Spec /\ Fairness

-----------------------------------------------------------------------------
FileRecords == [by: Sockets, role: Roles, shut: BOOLEAN, peer: BOOLEAN,
                inbox: 0..MaxMessages, told: BOOLEAN]
Misuses == {"stale", "foreign"}

TypeOK ==
  /\ owner \in [Sockets -> OwnerStates]
  /\ inits \in [Sockets -> Nat]
  /\ failed \subseteq Sockets
  /\ m_Server \in [Sockets -> Fds \cup {-1}]
  /\ m_Client \in [Sockets -> Fds \cup {-1}]
  /\ joinable \subseteq Sockets
  /\ thread \in [Sockets -> ThreadStates]
  /\ on \in [Sockets -> 0..Len(files)]
  /\ fds \in [Fds -> 0..Len(files)]
  /\ files \in Seq(FileRecords) /\ Len(files) <= MaxFiles
  /\ messages \in 0..MaxMessages
  /\ gProtobufUsageCount \in Int
  /\ seen \in [Sockets -> Int]
  /\ raced \in BOOLEAN
  /\ library \in {"up", "down"}
  /\ misuse \subseteq Misuses

\* "Ensure we stop previous events": an event thread that initialize waits for makes
\* no further accept or recv, so one connection or one message of the other end
\* is all that join can wait for.
StopsAtNextTest ==
  [][\A s \in Sockets : owner[s] = "joining" /\ thread[s] = "test"
                          => thread'[s] \in {"test", "ended"}]_vars

\* Descriptor numbers are reused by every socket of the process.  Objects read,
\* write, shut and close only sockets they opened themselves, unless the last
\* initialize of some object failed, left a closed number in its m_Server, and that
\* number was used first; or an event thread is between close(m_Client) and
\* m_Client = -1.
TouchesOwnFiles == "foreign" \in misuse => "stale" \in misuse

\* "In order to be able to not hit a deadlock in read() on the java side, we send
\* a shutdown message": once a host is gone, no reader that it had accepted
\* before its destructor looked for one is left on an open connection untold, unless
\* a stale number made another object close the connection's descriptor.
ServedIsTold ==
  \A f \in 1..Len(files) :
    /\ "stale" \notin misuse
    /\ files[f].by \in Hosts /\ owner[files[f].by] = "gone"
    /\ files[f].role = "stream" /\ files[f].peer
    => files[f].told \/ ~Alive(f)

Uncounted == {"none", "counting", "gone"}

\* The library is not shut under a socket: the step that shuts it leaves no object
\* that has been counted, unless two owners changed the count at the same time.
LibraryOutlivesSockets ==
  [][library' # library /\ ~raced' => \A s \in Sockets : owner'[s] \in Uncounted]_vars

\* A client that connects is accepted, as long as the host lives, its thread has
\* not ended on a failed accept, a descriptor is left for it, and no other client
\* keeps the thread in recv.
ConnectionIsAccepted ==
  \A h \in Hosts :
    Pending(h) # {} ~> \/ thread[h] \in {"ended", "recv"}
                       \/ owner[h] # "idle" \/ FreeFds = {}
=============================================================================
