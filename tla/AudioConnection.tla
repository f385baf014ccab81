---------------------------- MODULE AudioConnection ----------------------------
(***************************************************************************)
(* Connections between the ends of the audio protocol: an                  *)
(* AudioClientSocket that connects, writes, reads and connects again, and  *)
(* the hosts it connects to, AudioHostSockets or native SocketHosts.       *)
(*                                                                         *)
(* A Java end writes a frame in three pieces, its length, its opcode and   *)
(* its body, with no lock; AUDIO_DATA bodies go through                    *)
(* mCodedOutputStream, all else through the output stream.  A native end   *)
(* writes a frame at once (FrameStream has its splitting).  The client's   *)
(* owner, its writers, its read loop, the host's owner and the host's loop *)
(* are threads of their own.                                               *)
(***************************************************************************)
EXTENDS Integers, Sequences, FiniteSets

CONSTANTS JavaHosts,    \* names on which an AudioHostSocket listens
          NativeHosts,  \* names on which a SocketHost listens
          Writers,      \* threads that write to the client
          Kinds,        \* what they write
          MaxConns,     \* bound: connections the client makes
          MaxFrames     \* bound: frames written to the client

Hosts == JavaHosts \cup NativeHosts
Client == "client"
Ends == {Client} \cup Hosts
AllKinds == {"AUDIO_DATA", "AUDIO_RESPONSE", "REQUEST", "FORMAT_INFO", "BUFFER_INFO"}
None == 0
Nowhere == -1

ASSUME HostsAssumption == JavaHosts \cap NativeHosts = {} /\ Client \notin Hosts
                          /\ None \notin Hosts
ASSUME ConnectionBoundAssumption ==
  Kinds \subseteq AllKinds /\ MaxConns \in Nat /\ MaxFrames \in Nat

VARIABLES
  mSocketName,          \* the client's, None for null
  mSocket,              \* its connection; None for null, Nowhere when not connected
  mCodedOutputStream,   \* the connection it was made for; None, or Nowhere
  owner,                \* where the client's owner is in connect
  asked,                \* the name that connect was last given
  outcome,              \* how the last connect ended
  mStream,              \* the connection of each end's streams, None for null
  mLoopRun,             \* of each Java end
  reader,               \* where each end's loop is
  frame,                \* the frame whose header each loop has read
  server,               \* each host's listening socket
  closer,               \* where each host's owner is in disconnectSocket
  writer,               \* how many pieces of its frame each writer has written
  piece,                \* that frame and the connection it goes to
  conns,                \* the connections made, oldest first
  frames,               \* frames written to the client
  heard,                \* history: the messages given to callbacks
  happened              \* history: what keeps frames from arriving whole

clientVars == <<mSocketName, mSocket, owner, asked, outcome>>
readVars == <<mStream, mLoopRun, reader, frame>>
hostVars == <<server, closer>>
writeVars == <<mCodedOutputStream, writer, piece, frames>>
vars == <<clientVars, readVars, hostVars, writeVars, conns, heard, happened>>

NoFrame == [nr |-> 0, kind |-> "none", opcode |-> 0]

Init ==
  /\ mSocketName = None /\ mSocket = None /\ mCodedOutputStream = None
  /\ owner = "idle" /\ asked = None /\ outcome = "none"
  /\ mStream = [e \in Ends |-> None]
  /\ mLoopRun = [e \in Ends |-> FALSE]
  /\ reader = [e \in Ends |-> "none"]
  /\ frame = [e \in Ends |-> NoFrame]
  /\ server = [h \in Hosts |-> "none"]
  /\ closer = [h \in Hosts |-> "idle"]
  /\ writer = [w \in Writers |-> 0]
  /\ piece = [w \in Writers |-> [to |-> None, frame |-> NoFrame]]
  /\ conns = <<>> /\ frames = 0 /\ heard = <<>> /\ happened = {}

-----------------------------------------------------------------------------
(* Frames and their opcodes. *)

\* "Keep in sync with Plugin.proto and nativesocket"
JavaOpcodes == [AUDIO_DATA |-> 1, AUDIO_RESPONSE |-> 2, REQUEST |-> 3,
                FORMAT_INFO |-> 4, BUFFER_INFO |-> 5, SHUTDOWN |-> 6]
\* "Keep in tune with Java"
NativeOpcodes == [AUDIO_DATA |-> 1, AUDIO_RESPONSE |-> 2, BUFFER_INFO |-> 3,
                  FORMAT_INFO |-> 4, REQUEST |-> 5, SHUTDOWN |-> 6]

OpcodesOf(e) == IF e \in NativeHosts THEN NativeOpcodes ELSE JavaOpcodes
Frame(e, k, nr) == [nr |-> nr, kind |-> k, opcode |-> OpcodesOf(e)[k]]
KindHeard(e, f) == CHOOSE k \in DOMAIN OpcodesOf(e) : OpcodesOf(e)[k] = f.opcode

\* Mutant of Parts: the opcode is written before the length.
PartsSwapped == <<"opcode", "length", "body">>

Parts == <<"length", "opcode", "body">>
Piece(p, f) == [part |-> p, of |-> f]
\* A frame in pieces; SHUTDOWN has no body.
Pieces(f) == IF f.kind = "SHUTDOWN" THEN <<Piece("length", f), Piece("opcode", f)>>
             ELSE [i \in 1..3 |-> Piece(Parts[i], f)]

-----------------------------------------------------------------------------
(* Connections: up to the host, down to the client. *)

\* A connect to h is taken: its socket is open, or an accept still holds it.
Listening(h) == server[h] = "open" \/ (h \in JavaHosts /\ reader[h] = "accept")

NewConn(n) == [name |-> n, up |-> <<>>, down |-> <<>>, client |-> TRUE, host |-> TRUE,
               accepted |-> FALSE, told |-> FALSE]

Pending(h) == {i \in DOMAIN conns : conns[i].name = h /\ ~conns[i].accepted}
Oldest(I) == CHOOSE i \in I : \A j \in I : i <= j

\* The host's end is open: nobody closed it, and who has not been accepted is cut
\* when a Java host's socket goes away.
HostEnd(i) == /\ conns[i].host
              /\ \/ conns[i].accepted \/ Listening(conns[i].name)
                 \/ conns[i].name \in NativeHosts
\* The client's end is open: a read that is blocked keeps it when it is closed.
ClientEnd(i) == \/ conns[i].client
                \/ mStream[Client] = i /\ reader[Client] \in {"read", "opcode", "body"}

In(e) == IF e = Client THEN conns[mStream[e]].down ELSE conns[mStream[e]].up
Rest(e) == IF e = Client THEN [conns EXCEPT ![mStream[e]].down = Tail(@)]
           ELSE [conns EXCEPT ![mStream[e]].up = Tail(@)]
OtherEnd(e) == IF e = Client THEN HostEnd(mStream[e]) ELSE ClientEnd(mStream[e])

-----------------------------------------------------------------------------
(* The client's owner: connect. *)

\* Mutant of SameName: a socket that has a name is not connected again.
Named(n) == mSocketName # None

\* socketName.equals(mSocketName)
SameName(n) == n = mSocketName

ConnectAgain(n) ==
  /\ owner = "idle"
  /\ SameName(n)
  /\ asked' = n
  /\ outcome' = "connected"
  /\ UNCHANGED <<mSocketName, mSocket, owner, readVars, hostVars, writeVars,
                 conns, heard, happened>>

\* disconnectSocket: mSocket is not null, so the loop is told to stop and the
\* streams are closed; mInStream is null if no connect has succeeded yet.
Disconnect(n) ==
  /\ owner = "idle" /\ ~SameName(n)
  /\ mSocket # None
  /\ asked' = n
  /\ mLoopRun' = [mLoopRun EXCEPT ![Client] = FALSE]
  /\ IF mStream[Client] = None
     THEN /\ outcome' = "NullPointerException"
          /\ UNCHANGED <<mSocket, owner, conns>>
     ELSE /\ conns' = [conns EXCEPT ![mStream[Client]].client = FALSE]
          /\ mSocket' = None
          /\ owner' = "join"
          /\ UNCHANGED outcome
  /\ UNCHANGED <<mSocketName, mStream, reader, frame, hostVars, writeVars, heard,
                 happened>>

\* Bound: one connect fails, before the first frame.
MayFail == "failure" \notin happened /\ frames = 0

\* initializeSocket: at once, or when mLoopThread.join() has returned.
Initializes(n) ==
  /\ \/ owner = "idle" /\ ~SameName(n) /\ mSocket = None
     \/ owner = "join" /\ asked = n /\ reader[Client] = "ended"
  /\ mSocketName' = n
  /\ owner' = "idle"
  /\ asked' = n

InitializeFails(n) ==
  /\ Initializes(n)
  /\ ~Listening(n)
  /\ MayFail
  /\ mSocket' = Nowhere
  /\ outcome' = "IOException"
  /\ happened' = happened \cup {"failure"}
  /\ UNCHANGED <<readVars, hostVars, writeVars, conns, heard>>

Initialize(n) ==
  /\ Initializes(n)
  /\ Listening(n)
  /\ Len(conns) < MaxConns
  /\ conns' = Append(conns, NewConn(n))
  /\ mSocket' = Len(conns) + 1
  /\ mStream' = [mStream EXCEPT ![Client] = Len(conns) + 1]
  /\ mLoopRun' = [mLoopRun EXCEPT ![Client] = TRUE]
  /\ reader' = [reader EXCEPT ![Client] = "read"]
  /\ frame' = [frame EXCEPT ![Client] = NoFrame]
  /\ outcome' = "connected"
  /\ UNCHANGED <<hostVars, writeVars, heard, happened>>

-----------------------------------------------------------------------------
(* A writer of the client: writeAudioData(byte[]) and the other write methods. *)

CanWrite(i) == conns[i].client /\ HostEnd(i)

\* The connection that the next piece of w's frame goes to.
Target(w) == IF writer[w] = 2 /\ piece[w].frame.kind = "AUDIO_DATA"
             THEN mCodedOutputStream ELSE piece[w].to

\* The coded stream is made once, and the output stream is read again for each frame.
\* With no output stream the call throws.
BeginWrite(w, k) ==
  /\ writer[w] = 0 /\ piece[w].to = None
  /\ frames < MaxFrames
  /\ LET s == mStream[Client]
     IN /\ mCodedOutputStream' =
             IF k = "AUDIO_DATA" /\ mCodedOutputStream = None
             THEN (IF s = None THEN Nowhere ELSE s) ELSE mCodedOutputStream
        /\ IF s = None THEN UNCHANGED <<piece, frames, happened>>
           ELSE /\ piece' = [piece EXCEPT
                     ![w] = [to |-> s, frame |-> Frame(Client, k, frames + 1)]]
                /\ frames' = frames + 1
                /\ happened' = IF \E v \in Writers : piece[v].to # None
                               THEN happened \cup {"overlap"} ELSE happened
  /\ UNCHANGED <<clientVars, readVars, hostVars, writer, conns, heard>>

\* Mutant of MoreToWrite: one piece too many.
OneMoreToWrite(w) == writer[w] <= 2

MoreToWrite(w) == writer[w] < 2

EndWrite(w) ==
  /\ writer' = [writer EXCEPT ![w] = 0]
  /\ piece' = [piece EXCEPT ![w] = [to |-> None, frame |-> NoFrame]]

\* One piece is written, or an IOException ends the call.  A coded stream that was
\* made with no output stream keeps what it is given.
WritePiece(w) ==
  /\ piece[w].to # None
  /\ LET i == Target(w)
         goes == i # Nowhere /\ CanWrite(i)
     IN /\ conns' = IF goes
                    THEN [conns EXCEPT ![i].up = Append(@,
                            Piece(Parts[writer[w] + 1], piece[w].frame))]
                    ELSE conns
        /\ IF goes /\ MoreToWrite(w)
           THEN writer' = [writer EXCEPT ![w] = @ + 1] /\ UNCHANGED piece
           ELSE EndWrite(w)
        /\ happened' = happened \cup (IF i # piece[w].to THEN {"stale"} ELSE {})
                                \cup (IF ~goes /\ writer[w] > 0 THEN {"cut"} ELSE {})
  /\ UNCHANGED <<clientVars, readVars, hostVars, mCodedOutputStream, frames, heard>>

-----------------------------------------------------------------------------
(* The loops of the Java ends and processInputStream. *)

GoTo(e, p) == reader' = [reader EXCEPT ![e] = p]
\* Where a loop goes on after a message: while (mLoopRun).
Top(e) == CASE e \in JavaHosts         -> "poll"
            [] e \in NativeHosts       -> "read"
            [] e = Client /\ mLoopRun[e]  -> "read"
            [] e = Client /\ ~mLoopRun[e] -> "ended"

\* The host's while (mLoopRun), with nothing to read for Thread.sleep(5).
Poll(h) ==
  /\ reader[h] = "poll"
  /\ ~mLoopRun[h]
  /\ GoTo(h, "ended")
  /\ UNCHANGED <<clientVars, mStream, mLoopRun, frame, hostVars, writeVars, conns,
                 heard, happened>>

\* The length.  available() >= 4 in the host.  What is not a length is taken for one.
ReadLength(e) ==
  /\ reader[e] = IF e = Client THEN "read" ELSE "poll"
  /\ e # Client => mLoopRun[e]
  /\ In(e) # <<>>
  /\ LET p == Head(In(e))
     IN IF p.part = "length"
        THEN GoTo(e, "opcode") /\ frame' = [frame EXCEPT ![e] = p.of]
        ELSE GoTo(e, "lost") /\ UNCHANGED frame
  /\ conns' = Rest(e)
  /\ UNCHANGED <<clientVars, mStream, mLoopRun, hostVars, writeVars, heard, happened>>

\* The opcode, which for SHUTDOWN is all: the loop ends.
ReadOpcode(e) ==
  /\ reader[e] = "opcode"
  /\ In(e) # <<>>
  /\ IF Head(In(e)) # Piece("opcode", frame[e])
     THEN GoTo(e, "lost") /\ UNCHANGED mLoopRun
     ELSE IF KindHeard(e, frame[e]) = "SHUTDOWN"
          THEN GoTo(e, "ended") /\ mLoopRun' = [mLoopRun EXCEPT ![e] = FALSE]
          ELSE GoTo(e, "body") /\ UNCHANGED mLoopRun
  /\ conns' = Rest(e)
  /\ UNCHANGED <<clientVars, mStream, frame, hostVars, writeVars, heard, happened>>

Heard(e) == [by |-> e, on |-> mStream[e], nr |-> frame[e].nr, kind |-> frame[e].kind,
             as |-> KindHeard(e, frame[e])]

\* What the callback of a host writes back: an audio sink answers AUDIO_DATA and
\* REQUEST.
Replies(h, k, nr) ==
  CASE k = "AUDIO_DATA" -> Pieces(Frame(h, "AUDIO_RESPONSE", nr))
    [] k = "REQUEST"    -> Pieces(Frame(h, "BUFFER_INFO", nr))
    [] OTHER            -> <<>>

\* The body, and the callback; what the client's callback does is not seen here.
ReadBody(e) ==
  /\ reader[e] = "body"
  /\ In(e) # <<>>
  /\ IF Head(In(e)) = Piece("body", frame[e])
     THEN /\ GoTo(e, Top(e))
          /\ heard' = Append(heard, Heard(e))
          /\ conns' = IF e # Client /\ ClientEnd(mStream[e])
                      THEN [Rest(e) EXCEPT ![mStream[e]].down =
                              @ \o Replies(e, KindHeard(e, frame[e]), frame[e].nr)]
                      ELSE Rest(e)
     ELSE GoTo(e, "lost") /\ conns' = Rest(e) /\ UNCHANGED heard
  /\ frame' = [frame EXCEPT ![e] = NoFrame]
  /\ UNCHANGED <<clientVars, mStream, mLoopRun, hostVars, writeVars, happened>>

\* Mutant of EofSeenAt: the loop does not look at a readLen of -1.
EofSeenInMessage(e) == {"opcode", "body"}

\* Where -1 from read() is noticed.  The host asks available() first, so that it
\* never sees the end of a stream between two messages.
EofSeenAt(e) == IF e = Client THEN {"read", "opcode", "body"} ELSE {"opcode", "body"}

\* The other end has closed and everything is read.
ReadEnds(e) ==
  /\ reader[e] \in EofSeenAt(e)
  /\ In(e) = <<>> /\ ~OtherEnd(e)
  /\ GoTo(e, "ended")
  /\ mLoopRun' = [mLoopRun EXCEPT ![e] = FALSE]
  /\ UNCHANGED <<clientVars, mStream, frame, hostVars, writeVars, conns, heard,
                 happened>>

\* The client's streams were closed before this read began: IOException.
ReadThrows ==
  /\ reader[Client] \in {"read", "opcode", "body"}
  /\ ~conns[mStream[Client]].client
  /\ GoTo(Client, "ended")
  /\ mLoopRun' = [mLoopRun EXCEPT ![Client] = FALSE]
  /\ UNCHANGED <<clientVars, mStream, frame, hostVars, writeVars, conns, heard,
                 happened>>

-----------------------------------------------------------------------------
(* AudioHostSocket. *)

HostOpens(h) ==
  /\ server[h] = "none"
  /\ server' = [server EXCEPT ![h] = "open"]
  /\ mLoopRun' = [mLoopRun EXCEPT ![h] = TRUE]
  /\ GoTo(h, "test")
  /\ UNCHANGED <<clientVars, mStream, frame, closer, writeVars, conns, heard, happened>>

\* while (mLoopRun)
HostTest(h) ==
  /\ reader[h] = "test"
  /\ GoTo(h, IF mLoopRun[h] THEN "call" ELSE "ended")
  /\ UNCHANGED <<clientVars, mStream, mLoopRun, frame, hostVars, writeVars, conns,
                 heard, happened>>

\* mSocket.accept(): a null mSocket is an exception that nothing catches.
HostCalls(h) ==
  /\ reader[h] = "call"
  /\ GoTo(h, CASE server[h] = "null" -> "crashed"
               [] server[h] = "closed" -> "test"
               [] server[h] = "open" -> "accept")
  /\ UNCHANGED <<clientVars, mStream, mLoopRun, frame, hostVars, writeVars, conns,
                 heard, happened>>

\* accept returns, also when the socket was closed in the meantime.  (The streams are
\* set after the checks; nothing reads them before.)
HostAccepts(h) ==
  /\ reader[h] = "accept"
  /\ Pending(h) # {}
  /\ LET i == Oldest(Pending(h))
     IN /\ conns' = [conns EXCEPT ![i].accepted = TRUE]
        /\ mStream' = [mStream EXCEPT ![h] = i]
  /\ GoTo(h, "check")
  /\ UNCHANGED <<clientVars, mLoopRun, frame, hostVars, writeVars, heard, happened>>

\* if (mSocket == null || mSocket.getLocalSocketAddress() == null): two reads.  (In
\* the log line after them the exception is caught, and the loop ends.)
NullAt == [check |-> "ended", address |-> "crashed"]
NextCheck == [check |-> "address", address |-> "poll"]

HostChecks(h) ==
  /\ reader[h] \in DOMAIN NullAt
  /\ IF server[h] = "null"
     THEN GoTo(h, NullAt[reader[h]]) /\ mLoopRun' = [mLoopRun EXCEPT ![h] = FALSE]
     ELSE GoTo(h, NextCheck[reader[h]]) /\ UNCHANGED mLoopRun
  /\ UNCHANGED <<clientVars, mStream, frame, hostVars, writeVars, conns, heard,
                 happened>>

\* disconnectSocket: mLoopRun = false and mSocket.close() ...
HostCloses(h) ==
  /\ server[h] = "open" /\ closer[h] = "idle"
  /\ mLoopRun' = [mLoopRun EXCEPT ![h] = FALSE]
  /\ server' = [server EXCEPT ![h] = "closed"]
  /\ closer' = [closer EXCEPT ![h] = "wake"]
  /\ UNCHANGED <<clientVars, mStream, reader, frame, writeVars, conns, heard, happened>>

\* Mutant of WakesAccept: there is no workaround.
NoWorkaround(h) == FALSE

\* A thread that is in accept is still there, and takes a connection.
WakesAccept(h) == reader[h] = "accept"

\* ... "Workaround for Android bug 29939": a connection to itself, closed at once ...
HostWakes(h) ==
  /\ closer[h] = "wake"
  /\ IF WakesAccept(h)
     THEN conns' = Append(conns, [NewConn(h) EXCEPT !.client = FALSE])
     ELSE UNCHANGED conns
  /\ closer' = [closer EXCEPT ![h] = "null"]
  /\ UNCHANGED <<clientVars, readVars, server, writeVars, heard, happened>>

\* ... mSocket = null; join returns when the loop has ended.
HostForgets(h) ==
  /\ closer[h] = "null"
  /\ server' = [server EXCEPT ![h] = "null"]
  /\ closer' = [closer EXCEPT ![h] = "join"]
  /\ UNCHANGED <<clientVars, readVars, writeVars, conns, heard, happened>>

\* The process of the host dies.
HostDies(h) ==
  /\ server[h] = "open" /\ closer[h] = "idle"
  /\ server' = [server EXCEPT ![h] = "dead"]
  /\ GoTo(h, "none")
  /\ mLoopRun' = [mLoopRun EXCEPT ![h] = FALSE]
  /\ mStream' = [mStream EXCEPT ![h] = None]
  /\ conns' = [i \in DOMAIN conns |-> IF conns[i].name = h
                                      THEN [conns[i] EXCEPT !.host = FALSE, !.up = <<>>,
                                                            !.accepted = TRUE]
                                      ELSE conns[i]]
  /\ frame' = [frame EXCEPT ![h] = NoFrame]
  /\ UNCHANGED <<clientVars, closer, writeVars, heard, happened>>

-----------------------------------------------------------------------------
(* SocketHost, as a client sees it. *)

NativeOpens(h) ==
  /\ server[h] = "none"
  /\ server' = [server EXCEPT ![h] = "open"]
  /\ GoTo(h, "accept")
  /\ UNCHANGED <<clientVars, mStream, mLoopRun, frame, closer, writeVars, conns, heard,
                 happened>>

NativeAccepts(h) ==
  /\ reader[h] = "accept"
  /\ Pending(h) # {}
  /\ LET i == Oldest(Pending(h))
     IN /\ conns' = [conns EXCEPT ![i].accepted = TRUE]
        /\ mStream' = [mStream EXCEPT ![h] = i]
  /\ GoTo(h, "read")
  /\ UNCHANGED <<clientVars, mLoopRun, frame, hostVars, writeVars, heard, happened>>

\* The header: length and opcode together.
NativeReadHeader(h) ==
  /\ reader[h] = "read"
  /\ Len(In(h)) >= 2
  /\ LET f == In(h)[1].of
     IN IF SubSeq(In(h), 1, 2) = SubSeq(Pieces(f), 1, 2)
        THEN GoTo(h, "body") /\ frame' = [frame EXCEPT ![h] = f]
        ELSE GoTo(h, "lost") /\ UNCHANGED frame
  /\ conns' = [conns EXCEPT ![mStream[h]].up = SubSeq(@, 3, Len(@))]
  /\ UNCHANGED <<clientVars, mStream, mLoopRun, hostVars, writeVars, heard, happened>>

\* The end of the stream: the connection is closed and the next one accepted.
NativeCloses(h) ==
  /\ \/ reader[h] = "read" /\ Len(In(h)) < 2
     \/ reader[h] = "body" /\ In(h) = <<>>
  /\ ~OtherEnd(h)
  /\ conns' = [conns EXCEPT ![mStream[h]].host = FALSE]
  /\ mStream' = [mStream EXCEPT ![h] = None]
  /\ GoTo(h, "accept")
  /\ UNCHANGED <<clientVars, mLoopRun, frame, hostVars, writeVars, heard, happened>>

\* ~SocketHost: SHUTDOWN to the client it has accepted, if any; nothing is closed,
\* and what the event thread does from here on is SocketLifecycle's.
NativeDestroyed(h) ==
  /\ server[h] = "open"
  /\ server' = [server EXCEPT ![h] = "closed"]
  /\ GoTo(h, "none")
  /\ conns' = LET i == mStream[h]
              IN IF i = None THEN conns
                 ELSE [conns EXCEPT ![i].down =
                         @ \o (IF ClientEnd(i) THEN Pieces(Frame(h, "SHUTDOWN", 0))
                               ELSE <<>>),
                       ![i].told = TRUE]
  /\ UNCHANGED <<clientVars, mStream, mLoopRun, frame, closer, writeVars, heard,
                 happened>>

-----------------------------------------------------------------------------
\* The client would connect once more than the bound, or its loop is lost.
Finished ==
  /\ owner = "join" /\ reader[Client] \in {"ended", "lost"}
  /\ UNCHANGED vars

ReaderStep(e) ==
  \/ ReadLength(e) \/ ReadOpcode(e) \/ ReadBody(e)
  \/ ReadEnds(e)

JavaLoop(h) ==
  \/ HostTest(h) \/ HostCalls(h) \/ HostAccepts(h) \/ HostChecks(h) \/ Poll(h)
  \/ ReaderStep(h)

NativeLoop(h) == NativeAccepts(h) \/ NativeReadHeader(h) \/ ReadBody(h) \/ NativeCloses(h)

HostDisconnects(h) == HostWakes(h) \/ HostForgets(h)

Next ==
  \/ \E n \in Hosts : ConnectAgain(n) \/ Disconnect(n) \/ InitializeFails(n) \/ Initialize(n)
  \/ \E w \in Writers : WritePiece(w) \/ \E k \in Kinds : BeginWrite(w, k)
  \/ ReadThrows \/ ReaderStep(Client)
  \/ \E h \in JavaHosts : \/ HostOpens(h) \/ JavaLoop(h)
                          \/ HostCloses(h) \/ HostDisconnects(h) \/ HostDies(h)
  \/ \E h \in NativeHosts : NativeOpens(h) \/ NativeLoop(h) \/ NativeDestroyed(h)
  \/ Finished

Spec == Init /\ [][Next]_vars

\* The threads run.  (No promise below needs a native host's.)  No one is obliged to
\* connect, to begin a write, to open a host or to close it.
Fairness ==
  /\ \A w \in Writers : WF_vars(WritePiece(w))
  /\ WF_vars(ReaderStep(Client))
  /\ \A h \in JavaHosts : WF_vars(JavaLoop(h))

FairSpec == Spec /\ Fairness

-----------------------------------------------------------------------------
Frames == [nr: Nat, kind: {"none", "SHUTDOWN"} \cup AllKinds, opcode: 0..6]
PieceRecords == [part: {"length", "opcode", "body"}, of: Frames]
ConnRecords == [name: Hosts, up: Seq(PieceRecords), down: Seq(PieceRecords),
                client: BOOLEAN, host: BOOLEAN, accepted: BOOLEAN, told: BOOLEAN]
LoopStates == {"none", "read", "opcode", "body", "ended", "lost", "test", "call",
               "accept", "check", "address", "poll", "crashed"}

TypeOK ==
  /\ mSocketName \in Hosts \cup {None}
  /\ mSocket \in DOMAIN conns \cup {None, Nowhere}
  /\ mCodedOutputStream \in DOMAIN conns \cup {None, Nowhere}
  /\ owner \in {"idle", "join"} /\ asked \in Hosts \cup {None}
  /\ outcome \in {"none", "connected", "IOException", "NullPointerException"}
  /\ mStream \in [Ends -> DOMAIN conns \cup {None}]
  /\ mLoopRun \in [Ends -> BOOLEAN]
  /\ reader \in [Ends -> LoopStates]
  /\ frame \in [Ends -> Frames]
  /\ server \in [Hosts -> {"none", "open", "closed", "null", "dead"}]
  /\ closer \in [Hosts -> {"idle", "wake", "null", "join"}]
  /\ writer \in [Writers -> 0..2]
  /\ piece \in [Writers -> [to: DOMAIN conns \cup {None}, frame: Frames]]
  /\ conns \in Seq(ConnRecords)
  /\ frames \in 0..MaxFrames
  /\ heard \in Seq([by: Ends, on: DOMAIN conns, nr: Nat, kind: AllKinds, as: AllKinds])
  /\ happened \subseteq {"failure", "overlap", "stale", "cut"}

\* The three writes of a frame arrive as one: no loop takes a piece of one frame for
\* a piece of another, and each end hears the frames of a connection in order,
\* whatever is closed, dies or reconnects, as long as no two threads write at once and the
\* coded stream is that of the connection.  (After a reconnection it is not.)
FramesArriveWhole ==
  happened \cap {"overlap", "stale"} = {} =>
    /\ \A e \in Ends : reader[e] # "lost"
    /\ \A i, j \in DOMAIN heard :
         i < j /\ heard[i].by = heard[j].by /\ heard[i].on = heard[j].on
           => heard[i].nr < heard[j].nr

\* "Connects the audio socket to the main app": connect that returns normally leaves
\* streams to the name that it was given, which this end has not closed.  "In case the
\* main app is down ... you must then retry to connect later": this is so
\* only while no connect has failed, for the name is stored before.
ConnectReaches ==
  outcome = "connected" /\ "failure" \notin happened /\ owner = "idle" =>
    /\ mStream[Client] # None
    /\ conns[mStream[Client]].name = asked
    /\ conns[mStream[Client]].client

\* "Workaround for Android bug 29939": disconnectSocket of a host returns, wherever its
\* loop is when mSocket is closed, as long as no frame was left unfinished (then the host
\* may read for ever from a client whose own read keeps its closed socket open).
HostDisconnectReturns ==
  \A h \in JavaHosts :
    closer[h] = "join" ~> \/ reader[h] \in {"ended", "crashed", "lost"}
                          \/ happened \cap {"stale", "cut"} # {}

\* "In order to be able to not hit a deadlock in read() on the java side, we send a
\* shutdown message": the client's loop, and so a connect that waits for it, ends when
\* the host was destroyed or its end of the connection is closed.
ReaderEnds ==
  mStream[Client] # None /\ (conns[mStream[Client]].told \/ ~HostEnd(mStream[Client]))
    ~> reader[Client] \in {"ended", "lost"}

\* "Both native and java implementation are interoperable": a message is given to the
\* callback of the kind it was written as.
KindsAgree == \A i \in DOMAIN heard : heard[i].as = heard[i].kind
=============================================================================
