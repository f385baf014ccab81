----------------------------- MODULE FrameStream ------------------------------
(***************************************************************************)
(* The native socket's byte stream: SocketCommon::writeProtoBufMessage and *)
(* the writeToSocket loops of SocketHost and SocketClient at one end, the  *)
(* processEvents loops at the other.                                       *)
(*                                                                         *)
(* A frame is HeaderLen bytes (the length and the opcode) and a body; it   *)
(* is known by the order in which its write began, and a byte by its frame *)
(* and its place in it.  Nothing locks the socket: the threads of one end  *)
(* write side by side.  The kernel takes any part of what a send offers,   *)
(* and hands a recv any part of what it holds.                             *)
(***************************************************************************)
EXTENDS Integers, Sequences

CONSTANTS Writers,      \* the threads that write to this end of the socket
          HeaderLen,    \* bytes of a header (5 in the code)
          BodySizes,    \* bytes of the bodies that are sent
          MaxFrames,    \* bound: frames written
          MaxChunks,    \* bound: sends that together take a frame
          PipeCap       \* bytes the kernel holds between the ends

ASSUME SizeAssumption == /\ HeaderLen \in Nat \ {0}
                         /\ BodySizes \subseteq Nat \ {0}
                         /\ PipeCap \in Nat \ {0}
ASSUME FrameBoundAssumption == MaxFrames \in Nat /\ MaxChunks \in Nat \ {0}

VARIABLES
  frames,       \* the sizes of the frames whose write has begun
  cur,          \* the frame each thread writes, or wrote last; 0 before
  writing,      \* whether each thread is inside writeToSocket
  len_left,     \* what each thread still has to send
  len_written,  \* what its last send took: where its next one starts
  chunks,       \* how many sends took a part of its frame
  put,          \* history: the places of the bytes it has sent of its frame
  done,         \* history: the frames written to the end, in order
  pipe,         \* the bytes in the kernel
  m_pBuffer,    \* the receiver's buffer, up to total_len_read
  final_size,   \* the size the receiver expects, 0 until it has the header
  got,          \* the messages processed: a frame, or Torn
  open,         \* the receiver has not closed the connection
  faults        \* history: what has happened that a frame does not survive

writeVars == <<frames, cur, writing, len_left, len_written, chunks, put, done>>
readVars == <<m_pBuffer, final_size, got>>
vars == <<writeVars, pipe, readVars, open, faults>>

Faults == {"third send", "overlap", "interrupt"}

Torn == 0
Frames == 1..MaxFrames
FrameSizes == {HeaderLen + b : b \in BodySizes}
ByteOf(f, i) == [frame |-> f, at |-> i]
WholeFrame(f) == [k \in 1..frames[f] |-> ByteOf(f, k - 1)]

Init ==
  /\ frames = <<>>
  /\ cur = [w \in Writers |-> 0]
  /\ writing = [w \in Writers |-> FALSE]
  /\ len_left = [w \in Writers |-> 0]
  /\ len_written = [w \in Writers |-> 0]
  /\ chunks = [w \in Writers |-> 0]
  /\ put = [w \in Writers |-> <<>>]
  /\ done = <<>>
  /\ pipe = <<>>
  /\ m_pBuffer = <<>> /\ final_size = 0 /\ got = <<>>
  /\ open = TRUE /\ faults = {}

-----------------------------------------------------------------------------
(* writeProtoBufMessage and writeToSocket. *)

\* The frame is laid out in a buffer of its own and the loop starts.
BeginWrite(w) ==
  /\ ~writing[w]
  /\ Len(frames) < MaxFrames
  /\ \E s \in FrameSizes :
       /\ frames' = Append(frames, s)
       /\ len_left' = [len_left EXCEPT ![w] = s]
  /\ cur' = [cur EXCEPT ![w] = Len(frames) + 1]
  /\ writing' = [writing EXCEPT ![w] = TRUE]
  /\ len_written' = [len_written EXCEPT ![w] = 0]
  /\ chunks' = [chunks EXCEPT ![w] = 0]
  /\ put' = [put EXCEPT ![w] = <<>>]
  /\ UNCHANGED <<done, pipe, readVars, open, faults>>

\* Mutant of SendFrom: every send starts at the front.
SendFromFront(w) == 0

\* &(data[len_written]): what the previous send took, not what all took.
SendFrom(w) == len_written[w]

\* Mutant of LeftAfter: what is left is not counted down.
LeftAsBefore(w, n) == IF n = len_left[w] THEN 0 ELSE len_left[w]

\* len_left -= len_written
LeftAfter(w, n) == len_left[w] - n

\* A frame that the writers other than w have begun to send and not ended.
Halfway(w) == \E v \in Writers \ {w} : writing[v] /\ put[v] # <<>>

\* One send that takes n bytes; the loop ends with the frame.
Send(w, n) ==
  /\ writing[w]
  /\ open
  /\ n <= PipeCap - Len(pipe)
  /\ n = len_left[w] \/ chunks[w] + 1 < MaxChunks
  /\ pipe' = pipe \o [k \in 1..n |-> ByteOf(cur[w], SendFrom(w) + k - 1)]
  /\ put' = [put EXCEPT ![w] = @ \o [k \in 1..n |-> SendFrom(w) + k - 1]]
  /\ len_left' = [len_left EXCEPT ![w] = LeftAfter(w, n)]
  /\ len_written' = [len_written EXCEPT ![w] = n]
  /\ chunks' = [chunks EXCEPT ![w] = @ + 1]
  /\ writing' = [writing EXCEPT ![w] = LeftAfter(w, n) > 0]
  /\ done' = IF LeftAfter(w, n) > 0 THEN done ELSE Append(done, cur[w])
  /\ faults' = faults \cup (IF chunks[w] = 2 THEN {"third send"} ELSE {})
                      \cup (IF Halfway(w) THEN {"overlap"} ELSE {})
  /\ UNCHANGED <<frames, cur, readVars, open>>

\* send returns -1: the connection is closed, or a signal came before the send
\* took anything.  writeToSocket gives the frame up.
SendFails(w) ==
  /\ writing[w]
  /\ writing' = [writing EXCEPT ![w] = FALSE]
  /\ faults' = IF put[w] = <<>> THEN faults ELSE faults \cup {"interrupt"}
  /\ UNCHANGED <<frames, cur, len_left, len_written, chunks, put, done, pipe,
                 readVars, open>>

-----------------------------------------------------------------------------
(* processEvents. *)

\* Mutant of Decoded: the opcode is counted twice.
DecodedWithOpcode(f) == frames[f] + 1

\* header_size + message_size: the length in the header counts the opcode,
\* which is a part of header_size too, and 1 is taken off.
Decoded(f) == frames[f]

\* The size that convertBytesToInt32 finds in a header, and any size when the
\* bytes are not those of one header.
SizesIn(bytes) ==
  LET header == SubSeq(bytes, 1, HeaderLen)
      owners == {f \in 1..Len(frames) :
                   header = SubSeq(WholeFrame(f), 1, HeaderLen)}
  IN IF owners = {} THEN FrameSizes ELSE {Decoded(f) : f \in owners}

\* header_size - total_len_read, then final_size - total_len_read.
Wanted == (IF final_size = 0 THEN HeaderLen ELSE final_size) - Len(m_pBuffer)

\* One recv that returns n bytes; with the header comes the size.
Recv(n) ==
  /\ open
  /\ n <= Wanted
  /\ n <= Len(pipe)
  /\ m_pBuffer' = m_pBuffer \o SubSeq(pipe, 1, n)
  /\ pipe' = SubSeq(pipe, n + 1, Len(pipe))
  /\ IF final_size = 0 /\ Len(m_pBuffer') >= HeaderLen
     THEN final_size' \in SizesIn(m_pBuffer')
     ELSE UNCHANGED final_size
  /\ UNCHANGED <<writeVars, got, open, faults>>

\* Everything is there: processMessage parses the body and calls back.  Of what
\* is not a frame the opcode may be unknown, and then SocketHost closes.
Process ==
  /\ open
  /\ final_size > 0
  /\ Len(m_pBuffer) >= final_size
  /\ LET whole == {f \in 1..Len(frames) : m_pBuffer = WholeFrame(f)}
     IN IF whole = {}
        THEN got' = Append(got, Torn) /\ open' \in BOOLEAN
        ELSE got' = Append(got, CHOOSE f \in whole : TRUE) /\ UNCHANGED open
  /\ m_pBuffer' = <<>>
  /\ final_size' = 0
  /\ UNCHANGED <<writeVars, pipe, faults>>

\* recv returns -1 because of a signal: processEvents returns -1 and the
\* connection is closed (SocketHost) or no longer read (SocketClient).
RecvFails ==
  /\ open
  /\ open' = FALSE
  /\ faults' = faults \cup {"interrupt"}
  /\ UNCHANGED <<writeVars, pipe, readVars>>

\* The frames of the bound are written, or given up, and nothing moves.
Finished ==
  /\ Len(frames) = MaxFrames
  /\ \A w \in Writers : ~writing[w]
  /\ open => pipe = <<>> /\ (final_size = 0 \/ Len(m_pBuffer) < final_size)
  /\ UNCHANGED vars

-----------------------------------------------------------------------------
Next ==
  \/ \E w \in Writers : \/ BeginWrite(w)
                        \/ \E n \in 1..len_left[w] : Send(w, n)
                        \/ SendFails(w)
  \/ \E n \in 1..Wanted : Recv(n)
  \/ Process
  \/ RecvFails
  \/ Finished

Spec == Init /\ [][Next]_vars

\* The kernel takes bytes while it has room, and the event thread runs.
Fairness ==
  /\ \A w \in Writers : WF_vars(\E n \in 1..len_left[w] : Send(w, n))
  /\ WF_vars(\E n \in 1..Wanted : Recv(n))
  /\ WF_vars(Process)

FairSpec == Spec /\ Fairness

-----------------------------------------------------------------------------
Bytes == [frame: Frames, at: Nat]

TypeOK ==
  /\ frames \in Seq(FrameSizes)
  /\ Len(frames) <= MaxFrames
  /\ cur \in [Writers -> 0..Len(frames)]
  /\ writing \in [Writers -> BOOLEAN]
  /\ len_left \in [Writers -> Nat]
  /\ len_written \in [Writers -> Nat]
  /\ chunks \in [Writers -> Nat]
  /\ put \in [Writers -> Seq(Nat)]
  /\ done \in Seq(Frames)
  /\ pipe \in Seq(Bytes)
  /\ m_pBuffer \in Seq(Bytes)
  /\ final_size \in FrameSizes \cup {0}
  /\ got \in Seq(Frames \cup {Torn})
  /\ open \in BOOLEAN
  /\ faults \subseteq Faults

\* However the kernel splits a frame, the loop sends as many bytes as the
\* frame has and none from beyond the buffer that holds it.
SendsWithinBuffer ==
  \A w \in Writers :
    cur[w] # 0 =>
      /\ Len(put[w]) + len_left[w] = frames[cur[w]]
      /\ \A k \in 1..Len(put[w]) : put[w][k] < frames[cur[w]]

\* A frame that at most two sends take is sent byte for byte, although
\* len_written is where the last send ended and not where all of them did.
IntactInTwoSends ==
  \A w \in Writers :
    chunks[w] <= 2 => \A k \in 1..Len(put[w]) : put[w][k] = k - 1

\* "Loop until all is sent": a frame whose write has returned true was sent byte
\* for byte, in however many sends.
AllIsSent ==
  \A w \in Writers :
    cur[w] # 0 /\ ~writing[w] /\ len_left[w] = 0 =>
      \A k \in 1..Len(put[w]) : put[w][k] = k - 1

\* What the stream promises, as a queue of whole frames: frames that are sent
\* whole or in two sends, one thread after the other, all arrive, whole and in
\* order; after a fault there is no promise.
Channel == INSTANCE FrameChannel
  WITH queue <- SubSeq(done, Len(got) + 1, Len(done)), delivered <- got,
       broken <- faults # {}
=============================================================================
