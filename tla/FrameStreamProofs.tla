--------------------------- MODULE FrameStreamProofs ---------------------------
(***************************************************************************)
(* For any threads, header and body sizes and any way in which the kernel  *)
(* splits the sends: the types, that writeToSocket sends as many bytes as  *)
(* the frame has and none from outside it, that two sends are the most     *)
(* that keep the frame intact, and that the stream is a queue of whole     *)
(* frames until one takes a third send, two are sent at a time or a signal *)
(* comes.                                                                  *)
(*                                                                         *)
(* The argument for the sends: len_written never exceeds what has been     *)
(* sent, and equals it until the second send.  So a send that starts at    *)
(* len_written stays in the buffer, and the second send starts where the   *)
(* first one ended.                                                        *)
(*                                                                         *)
(* The argument for the queue, in the last part: the bytes in the          *)
(* receiver's buffer and the kernel are, without a gap, those of the       *)
(* frames written and not processed and of the one that is begun.  So the  *)
(* first of them are a header whose owner is that frame, the size found in *)
(* it is the frame's, and what processMessage gets is the frame that was   *)
(* written next.                                                           *)
(***************************************************************************)
EXTENDS FrameStream, TLAPS, SequenceTheorems, WellFoundedInduction

\* What the loop of writeToSocket keeps: how len_written, the number of sends
\* and the bytes sent are related.
LoopInv ==
  \A w \in Writers :
    /\ len_written[w] <= Len(put[w])
    /\ chunks[w] <= 1 => len_written[w] = Len(put[w])
    /\ chunks[w] = 0 => put[w] = <<>>
    /\ writing[w] => cur[w] # 0

IInv == TypeOK /\ LoopInv /\ SendsWithinBuffer /\ IntactInTwoSends

-----------------------------------------------------------------------------
\* The places that a send of n bytes takes, from place p on.
LEMMA PlacesAreNumbers ==
  ASSUME NEW p \in Nat, NEW n \in Nat
  PROVE  [k \in 1..n |-> p + k - 1] \in Seq(Nat)
  OBVIOUS

\* The sizes of frames are numbers, and no frame is empty.
LEMMA SizesAreNumbers == FrameSizes \subseteq Nat \ {0}
  BY SizeAssumption DEF FrameSizes

\* What the size in a header may be decoded to is the size of a frame.
LEMMA DecodedSizes ==
  ASSUME NEW bytes, frames \in Seq(FrameSizes)
  PROVE  SizesIn(bytes) \subseteq FrameSizes
  BY DEF SizesIn, Decoded

-----------------------------------------------------------------------------
\* The initial states satisfy the inductive invariant.
LEMMA InitInv == Init => IInv
  BY FrameBoundAssumption
     DEF Init, IInv, TypeOK, LoopInv, SendsWithinBuffer, IntactInTwoSends

\* A new frame: the frames before it keep their sizes.
LEMMA BeginWriteInv ==
  ASSUME IInv, NEW w \in Writers, BeginWrite(w)
  PROVE  IInv'
<1>1. PICK s \in FrameSizes : /\ frames' = Append(frames, s)
                              /\ len_left' = [len_left EXCEPT ![w] = s]
  BY DEF BeginWrite
<1>2. s \in Nat \ {0}
  BY SizesAreNumbers
<1>3. /\ frames' \in Seq(FrameSizes) /\ Len(frames') = Len(frames) + 1
      /\ frames'[Len(frames) + 1] = s
      /\ \A i \in 1..Len(frames) : frames'[i] = frames[i]
  BY <1>1, AppendProperties DEF IInv, TypeOK
<1>4. TypeOK'
  <2>1. Len(frames') \in Nat /\ Len(frames') <= MaxFrames
    BY <1>3, FrameBoundAssumption DEF BeginWrite, IInv, TypeOK
  <2>2. cur' \in [Writers -> 0..Len(frames')]
    BY <1>3 DEF BeginWrite, IInv, TypeOK
  <2>3. /\ writing' \in [Writers -> BOOLEAN] /\ len_left' \in [Writers -> Nat]
        /\ len_written' \in [Writers -> Nat] /\ chunks' \in [Writers -> Nat]
    BY <1>1, <1>2 DEF BeginWrite, IInv, TypeOK
  <2>4. put' \in [Writers -> Seq(Nat)]
    <3>1. <<>> \in Seq(Nat)
      OBVIOUS
    <3> QED
      BY <3>1 DEF BeginWrite, IInv, TypeOK
  <2> QED
    BY <1>3, <2>1, <2>2, <2>3, <2>4 DEF BeginWrite, readVars, IInv, TypeOK
<1>5. LoopInv'
  BY DEF BeginWrite, IInv, LoopInv, TypeOK
<1>6. SendsWithinBuffer'
  <2> SUFFICES ASSUME NEW v \in Writers, cur'[v] # 0
               PROVE  /\ Len(put'[v]) + len_left'[v] = frames'[cur'[v]]
                      /\ \A k \in 1..Len(put'[v]) : put'[v][k] < frames'[cur'[v]]
    BY DEF SendsWithinBuffer
  <2>1. CASE v = w
    BY <2>1, <1>1, <1>2, <1>3 DEF BeginWrite, IInv, TypeOK
  <2>2. CASE v # w
    <3>1. cur'[v] = cur[v] /\ cur[v] \in 1..Len(frames)
      <4>1. cur'[v] = cur[v] /\ cur[v] \in 0..Len(frames)
        BY <2>2 DEF BeginWrite, IInv, TypeOK
      <4> QED
        BY <4>1
    <3> QED
      BY <2>2, <3>1, <1>1, <1>3 DEF BeginWrite, IInv, TypeOK, SendsWithinBuffer
  <2> QED
    BY <2>1, <2>2
<1>7. IntactInTwoSends'
  BY DEF BeginWrite, IInv, IntactInTwoSends, TypeOK
<1> QED
  BY <1>4, <1>5, <1>6, <1>7 DEF IInv

\* One send.
LEMMA SendInv ==
  ASSUME IInv, NEW w \in Writers, NEW n \in 1..len_left[w], Send(w, n)
  PROVE  IInv'
<1> DEFINE new == [k \in 1..n |-> SendFrom(w) + k - 1]
<1>1. /\ n \in Nat /\ n >= 1 /\ n <= len_left[w] /\ len_left[w] \in Nat
      /\ len_written[w] \in Nat /\ put[w] \in Seq(Nat) /\ chunks[w] \in Nat
  BY DEF IInv, TypeOK
<1>2. cur[w] \in 1..Len(frames) /\ cur[w] \in Frames
  <2>1. cur[w] \in 0..Len(frames) /\ Len(frames) <= MaxFrames
    BY DEF IInv, TypeOK
  <2>2. cur[w] # 0
    BY DEF Send, IInv, LoopInv
  <2>3. Len(frames) \in Nat
    BY DEF IInv, TypeOK
  <2> QED
    BY <2>1, <2>2, <2>3, FrameBoundAssumption DEF Frames
<1>3. frames[cur[w]] \in Nat
  <2>1. frames[cur[w]] \in FrameSizes
    BY <1>2 DEF IInv, TypeOK
  <2> QED
    BY <2>1, SizesAreNumbers
<1>4. new \in Seq(Nat) /\ Len(new) = n
  BY <1>1, PlacesAreNumbers DEF SendFrom
<1>5. /\ put'[w] \in Seq(Nat) /\ Len(put'[w]) = Len(put[w]) + n
      /\ \A k \in 1..Len(put[w]) : put'[w][k] = put[w][k]
      /\ \A k \in 1..Len(put'[w]) : k > Len(put[w]) =>
           put'[w][k] = len_written[w] + (k - Len(put[w])) - 1
  <2>1. put'[w] = put[w] \o new
    BY DEF Send, IInv, TypeOK
  <2>2. /\ put'[w] \in Seq(Nat) /\ Len(put'[w]) = Len(put[w]) + n
        /\ \A k \in 1..Len(put'[w]) :
             put'[w][k] = IF k <= Len(put[w]) THEN put[w][k]
                          ELSE new[k - Len(put[w])]
    BY <1>1, <1>4, <2>1, ConcatProperties
  <2>3. \A k \in 1..n : new[k] = len_written[w] + k - 1
    BY DEF SendFrom
  <2>4. Len(put[w]) \in Nat
    BY <1>1
  <2> HIDE DEF new
  <2>5. ASSUME NEW k \in 1..Len(put'[w]), k > Len(put[w])
        PROVE  put'[w][k] = len_written[w] + (k - Len(put[w])) - 1
    <3>1. k - Len(put[w]) \in 1..n
      BY <1>1, <2>2, <2>4, <2>5
    <3>2. put'[w][k] = new[k - Len(put[w])]
      BY <2>2, <2>4, <2>5
    <3> QED
      BY <3>1, <3>2, <2>3
  <2>6. ASSUME NEW k \in 1..Len(put[w])
        PROVE  put'[w][k] = put[w][k]
    <3>1. k \in 1..Len(put'[w]) /\ k <= Len(put[w])
      BY <1>1, <2>2, <2>4
    <3> QED
      BY <3>1, <2>2
  <2> QED
    BY <2>2, <2>5, <2>6
<1>6. TypeOK'
  <2>1. pipe' \in Seq(Bytes)
    <3>1. [k \in 1..n |-> ByteOf(cur[w], SendFrom(w) + k - 1)] \in Seq(Bytes)
      BY <1>1, <1>2 DEF SendFrom, ByteOf, Bytes
    <3> QED
      BY <3>1, ConcatProperties DEF Send, IInv, TypeOK
  <2>2. put' \in [Writers -> Seq(Nat)]
    BY <1>5 DEF Send, IInv, TypeOK
  <2>3. done' \in Seq(Frames)
    BY <1>2, AppendProperties DEF Send, IInv, TypeOK
  <2>4. /\ len_left' \in [Writers -> Nat] /\ len_written' \in [Writers -> Nat]
        /\ chunks' \in [Writers -> Nat]
    <3>1. LeftAfter(w, n) \in Nat /\ chunks[w] + 1 \in Nat
      BY <1>1 DEF LeftAfter
    <3> QED
      BY <3>1, <1>1 DEF Send, IInv, TypeOK
  <2>5. writing' \in [Writers -> BOOLEAN]
    <3>1. (LeftAfter(w, n) > 0) \in BOOLEAN
      BY <1>1 DEF LeftAfter
    <3> QED
      BY <3>1 DEF Send, IInv, TypeOK
  <2>6. faults' \subseteq Faults
    BY DEF Send, IInv, TypeOK, Faults
  <2>7. UNCHANGED <<frames, cur, readVars, open>>
    BY DEF Send
  <2> QED
    BY <2>1, <2>2, <2>3, <2>4, <2>5, <2>6, <2>7 DEF readVars, IInv, TypeOK
<1>7. LoopInv'
  <2> SUFFICES ASSUME NEW v \in Writers
               PROVE  /\ len_written'[v] <= Len(put'[v])
                      /\ chunks'[v] <= 1 => len_written'[v] = Len(put'[v])
                      /\ chunks'[v] = 0 => put'[v] = <<>>
                      /\ writing'[v] => cur'[v] # 0
    BY DEF LoopInv
  <2>1. CASE v = w
    <3>1. len_written'[w] = n /\ chunks'[w] = chunks[w] + 1 /\ cur'[w] = cur[w]
      BY DEF Send, IInv, TypeOK
    <3>2. chunks[w] = 0 => Len(put[w]) = 0
      BY DEF IInv, LoopInv
    <3>3. Len(put[w]) \in Nat /\ Len(put'[w]) = Len(put[w]) + n
      BY <1>1, <1>5
    <3>4. cur[w] # 0
      BY <1>2
    <3> QED
      BY <2>1, <3>1, <3>2, <3>3, <3>4, <1>1
  <2>2. CASE v # w
    BY <2>2 DEF Send, IInv, LoopInv, TypeOK
  <2> QED
    BY <2>1, <2>2
<1>8. SendsWithinBuffer'
  <2> SUFFICES ASSUME NEW v \in Writers, cur'[v] # 0
               PROVE  /\ Len(put'[v]) + len_left'[v] = frames'[cur'[v]]
                      /\ \A k \in 1..Len(put'[v]) : put'[v][k] < frames'[cur'[v]]
    BY DEF SendsWithinBuffer
  <2>1. CASE v = w
    <3>1. /\ frames' = frames /\ cur' = cur
          /\ len_left'[w] = len_left[w] - n
      BY DEF Send, LeftAfter, IInv, TypeOK
    <3>2. /\ Len(put[w]) + len_left[w] = frames[cur[w]]
          /\ \A k \in 1..Len(put[w]) : put[w][k] < frames[cur[w]]
          /\ len_written[w] <= Len(put[w])
      BY <1>2 DEF IInv, SendsWithinBuffer, LoopInv
    <3>3. Len(put'[w]) + len_left'[w] = frames[cur[w]]
      BY <3>1, <3>2, <1>1, <1>5
    <3>4. ASSUME NEW k \in 1..Len(put'[w])
          PROVE  put'[w][k] < frames[cur[w]]
      <4>1. CASE k <= Len(put[w])
        BY <4>1, <3>2, <1>1, <1>5
      <4>2. CASE k > Len(put[w])
        <5>1. k - Len(put[w]) <= n /\ Len(put[w]) \in Nat
          BY <1>1, <1>5
        <5>2. put'[w][k] = len_written[w] + (k - Len(put[w])) - 1
          BY <4>2, <1>5
        <5> QED
          BY <5>1, <5>2, <3>2, <1>1, <1>3
      <4> QED
        BY <4>1, <4>2, <1>1, <1>5
    <3> QED
      BY <2>1, <3>1, <3>3, <3>4
  <2>2. CASE v # w
    BY <2>2 DEF Send, IInv, SendsWithinBuffer, TypeOK
  <2> QED
    BY <2>1, <2>2
<1>9. IntactInTwoSends'
  <2> SUFFICES ASSUME NEW v \in Writers, chunks'[v] <= 2,
                      NEW k \in 1..Len(put'[v])
               PROVE  put'[v][k] = k - 1
    BY DEF IntactInTwoSends
  <2>1. CASE v = w
    <3>1. chunks[w] <= 1
      <4>1. chunks'[w] = chunks[w] + 1
        BY DEF Send, IInv, TypeOK
      <4> QED
        BY <4>1, <2>1, <1>1
    <3>2. len_written[w] = Len(put[w])
      BY <3>1 DEF IInv, LoopInv
    <3>3. \A j \in 1..Len(put[w]) : put[w][j] = j - 1
      <4>1. chunks[w] <= 2
        BY <3>1, <1>1
      <4> QED
        BY <4>1 DEF IInv, IntactInTwoSends
    <3>4. CASE k <= Len(put[w])
      <4>1. k \in 1..Len(put[w])
        BY <3>4, <1>1
      <4> QED
        BY <4>1, <3>3, <2>1, <1>5
    <3>5. CASE k > Len(put[w])
      <4>1. put'[w][k] = len_written[w] + (k - Len(put[w])) - 1
        BY <3>5, <2>1, <1>5
      <4>2. Len(put[w]) \in Nat /\ k \in Int
        BY <1>1
      <4> QED
        BY <4>1, <4>2, <3>2, <2>1
    <3> QED
      BY <3>4, <3>5, <2>1, <1>1, <1>5
  <2>2. CASE v # w
    BY <2>2 DEF Send, IInv, IntactInTwoSends, TypeOK
  <2> QED
    BY <2>1, <2>2
<1> QED
  BY <1>6, <1>7, <1>8, <1>9 DEF IInv

\* The steps of the receiver leave the writers alone.
LEMMA ReaderInv ==
  ASSUME IInv, UNCHANGED writeVars, TypeOK'
  PROVE  IInv'
  BY DEF IInv, LoopInv, SendsWithinBuffer, IntactInTwoSends, writeVars

\* One recv.
LEMMA RecvInv ==
  ASSUME IInv, NEW n \in 1..Wanted, Recv(n)
  PROVE  IInv'
<1>1. n \in Nat /\ n >= 1 /\ n <= Len(pipe) /\ pipe \in Seq(Bytes)
  BY DEF Recv, IInv, TypeOK
<1>2. SubSeq(pipe, 1, n) \in Seq(Bytes) /\ pipe' \in Seq(Bytes)
  BY <1>1, SubSeqProperties DEF Recv
<1>3. m_pBuffer' \in Seq(Bytes)
  BY <1>2, ConcatProperties DEF Recv, IInv, TypeOK
<1>4. final_size' \in FrameSizes \cup {0}
  BY DecodedSizes DEF Recv, IInv, TypeOK
<1>5. TypeOK'
  BY <1>2, <1>3, <1>4 DEF Recv, writeVars, IInv, TypeOK
<1> QED
  BY <1>5, ReaderInv DEF Recv

\* A message is processed.
LEMMA ProcessInv ==
  ASSUME IInv, Process
  PROVE  IInv'
<1>1. 1..Len(frames) \subseteq Frames
  BY FrameBoundAssumption DEF IInv, TypeOK, Frames
<1>2. PICK g \in Frames \cup {Torn} : got' = Append(got, g)
  BY <1>1 DEF Process
<1>3. got' \in Seq(Frames \cup {Torn})
  BY <1>2, AppendProperties DEF IInv, TypeOK
<1>4. open' \in BOOLEAN
  BY DEF Process, IInv, TypeOK
<1>5. /\ UNCHANGED <<writeVars, pipe, faults>>
      /\ m_pBuffer' = <<>> /\ final_size' = 0
  BY DEF Process
<1>6. TypeOK'
  BY <1>3, <1>4, <1>5 DEF writeVars, IInv, TypeOK
<1> QED
  BY <1>5, <1>6, ReaderInv

\* Every step of the specification keeps the inductive invariant.
LEMMA StepInv == IInv /\ [Next]_vars => IInv'
<1> SUFFICES ASSUME IInv, [Next]_vars PROVE IInv'
  OBVIOUS
<1>1. ASSUME NEW w \in Writers, BeginWrite(w) PROVE IInv'
  BY <1>1, BeginWriteInv
<1>2. ASSUME NEW w \in Writers, NEW n \in 1..len_left[w], Send(w, n)
      PROVE  IInv'
  BY <1>2, SendInv
<1>3. ASSUME NEW w \in Writers, SendFails(w) PROVE IInv'
  <2>1. writing' \in [Writers -> BOOLEAN] /\ \A v \in Writers : writing'[v] => writing[v]
    BY <1>3 DEF SendFails, IInv, TypeOK
  <2>2. faults' \subseteq Faults
    BY <1>3 DEF SendFails, IInv, TypeOK, Faults
  <2>3. UNCHANGED <<frames, cur, len_left, len_written, chunks, put, done, pipe,
                    readVars, open>>
    BY <1>3 DEF SendFails
  <2>4. TypeOK'
    BY <2>1, <2>2, <2>3 DEF readVars, IInv, TypeOK
  <2> QED
    BY <2>1, <2>3, <2>4 DEF IInv, LoopInv, SendsWithinBuffer, IntactInTwoSends
<1>4. ASSUME NEW n \in 1..Wanted, Recv(n) PROVE IInv'
  BY <1>4, RecvInv
<1>5. CASE Process
  BY <1>5, ProcessInv
<1>6. CASE RecvFails
  <2>1. TypeOK'
    BY <1>6 DEF RecvFails, writeVars, readVars, IInv, TypeOK, Faults
  <2> QED
    BY <1>6, <2>1, ReaderInv DEF RecvFails
<1>7. CASE UNCHANGED vars
  <2>1. TypeOK'
    BY <1>7 DEF vars, writeVars, readVars, IInv, TypeOK
  <2> QED
    BY <1>7, <2>1, ReaderInv DEF vars
<1> QED
  BY <1>1, <1>2, <1>3, <1>4, <1>5, <1>6, <1>7 DEF Next, Finished

\* The inductive invariant holds in every reachable state.
LEMMA Invariance == Spec => []IInv
  BY InitInv, StepInv, PTL DEF Spec

\* The types of the writers' and the receiver's variables, for any sizes.
THEOREM TypeCorrect == Spec => []TypeOK
<1>1. IInv => TypeOK
  BY DEF IInv
<1> QED
  BY <1>1, Invariance, PTL

\* writeToSocket, with any split of the frame: it sends as many bytes as the
\* frame has, and reads none outside the buffer that holds the frame.
THEOREM SendsStayInBuffer == Spec => []SendsWithinBuffer
<1>1. IInv => SendsWithinBuffer
  BY DEF IInv
<1> QED
  BY <1>1, Invariance, PTL

\* writeToSocket: a frame that at most two sends take is sent byte for byte,
\* whatever its size, and whatever the other threads write.
THEOREM TwoSendsAreIntact == Spec => []IntactInTwoSends
<1>1. IInv => IntactInTwoSends
  BY DEF IInv
<1> QED
  BY <1>1, Invariance, PTL

-----------------------------------------------------------------------------
(* The stream as a queue of frames. *)

\* A send has taken a part of the frame of w, and not all of it.
Begun(w) == writing[w] /\ put[w] # <<>>

\* f is the j-th frame that is written to the end, or begun after those.
IsNth(f, j) ==
  \/ j \in 1..Len(done) /\ done[j] = f
  \/ j = Len(done) + 1 /\ \E w \in Writers : Begun(w) /\ cur[w] = f

\* The frames are told apart, and sent one at a time, in two sends at most.
OrderInv ==
  /\ \A w \in Writers : chunks[w] <= 2
  /\ Len(got) <= Len(done)
  /\ \A i \in 1..Len(done) : done[i] <= Len(frames)
  /\ \A i, j \in 1..Len(done) : done[i] = done[j] => i = j
  /\ \A w \in Writers : writing[w] =>
       /\ len_left[w] > 0
       /\ \A i \in 1..Len(done) : done[i] # cur[w]
       /\ \A v \in Writers : writing[v] /\ cur[v] = cur[w] => v = w
  /\ \A v, w \in Writers : Begun(v) /\ Begun(w) => v = w

\* The bytes sent and not processed, those in the receiver's buffer first.
Stream == m_pBuffer \o pipe

\* b is the byte that has to come after a.
Follows(a, b) ==
  \/ b.frame = a.frame /\ b.at = a.at + 1
  \/ /\ a.at = frames[a.frame] - 1 /\ b.at = 0
     /\ \E j \in 1..Len(done) : IsNth(a.frame, j) /\ IsNth(b.frame, j + 1)

\* The last byte of the last frame that was written to the end.
LastDone == ByteOf(done[Len(done)], frames[done[Len(done)]] - 1)

\* The bytes on their way are those of the frames that are not processed, in order
\* and without a gap.
StreamInv ==
  /\ \A k \in 1..Len(Stream) :
       /\ Stream[k].frame \in 1..Len(frames)
       /\ Stream[k].at < frames[Stream[k].frame]
  /\ \A k \in 1..Len(Stream) - 1 : Follows(Stream[k], Stream[k + 1])
  /\ Stream # <<>> => Stream[1].at = 0 /\ IsNth(Stream[1].frame, Len(got) + 1)
  /\ \A w \in Writers : Begun(w) =>
       /\ Stream # <<>>
       /\ Stream[Len(Stream)] = ByteOf(cur[w], Len(put[w]) - 1)
  /\ (\A w \in Writers : ~Begun(w)) =>
       IF Stream = <<>> THEN Len(got) = Len(done)
       ELSE Len(done) > 0 /\ Stream[Len(Stream)] = LastDone

\* The receiver's buffer holds a part of one frame, and its size with the header.
BufferInv ==
  /\ m_pBuffer # <<>> => Len(m_pBuffer) <= frames[m_pBuffer[1].frame]
  /\ IF final_size = 0 THEN Len(m_pBuffer) < HeaderLen
     ELSE m_pBuffer # <<>> /\ final_size = frames[m_pBuffer[1].frame]

QueueInv == faults = {} => OrderInv /\ StreamInv /\ BufferInv

\* A set of numbers that is not empty has a least element.
LEMMA LeastNumber ==
  ASSUME NEW S, S \subseteq Nat, S # {}
  PROVE  \E n \in S : \A k \in S : n <= k
<1>1. PICK n \in S : \A k \in S : ~(<<k, n>> \in OpToRel(<, Nat))
  BY NatLessThanWellFounded, WFMin
<1>2. \A k \in S : ~(k < n)
  BY <1>1, Zenon DEF OpToRel
<1> QED
  BY <1>2

\* A byte is its frame and its place.
LEMMA ByteIs ==
  ASSUME NEW b \in Bytes
  PROVE  b = ByteOf(b.frame, b.at) /\ b.frame \in Nat /\ b.at \in Nat
  BY DEF Bytes, ByteOf, Frames

\* A frame is longer than its header.
LEMMA FrameSize ==
  ASSUME TypeOK, NEW f \in 1..Len(frames)
  PROVE  frames[f] \in Nat /\ frames[f] > HeaderLen /\ HeaderLen \in Nat \ {0}
<1>1. frames[f] \in FrameSizes
  BY DEF TypeOK
<1>2. PICK b \in BodySizes : frames[f] = HeaderLen + b
  BY <1>1 DEF FrameSizes
<1>3. b \in Nat \ {0} /\ HeaderLen \in Nat \ {0}
  BY SizeAssumption
<1> QED
  BY <1>2, <1>3

\* The stream is the buffer and what follows in the kernel.
LEMMA StreamIs ==
  ASSUME TypeOK
  PROVE  /\ Stream \in Seq(Bytes) /\ Len(Stream) = Len(m_pBuffer) + Len(pipe)
         /\ Len(m_pBuffer) \in Nat /\ Len(pipe) \in Nat
         /\ \A k \in 1..Len(Stream) :
              Stream[k] = IF k <= Len(m_pBuffer) THEN m_pBuffer[k]
                          ELSE pipe[k - Len(m_pBuffer)]
<1>1. m_pBuffer \in Seq(Bytes) /\ pipe \in Seq(Bytes)
  BY DEF TypeOK
<1> QED
  BY <1>1, ConcatProperties DEF Stream

\* A frame that is written to the end is one of those that were begun.
LEMMA DoneType ==
  ASSUME TypeOK, OrderInv
  PROVE  /\ Len(done) \in Nat /\ Len(got) \in Nat /\ Len(frames) \in Nat
         /\ \A i \in 1..Len(done) : done[i] \in 1..Len(frames)
<1>1. done \in Seq(Frames) /\ Len(frames) \in Nat /\ Len(got) \in Nat
  BY DEF TypeOK
<1> QED
  BY <1>1, FrameBoundAssumption DEF OrderInv, Frames

\* Each frame has one place in the order, and each place one frame.
LEMMA NthIsUnique ==
  ASSUME TypeOK, OrderInv, NEW f, NEW g, NEW i, NEW j,
         IsNth(f, i), IsNth(g, j)
  PROVE  i \in Nat \ {0} /\ i <= Len(done) + 1 /\ (f = g <=> i = j)
<1>1. Len(done) \in Nat
  BY DoneType
<1>2. CASE i \in 1..Len(done) /\ j \in 1..Len(done)
  BY <1>1, <1>2 DEF IsNth, OrderInv
<1>3. CASE i \notin 1..Len(done) /\ j \in 1..Len(done)
  BY <1>1, <1>3 DEF IsNth, OrderInv, Begun
<1>4. CASE i \in 1..Len(done) /\ j \notin 1..Len(done)
  BY <1>1, <1>4 DEF IsNth, OrderInv, Begun
<1>5. CASE i \notin 1..Len(done) /\ j \notin 1..Len(done)
  BY <1>1, <1>5 DEF IsNth, OrderInv
<1> QED
  BY <1>2, <1>3, <1>4, <1>5

\* The stream begins with the next frame to be processed, as far as it is there.
LEMMA StreamBegins ==
  ASSUME TypeOK, OrderInv, StreamInv, NEW k \in 1..Len(Stream),
         k <= frames[Stream[1].frame]
  PROVE  Stream[k] = ByteOf(Stream[1].frame, k - 1)
<1> DEFINE F == Stream[1].frame
           Wrong == {n \in 1..Len(Stream) : n <= frames[F] /\ Stream[n] # ByteOf(F, n - 1)}
<1>1. SUFFICES ASSUME Wrong # {} PROVE FALSE
  OBVIOUS
<1>2. /\ Stream \in Seq(Bytes) /\ Len(Stream) \in Nat
      /\ \A n \in 1..Len(Stream) : Stream[n] \in Bytes
  BY StreamIs
<1>3. Stream # <<>> /\ 1 \in 1..Len(Stream)
  BY <1>2
<1>4. F \in 1..Len(frames) /\ frames[F] \in Nat
  BY <1>3, FrameSize DEF StreamInv
<1>5. PICK n \in Wrong : \A m \in Wrong : n <= m
  <2>1. Wrong \subseteq Nat
    BY <1>2
  <2> QED
    BY <1>1, <2>1, LeastNumber
<1>a. /\ n \in 1..Len(Stream) /\ n <= frames[F] /\ n \in Nat
      /\ Stream[n] # ByteOf(F, n - 1)
  BY <1>2, <1>5
<1>6. CASE n = 1
  BY <1>2, <1>3, <1>a, <1>6, ByteIs DEF StreamInv
<1>7. CASE n # 1
  <2>1. n \in 2..Len(Stream) /\ n <= frames[F]
    BY <1>2, <1>a, <1>7
  <2>2. n - 1 \in 1..Len(Stream) /\ n - 1 \in 1..Len(Stream) - 1 /\ (n - 1) + 1 = n
    BY <1>2, <2>1
  <2>3. n - 1 <= frames[F] /\ ~(n <= n - 1)
    BY <1>4, <2>1, <2>2
  <2>4. n - 1 \notin Wrong
    BY <1>5, <2>3
  <2>5. Stream[n - 1] = ByteOf(F, n - 2)
    BY <1>4, <2>1, <2>2, <2>3, <2>4
  <2>6. Follows(Stream[n - 1], Stream[n])
    BY <2>2 DEF StreamInv
  <2>7. Stream[n].frame = F /\ Stream[n].at = n - 1
    BY <1>4, <2>1, <2>5, <2>6 DEF Follows, ByteOf
  <2> QED
    BY <1>2, <1>a, <2>1, <2>7, ByteIs
<1> QED
  BY <1>6, <1>7

\* A step that sends, receives and ends nothing keeps what is said of the stream.
LEMMA StreamKept ==
  ASSUME TypeOK, OrderInv, StreamInv, BufferInv,
         UNCHANGED <<done, pipe, m_pBuffer, final_size, got>>,
         \A v \in Writers : /\ Begun(v)' <=> Begun(v)
                            /\ Begun(v) => cur'[v] = cur[v] /\ put'[v] = put[v],
         Len(frames) <= Len(frames'), Len(frames') \in Nat,
         \A f \in 1..Len(frames) : frames'[f] = frames[f]
  PROVE  StreamInv' /\ BufferInv'
<1>1. Stream' = Stream
  BY DEF Stream
<1>2. ASSUME NEW f, NEW j PROVE IsNth(f, j)' <=> IsNth(f, j)
  BY DEF IsNth
<1>3. /\ Len(done) \in Nat /\ Len(frames) \in Nat
      /\ \A i \in 1..Len(done) : done[i] \in 1..Len(frames)
  BY DoneType
<1>4. Len(done) > 0 => LastDone' = LastDone
  BY <1>3 DEF LastDone
<1>5. \A k \in 1..Len(Stream) : /\ Stream[k].frame \in 1..Len(frames)
                                /\ Stream[k].frame \in 1..Len(frames')
  BY <1>3 DEF StreamInv
<1>6. ASSUME NEW k \in 1..Len(Stream) - 1
      PROVE  Follows(Stream[k], Stream[k + 1])'
  <2>1. k \in 1..Len(Stream) /\ k + 1 \in 1..Len(Stream)
    BY StreamIs
  <2>2. Follows(Stream[k], Stream[k + 1])
    BY DEF StreamInv
  <2> QED
    BY <1>1, <1>2, <1>5, <2>1, <2>2 DEF Follows
<1>7. StreamInv'
  <2>1. \A k \in 1..Len(Stream') :
          /\ Stream'[k].frame \in 1..Len(frames')
          /\ Stream'[k].at < frames'[Stream'[k].frame]
    BY <1>1, <1>5 DEF StreamInv
  <2>2. \A k \in 1..Len(Stream') - 1 : Follows(Stream[k], Stream[k + 1])'
    BY <1>1, <1>6
  <2>3. Stream' # <<>> => Stream'[1].at = 0 /\ IsNth(Stream[1].frame, Len(got) + 1)'
    BY <1>1, <1>2 DEF StreamInv
  <2>4. \A w \in Writers : Begun(w)' =>
          /\ Stream' # <<>>
          /\ Stream'[Len(Stream')] = ByteOf(cur'[w], Len(put'[w]) - 1)
    BY <1>1 DEF StreamInv
  <2>5. (\A w \in Writers : ~Begun(w)') =>
          IF Stream' = <<>> THEN Len(got') = Len(done')
          ELSE Len(done') > 0 /\ Stream'[Len(Stream')] = LastDone'
    BY <1>1, <1>4 DEF StreamInv
  <2> QED
    BY <2>1, <2>2, <2>3, <2>4, <2>5 DEF StreamInv
<1>8. BufferInv'
  <2>1. m_pBuffer # <<>> => frames'[m_pBuffer[1].frame] = frames[m_pBuffer[1].frame]
    <3> SUFFICES ASSUME m_pBuffer # <<>>
                 PROVE  m_pBuffer[1].frame \in 1..Len(frames)
      OBVIOUS
    <3>1. Len(m_pBuffer) > 0
      BY DEF TypeOK
    <3> QED
      BY <1>5, <3>1, StreamIs
  <2> QED
    BY <2>1 DEF BufferInv
<1> QED
  BY <1>7, <1>8

\* A frame that begins to be written is a new one.
LEMMA BeginWriteQueue ==
  ASSUME IInv, QueueInv, NEW w \in Writers, BeginWrite(w)
  PROVE  QueueInv'
<1> SUFFICES ASSUME faults = {} PROVE OrderInv' /\ StreamInv' /\ BufferInv'
  BY DEF QueueInv, BeginWrite
<1>0. TypeOK /\ OrderInv /\ StreamInv /\ BufferInv
  BY DEF IInv, QueueInv
<1>1. PICK s \in FrameSizes : /\ frames' = Append(frames, s)
                              /\ len_left' = [len_left EXCEPT ![w] = s]
  BY DEF BeginWrite
<1>2. s \in Nat \ {0}
  BY SizesAreNumbers
<1>3. /\ Len(frames') = Len(frames) + 1 /\ Len(frames) \in Nat
      /\ \A i \in 1..Len(frames) : frames'[i] = frames[i]
  BY <1>0, <1>1, AppendProperties DEF TypeOK
<1>4. UNCHANGED <<done, pipe, m_pBuffer, final_size, got>>
  BY DEF BeginWrite, readVars
<1>5. \A v \in Writers :
        /\ writing'[v] <=> v = w \/ writing[v]
        /\ cur'[v] = IF v = w THEN Len(frames) + 1 ELSE cur[v]
        /\ put'[v] = IF v = w THEN <<>> ELSE put[v]
        /\ len_left'[v] = IF v = w THEN s ELSE len_left[v]
        /\ cur[v] <= Len(frames) /\ cur[v] \in Nat
  BY <1>0, <1>1, <1>3 DEF BeginWrite, TypeOK
<1>6. ~writing[w]
  BY DEF BeginWrite
<1>7. \A v \in Writers : /\ Begun(v)' <=> Begun(v)
                         /\ Begun(v) => cur'[v] = cur[v] /\ put'[v] = put[v]
  BY <1>5, <1>6 DEF Begun
<1>8. OrderInv'
  <2>1. \A i \in 1..Len(done) : done[i] <= Len(frames') /\ done[i] # Len(frames) + 1
    BY <1>0, <1>3, DoneType
  <2>2. \A v \in Writers : writing'[v] =>
          /\ len_left'[v] > 0
          /\ \A i \in 1..Len(done) : done[i] # cur'[v]
          /\ \A u \in Writers : writing'[u] /\ cur'[u] = cur'[v] => u = v
    <3> SUFFICES ASSUME NEW v \in Writers, writing'[v]
                 PROVE  /\ len_left'[v] > 0
                        /\ \A i \in 1..Len(done) : done[i] # cur'[v]
                        /\ \A u \in Writers : writing'[u] /\ cur'[u] = cur'[v] => u = v
      OBVIOUS
    <3>1. CASE v = w
      BY <1>2, <1>3, <1>5, <2>1, <3>1
    <3>2. CASE v # w
      <4>1. /\ writing[v] /\ len_left'[v] = len_left[v] /\ cur'[v] = cur[v]
            /\ cur[v] # Len(frames) + 1
        BY <1>3, <1>5, <3>2
      <4>2. ASSUME NEW u \in Writers, writing'[u], cur'[u] = cur'[v] PROVE u = v
        <5>1. u # w /\ writing[u] /\ cur[u] = cur[v]
          BY <1>5, <4>1, <4>2
        <5> QED
          BY <1>0, <4>1, <5>1 DEF OrderInv
      <4>3. len_left[v] > 0 /\ \A i \in 1..Len(done) : done[i] # cur[v]
        BY <1>0, <4>1 DEF OrderInv
      <4> QED
        BY <4>1, <4>2, <4>3
    <3> QED
      BY <3>1, <3>2
  <2>3. \A v \in Writers : chunks'[v] <= 2
    BY <1>0 DEF BeginWrite, OrderInv, TypeOK
  <2> QED
    BY <1>0, <1>4, <1>7, <2>1, <2>2, <2>3 DEF OrderInv
<1>9. Len(frames) <= Len(frames') /\ Len(frames') \in Nat
  BY <1>3
<1> QED
  BY <1>0, <1>3, <1>4, <1>7, <1>8, <1>9, StreamKept

\* A frame may be given up before a send has taken a part of it.
LEMMA SendFailsQueue ==
  ASSUME IInv, QueueInv, NEW w \in Writers, SendFails(w)
  PROVE  QueueInv'
<1> SUFFICES ASSUME faults' = {} PROVE OrderInv' /\ StreamInv' /\ BufferInv'
  BY DEF QueueInv
<1>1. put[w] = <<>> /\ faults = {}
  BY DEF SendFails
<1>0. TypeOK /\ OrderInv /\ StreamInv /\ BufferInv
  BY <1>1 DEF IInv, QueueInv
<1>2. /\ UNCHANGED <<frames, cur, len_left, chunks, put, done, pipe, m_pBuffer, final_size, got>>
      /\ \A v \in Writers : writing'[v] = (v # w /\ writing[v])
  BY <1>0 DEF SendFails, readVars, TypeOK
<1>3. \A v \in Writers : Begun(v)' <=> Begun(v)
  BY <1>1, <1>2 DEF Begun
<1>4. OrderInv'
  BY <1>0, <1>2, <1>3 DEF OrderInv
<1>5. Len(frames') \in Nat /\ Len(frames) <= Len(frames')
  BY <1>0, <1>2 DEF TypeOK
<1> QED
  BY <1>0, <1>2, <1>3, <1>4, <1>5, StreamKept

\* A send by itself continues the stream: with the next byte of its frame, or with
\* the first byte of the frame after the last one.
LEMMA SendQueue ==
  ASSUME IInv, QueueInv, NEW w \in Writers, NEW n \in 1..len_left[w], Send(w, n)
  PROVE  QueueInv'
<1> SUFFICES ASSUME faults' = {} PROVE OrderInv' /\ StreamInv' /\ BufferInv'
  BY DEF QueueInv
<1>p. PICK p, c, d : p = Len(put[w]) /\ c = cur[w] /\ d = Len(done)
  OBVIOUS
<1>1. faults = {} /\ chunks[w] # 2 /\ ~Halfway(w)
  BY DEF Send
<1>0. TypeOK /\ OrderInv /\ StreamInv /\ BufferInv
  BY <1>1 DEF IInv, QueueInv
<1>2. /\ len_left[w] \in Nat /\ n \in Nat \ {0} /\ n <= len_left[w]
      /\ p \in Nat /\ put[w] \in Seq(Nat)
  <2>1. len_left[w] \in Nat /\ put[w] \in Seq(Nat)
    BY <1>0 DEF TypeOK
  <2> QED
    BY <1>p, <2>1
<1>3. /\ writing[w] /\ c \in 1..Len(frames) /\ Len(frames) \in Nat
      /\ frames[c] \in Nat /\ p + len_left[w] = frames[c]
  <2>1. c \in 0..Len(frames) /\ Len(frames) \in Nat
    BY <1>0, <1>p DEF TypeOK
  <2>2. writing[w] /\ c # 0
    BY <1>p DEF Send, IInv, LoopInv
  <2>3. c \in 1..Len(frames)
    BY <2>1, <2>2
  <2> QED
    BY <1>0, <1>p, <2>1, <2>2, <2>3, FrameSize DEF IInv, SendsWithinBuffer
<1>4. SendFrom(w) = p
  <2>1. chunks[w] \in Nat
    BY <1>0 DEF TypeOK
  <2>2. chunks[w] <= 1
    BY <1>0, <1>1, <2>1 DEF OrderInv
  <2> QED
    BY <1>p, <2>2 DEF SendFrom, IInv, LoopInv
<1>5. /\ UNCHANGED <<frames, cur, m_pBuffer, final_size, got>>
      /\ pipe' = pipe \o [k \in 1..n |-> ByteOf(c, p + k - 1)]
      /\ put' = [put EXCEPT ![w] = @ \o [k \in 1..n |-> p + k - 1]]
      /\ len_left' = [len_left EXCEPT ![w] = len_left[w] - n]
      /\ writing' = [writing EXCEPT ![w] = len_left[w] - n > 0]
      /\ chunks' = [chunks EXCEPT ![w] = @ + 1]
      /\ done' = IF len_left[w] - n > 0 THEN done ELSE Append(done, c)
  BY <1>4, <1>p DEF Send, LeftAfter, readVars
<1>c. c \in Frames
  BY <1>0, <1>3, FrameBoundAssumption DEF TypeOK, Frames
<1>t. /\ writing \in [Writers -> BOOLEAN] /\ put \in [Writers -> Seq(Nat)]
      /\ len_left \in [Writers -> Nat] /\ chunks \in [Writers -> Nat]
  BY <1>0 DEF TypeOK
<1>6. /\ Len(put'[w]) = p + n /\ put'[w] # <<>>
      /\ \A v \in Writers \ {w} : put'[v] = put[v]
  <2>1. [k \in 1..n |-> p + k - 1] \in Seq(Nat) /\ Len([k \in 1..n |-> p + k - 1]) = n
    BY <1>2, PlacesAreNumbers
  <2>2. put'[w] = put[w] \o [k \in 1..n |-> p + k - 1]
    BY <1>t, <1>5
  <2>3. Len(put'[w]) = p + n
    BY <1>2, <1>p, <2>1, <2>2, ConcatProperties
  <2>4. put'[w] # <<>>
    BY <1>2, <2>3
  <2> QED
    BY <1>t, <1>5, <2>3, <2>4
<1>7. \A v \in Writers : /\ writing'[v] <=> IF v = w THEN n < len_left[w] ELSE writing[v]
                         /\ len_left'[v] = IF v = w THEN len_left[w] - n ELSE len_left[v]
                         /\ chunks'[v] = IF v = w THEN chunks[w] + 1 ELSE chunks[v]
  <2>1. writing'[w] <=> n < len_left[w]
    <3>1. writing'[w] = (len_left[w] - n > 0)
      BY <1>t, <1>5
    <3>2. len_left[w] - n > 0 <=> n < len_left[w]
      BY <1>2
    <3> QED
      BY <3>1, <3>2
  <2> QED
    BY <1>t, <1>5, <2>1
<1>8. \A v \in Writers : /\ v # w => ~Begun(v) /\ ~Begun(v)'
                         /\ Begun(v)' <=> v = w /\ n < len_left[w]
  BY <1>1, <1>6, <1>7 DEF Begun, Halfway
<1>9. /\ Len(Stream) \in Nat /\ Len(Stream') = Len(Stream) + n
      /\ \A k \in 1..Len(Stream) : Stream'[k] = Stream[k]
      /\ \A k \in 1..n : Stream'[Len(Stream) + k] = ByteOf(c, p + k - 1)
  <2> DEFINE new == [k \in 1..n |-> ByteOf(c, p + k - 1)]
  <2>2. new \in Seq(Bytes) /\ Len(new) = n
    <3>1. \A k \in 1..n : ByteOf(c, p + k - 1) \in Bytes
      BY <1>2, <1>c DEF ByteOf, Bytes
    <3> QED
      BY <1>2, <3>1
  <2>1. Stream' = Stream \o new
    <3>1. m_pBuffer \in Seq(Bytes) /\ pipe \in Seq(Bytes) /\ pipe' = pipe \o new
      BY <1>0, <1>5 DEF TypeOK
    <3>2. m_pBuffer' = m_pBuffer
      BY <1>5
    <3> HIDE DEF new
    <3>3. m_pBuffer \o (pipe \o new) = (m_pBuffer \o pipe) \o new
      BY <2>2, <3>1, ConcatAssociative, SMTT(30)
    <3> QED
      BY <3>1, <3>2, <3>3 DEF Stream
  <2>3. \A k \in 1..n : new[k] = ByteOf(c, p + k - 1)
    OBVIOUS
  <2>4. Stream \in Seq(Bytes) /\ Len(Stream) \in Nat
    BY <1>0, StreamIs
  <2> HIDE DEF new
  <2>5. /\ Len(Stream \o new) = Len(Stream) + n
        /\ \A k \in 1..Len(Stream) + n :
             (Stream \o new)[k] = IF k <= Len(Stream) THEN Stream[k] ELSE new[k - Len(Stream)]
    BY <2>2, <2>4, ConcatProperties
  <2>6. ASSUME NEW k \in 1..n PROVE Stream'[Len(Stream) + k] = ByteOf(c, p + k - 1)
    <3>1. /\ Len(Stream) + k \in 1..Len(Stream) + n /\ ~(Len(Stream) + k <= Len(Stream))
          /\ (Len(Stream) + k) - Len(Stream) = k
      BY <1>2, <2>4
    <3> QED
      BY <2>1, <2>3, <2>5, <3>1
  <2>7. ASSUME NEW k \in 1..Len(Stream) PROVE Stream'[k] = Stream[k]
    <3>1. k \in 1..Len(Stream) + n /\ k <= Len(Stream)
      BY <1>2, <2>4
    <3> QED
      BY <2>1, <2>5, <3>1
  <2> QED
    BY <2>1, <2>4, <2>5, <2>6, <2>7
<1>10. /\ Len(done) \in Nat /\ Len(done') \in Nat /\ Len(done) <= Len(done')
       /\ \A i \in 1..Len(done) : done'[i] = done[i] /\ done[i] \in 1..Len(frames)
       /\ n < len_left[w] => done' = done
       /\ n = len_left[w] => /\ Len(done') = Len(done) + 1 /\ done'[Len(done) + 1] = c
                             /\ \A i \in 1..Len(done') : i \in 1..Len(done) \/ i = Len(done) + 1
  <2>1. done \in Seq(Frames)
    BY <1>0 DEF TypeOK
  <2>2. CASE n < len_left[w]
    BY <1>0, <1>2, <1>5, <2>1, <2>2, DoneType
  <2>3. CASE n = len_left[w]
    <3>1. done' = Append(done, c)
      BY <1>2, <1>5, <2>3
    <3>2. done \in Seq(Frames) /\ c \in Frames
      BY <1>c, <2>1
    <3>3. Len(done) \in Nat /\ \A i \in 1..Len(done) : done[i] \in 1..Len(frames)
      BY <1>0, DoneType
    <3> QED
      BY <2>3, <3>1, <3>2, <3>3, AppendProperties
  <2> QED
    BY <1>2, <2>2, <2>3
<1>11. ASSUME NEW f, NEW j, IsNth(f, j) PROVE IsNth(f, j)'
  <2>1. CASE j \in 1..Len(done) /\ done[j] = f
    BY <1>10, <2>1 DEF IsNth
  <2>2. CASE j = Len(done) + 1 /\ \E v \in Writers : Begun(v) /\ cur[v] = f
    <3>1. f = c
      BY <1>8, <1>p, <2>2
    <3>2. CASE n < len_left[w]
      BY <1>5, <1>8, <1>10, <2>2, <3>1, <3>2 DEF IsNth
    <3>3. CASE n = len_left[w]
      BY <1>10, <2>2, <3>1, <3>3 DEF IsNth
    <3> QED
      BY <1>2, <3>2, <3>3
  <2> QED
    BY <1>11, <2>1, <2>2 DEF IsNth
<1>12. IsNth(c, d + 1)'
  <2>1. CASE n < len_left[w]
    BY <1>5, <1>8, <1>10, <1>p, <2>1 DEF IsNth
  <2>2. CASE n = len_left[w]
    <3>1. d + 1 \in 1..Len(done') /\ done'[d + 1] = c
      BY <1>10, <1>p, <2>2
    <3> QED
      BY <3>1 DEF IsNth
  <2> QED
    BY <1>2, <2>1, <2>2
<1>13. OrderInv'
  <2>1. Len(got') <= Len(done')
    BY <1>0, <1>5, <1>10, DoneType DEF OrderInv
  <2>2. \A i \in 1..Len(done') : done'[i] <= Len(frames')
    BY <1>2, <1>3, <1>5, <1>10
  <2>3. \A i, j \in 1..Len(done') : done'[i] = done'[j] => i = j
    <3>1. \A i, j \in 1..Len(done) : done[i] = done[j] => i = j
      BY <1>0 DEF OrderInv
    <3>2. \A i \in 1..Len(done) : done[i] # c
      BY <1>0, <1>3, <1>p DEF OrderInv
    <3>3. CASE n < len_left[w]
      BY <1>10, <3>1, <3>3
    <3>4. CASE n = len_left[w]
      BY <1>10, <3>1, <3>2, <3>4
    <3> QED
      BY <1>2, <3>3, <3>4
  <2>4. ASSUME NEW v \in Writers, writing'[v]
        PROVE  /\ len_left'[v] > 0
               /\ \A i \in 1..Len(done') : done'[i] # cur'[v]
               /\ \A u \in Writers : writing'[u] /\ cur'[u] = cur'[v] => u = v
    <3>1. /\ writing[v] /\ \A u \in Writers : writing'[u] => writing[u]
          /\ v = w => n < len_left[w]
      BY <1>3, <1>7, <2>4
    <3>2. len_left'[v] > 0
      BY <1>0, <1>2, <1>7, <3>1 DEF OrderInv
    <3>3. \A i \in 1..Len(done') : done'[i] # cur[v]
      <4>1. CASE n < len_left[w]
        BY <1>0, <1>10, <3>1, <4>1 DEF OrderInv
      <4>2. CASE n = len_left[w]
        <5>1. v # w
          BY <1>2, <3>1, <4>2
        <5>2. cur[v] # c
          BY <1>0, <1>3, <1>p, <3>1, <5>1 DEF OrderInv
        <5> QED
          BY <1>0, <1>10, <3>1, <4>2, <5>2 DEF OrderInv
      <4> QED
        BY <1>2, <4>1, <4>2
    <3> QED
      BY <1>0, <1>5, <3>1, <3>2, <3>3 DEF OrderInv
  <2>5. \A v \in Writers : chunks'[v] <= 2
    <3>1. chunks[w] \in Nat /\ chunks[w] <= 2
      BY <1>0 DEF OrderInv, TypeOK
    <3> QED
      BY <1>0, <1>1, <1>7, <3>1 DEF OrderInv
  <2>6. \A u, v \in Writers : Begun(u)' /\ Begun(v)' => u = v
    BY <1>8
  <2> QED
    BY <2>1, <2>2, <2>3, <2>4, <2>5, <2>6 DEF OrderInv
<1>14. ASSUME NEW k \in 1..Len(Stream')
       PROVE  /\ Stream'[k].frame \in 1..Len(frames)
              /\ Stream'[k].at < frames[Stream'[k].frame]
  <2>1. CASE k \in 1..Len(Stream)
    BY <1>0, <1>9, <2>1 DEF StreamInv
  <2>2. CASE k \notin 1..Len(Stream)
    <3>1. /\ k - Len(Stream) \in 1..n /\ Len(Stream) + (k - Len(Stream)) = k
      BY <1>2, <1>9, <2>2
    <3>2. Stream'[k] = ByteOf(c, p + (k - Len(Stream)) - 1)
      BY <1>9, <3>1
    <3>3. p + (k - Len(Stream)) - 1 < frames[c]
      BY <1>2, <1>3, <3>1
    <3> QED
      BY <1>3, <3>2, <3>3 DEF ByteOf
  <2> QED
    BY <2>1, <2>2
<1>15. ASSUME NEW k \in 1..Len(Stream') - 1 PROVE Follows(Stream[k], Stream[k + 1])'
  <2>1. CASE k < Len(Stream)
    <3>1. /\ k \in 1..Len(Stream) - 1 /\ k \in 1..Len(Stream) /\ k + 1 \in 1..Len(Stream)
      BY <1>2, <1>9, <2>1
    <3>2. Follows(Stream[k], Stream[k + 1])
      BY <1>0, <3>1 DEF StreamInv
    <3>3. Stream'[k] = Stream[k] /\ Stream'[k + 1] = Stream[k + 1]
      BY <1>9, <3>1
    <3>4. \A j \in 1..Len(done) : j \in 1..Len(done')
      BY <1>10
    <3> QED
      BY <1>5, <1>11, <3>2, <3>3, <3>4 DEF Follows
  <2>2. CASE k > Len(Stream)
    <3>1. /\ k - Len(Stream) \in 1..n /\ Len(Stream) + (k - Len(Stream)) = k
          /\ k + 1 - Len(Stream) \in 1..n /\ Len(Stream) + (k + 1 - Len(Stream)) = k + 1
      BY <1>2, <1>9, <2>2
    <3>2. /\ Stream'[k] = ByteOf(c, p + (k - Len(Stream)) - 1)
          /\ Stream'[k + 1] = ByteOf(c, p + (k + 1 - Len(Stream)) - 1)
      BY <1>9, <3>1
    <3> QED
      BY <1>2, <1>9, <3>2 DEF Follows, ByteOf
  <2>3. CASE k = Len(Stream)
    <3>1. 1 \in 1..n /\ k \in 1..Len(Stream) /\ Stream # <<>>
      BY <1>0, <1>2, <1>9, <2>3, StreamIs
    <3>2. Stream'[k] = Stream[Len(Stream)] /\ Stream'[k + 1] = ByteOf(c, p)
      BY <1>2, <1>9, <2>3, <3>1
    <3>3. CASE Begun(w)
      <4>1. Stream[Len(Stream)] = ByteOf(c, p - 1)
        BY <1>0, <1>p, <3>3 DEF StreamInv
      <4> QED
        BY <1>2, <3>2, <4>1 DEF Follows, ByteOf
    <3>4. CASE ~Begun(w)
      <4>1. p = 0
        BY <1>2, <1>3, <1>p, <3>4 DEF Begun
      <4>2. \A v \in Writers : ~Begun(v)
        BY <1>8, <3>4
      <4>3. Len(done) \in 1..Len(done') /\ Stream[Len(Stream)] = LastDone
        BY <1>0, <1>10, <3>1, <4>2 DEF StreamInv
      <4>4. \A f : f = done[d] => IsNth(f, d)'
        BY <1>10, <1>p, <4>3 DEF IsNth
      <4>5. /\ Stream'[k].frame = done[Len(done)] /\ Stream'[k + 1].frame = c
            /\ Stream'[k].at = frames[done[Len(done)]] - 1 /\ Stream'[k + 1].at = 0
        BY <3>2, <4>1, <4>3 DEF ByteOf, LastDone
      <4> QED
        BY <1>5, <1>12, <1>p, <4>3, <4>4, <4>5 DEF Follows
    <3> QED
      BY <3>3, <3>4
  <2> QED
    BY <1>2, <1>9, <2>1, <2>2, <2>3
<1>16. Stream'[1].at = 0 /\ IsNth(Stream[1].frame, Len(got) + 1)'
  <2>1. CASE Stream # <<>>
    <3>1. 1 \in 1..Len(Stream)
      BY <1>0, <1>9, <2>1, StreamIs
    <3> QED
      BY <1>0, <1>5, <1>9, <1>11, <2>1, <3>1 DEF StreamInv
  <2>2. CASE Stream = <<>>
    <3>1. \A v \in Writers : ~Begun(v)
      BY <1>0, <2>2 DEF StreamInv
    <3>2. p = 0 /\ Len(got) = Len(done) /\ Len(Stream) = 0 /\ 1 \in 1..n
      <4>1. p = 0
        BY <1>2, <1>3, <1>p, <3>1 DEF Begun
      <4>2. Len(got) = Len(done)
        BY <1>0, <2>2, <3>1 DEF StreamInv
      <4> QED
        BY <1>2, <1>9, <2>2, <4>1, <4>2
    <3>3. Stream'[1] = ByteOf(c, 0)
      BY <1>9, <3>2
    <3>4. Stream'[1].frame = c /\ Stream'[1].at = 0
      BY <3>3 DEF ByteOf
    <3>5. Len(got') + 1 = d + 1
      BY <1>5, <1>p, <3>2
    <3> QED
      BY <1>12, <3>4, <3>5
  <2> QED
    BY <2>1, <2>2
<1>17. /\ Stream' # <<>> /\ Stream'[Len(Stream')] = ByteOf(c, p + n - 1)
       /\ n = len_left[w] => Len(done') > 0 /\ LastDone' = ByteOf(c, p + n - 1)
  <2>1. Len(Stream') > 0 /\ n \in 1..n
    BY <1>2, <1>9
  <2>2. n = len_left[w] => Len(done') > 0 /\ LastDone' = ByteOf(c, p + n - 1)
    <3> SUFFICES ASSUME n = len_left[w]
                 PROVE  Len(done') > 0 /\ LastDone' = ByteOf(c, p + n - 1)
      OBVIOUS
    <3>1. frames'[c] - 1 = p + n - 1
      <4>1. frames' = frames /\ p + n = frames[c]
        BY <1>3, <1>5
      <4>2. p \in Nat /\ n \in Nat
        BY <1>2
      <4> QED
        BY <4>1, <4>2
    <3>2. Len(done') > 0 /\ done'[Len(done')] = c
      BY <1>10
    <3> QED
      BY <3>1, <3>2 DEF LastDone
  <2> QED
    BY <1>0, <1>9, <2>1, <2>2
<1>18. StreamInv'
  <2>1. \A v \in Writers : Begun(v)' =>
          /\ Stream' # <<>>
          /\ Stream'[Len(Stream')] = ByteOf(cur'[v], Len(put'[v]) - 1)
    BY <1>5, <1>6, <1>8, <1>p, <1>17
  <2>2. (\A v \in Writers : ~Begun(v)') =>
          Stream' # <<>> /\ Len(done') > 0 /\ Stream'[Len(Stream')] = LastDone'
    BY <1>2, <1>8, <1>17
  <2> QED
    BY <1>5, <1>14, <1>15, <1>16, <2>1, <2>2 DEF StreamInv
<1>19. BufferInv'
  BY <1>0, <1>5 DEF BufferInv
<1> QED
  BY <1>13, <1>18, <1>19

\* A frame as a sequence of its bytes.
LEMMA WholeIs ==
  ASSUME TypeOK, NEW f \in 1..Len(frames)
  PROVE  /\ WholeFrame(f) \in Seq(Bytes) /\ Len(WholeFrame(f)) = frames[f]
         /\ \A k \in 1..frames[f] : WholeFrame(f)[k] = ByteOf(f, k - 1)
<1>1. f \in Frames /\ frames[f] \in Nat
  BY FrameSize, FrameBoundAssumption DEF TypeOK, Frames
<1>2. \A k \in 1..frames[f] : ByteOf(f, k - 1) \in Bytes
  BY <1>1 DEF ByteOf, Bytes
<1> QED
  BY <1>1, <1>2 DEF WholeFrame

\* From the header of one frame its size is decoded.
LEMMA HeaderSize ==
  ASSUME TypeOK, NEW F \in 1..Len(frames), NEW m \in Seq(Bytes),
         Len(m) = HeaderLen,
         \A k \in 1..Len(m) : m[k] = ByteOf(F, k - 1)
  PROVE  SizesIn(m) = {frames[F]}
<1> DEFINE header(f) == SubSeq(WholeFrame(f), 1, HeaderLen)
<1>1. HeaderLen \in Nat \ {0}
  BY SizeAssumption
<1>2. SubSeq(m, 1, HeaderLen) = m
  BY <1>1
<1>3. ASSUME NEW f \in 1..Len(frames)
      PROVE  header(f) = [k \in 1..HeaderLen |-> ByteOf(f, k - 1)]
  <2>1. frames[f] \in Nat /\ HeaderLen <= frames[f]
    BY <1>1, FrameSize
  <2>2. /\ WholeFrame(f) \in Seq(Bytes) /\ Len(WholeFrame(f)) = frames[f]
        /\ \A k \in 1..HeaderLen : WholeFrame(f)[k] = ByteOf(f, k - 1)
    BY <1>1, <2>1, WholeIs
  <2>3. header(f) = [k \in 1..HeaderLen |-> WholeFrame(f)[k]]
    BY <1>1, <2>1, <2>2
  <2> QED
    BY <2>2, <2>3
<1>4. m = [k \in 1..HeaderLen |-> ByteOf(F, k - 1)]
  <2>1. m = [k \in 1..HeaderLen |-> m[k]]
    BY <1>1
  <2> QED
    BY <2>1
<1>5. ASSUME NEW f \in 1..Len(frames), m = header(f) PROVE f = F
  <2>1. m[1] = ByteOf(F, 0) /\ m[1] = ByteOf(f, 0)
    BY <1>1, <1>3, <1>4, <1>5
  <2> QED
    BY <2>1 DEF ByteOf
<1>6. {f \in 1..Len(frames) : m = header(f)} = {F}
  BY <1>3, <1>4, <1>5
<1>7. SizesIn(m) = {frames[f] : f \in {F}}
  BY <1>2, <1>6 DEF SizesIn, Decoded
<1> QED
  BY <1>7

\* The receiver takes the rest of the header, or of the frame, and nothing of the
\* next frame.
LEMMA RecvQueue ==
  ASSUME IInv, QueueInv, NEW n \in 1..Wanted, Recv(n)
  PROVE  QueueInv'
<1> SUFFICES ASSUME faults = {} PROVE OrderInv' /\ StreamInv' /\ BufferInv'
  BY DEF QueueInv, Recv
<1>0. TypeOK /\ OrderInv /\ StreamInv /\ BufferInv
  BY DEF IInv, QueueInv
<1>1. TypeOK'
  BY RecvInv DEF IInv
<1>2. /\ m_pBuffer \in Seq(Bytes) /\ pipe \in Seq(Bytes) /\ Len(pipe) \in Nat
      /\ Len(m_pBuffer) \in Nat
  BY <1>0 DEF TypeOK
<1>3. /\ UNCHANGED <<writeVars, got>> /\ n \in Nat \ {0} /\ n <= Len(pipe)
      /\ m_pBuffer' = m_pBuffer \o SubSeq(pipe, 1, n)
      /\ pipe' = SubSeq(pipe, n + 1, Len(pipe))
  BY <1>2 DEF Recv
<1>4. Stream' = Stream /\ Len(m_pBuffer') = Len(m_pBuffer) + n
  <2>1. /\ SubSeq(pipe, 1, n) \in Seq(Bytes) /\ Len(SubSeq(pipe, 1, n)) = n
        /\ SubSeq(pipe, n + 1, Len(pipe)) \in Seq(Bytes)
        /\ pipe = SubSeq(pipe, 1, n) \o SubSeq(pipe, n + 1, Len(pipe))
    BY <1>2, <1>3, SMTT(30)
  <2>2. PICK r \in Seq(Bytes), t \in Seq(Bytes) :
          r = SubSeq(pipe, 1, n) /\ t = SubSeq(pipe, n + 1, Len(pipe))
    BY <2>1
  <2>3. (m_pBuffer \o r) \o t = m_pBuffer \o (r \o t)
    <3>1. m_pBuffer \in Seq(Bytes)
      BY <1>2
    <3> QED
      BY <3>1, ConcatAssociative, SMTT(40)
  <2>4. Stream' = (m_pBuffer \o r) \o t /\ Stream = m_pBuffer \o (r \o t)
    BY <1>3, <2>1, <2>2 DEF Stream
  <2>5. Len(m_pBuffer') = Len(m_pBuffer) + n
    BY <1>2, <1>3, <2>1, <2>2, ConcatProperties
  <2> QED
    BY <2>3, <2>4, <2>5
<1>5. OrderInv'
  BY <1>0, <1>3 DEF OrderInv, Begun, writeVars
<1>6. StreamInv'
  BY <1>0, <1>3, <1>4 DEF StreamInv, Follows, IsNth, LastDone, Begun, writeVars
<1>7. BufferInv'
  <2>1. PICK F, l : F = Stream[1].frame /\ l = Len(m_pBuffer')
    OBVIOUS
  <2>2. /\ l \in Nat /\ l = Len(m_pBuffer) + n /\ l <= Len(Stream)
        /\ \A k \in 1..l : k \in 1..Len(Stream) /\ m_pBuffer'[k] = Stream[k]
    <3>1. m_pBuffer' \in Seq(Bytes) /\ pipe' \in Seq(Bytes)
      BY <1>1 DEF TypeOK
    <3>2. Stream = m_pBuffer' \o pipe'
      BY <1>4 DEF Stream
    <3>3. /\ l \in Nat /\ Len(pipe') \in Nat /\ Len(Stream) = l + Len(pipe')
          /\ \A k \in 1..Len(Stream) : k <= l => Stream[k] = m_pBuffer'[k]
      BY <2>1, <3>1, <3>2, ConcatProperties
    <3> QED
      BY <1>4, <2>1, <3>3
  <2>3. /\ 1 \in 1..l /\ m_pBuffer' # <<>> /\ Stream # <<>>
        /\ m_pBuffer'[1].frame = F
        /\ m_pBuffer # <<>> => m_pBuffer[1].frame = F
    <3>1. 1 \in 1..l /\ 1 \in 1..Len(Stream)
      BY <1>2, <1>3, <2>2
    <3>2. m_pBuffer # <<>> => 1 <= Len(m_pBuffer)
      BY <1>2
    <3>3. m_pBuffer # <<>> => m_pBuffer[1] = Stream[1]
      BY <1>0, <3>1, <3>2, StreamIs
    <3>4. m_pBuffer' # <<>> /\ Stream # <<>>
      BY <2>1, <3>1
    <3> QED
      BY <2>1, <2>2, <3>1, <3>3, <3>4
  <2>4. F \in 1..Len(frames)
    BY <1>0, <2>1, <2>2, <2>3 DEF StreamInv
  <2>5. frames[F] \in Nat /\ frames[F] > HeaderLen /\ HeaderLen \in Nat \ {0}
    BY <1>0, <2>4, FrameSize
  <2>6. frames' = frames
    BY <1>3 DEF writeVars
  <2>7. CASE final_size = 0
    <3>1. l <= HeaderLen
      BY <1>2, <2>2, <2>5, <2>7 DEF Recv, Wanted
    <3>2. CASE l < HeaderLen
      <4>1. final_size' = 0
        BY <2>1, <2>2, <2>5, <2>7, <3>2 DEF Recv
      <4> QED
        BY <2>1, <2>2, <2>3, <2>5, <2>6, <3>2, <4>1 DEF BufferInv
    <3>3. CASE l = HeaderLen
      <4>1. final_size' \in SizesIn(m_pBuffer')
        BY <2>1, <2>2, <2>5, <2>7, <3>3 DEF Recv
      <4>2. \A k \in 1..l : m_pBuffer'[k] = ByteOf(F, k - 1)
        BY <1>0, <2>1, <2>2, <2>5, <3>3, StreamBegins
      <4>3. final_size' = frames[F]
        <5>1. m_pBuffer' \in Seq(Bytes)
          BY <1>1 DEF TypeOK
        <5>2. PICK m \in Seq(Bytes) : m = m_pBuffer'
          BY <5>1
        <5>3. SizesIn(m) = {frames[F]}
          BY <1>0, <2>1, <2>4, <3>3, <4>2, <5>2, HeaderSize
        <5> QED
          BY <4>1, <5>2, <5>3
      <4> QED
        BY <2>1, <2>3, <2>5, <2>6, <3>3, <4>3 DEF BufferInv
    <3> QED
      BY <2>2, <2>5, <3>1, <3>2, <3>3
  <2>8. CASE final_size # 0
    <3>1. final_size = frames[F] /\ final_size' = final_size
      BY <1>0, <2>3, <2>8 DEF BufferInv, Recv
    <3>2. l <= frames[F]
      BY <1>2, <2>2, <2>5, <2>8, <3>1 DEF Recv, Wanted
    <3> QED
      BY <2>1, <2>3, <2>6, <2>8, <3>1, <3>2 DEF BufferInv
  <2> QED
    BY <2>7, <2>8
<1> QED
  BY <1>5, <1>6, <1>7

\* A message that is there is the next of the frames that were written to the end.
LEMMA ProcessTakes ==
  ASSUME IInv, OrderInv, StreamInv, BufferInv, Process
  PROVE  /\ Stream # <<>> /\ Stream[1].frame \in 1..Len(frames)
         /\ Len(m_pBuffer) = frames[Stream[1].frame]
         /\ Len(m_pBuffer) \in 1..Len(Stream)
         /\ Stream[Len(m_pBuffer)] = ByteOf(Stream[1].frame, Len(m_pBuffer) - 1)
         /\ Len(got) + 1 \in 1..Len(done) /\ done[Len(got) + 1] = Stream[1].frame
         /\ got' = Append(got, Stream[1].frame)
<1>0. TypeOK
  BY DEF IInv
<1>1. PICK F, l : F = Stream[1].frame /\ l = Len(m_pBuffer)
  OBVIOUS
<1>2. m_pBuffer \in Seq(Bytes) /\ m_pBuffer # <<>> /\ final_size = frames[m_pBuffer[1].frame]
  BY <1>0, SizesAreNumbers DEF BufferInv, Process, TypeOK
<1>3. /\ l \in Nat \ {0} /\ 1 \in 1..l /\ l \in 1..Len(Stream) /\ Stream # <<>>
      /\ \A k \in 1..l : k \in 1..Len(Stream) /\ Stream[k] = m_pBuffer[k]
  <2>1. l \in Nat \ {0}
    BY <1>1, <1>2
  <2>2. /\ Stream \in Seq(Bytes) /\ Len(Stream) \in Nat /\ l <= Len(Stream)
        /\ \A k \in 1..Len(Stream) : k <= l => Stream[k] = m_pBuffer[k]
    BY <1>0, <1>1, StreamIs
  <2>3. Stream # <<>>
    BY <2>1, <2>2
  <2> QED
    BY <2>1, <2>2, <2>3
<1>4. F \in 1..Len(frames) /\ IsNth(F, Len(got) + 1)
  BY <1>1, <1>3 DEF StreamInv
<1>5. frames[F] \in Nat /\ l = frames[F]
  <2>1. frames[F] \in Nat /\ m_pBuffer[1].frame = F
    BY <1>0, <1>1, <1>3, <1>4, FrameSize
  <2>2. l <= frames[F] /\ l >= frames[F]
    BY <1>1, <1>2, <2>1 DEF BufferInv, Process
  <2> QED
    BY <1>3, <2>1, <2>2
<1>6. \A k \in 1..l : Stream[k] = ByteOf(F, k - 1)
  BY <1>0, <1>1, <1>3, <1>5, StreamBegins
<1>7. \A f \in 1..Len(frames) : m_pBuffer = WholeFrame(f) <=> f = F
  <2>1. ASSUME NEW f \in 1..Len(frames), m_pBuffer = WholeFrame(f) PROVE f = F
    <3>1. m_pBuffer[1] = ByteOf(f, 0)
      BY <1>0, <1>1, <1>3, <2>1, WholeIs
    <3>2. m_pBuffer[1] = ByteOf(F, 0)
      BY <1>3, <1>6
    <3> QED
      BY <3>1, <3>2 DEF ByteOf
  <2>2. m_pBuffer = WholeFrame(F)
    <3>1. /\ WholeFrame(F) \in Seq(Bytes) /\ Len(WholeFrame(F)) = l
          /\ \A k \in 1..l : WholeFrame(F)[k] = m_pBuffer[k]
      BY <1>0, <1>3, <1>4, <1>5, <1>6, WholeIs
    <3> QED
      BY <1>1, <1>2, <3>1, SeqEqual
  <2> QED
    BY <2>1, <2>2
<1>8. got' = Append(got, F)
  <2>1. {f \in 1..Len(frames) : m_pBuffer = WholeFrame(f)} = {F}
    BY <1>4, <1>7
  <2>2. got' = Append(got, CHOOSE f \in {F} : TRUE)
    BY <2>1 DEF Process
  <2> QED
    BY <2>2
<1>9. Len(got) + 1 \in 1..Len(done) /\ done[Len(got) + 1] = F
  <2> SUFFICES ASSUME Len(got) + 1 = Len(done) + 1,
                      NEW w \in Writers, Begun(w), cur[w] = F
               PROVE  FALSE
    BY <1>4 DEF IsNth
  <2>1. Len(put[w]) \in Nat /\ Len(put[w]) < l
    <3>1. Len(put[w]) + len_left[w] = frames[F]
      BY <1>4 DEF IInv, SendsWithinBuffer
    <3>2. len_left[w] > 0 /\ len_left[w] \in Nat /\ Len(put[w]) \in Nat
      BY <1>0 DEF OrderInv, Begun, TypeOK
    <3> QED
      BY <1>5, <3>1, <3>2
  <2>2. Stream[Len(Stream)] = ByteOf(F, Len(put[w]) - 1)
    BY DEF StreamInv
  <2>3. Stream[l] = ByteOf(F, l - 1)
    BY <1>3, <1>6
  <2>4. CASE l = Len(Stream)
    BY <1>3, <2>1, <2>2, <2>3, <2>4 DEF ByteOf
  <2>5. CASE l # Len(Stream)
    <3>1. l \in 1..Len(Stream) - 1 /\ l + 1 \in 1..Len(Stream)
      BY <1>0, <1>3, <2>5, StreamIs
    <3>2. Follows(Stream[l], Stream[l + 1])
      BY <3>1 DEF StreamInv
    <3>3. Stream[l + 1].at < frames[Stream[l + 1].frame]
      BY <3>1 DEF StreamInv
    <3>4. PICK j \in 1..Len(done) : IsNth(F, j)
      BY <1>3, <1>5, <2>3, <3>2, <3>3 DEF Follows, ByteOf
    <3>5. j = Len(got) + 1
      BY <1>0, <1>4, <3>4, NthIsUnique
    <3> QED
      BY <1>0, <3>4, <3>5, DoneType
  <2> QED
    BY <2>4, <2>5
<1> QED
  BY <1>1, <1>3, <1>4, <1>5, <1>6, <1>8, <1>9

\* What is left is the stream from the next frame on.
LEMMA ProcessQueue ==
  ASSUME IInv, QueueInv, Process
  PROVE  QueueInv'
<1> SUFFICES ASSUME faults = {} PROVE OrderInv' /\ StreamInv' /\ BufferInv'
  BY DEF QueueInv, Process
<1>0. TypeOK /\ OrderInv /\ StreamInv /\ BufferInv
  BY DEF IInv, QueueInv
<1>1. PICK F, l, g : F = Stream[1].frame /\ l = Len(m_pBuffer) /\ g = Len(got) + 1
  OBVIOUS
<1>2. /\ Stream # <<>> /\ F \in 1..Len(frames) /\ l = frames[F] /\ l \in 1..Len(Stream)
      /\ Stream[l] = ByteOf(F, l - 1)
      /\ g \in 1..Len(done) /\ done[g] = F /\ got' = Append(got, F)
  BY <1>0, <1>1, ProcessTakes
<1>3. /\ UNCHANGED <<writeVars, pipe>> /\ m_pBuffer' = <<>> /\ final_size' = 0
  BY DEF Process
<1>4. Len(got') = g
  BY <1>0, <1>1, <1>2, AppendProperties DEF TypeOK
<1>5. /\ Len(Stream) \in Nat /\ l \in Nat \ {0} /\ Stream' = pipe
      /\ Len(Stream') \in Nat /\ Len(Stream) = l + Len(Stream')
      /\ \A k \in 1..Len(Stream') : /\ Stream'[k] = Stream[l + k]
                                    /\ l + k \in 1..Len(Stream)
  <2>1. pipe \in Seq(Bytes) /\ <<>> \in Seq(Bytes) /\ Stream' = <<>> \o pipe
    BY <1>0, <1>3 DEF Stream, TypeOK
  <2>2. Stream' = pipe
    BY <2>1
  <2>3. /\ Len(Stream) \in Nat /\ l \in Nat \ {0} /\ Len(pipe) \in Nat
        /\ Len(Stream) = l + Len(pipe)
    BY <1>0, <1>1, <1>2, StreamIs
  <2>4. ASSUME NEW k \in 1..Len(pipe)
        PROVE  pipe[k] = Stream[l + k] /\ l + k \in 1..Len(Stream)
    <3>1. l + k \in 1..Len(Stream) /\ ~(l + k <= l) /\ (l + k) - l = k
      BY <2>3
    <3> QED
      BY <1>0, <1>1, <3>1, StreamIs
  <2> QED
    BY <2>2, <2>3, <2>4
<1>6. ASSUME NEW f, NEW j PROVE IsNth(f, j)' <=> IsNth(f, j)
  BY <1>3 DEF IsNth, Begun, writeVars
<1>7. \A w \in Writers : Begun(w)' <=> Begun(w)
  BY <1>3 DEF Begun, writeVars
<1>8. OrderInv'
  <2>1. Len(got') <= Len(done)
    BY <1>0, <1>2, <1>4, DoneType
  <2> QED
    BY <1>0, <1>3, <2>1 DEF OrderInv, Begun, writeVars
<1>9. \A k \in 1..Len(Stream') :
        /\ Stream'[k].frame \in 1..Len(frames)
        /\ Stream'[k].at < frames[Stream'[k].frame]
  BY <1>0, <1>5 DEF StreamInv
<1>10. ASSUME NEW k \in 1..Len(Stream') - 1 PROVE Follows(Stream[k], Stream[k + 1])'
  <2>1. /\ k \in 1..Len(Stream') /\ k + 1 \in 1..Len(Stream')
        /\ l + k \in 1..Len(Stream) - 1 /\ l + (k + 1) = (l + k) + 1
    BY <1>5
  <2>2. Follows(Stream[l + k], Stream[(l + k) + 1])
    BY <1>0, <2>1 DEF StreamInv
  <2>3. Stream'[k] = Stream[l + k] /\ Stream'[k + 1] = Stream[(l + k) + 1]
    BY <1>5, <2>1
  <2> QED
    BY <1>3, <1>6, <2>2, <2>3 DEF Follows, writeVars
<1>11. Stream' # <<>> => Stream'[1].at = 0 /\ IsNth(Stream[1].frame, Len(got) + 1)'
  <2> SUFFICES ASSUME Stream' # <<>>
               PROVE  Stream'[1].at = 0 /\ IsNth(Stream[1].frame, Len(got) + 1)'
    OBVIOUS
  <2>1. 1 \in 1..Len(Stream')
    BY <1>0, <1>5 DEF TypeOK
  <2>2. /\ l \in 1..Len(Stream) - 1 /\ l + 1 \in 1..Len(Stream)
        /\ Stream'[1] = Stream[l + 1]
    BY <1>5, <2>1
  <2>3. Follows(Stream[l], Stream[l + 1]) /\ Stream[l + 1].at < frames[Stream[l + 1].frame]
    BY <1>0, <2>2 DEF StreamInv
  <2>4. /\ Stream[l + 1].at = 0
        /\ \E j \in 1..Len(done) : IsNth(F, j) /\ IsNth(Stream[l + 1].frame, j + 1)
    <3>1. Stream[l].frame = F /\ Stream[l].at = frames[F] - 1
      BY <1>2 DEF ByteOf
    <3>2. ~(Stream[l + 1].frame = F /\ Stream[l + 1].at = (frames[F] - 1) + 1)
      <4> SUFFICES ASSUME Stream[l + 1].frame = F,
                          Stream[l + 1].at = (frames[F] - 1) + 1
                   PROVE  FALSE
        OBVIOUS
      <4>1. Stream[l + 1].at < frames[F]
        BY <2>3
      <4>2. frames[F] = l /\ l \in Nat
        BY <1>2, <1>5
      <4> QED
        BY <4>1, <4>2
    <3> QED
      BY <2>3, <3>1, <3>2 DEF Follows
  <2>5. IsNth(F, g)
    BY <1>2 DEF IsNth
  <2>6. IsNth(Stream[l + 1].frame, g + 1)
    BY <1>0, <2>4, <2>5, NthIsUnique
  <2> QED
    BY <1>4, <1>6, <2>2, <2>4, <2>6
<1>12. Stream' # <<>> => Stream'[Len(Stream')] = Stream[Len(Stream)]
  <2>1. Stream' # <<>> => Len(Stream') \in 1..Len(Stream')
    BY <1>0, <1>5 DEF TypeOK
  <2> QED
    BY <1>5, <2>1
<1>13. Stream' = <<>> => Stream[Len(Stream)] = ByteOf(F, l - 1)
  BY <1>2, <1>5
<1>14. ASSUME NEW w \in Writers, Begun(w)
       PROVE  Stream' # <<>> /\ Stream'[Len(Stream')] = ByteOf(cur[w], Len(put[w]) - 1)
  <2>1. Stream[Len(Stream)] = ByteOf(cur[w], Len(put[w]) - 1)
    BY <1>0, <1>14 DEF StreamInv
  <2>2. cur[w] # F
    BY <1>0, <1>2, <1>14 DEF OrderInv, Begun
  <2>3. Stream' # <<>>
    BY <1>13, <2>1, <2>2 DEF ByteOf
  <2> QED
    BY <1>12, <2>1, <2>3
<1>15. ASSUME \A w \in Writers : ~Begun(w)
       PROVE  IF Stream' = <<>> THEN Len(got') = Len(done)
              ELSE Len(done) > 0 /\ Stream'[Len(Stream')] = LastDone
  <2>1. Len(done) > 0 /\ Stream[Len(Stream)] = LastDone
    BY <1>0, <1>2, <1>15 DEF StreamInv
  <2>2. Stream' = <<>> => done[Len(done)] = F
    BY <1>13, <2>1 DEF LastDone, ByteOf
  <2>3. Stream' = <<>> => Len(done) = g
    BY <1>0, <1>2, <2>1, <2>2, DoneType DEF OrderInv
  <2> QED
    BY <1>4, <1>12, <2>1, <2>3
<1>16. StreamInv'
  <2>1. UNCHANGED <<frames, done, cur, put>>
    BY <1>3 DEF writeVars
  <2>2. LastDone' = LastDone
    BY <2>1 DEF LastDone
  <2> QED
    BY <1>7, <1>9, <1>10, <1>11, <1>14, <1>15, <2>1, <2>2 DEF StreamInv
<1>17. BufferInv'
  BY <1>3, SizeAssumption DEF BufferInv
<1> QED
  BY <1>8, <1>16, <1>17

\* The initial states satisfy it.
LEMMA InitQueue == Init => QueueInv
<1> SUFFICES ASSUME Init PROVE OrderInv /\ StreamInv /\ BufferInv
  BY DEF QueueInv
<1>1. Stream = <<>> /\ Len(Stream) = 0
  BY DEF Init, Stream
<1>2. \A w \in Writers : ~Begun(w)
  BY DEF Init, Begun
<1>3. OrderInv
  BY <1>2 DEF Init, OrderInv
<1>4. StreamInv
  BY <1>1, <1>2 DEF Init, StreamInv
<1>5. BufferInv
  BY SizeAssumption DEF Init, BufferInv
<1> QED
  BY <1>3, <1>4, <1>5

\* Every step keeps it.
LEMMA StepQueue == IInv /\ QueueInv /\ [Next]_vars => QueueInv'
<1> SUFFICES ASSUME IInv, QueueInv, [Next]_vars PROVE QueueInv'
  OBVIOUS
<1>1. CASE RecvFails
  BY <1>1 DEF RecvFails, QueueInv
<1>2. CASE UNCHANGED vars
  <2>1. UNCHANGED <<frames, cur, writing, len_left, chunks, put, done, pipe,
                    m_pBuffer, final_size, got, faults>>
    BY <1>2 DEF vars, writeVars, readVars
  <2>2. OrderInv => OrderInv'
    BY <2>1 DEF OrderInv, Begun
  <2>3. ASSUME OrderInv, StreamInv, BufferInv PROVE StreamInv' /\ BufferInv'
    <3>1. \A v \in Writers : /\ Begun(v)' <=> Begun(v)
                             /\ Begun(v) => cur'[v] = cur[v] /\ put'[v] = put[v]
      BY <2>1 DEF Begun
    <3>2. TypeOK /\ Len(frames) \in Nat
      BY DEF IInv, TypeOK
    <3>3. /\ Len(frames) <= Len(frames') /\ Len(frames') \in Nat
          /\ \A f \in 1..Len(frames) : frames'[f] = frames[f]
      BY <2>1, <3>2
    <3>4. UNCHANGED <<done, pipe, m_pBuffer, final_size, got>>
      BY <2>1
    <3> QED
      BY <2>3, <3>1, <3>2, <3>3, <3>4, StreamKept
  <2> QED
    BY <2>1, <2>2, <2>3 DEF QueueInv
<1> QED
  BY <1>1, <1>2, BeginWriteQueue, SendQueue, SendFailsQueue, RecvQueue, ProcessQueue
     DEF Next, Finished

-----------------------------------------------------------------------------
\* The queue of a longer order of frames is longer by that frame.
LEMMA QueueGrows ==
  ASSUME NEW S, NEW s \in Seq(S), NEW e \in S, NEW k \in Nat, k <= Len(s)
  PROVE  SubSeq(Append(s, e), k + 1, Len(s) + 1) = Append(SubSeq(s, k + 1, Len(s)), e)
<1>1. PICK a, n, q, r : /\ a = Append(s, e) /\ n = Len(s)
                        /\ q = SubSeq(s, k + 1, n) /\ r = SubSeq(a, k + 1, n + 1)
  OBVIOUS
<1>2. n \in Nat /\ k <= n
  BY <1>1
<1>3. /\ \A i \in 1..n : a[i] = s[i]
      /\ a[n + 1] = e
      /\ \A i \in k + 1..n + 1 : a[i] \in S
  <2>1. /\ Len(a) = n + 1 /\ a \in Seq(S) /\ a[n + 1] = e
        /\ \A i \in 1..n : a[i] = s[i]
    BY <1>1, AppendProperties
  <2>2. \A i \in k + 1..n + 1 : i \in 1..Len(a)
    BY <1>2, <2>1
  <2> QED
    BY <2>1, <2>2
<1>4. /\ r \in Seq(S) /\ Len(r) = n - k + 1
      /\ \A i \in 1..n - k + 1 : r[i] = a[k + i]
  <2>1. /\ r \in Seq(S)
        /\ Len(r) = IF k + 1 <= n + 1 THEN (n + 1) - (k + 1) + 1 ELSE 0
        /\ \A i \in 1..(n + 1) - (k + 1) + 1 : r[i] = a[(k + 1) + i - 1]
    <3>1. k + 1 \in Int /\ n + 1 \in Int
      BY <1>2
    <3>2. r = SubSeq(a, k + 1, n + 1) /\ \A i \in k + 1..n + 1 : a[i] \in S
      BY <1>1, <1>3
    <3> QED
      BY <3>1, <3>2, SubSeqProperties
  <2>2. (n + 1) - (k + 1) + 1 = n - k + 1 /\ k + 1 <= n + 1
    BY <1>2
  <2>3. \A i \in 1..n - k + 1 : (k + 1) + i - 1 = k + i
    BY <1>2
  <2> QED
    BY <2>1, <2>2, <2>3
<1>5. /\ q \in Seq(S) /\ Len(q) = n - k
      /\ \A i \in 1..n - k : q[i] = s[k + i]
  <2>1. \A i \in k + 1..n : s[i] \in S
    <3>1. \A i \in k + 1..n : i \in 1..Len(s)
      BY <1>1, <1>2
    <3> QED
      BY <3>1
  <2>2. /\ q \in Seq(S)
        /\ Len(q) = IF k + 1 <= n THEN n - (k + 1) + 1 ELSE 0
        /\ \A i \in 1..n - (k + 1) + 1 : q[i] = s[(k + 1) + i - 1]
    <3>1. k + 1 \in Int /\ n \in Int
      BY <1>2
    <3> QED
      BY <1>1, <2>1, <3>1, SubSeqProperties
  <2>3. n - (k + 1) + 1 = n - k /\ (k + 1 <= n \/ n - k = 0)
    BY <1>2
  <2>4. \A i \in 1..n - k : (k + 1) + i - 1 = k + i
    BY <1>2
  <2> QED
    BY <2>2, <2>3, <2>4
<1>6. /\ Append(q, e) \in Seq(S) /\ Len(Append(q, e)) = n - k + 1
      /\ \A i \in 1..n - k : Append(q, e)[i] = q[i]
      /\ Append(q, e)[n - k + 1] = e
  BY <1>5, AppendProperties
<1>7. ASSUME NEW i \in 1..n - k + 1 PROVE r[i] = Append(q, e)[i]
  <2>1. CASE i \in 1..n - k
    <3>1. k + i \in 1..n
      BY <1>2, <2>1
    <3> QED
      BY <1>3, <1>4, <1>5, <1>6, <2>1, <3>1
  <2>2. CASE i = n - k + 1
    <3>1. k + i = n + 1
      BY <1>2, <2>2
    <3> QED
      BY <1>3, <1>4, <1>6, <2>2, <3>1
  <2>3. i \in 1..n - k \/ i = n - k + 1
    BY <1>2
  <2> QED
    BY <2>1, <2>2, <2>3
<1>8. Len(r) = Len(Append(q, e)) /\ \A i \in 1..Len(r) : r[i] = Append(q, e)[i]
  BY <1>4, <1>6, <1>7
<1>9. r = Append(q, e)
  BY <1>4, <1>6, <1>8, SeqEqual
<1> QED
  BY <1>1, <1>9

\* What is delivered is the first of the queue.
LEMMA QueueShrinks ==
  ASSUME NEW S, NEW s \in Seq(S), NEW k \in Nat, k + 1 \in 1..Len(s)
  PROVE  /\ SubSeq(s, k + 1, Len(s)) # <<>>
         /\ Head(SubSeq(s, k + 1, Len(s))) = s[k + 1]
         /\ Tail(SubSeq(s, k + 1, Len(s))) = SubSeq(s, k + 2, Len(s))
<1>1. PICK n, q, r : /\ n = Len(s) /\ q = SubSeq(s, k + 1, n)
                     /\ r = SubSeq(s, k + 2, n)
  OBVIOUS
<1>2. n \in Nat /\ k + 1 <= n
  BY <1>1
<1>3. \A i \in k + 1..n : s[i] \in S
  <2>1. \A i \in k + 1..n : i \in 1..Len(s)
    BY <1>1, <1>2
  <2> QED
    BY <2>1
<1>4. /\ q \in Seq(S) /\ Len(q) = n - k
      /\ \A i \in 1..n - k : q[i] = s[k + i]
  <2>1. /\ q \in Seq(S)
        /\ Len(q) = IF k + 1 <= n THEN n - (k + 1) + 1 ELSE 0
        /\ \A i \in 1..n - (k + 1) + 1 : q[i] = s[(k + 1) + i - 1]
    <3>1. k + 1 \in Int /\ n \in Int
      BY <1>2
    <3> QED
      BY <1>1, <1>3, <3>1, SubSeqProperties
  <2>2. n - (k + 1) + 1 = n - k /\ k + 1 <= n
    BY <1>2
  <2>3. \A i \in 1..n - k : (k + 1) + i - 1 = k + i
    BY <1>2
  <2> QED
    BY <2>1, <2>2, <2>3
<1>5. /\ r \in Seq(S) /\ Len(r) = n - k - 1
      /\ \A i \in 1..n - k - 1 : r[i] = s[k + 1 + i]
  <2>1. \A i \in k + 2..n : s[i] \in S
    <3>1. \A i \in k + 2..n : i \in k + 1..n
      BY <1>2
    <3> QED
      BY <1>3, <3>1
  <2>2. /\ r \in Seq(S)
        /\ Len(r) = IF k + 2 <= n THEN n - (k + 2) + 1 ELSE 0
        /\ \A i \in 1..n - (k + 2) + 1 : r[i] = s[(k + 2) + i - 1]
    <3>1. k + 2 \in Int /\ n \in Int
      BY <1>2
    <3> QED
      BY <1>1, <2>1, <3>1, SubSeqProperties
  <2>3. n - (k + 2) + 1 = n - k - 1 /\ (k + 2 <= n \/ n - k - 1 = 0)
    BY <1>2
  <2>4. \A i \in 1..n - k - 1 : (k + 2) + i - 1 = k + 1 + i
    BY <1>2
  <2> QED
    BY <2>2, <2>3, <2>4
<1>6. q # <<>> /\ Head(q) = s[k + 1]
  <2>1. Len(q) # 0 /\ 1 \in 1..n - k
    BY <1>2, <1>4
  <2>2. q # <<>> /\ Head(q) = q[1]
    BY <1>4, <2>1
  <2> QED
    BY <1>4, <2>1, <2>2
<1>7. /\ Tail(q) \in Seq(S) /\ Len(Tail(q)) = n - k - 1
      /\ \A i \in 1..n - k - 1 : Tail(q)[i] = q[i + 1]
  <2>1. /\ Tail(q) \in Seq(S) /\ Len(Tail(q)) = Len(q) - 1
        /\ \A i \in 1..Len(Tail(q)) : Tail(q)[i] = q[i + 1]
    BY <1>4, <1>6, HeadTailProperties
  <2> QED
    BY <1>4, <2>1
<1>8. ASSUME NEW i \in 1..n - k - 1 PROVE Tail(q)[i] = r[i]
  <2>1. i + 1 \in 1..n - k /\ k + (i + 1) = k + 1 + i
    BY <1>2
  <2> QED
    BY <1>4, <1>5, <1>7, <2>1
<1>9. Tail(q) = r
  BY <1>5, <1>7, <1>8, SeqEqual
<1> QED
  BY <1>1, <1>6, <1>9

\* What the stream of one end does is what a queue of frames does: the end of a write
\* accepts a frame, processMessage delivers one, and the other steps are not seen or
\* end the promise.
LEMMA StepSimulates ==
  IInv /\ QueueInv /\ QueueInv' /\ [Next]_vars => [Channel!Next]_(Channel!vars)
<1> SUFFICES ASSUME IInv, QueueInv, QueueInv', [Next]_vars
             PROVE  Channel!Next \/ UNCHANGED Channel!vars
  OBVIOUS
<1>1. CASE faults' # {}
  BY <1>1 DEF Channel!Next, Channel!Break
<1>2. CASE faults' = {} /\ UNCHANGED <<done, got, faults>>
  BY <1>2 DEF Channel!vars
<1>3. ASSUME NEW w \in Writers, NEW n \in 1..len_left[w], Send(w, n), faults' = {},
             done' # done
      PROVE  \E f \in Frames : Channel!Accept(f)
  <2>1. faults = {} /\ UNCHANGED <<cur, got>> /\ done' = Append(done, cur[w])
    BY <1>3 DEF Send, readVars
  <2>2. cur[w] \in Frames
    <3>1. cur[w] \in 0..Len(frames) /\ Len(frames) \in Nat
      BY DEF IInv, TypeOK
    <3>2. cur[w] # 0
      BY <1>3 DEF Send, IInv, LoopInv
    <3>3. Len(frames) <= MaxFrames
      BY DEF IInv, TypeOK
    <3> QED
      BY <3>1, <3>2, <3>3, FrameBoundAssumption DEF Frames
  <2>3. done \in Seq(Frames) /\ Len(got) \in Nat /\ Len(got) <= Len(done)
    BY <2>1 DEF IInv, TypeOK, QueueInv, OrderInv
  <2>4. Len(done') = Len(done) + 1
    BY <2>1, <2>2, <2>3, AppendProperties
  <2>5. SubSeq(done', Len(got') + 1, Len(done'))
          = Append(SubSeq(done, Len(got) + 1, Len(done)), cur[w])
    BY <2>1, <2>2, <2>3, <2>4, QueueGrows
  <2>6. Channel!Accept(cur[w])
    BY <1>3, <2>1, <2>5 DEF Channel!Accept
  <2> QED
    BY <2>2, <2>6
<1>4. ASSUME Process, faults' = {} PROVE Channel!Deliver
  <2>1. faults = {} /\ UNCHANGED done
    BY <1>4 DEF Process, writeVars
  <2>2. Len(got) + 1 \in 1..Len(done) /\ got' = Append(got, done[Len(got) + 1])
    BY <1>4, <2>1, ProcessTakes DEF QueueInv
  <2>3. /\ done \in Seq(Frames) /\ Len(got) \in Nat
        /\ Len(got') + 1 = Len(got) + 2
    <3>1. done \in Seq(Frames) /\ got \in Seq(Frames \cup {Torn})
      BY DEF IInv, TypeOK
    <3>2. done[Len(got) + 1] \in Frames \cup {Torn}
      BY <2>2, <3>1
    <3> QED
      BY <2>2, <3>1, <3>2, AppendProperties
  <2>4. /\ SubSeq(done, Len(got) + 1, Len(done)) # <<>>
        /\ Head(SubSeq(done, Len(got) + 1, Len(done))) = done[Len(got) + 1]
        /\ Tail(SubSeq(done, Len(got) + 1, Len(done)))
             = SubSeq(done, Len(got) + 2, Len(done))
    BY <2>2, <2>3, QueueShrinks
  <2> QED
    BY <1>4, <2>1, <2>2, <2>3, <2>4 DEF Channel!Deliver
<1>5. ASSUME NEW w \in Writers, BeginWrite(w) \/ SendFails(w), faults' = {}
      PROVE  UNCHANGED <<done, got, faults>>
  BY <1>5 DEF BeginWrite, SendFails, readVars
<1>6. ASSUME NEW n \in 1..Wanted, Recv(n) PROVE UNCHANGED <<done, got, faults>>
  BY <1>6 DEF Recv, writeVars
<1>7. ASSUME NEW w \in Writers, NEW n \in 1..len_left[w], Send(w, n), faults' = {}
      PROVE  UNCHANGED <<got, faults>>
  BY <1>7 DEF Send, readVars
<1>8. RecvFails => faults' # {}
  BY DEF RecvFails
<1>9. Finished \/ UNCHANGED vars => UNCHANGED <<done, got, faults>>
  BY DEF Finished, vars, writeVars, readVars
<1> QED
  BY <1>1, <1>2, <1>3, <1>4, <1>5, <1>6, <1>7, <1>8, <1>9 DEF Next, Channel!Next

\* However many threads write, and however the kernel splits and joins what they send:
\* as long as no frame takes a third send, no two are sent at a time and no signal
\* comes, the frames arrive whole, once and in the order in which their writes ended.
\* That is the safety of the queue; that they do arrive needs fairness.
THEOREM ChannelSafety == Spec => Channel!Init /\ [][Channel!Next]_(Channel!vars)
<1>1. Init => IInv /\ QueueInv
  BY InitInv, InitQueue
<1>2. IInv /\ QueueInv /\ [Next]_vars => (IInv /\ QueueInv)'
  BY StepInv, StepQueue
<1>3. Init => Channel!Init
  <2> SUFFICES ASSUME Init PROVE Channel!Init
    OBVIOUS
  <2>1. done = <<>> /\ got = <<>> /\ faults = {}
    BY DEF Init
  <2>2. SubSeq(done, Len(got) + 1, Len(done)) = <<>>
    BY <2>1
  <2> QED
    BY <2>1, <2>2 DEF Channel!Init
<1> QED
  BY <1>1, <1>2, <1>3, StepSimulates, PTL DEF Spec
=============================================================================
