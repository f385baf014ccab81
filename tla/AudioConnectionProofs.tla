---------------------- MODULE AudioConnectionProofs ----------------------
(***************************************************************************)
(* Theorems about AudioConnection: its types, that a connect that returned *)
(* normally reaches the name it was given, and that frames arrive whole    *)
(* and in order.  For any sets of hosts and writers and any bounds.        *)
(*                                                                         *)
(* TypeOK alone is not inductive.  A loop takes the head of a stream, so   *)
(* every stream must hold pieces of frames that some kind has (PieceInv);  *)
(* and a loop that reads must have a stream (LoopInv).                     *)
(***************************************************************************)
EXTENDS AudioConnection, TLAPS, SequenceTheorems, WellFoundedInduction

\* A frame that has been written, and one that has a body.
Real(f) == f \in Frames /\ f.kind # "none" /\ f.opcode \in 1..6
           /\ (f.opcode = 6 <=> f.kind = "SHUTDOWN")
Message(f) == Real(f) /\ f.kind # "SHUTDOWN"
RealPiece(p) == p \in PieceRecords /\ Real(p.of) /\ (p.part = "body" => Message(p.of))

\* What is on its way is a piece of a frame, and no SHUTDOWN goes up.
UpOK(s) == \A k \in DOMAIN s : RealPiece(s[k]) /\ Message(s[k].of)
DownOK(s) == \A k \in DOMAIN s : RealPiece(s[k])

\* A frame is being written, and for audio data the coded stream was made.
WritersOK ==
  \A w \in Writers : piece[w].to # None =>
    /\ Message(piece[w].frame)
    /\ piece[w].frame.kind = "AUDIO_DATA" => mCodedOutputStream # None

\* A header that has been read is that of a frame, that of SHUTDOWN up to its opcode.
ReadersOK ==
  \A e \in Ends : reader[e] \in {"opcode", "body"} =>
    Real(frame[e]) /\ (reader[e] = "body" => Message(frame[e]))

StreamsOK == \A i \in DOMAIN conns : UpOK(conns[i].up) /\ DownOK(conns[i].down)

\* What is written, on its way or read is of a frame.
PieceInv ==
  /\ StreamsOK
  /\ WritersOK
  /\ ReadersOK

\* Where a loop has a stream: it reads, or is about to.
Attached == {"read", "opcode", "body", "poll", "check", "address"}
LoopInv ==
  /\ \A e \in Ends : reader[e] \in Attached => mStream[e] # None
  /\ reader[Client] \in {"none", "read", "opcode", "body", "ended", "lost"}
  /\ \A h \in Hosts : reader[h] # "none" => server[h] \in {"open", "closed", "null"}

\* What the proofs of all properties start from.
BInv == TypeOK /\ PieceInv /\ LoopInv

\* A connection is a record, and its streams are sequences of pieces.
LEMMA ConnType ==
  ASSUME TypeOK, NEW i \in DOMAIN conns
  PROVE  /\ i \in 1..Len(conns) /\ Len(conns) \in Nat
         /\ conns[i] \in ConnRecords
         /\ conns[i].up \in Seq(PieceRecords) /\ conns[i].down \in Seq(PieceRecords)
<1>1. conns \in Seq(ConnRecords)
  BY DEF TypeOK
<1>2. i \in 1..Len(conns) /\ Len(conns) \in Nat /\ conns[i] \in ConnRecords
  BY <1>1
<1> QED
  BY <1>2 DEF ConnRecords

\* One connection is replaced.
LEMMA ConnChange ==
  ASSUME TypeOK, NEW i \in DOMAIN conns, NEW r \in ConnRecords,
         conns' = [conns EXCEPT ![i] = r]
  PROVE  /\ conns' \in Seq(ConnRecords) /\ DOMAIN conns' = DOMAIN conns
         /\ Len(conns') = Len(conns)
         /\ conns'[i] = r
         /\ \A j \in DOMAIN conns : j # i => conns'[j] = conns[j]
  BY ExceptSeq DEF TypeOK

\* One connection is made.
LEMMA ConnAdd ==
  ASSUME TypeOK, NEW r \in ConnRecords, conns' = Append(conns, r)
  PROVE  /\ conns' \in Seq(ConnRecords) /\ DOMAIN conns' = DOMAIN conns \cup {Len(conns) + 1}
         /\ Len(conns') = Len(conns) + 1
         /\ conns'[Len(conns) + 1] = r
         /\ \A j \in DOMAIN conns : conns'[j] = conns[j]
  BY AppendProperties DEF TypeOK

\* Frame makes frames, and messages of every kind but SHUTDOWN.
LEMMA FrameType ==
  ASSUME NEW e, NEW k \in AllKinds \cup {"SHUTDOWN"}, NEW n \in Nat
  PROVE  /\ Real(Frame(e, k, n)) /\ Frame(e, k, n).kind = k /\ Frame(e, k, n).nr = n
         /\ k \in AllKinds => Message(Frame(e, k, n))
  BY DEF Frame, Real, Message, Frames, AllKinds, OpcodesOf, JavaOpcodes, NativeOpcodes

\* An end knows every opcode, and both know that of SHUTDOWN.
LEMMA KindHeardType ==
  ASSUME NEW e, NEW f, Real(f)
  PROVE  /\ KindHeard(e, f) \in AllKinds \cup {"SHUTDOWN"}
         /\ KindHeard(e, f) = "SHUTDOWN" <=> f.kind = "SHUTDOWN"
<1>1. \E k \in DOMAIN OpcodesOf(e) : OpcodesOf(e)[k] = f.opcode
  BY DEF Real, OpcodesOf, JavaOpcodes, NativeOpcodes
<1>2. /\ KindHeard(e, f) \in DOMAIN OpcodesOf(e)
      /\ OpcodesOf(e)[KindHeard(e, f)] = f.opcode
  BY <1>1 DEF KindHeard
<1> QED
  BY <1>2 DEF Real, OpcodesOf, JavaOpcodes, NativeOpcodes, AllKinds

\* A piece is of the frame it was made of.
LEMMA PieceType ==
  ASSUME NEW f, Real(f), NEW p \in {"length", "opcode", "body"},
         p = "body" => Message(f)
  PROVE  RealPiece(Piece(p, f)) /\ Piece(p, f).of = f /\ Piece(p, f).part = p
  BY DEF RealPiece, Piece, PieceRecords, Real

\* A frame is cut into pieces of it, a message into three, SHUTDOWN into two.
LEMMA PiecesType ==
  ASSUME NEW f, Real(f)
  PROVE  /\ Pieces(f) \in Seq(PieceRecords)
         /\ Message(f) => Pieces(f) = <<Piece("length", f), Piece("opcode", f), Piece("body", f)>>
         /\ ~Message(f) => Pieces(f) = <<Piece("length", f), Piece("opcode", f)>>
         /\ \A k \in DOMAIN Pieces(f) : RealPiece(Pieces(f)[k])
<1>1. CASE Message(f)
  <2>1. Pieces(f) = <<Piece("length", f), Piece("opcode", f), Piece("body", f)>>
    BY <1>1 DEF Message, Pieces, Parts
  <2>2. \A p \in {"length", "opcode", "body"} : RealPiece(Piece(p, f))
    BY <1>1, PieceType
  <2>3. /\ RealPiece(Piece("length", f)) /\ RealPiece(Piece("opcode", f))
        /\ RealPiece(Piece("body", f))
    BY <2>2
  <2> QED
    BY <1>1, <2>1, <2>3 DEF RealPiece
<1>2. CASE ~Message(f)
  <2>1. Pieces(f) = <<Piece("length", f), Piece("opcode", f)>>
    BY <1>2 DEF Message, Pieces, Parts
  <2>2. RealPiece(Piece("length", f)) /\ RealPiece(Piece("opcode", f))
    BY PieceType
  <2> QED
    BY <1>2, <2>1, <2>2 DEF RealPiece
<1> QED
  BY <1>1, <1>2

\* Who reads has a stream, and what is on it are pieces; no SHUTDOWN goes up.
LEMMA InType ==
  ASSUME BInv, NEW e \in Ends, reader[e] \in Attached
  PROVE  /\ mStream[e] \in DOMAIN conns
         /\ In(e) \in Seq(PieceRecords)
         /\ \A k \in DOMAIN In(e) : RealPiece(In(e)[k]) /\ (e # Client => Message(In(e)[k].of))
<1>1. mStream[e] \in DOMAIN conns
  BY DEF BInv, LoopInv, TypeOK
<1> QED
  BY <1>1, ConnType DEF BInv, PieceInv, StreamsOK, UpOK, DownOK, In

\* A connection after a change of what is on its way up.
LEMMA UpType ==
  ASSUME TypeOK, NEW i \in DOMAIN conns, NEW s \in Seq(PieceRecords),
         conns' = [conns EXCEPT ![i].up = s]
  PROVE  /\ conns' \in Seq(ConnRecords) /\ DOMAIN conns' = DOMAIN conns
         /\ Len(conns') = Len(conns)
         /\ conns'[i].up = s /\ conns'[i].down = conns[i].down
         /\ conns'[i].name = conns[i].name /\ conns'[i].accepted = conns[i].accepted
         /\ conns'[i].client = conns[i].client /\ conns'[i].host = conns[i].host
         /\ conns'[i].told = conns[i].told
         /\ \A j \in DOMAIN conns : j # i => conns'[j] = conns[j]
<1> DEFINE r == [conns[i] EXCEPT !.up = s]
<1>1. r \in ConnRecords /\ r.up = s /\ r.down = conns[i].down /\ r.name = conns[i].name
      /\ r.accepted = conns[i].accepted /\ r.client = conns[i].client
      /\ r.host = conns[i].host /\ r.told = conns[i].told
  BY ConnType DEF ConnRecords
<1>2. conns' = [conns EXCEPT ![i] = r]
  OBVIOUS
<1> HIDE DEF r
<1> QED
  BY <1>1, <1>2, ConnChange DEF r

\* A connection after a change of what is on its way down.
LEMMA DownType ==
  ASSUME TypeOK, NEW i \in DOMAIN conns, NEW s \in Seq(PieceRecords),
         conns' = [conns EXCEPT ![i].down = s]
  PROVE  /\ conns' \in Seq(ConnRecords) /\ DOMAIN conns' = DOMAIN conns
         /\ Len(conns') = Len(conns)
         /\ conns'[i].down = s /\ conns'[i].up = conns[i].up
         /\ conns'[i].name = conns[i].name /\ conns'[i].accepted = conns[i].accepted
         /\ conns'[i].client = conns[i].client /\ conns'[i].host = conns[i].host
         /\ conns'[i].told = conns[i].told
         /\ \A j \in DOMAIN conns : j # i => conns'[j] = conns[j]
<1> DEFINE r == [conns[i] EXCEPT !.down = s]
<1>1. r \in ConnRecords /\ r.down = s /\ r.up = conns[i].up /\ r.name = conns[i].name
      /\ r.accepted = conns[i].accepted /\ r.client = conns[i].client
      /\ r.host = conns[i].host /\ r.told = conns[i].told
  BY ConnType DEF ConnRecords
<1>2. conns' = [conns EXCEPT ![i] = r]
  OBVIOUS
<1> HIDE DEF r
<1> QED
  BY <1>1, <1>2, ConnChange DEF r

\* e's loop has taken the next piece of its connection.
Took(e) ==
  LET i == mStream[e] IN
  /\ conns' \in Seq(ConnRecords) /\ DOMAIN conns' = DOMAIN conns
  /\ Len(conns') = Len(conns)
  /\ conns'[i].up = IF e = Client THEN conns[i].up ELSE Tail(conns[i].up)
  /\ conns'[i].name = conns[i].name /\ conns'[i].accepted = conns[i].accepted
  /\ conns'[i].client = conns[i].client /\ conns'[i].host = conns[i].host
  /\ conns'[i].told = conns[i].told
  /\ \A j \in DOMAIN conns : j # i => conns'[j] = conns[j]

\* A piece was taken, and nothing written back.
LEMMA RestType ==
  ASSUME BInv, NEW e \in Ends, reader[e] \in Attached, In(e) # <<>>,
         conns' = Rest(e)
  PROVE  /\ Took(e)
         /\ conns'[mStream[e]].down = IF e = Client THEN Tail(conns[mStream[e]].down)
                                      ELSE conns[mStream[e]].down
<1> DEFINE i == mStream[e]
           s == Tail(In(e))
<1>1. i \in DOMAIN conns /\ In(e) \in Seq(PieceRecords)
  BY InType
<1>2. s \in Seq(PieceRecords)
  BY <1>1
<1>3. CASE e = Client
  <2>1. conns' = [conns EXCEPT ![i].down = s] /\ s = Tail(conns[i].down)
    BY <1>1, <1>3 DEF Rest, In
  <2> HIDE DEF s, i
  <2>2. /\ conns' \in Seq(ConnRecords) /\ DOMAIN conns' = DOMAIN conns
        /\ Len(conns') = Len(conns)
        /\ conns'[i].down = s /\ conns'[i].up = conns[i].up
        /\ conns'[i].name = conns[i].name /\ conns'[i].accepted = conns[i].accepted
        /\ conns'[i].client = conns[i].client /\ conns'[i].host = conns[i].host
        /\ conns'[i].told = conns[i].told
        /\ \A j \in DOMAIN conns : j # i => conns'[j] = conns[j]
    BY <1>1, <1>2, <2>1, DownType DEF BInv
  <2>3. s = Tail(conns[i].down)
    BY <2>1
  <2> QED
    BY <1>3, <2>2, <2>3 DEF Took, i
<1>4. CASE e # Client
  <2>1. conns' = [conns EXCEPT ![i].up = s] /\ s = Tail(conns[i].up)
    BY <1>1, <1>4 DEF Rest, In
  <2> HIDE DEF s, i
  <2>2. /\ conns' \in Seq(ConnRecords) /\ DOMAIN conns' = DOMAIN conns
        /\ Len(conns') = Len(conns)
        /\ conns'[i].up = s /\ conns'[i].down = conns[i].down
        /\ conns'[i].name = conns[i].name /\ conns'[i].accepted = conns[i].accepted
        /\ conns'[i].client = conns[i].client /\ conns'[i].host = conns[i].host
        /\ conns'[i].told = conns[i].told
        /\ \A j \in DOMAIN conns : j # i => conns'[j] = conns[j]
    BY <1>1, <1>2, <2>1, UpType DEF BInv
  <2>3. s = Tail(conns[i].up)
    BY <2>1
  <2> QED
    BY <1>4, <2>2, <2>3 DEF Took, i
<1> QED
  BY <1>3, <1>4

\* A piece was taken, and a callback wrote r back.
LEMMA ReplyType ==
  ASSUME BInv, NEW e \in Ends, e # Client, reader[e] \in Attached, In(e) # <<>>,
         NEW r \in Seq(PieceRecords),
         conns' = [Rest(e) EXCEPT ![mStream[e]].down = @ \o r]
  PROVE  /\ Took(e)
         /\ conns'[mStream[e]].down = conns[mStream[e]].down \o r
<1> DEFINE i == mStream[e]
           c == [conns[i] EXCEPT !.up = Tail(@), !.down = @ \o r]
<1>1. i \in DOMAIN conns /\ In(e) = conns[i].up /\ In(e) \in Seq(PieceRecords)
  BY InType DEF In
<1>2. conns[i].down \in Seq(PieceRecords) /\ conns[i] \in ConnRecords
  BY <1>1, ConnType DEF BInv
<1>3. Tail(In(e)) \in Seq(PieceRecords) /\ conns[i].down \o r \in Seq(PieceRecords)
  BY <1>1, <1>2
<1>4. /\ c \in ConnRecords /\ c.up = Tail(conns[i].up) /\ c.down = conns[i].down \o r
      /\ c.name = conns[i].name /\ c.accepted = conns[i].accepted
      /\ c.client = conns[i].client /\ c.host = conns[i].host /\ c.told = conns[i].told
  BY <1>1, <1>2, <1>3 DEF ConnRecords
<1>5. Rest(e) = [conns EXCEPT ![i] = [conns[i] EXCEPT !.up = Tail(@)]]
  BY DEF Rest
<1>6. conns' = [conns EXCEPT ![i] = c]
  <2> DEFINE d == [conns[i] EXCEPT !.up = Tail(@)]
  <2>1. Rest(e)[i] = d /\ d.down = conns[i].down
    BY <1>1, <1>2, <1>5 DEF ConnRecords
  <2>2. conns' = [Rest(e) EXCEPT ![i] = [d EXCEPT !.down = conns[i].down \o r]]
    BY <2>1
  <2>3. [d EXCEPT !.down = conns[i].down \o r] = c
    BY <1>2 DEF ConnRecords
  <2> HIDE DEF c, d
  <2>4. conns' = [Rest(e) EXCEPT ![i] = c] /\ Rest(e) = [conns EXCEPT ![i] = d]
    BY <1>5, <2>2, <2>3 DEF d
  <2> QED
    BY <1>1, <2>4
<1> HIDE DEF c
<1> QED
  BY <1>1, <1>4, <1>6, ConnChange DEF Took, BInv

\* The types that do not speak of connections, and those that do.
OwnTypes ==
  /\ mSocketName \in Hosts \cup {None}
  /\ owner \in {"idle", "join"} /\ asked \in Hosts \cup {None}
  /\ outcome \in {"none", "connected", "IOException", "NullPointerException"}
  /\ mLoopRun \in [Ends -> BOOLEAN]
  /\ reader \in [Ends -> LoopStates]
  /\ frame \in [Ends -> Frames]
  /\ server \in [Hosts -> {"none", "open", "closed", "null", "dead"}]
  /\ closer \in [Hosts -> {"idle", "wake", "null", "join"}]
  /\ writer \in [Writers -> 0..2]
  /\ frames \in 0..MaxFrames
  /\ happened \subseteq {"failure", "overlap", "stale", "cut"}

\* Messages heard on the connections D, and what is written to one of them.
Messages(D) == [by: Ends, on: D, nr: Nat, kind: AllKinds, as: AllKinds]
PieceTargets(D) == [to: D \cup {None}, frame: Frames]

\* The types that speak of connections.
ConnTypes ==
  /\ conns \in Seq(ConnRecords)
  /\ mSocket \in DOMAIN conns \cup {None, Nowhere}
  /\ mCodedOutputStream \in DOMAIN conns \cup {None, Nowhere}
  /\ mStream \in [Ends -> DOMAIN conns \cup {None}]
  /\ piece \in [Writers -> PieceTargets(DOMAIN conns)]
  /\ heard \in Seq(Messages(DOMAIN conns))

\* The types are those two.
LEMMA TypeParts == /\ TypeOK <=> OwnTypes /\ ConnTypes
                   /\ TypeOK' <=> OwnTypes' /\ ConnTypes'
  BY DEF TypeOK, OwnTypes, ConnTypes, Messages, PieceTargets

\* More connections leave what refers to one typed.
LEMMA GrownTypes ==
  ASSUME ConnTypes, conns' \in Seq(ConnRecords), DOMAIN conns \subseteq DOMAIN conns'
  PROVE  /\ mSocket \in DOMAIN conns' \cup {None, Nowhere}
         /\ mCodedOutputStream \in DOMAIN conns' \cup {None, Nowhere}
         /\ mStream \in [Ends -> DOMAIN conns' \cup {None}]
         /\ piece \in [Writers -> PieceTargets(DOMAIN conns')]
         /\ heard \in Seq(Messages(DOMAIN conns'))
<1>1. /\ mSocket \in DOMAIN conns' \cup {None, Nowhere}
      /\ mCodedOutputStream \in DOMAIN conns' \cup {None, Nowhere}
      /\ mStream \in [Ends -> DOMAIN conns' \cup {None}]
  BY DEF ConnTypes
<1>2. PieceTargets(DOMAIN conns) \subseteq PieceTargets(DOMAIN conns')
  BY DEF PieceTargets
<1>3. piece \in [Writers -> PieceTargets(DOMAIN conns')]
  BY <1>2 DEF ConnTypes
<1>4. Messages(DOMAIN conns) \subseteq Messages(DOMAIN conns')
  BY DEF Messages
<1>5. heard \in Seq(Messages(DOMAIN conns'))
  BY <1>4 DEF ConnTypes
<1> QED
  BY <1>1, <1>3, <1>5

\* A step that makes or changes connections only keeps the types.
LEMMA KeptTypes ==
  ASSUME ConnTypes, conns' \in Seq(ConnRecords), DOMAIN conns \subseteq DOMAIN conns',
         UNCHANGED <<mSocket, mCodedOutputStream, mStream, piece, heard>>
  PROVE  ConnTypes'
  BY GrownTypes DEF ConnTypes

\* A connection after a change of its flags.
LEMMA FlagType ==
  ASSUME TypeOK, NEW i \in DOMAIN conns, NEW r,
         conns' = [conns EXCEPT ![i] = r],
         r \in {[conns[i] EXCEPT !.client = FALSE], [conns[i] EXCEPT !.host = FALSE],
                [conns[i] EXCEPT !.accepted = TRUE]}
  PROVE  /\ conns' \in Seq(ConnRecords) /\ DOMAIN conns' = DOMAIN conns
         /\ \A j \in DOMAIN conns : j # i => conns'[j] = conns[j]
         /\ conns'[i] = r
         /\ conns'[i].up = conns[i].up /\ conns'[i].down = conns[i].down
         /\ conns'[i].name = conns[i].name /\ conns'[i].told = conns[i].told
<1>1. r \in ConnRecords
  BY ConnType DEF ConnRecords
<1>2. r.up = conns[i].up /\ r.down = conns[i].down /\ r.name = conns[i].name
      /\ r.told = conns[i].told
  BY ConnType DEF ConnRecords
<1> QED
  BY <1>1, <1>2, ConnChange

\* A set of numbers that is not empty has a least element.
LEMMA LeastNumber ==
  ASSUME NEW S, S \subseteq Nat, S # {}
  PROVE  \E n \in S : \A k \in S : n <= k
<1>1. PICK n \in S : \A k \in S : ~(<<k, n>> \in OpToRel(<, Nat))
  BY NatLessThanWellFounded, WFMin
<1>2. \A k \in S : ~(k < n)
  BY <1>1, Zenon DEF OpToRel
<1> QED
  BY <1>2

\* The oldest connection that waits is one that waits.
LEMMA OldestIsPending ==
  ASSUME TypeOK, NEW h, Pending(h) # {}
  PROVE  /\ Oldest(Pending(h)) \in DOMAIN conns
         /\ conns[Oldest(Pending(h))].name = h /\ ~conns[Oldest(Pending(h))].accepted
<1>1. Pending(h) \subseteq Nat
  BY ConnType DEF Pending
<1>2. \E f \in Pending(h) : \A g \in Pending(h) : f <= g
  BY <1>1, LeastNumber
<1>3. Oldest(Pending(h)) \in Pending(h)
  BY <1>2 DEF Oldest
<1> QED
  BY <1>3 DEF Pending

\* A host takes a connection that waits for it; nothing else of it changes.
LEMMA AcceptStep ==
  ASSUME BInv, NEW h \in Hosts, HostAccepts(h) \/ NativeAccepts(h)
  PROVE  /\ mStream'[h] \in DOMAIN conns
         /\ mStream' = [mStream EXCEPT ![h] = mStream'[h]]
         /\ conns[mStream'[h]].name = h /\ ~conns[mStream'[h]].accepted
         /\ conns' \in Seq(ConnRecords) /\ DOMAIN conns' = DOMAIN conns
         /\ \A j \in DOMAIN conns :
              /\ conns'[j].up = conns[j].up /\ conns'[j].down = conns[j].down
              /\ conns'[j].name = conns[j].name /\ conns'[j].told = conns[j].told
              /\ conns'[j].client = conns[j].client /\ conns'[j].host = conns[j].host
              /\ conns'[j].accepted = (conns[j].accepted \/ j = mStream'[h])
<1> DEFINE i == Oldest(Pending(h))
           r == [conns[i] EXCEPT !.accepted = TRUE]
<1>1. i \in DOMAIN conns /\ conns[i].name = h /\ ~conns[i].accepted
  BY OldestIsPending DEF BInv, HostAccepts, NativeAccepts
<1>2. conns' = [conns EXCEPT ![i] = r] /\ mStream' = [mStream EXCEPT ![h] = i]
  BY DEF HostAccepts, NativeAccepts
<1>3. h \in Ends /\ mStream \in [Ends -> DOMAIN conns \cup {None}]
  BY DEF Ends, BInv, TypeOK
<1>4. mStream'[h] = i
  BY <1>2, <1>3
<1>5. /\ r \in ConnRecords
      /\ r.up = conns[i].up /\ r.down = conns[i].down /\ r.name = conns[i].name
      /\ r.told = conns[i].told /\ r.client = conns[i].client /\ r.host = conns[i].host
      /\ r.accepted = TRUE
  BY <1>1, ConnType DEF ConnRecords, BInv
<1> HIDE DEF r
<1>6. /\ conns' \in Seq(ConnRecords) /\ DOMAIN conns' = DOMAIN conns
      /\ conns'[i] = r /\ \A j \in DOMAIN conns : j # i => conns'[j] = conns[j]
  BY <1>1, <1>2, <1>5, ConnChange DEF BInv
<1>7. \A j \in DOMAIN conns : conns[j].accepted \in BOOLEAN
  BY ConnType DEF ConnRecords, BInv
<1> QED
  BY <1>1, <1>2, <1>4, <1>5, <1>6, <1>7

\* A connection that is made.
LEMMA NewConnType ==
  ASSUME NEW n \in Hosts
  PROVE  /\ NewConn(n) \in ConnRecords /\ NewConn(n).name = n
         /\ NewConn(n).up = <<>> /\ NewConn(n).down = <<>>
         /\ NewConn(n).client /\ NewConn(n).host /\ ~NewConn(n).accepted
         /\ ~NewConn(n).told
  BY DEF NewConn, ConnRecords

\* The workaround makes at most one connection, from the host to itself.
LEMMA WakeType ==
  ASSUME BInv, NEW h \in Hosts, HostWakes(h)
  PROVE  \/ conns' = conns
         \/ /\ conns' \in Seq(ConnRecords)
            /\ DOMAIN conns' = DOMAIN conns \cup {Len(conns) + 1}
            /\ \A j \in DOMAIN conns : conns'[j] = conns[j]
            /\ conns'[Len(conns) + 1].name = h /\ conns'[Len(conns) + 1].up = <<>>
            /\ conns'[Len(conns) + 1].down = <<>>
            /\ ~conns'[Len(conns) + 1].client /\ ~conns'[Len(conns) + 1].told
            /\ ~conns'[Len(conns) + 1].accepted
<1> DEFINE r == [NewConn(h) EXCEPT !.client = FALSE]
<1>1. /\ r \in ConnRecords /\ r.name = h /\ r.up = <<>> /\ r.down = <<>>
      /\ ~r.client /\ ~r.told /\ ~r.accepted
  BY NewConnType DEF ConnRecords
<1>2. conns' = conns \/ conns' = Append(conns, r)
  BY DEF HostWakes
<1> HIDE DEF r
<1> QED
  BY <1>1, <1>2, ConnAdd DEF BInv

\* A host that dies closes its connections and loses what was on its way to it.
LEMMA DiesStep ==
  ASSUME BInv, NEW h \in Hosts, HostDies(h)
  PROVE  /\ conns' \in Seq(ConnRecords) /\ DOMAIN conns' = DOMAIN conns
         /\ \A i \in DOMAIN conns :
              IF conns[i].name = h
              THEN /\ conns'[i].up = <<>> /\ ~conns'[i].host /\ conns'[i].accepted
                   /\ conns'[i].name = conns[i].name /\ conns'[i].down = conns[i].down
                   /\ conns'[i].client = conns[i].client /\ conns'[i].told = conns[i].told
              ELSE conns'[i] = conns[i]
<1> DEFINE d(i) == [conns[i] EXCEPT !.host = FALSE, !.up = <<>>, !.accepted = TRUE]
<1>1. \A i \in DOMAIN conns :
        /\ d(i) \in ConnRecords /\ d(i).up = <<>> /\ ~d(i).host /\ d(i).accepted
        /\ d(i).name = conns[i].name /\ d(i).down = conns[i].down
        /\ d(i).client = conns[i].client /\ d(i).told = conns[i].told
  <2> TAKE i \in DOMAIN conns
  <2>1. conns[i] \in ConnRecords
    BY ConnType DEF BInv
  <2>2. <<>> \in Seq(PieceRecords)
    OBVIOUS
  <2> QED
    BY <2>1, <2>2 DEF ConnRecords
<1>2. conns' = [i \in DOMAIN conns |-> IF conns[i].name = h THEN d(i) ELSE conns[i]]
  BY DEF HostDies
<1> HIDE DEF d
<1>3. DOMAIN conns = 1..Len(conns) /\ Len(conns) \in Nat
      /\ \A i \in DOMAIN conns : conns[i] \in ConnRecords
  BY DEF BInv, TypeOK
<1>4. conns' \in [1..Len(conns) -> ConnRecords]
  BY <1>1, <1>2, <1>3
<1>5. conns' \in Seq(ConnRecords)
  BY <1>3, <1>4
<1> QED
  BY <1>1, <1>2, <1>5

\* A write: one piece more for the host, or none.
LEMMA WriteStep ==
  ASSUME BInv, NEW w \in Writers, WritePiece(w)
  PROVE  LET i == Target(w)
             p == Piece(Parts[writer[w] + 1], piece[w].frame)
         IN \/ UNCHANGED conns /\ (i = Nowhere \/ ~CanWrite(i)) /\ EndWrite(w)
            \/ /\ i \in DOMAIN conns /\ CanWrite(i)
               /\ RealPiece(p) /\ p.of = piece[w].frame /\ p.part = Parts[writer[w] + 1]
               /\ conns' \in Seq(ConnRecords) /\ DOMAIN conns' = DOMAIN conns
               /\ conns'[i].up = Append(conns[i].up, p)
               /\ conns'[i].down = conns[i].down
               /\ conns'[i].name = conns[i].name
               /\ conns'[i].accepted = conns[i].accepted
               /\ conns'[i].client = conns[i].client /\ conns'[i].host = conns[i].host
               /\ conns'[i].told = conns[i].told
               /\ \A j \in DOMAIN conns : j # i => conns'[j] = conns[j]
               /\ \/ writer[w] < 2 /\ writer' = [writer EXCEPT ![w] = @ + 1]
                     /\ UNCHANGED piece
                  \/ writer[w] = 2 /\ EndWrite(w)
<1> DEFINE i == Target(w)
           p == Piece(Parts[writer[w] + 1], piece[w].frame)
           s == Append(conns[i].up, p)
<1>1. piece[w].to \in DOMAIN conns /\ writer[w] \in 0..2 /\ Message(piece[w].frame)
  BY DEF WritePiece, BInv, TypeOK, PieceInv, WritersOK
<1>2. i \in DOMAIN conns \cup {Nowhere}
  <2>1. CASE writer[w] = 2 /\ piece[w].frame.kind = "AUDIO_DATA"
    BY <1>1, <2>1 DEF Target, BInv, TypeOK, PieceInv, WritersOK, WritePiece
  <2>2. CASE ~(writer[w] = 2 /\ piece[w].frame.kind = "AUDIO_DATA")
    BY <1>1, <2>2 DEF Target
  <2> QED
    BY <2>1, <2>2
<1>3. Nowhere \notin DOMAIN conns
  BY DEF Nowhere, BInv, TypeOK
<1>4. Parts[writer[w] + 1] \in {"length", "opcode", "body"}
  BY <1>1 DEF Parts
<1>5. RealPiece(p) /\ p.of = piece[w].frame /\ p.part = Parts[writer[w] + 1]
  BY <1>1, <1>4, PieceType DEF Message
<1>6. CASE i # Nowhere /\ CanWrite(i)
  <2>1. conns[i].up \in Seq(PieceRecords) /\ p \in PieceRecords
    BY <1>2, <1>5, <1>6, ConnType DEF RealPiece, BInv
  <2>2. s \in Seq(PieceRecords)
    BY <2>1
  <2>3. conns' = [conns EXCEPT ![i].up = s]
    BY <1>6 DEF WritePiece
  <2>4. i \in DOMAIN conns
    BY <1>2, <1>6
  <2>5. s = Append(conns[i].up, p)
    OBVIOUS
  <2> HIDE DEF s, p, i
  <2>6. /\ conns' \in Seq(ConnRecords) /\ DOMAIN conns' = DOMAIN conns
        /\ conns'[i].up = s /\ conns'[i].down = conns[i].down
        /\ conns'[i].name = conns[i].name /\ conns'[i].accepted = conns[i].accepted
        /\ conns'[i].client = conns[i].client /\ conns'[i].host = conns[i].host
        /\ conns'[i].told = conns[i].told
        /\ \A j \in DOMAIN conns : j # i => conns'[j] = conns[j]
    BY <2>2, <2>3, <2>4, UpType DEF BInv
  <2>7. \/ writer[w] < 2 /\ writer' = [writer EXCEPT ![w] = @ + 1] /\ UNCHANGED piece
        \/ writer[w] = 2 /\ EndWrite(w)
    BY <1>1, <1>6 DEF WritePiece, MoreToWrite, i
  <2> QED
    BY <1>5, <1>6, <2>4, <2>5, <2>6, <2>7 DEF i, p
<1>7. CASE ~(i # Nowhere /\ CanWrite(i))
  BY <1>7 DEF WritePiece
<1> QED
  BY <1>6, <1>7

\* ~SocketHost adds to what is on its way down of one connection.
LEMMA DestroyedStep ==
  ASSUME BInv, NEW h \in Hosts, NativeDestroyed(h)
  PROVE  \/ UNCHANGED conns /\ mStream[h] = None
         \/ LET i == mStream[h]
                s == IF ClientEnd(i) THEN Pieces(Frame(h, "SHUTDOWN", 0)) ELSE <<>>
            IN /\ i \in DOMAIN conns
               /\ conns' \in Seq(ConnRecords) /\ DOMAIN conns' = DOMAIN conns
               /\ conns'[i].up = conns[i].up
               /\ conns'[i].down = conns[i].down \o s
               /\ conns'[i].name = conns[i].name
               /\ conns'[i].accepted = conns[i].accepted
               /\ conns'[i].client = conns[i].client /\ conns'[i].host = conns[i].host
               /\ conns'[i].told
               /\ \A j \in DOMAIN conns : j # i => conns'[j] = conns[j]
<1> DEFINE i == mStream[h]
           s == IF ClientEnd(i) THEN Pieces(Frame(h, "SHUTDOWN", 0)) ELSE <<>>
           r == [conns[i] EXCEPT !.down = @ \o s, !.told = TRUE]
<1>1. CASE i = None
  BY <1>1 DEF NativeDestroyed
<1>2. CASE i # None
  <2>1. i \in DOMAIN conns
    BY <1>2 DEF BInv, TypeOK, Ends
  <2>2. s \in Seq(PieceRecords)
    <3>1. Real(Frame(h, "SHUTDOWN", 0))
      BY FrameType
    <3>2. Pieces(Frame(h, "SHUTDOWN", 0)) \in Seq(PieceRecords)
      BY <3>1, PiecesType
    <3> QED
      BY <3>2
  <2>3. conns[i] \in ConnRecords /\ conns[i].down \in Seq(PieceRecords)
    BY <2>1, ConnType DEF BInv
  <2>4. conns[i].down \o s \in Seq(PieceRecords)
    BY <2>2, <2>3
  <2>5. conns' = [conns EXCEPT ![i] = r]
    <3>1. conns' = [conns EXCEPT ![i].down = @ \o s, ![i].told = TRUE]
      BY <1>2 DEF NativeDestroyed
    <3> DEFINE q == [conns[i] EXCEPT !.down = @ \o s]
               m == [conns EXCEPT ![i] = q]
    <3>2. conns' = [m EXCEPT ![i].told = TRUE]
      BY <3>1
    <3>3. m[i] = q
      BY <2>1
    <3>4. r = [q EXCEPT !.told = TRUE]
      BY <2>3 DEF ConnRecords
    <3>5. conns' = [m EXCEPT ![i] = r]
      BY <3>2, <3>3, <3>4
    <3> HIDE DEF q, r
    <3> QED
      BY <2>1, <3>5
  <2>6. /\ r \in ConnRecords
        /\ r.up = conns[i].up /\ r.down = conns[i].down \o s
        /\ r.name = conns[i].name /\ r.accepted = conns[i].accepted
        /\ r.client = conns[i].client /\ r.host = conns[i].host /\ r.told
    BY <2>3, <2>4 DEF ConnRecords
  <2> HIDE DEF r
  <2> QED
    BY <2>1, <2>5, <2>6, ConnChange DEF BInv
<1> QED
  BY <1>1, <1>2

\* A native host takes two pieces at once.
LEMMA HeaderStep ==
  ASSUME BInv, NEW h \in Hosts, NativeReadHeader(h)
  PROVE  LET i == mStream[h] IN
         /\ i \in DOMAIN conns /\ In(h) = conns[i].up /\ Len(conns[i].up) >= 2
         /\ conns' \in Seq(ConnRecords) /\ DOMAIN conns' = DOMAIN conns
         /\ conns'[i].up = SubSeq(conns[i].up, 3, Len(conns[i].up))
         /\ conns'[i].down = conns[i].down
         /\ conns'[i].name = conns[i].name /\ conns'[i].accepted = conns[i].accepted
         /\ conns'[i].client = conns[i].client /\ conns'[i].host = conns[i].host
         /\ conns'[i].told = conns[i].told
         /\ \A j \in DOMAIN conns : j # i => conns'[j] = conns[j]
<1> DEFINE i == mStream[h]
           s == SubSeq(conns[i].up, 3, Len(conns[i].up))
<1>1. h \in Ends /\ h # Client /\ reader[h] \in Attached
  BY HostsAssumption DEF Ends, NativeReadHeader, Attached, Hosts
<1>2. i \in DOMAIN conns /\ In(h) = conns[i].up
  BY <1>1, InType DEF In
<1>3. conns[i].up \in Seq(PieceRecords)
  BY <1>2, ConnType DEF BInv
<1>4. s \in Seq(PieceRecords)
  BY <1>3
<1>5. conns' = [conns EXCEPT ![i].up = s] /\ Len(conns[i].up) >= 2
  BY <1>2 DEF NativeReadHeader
<1>6. s = SubSeq(conns[i].up, 3, Len(conns[i].up))
  OBVIOUS
<1> HIDE DEF s, i
<1>7. /\ conns' \in Seq(ConnRecords) /\ DOMAIN conns' = DOMAIN conns
      /\ conns'[i].up = s /\ conns'[i].down = conns[i].down
      /\ conns'[i].name = conns[i].name /\ conns'[i].accepted = conns[i].accepted
      /\ conns'[i].client = conns[i].client /\ conns'[i].host = conns[i].host
      /\ conns'[i].told = conns[i].told
      /\ \A j \in DOMAIN conns : j # i => conns'[j] = conns[j]
  BY <1>2, <1>4, <1>5, UpType DEF BInv
<1> QED
  BY <1>2, <1>5, <1>6, <1>7 DEF i

\* A reply is a frame, of the number it answers, or none.
LEMMA RepliesType ==
  ASSUME NEW h, NEW k, NEW nr \in Nat
  PROVE  /\ Replies(h, k, nr) \in Seq(PieceRecords)
         /\ \/ Replies(h, k, nr) = <<>>
            \/ \E f : Message(f) /\ f.nr = nr /\ Replies(h, k, nr) = Pieces(f)
<1> DEFINE a == Frame(h, "AUDIO_RESPONSE", nr)
           b == Frame(h, "BUFFER_INFO", nr)
<1>1. Message(a) /\ Message(b) /\ a.nr = nr /\ b.nr = nr
  BY FrameType DEF AllKinds
<1>2. Real(a) /\ Real(b)
  BY <1>1 DEF Message
<1> HIDE DEF a, b
<1>3. Pieces(a) \in Seq(PieceRecords) /\ Pieces(b) \in Seq(PieceRecords)
  BY <1>2, PiecesType
<1>4. \/ Replies(h, k, nr) = <<>> \/ Replies(h, k, nr) = Pieces(a)
      \/ Replies(h, k, nr) = Pieces(b)
  BY DEF Replies, a, b
<1>5. <<>> \in Seq(PieceRecords)
  OBVIOUS
<1> QED
  BY <1>1, <1>3, <1>4, <1>5

\* What a body that was read leaves: for a host, with the reply behind.
LEMMA BodyStep ==
  ASSUME BInv, NEW e \in Ends, ReadBody(e)
  PROVE  LET m == mStream[e]
             whole == Head(In(e)) = Piece("body", frame[e])
         IN /\ Took(e) /\ m \in DOMAIN conns /\ In(e) # <<>> /\ Real(frame[e])
            /\ Message(frame[e])
            /\ e = Client => conns'[m].down = Tail(conns[m].down)
            /\ e # Client /\ whole /\ ClientEnd(m) =>
                 conns'[m].down = conns[m].down \o Replies(e, KindHeard(e, frame[e]), frame[e].nr)
            /\ e # Client /\ ~(whole /\ ClientEnd(m)) => conns'[m].down = conns[m].down
            /\ IF whole THEN heard' = Append(heard, Heard(e)) ELSE UNCHANGED heard
            /\ Heard(e) \in Messages(DOMAIN conns)
<1> DEFINE m == mStream[e]
           whole == Head(In(e)) = Piece("body", frame[e])
<1>1. reader[e] = "body" /\ reader[e] \in Attached /\ In(e) # <<>>
  BY DEF ReadBody, Attached
<1>2. m \in DOMAIN conns
  BY <1>1, InType
<1>3. Message(frame[e]) /\ Real(frame[e])
  BY <1>1 DEF BInv, PieceInv, ReadersOK, Message
<1>4. frame[e] \in Frames /\ frame[e].nr \in Nat
  BY DEF BInv, TypeOK, Frames
<1>5. IF whole THEN heard' = Append(heard, Heard(e)) ELSE UNCHANGED heard
  BY DEF ReadBody
<1>6. Heard(e) \in Messages(DOMAIN conns)
  <2>1. KindHeard(e, frame[e]) \in AllKinds
    BY <1>3, KindHeardType DEF Message
  <2>2. frame[e].kind \in AllKinds
    BY <1>3, <1>4 DEF Message, Real, Frames
  <2> QED
    BY <1>2, <1>4, <2>1, <2>2 DEF Heard, Messages
<1>7. CASE e # Client /\ whole /\ ClientEnd(m)
  <2> DEFINE r == Replies(e, KindHeard(e, frame[e]), frame[e].nr)
  <2>1. r \in Seq(PieceRecords)
    BY <1>4, RepliesType
  <2>2. conns' = [Rest(e) EXCEPT ![mStream[e]].down = @ \o r]
    BY <1>7 DEF ReadBody
  <2> HIDE DEF r
  <2>3. Took(e) /\ conns'[mStream[e]].down = conns[mStream[e]].down \o r
    BY <1>1, <1>7, <2>1, <2>2, ReplyType
  <2> QED
    BY <1>1, <1>2, <1>3, <1>5, <1>6, <1>7, <2>3 DEF r
<1>8. CASE ~(e # Client /\ whole /\ ClientEnd(m))
  <2>1. conns' = Rest(e)
    BY <1>8 DEF ReadBody
  <2>2. Took(e) /\ conns'[m].down = IF e = Client THEN Tail(conns[m].down) ELSE conns[m].down
    BY <1>1, <2>1, RestType
  <2> QED
    BY <1>1, <1>2, <1>3, <1>5, <1>6, <1>8, <2>2
<1> QED
  BY <1>7, <1>8

\* Every step keeps the types.
LEMMA TypeStep ==
  ASSUME BInv, [Next]_vars
  PROVE  TypeOK'
<1> USE DEF BInv
<1>0. OwnTypes /\ ConnTypes
  BY TypeParts
<1>a. SUFFICES OwnTypes' /\ ConnTypes'
  BY TypeParts
<1>1. ASSUME NEW n \in Hosts, ConnectAgain(n) PROVE OwnTypes' /\ ConnTypes'
  <2>1. OwnTypes'
    BY <1>0, <1>1, HostsAssumption DEF OwnTypes, ConnectAgain, readVars, hostVars, writeVars
  <2>2. ConnTypes'
    BY <1>0, <1>1 DEF ConnTypes, ConnectAgain, readVars, hostVars, writeVars
  <2> QED
    BY <2>1, <2>2
<1>2. ASSUME NEW n \in Hosts, Disconnect(n) PROVE OwnTypes' /\ ConnTypes'
  <2>1. OwnTypes'
    BY <1>0, <1>2, HostsAssumption DEF OwnTypes, Disconnect, hostVars, writeVars
  <2>2. CASE mStream[Client] = None
    <3>1. ConnTypes'
      BY <1>0, <1>2, <2>2 DEF ConnTypes, Disconnect, hostVars, writeVars
    <3> QED
      BY <2>1, <3>1
  <2>3. CASE mStream[Client] # None
    <3> DEFINE i == mStream[Client]
               r == [conns[i] EXCEPT !.client = FALSE]
    <3>1. i \in DOMAIN conns
      BY <2>3 DEF TypeOK, Ends
    <3>2. conns' = [conns EXCEPT ![i] = r]
      BY <1>2, <2>3 DEF Disconnect
    <3>3. r \in ConnRecords
      BY <3>1, ConnType DEF ConnRecords
    <3> HIDE DEF r, i
    <3>4. conns' \in Seq(ConnRecords) /\ DOMAIN conns' = DOMAIN conns
      BY <3>1, <3>2, <3>3, ConnChange
    <3>5. ConnTypes'
      BY <1>0, <1>2, <2>3, <3>4, GrownTypes DEF ConnTypes, Disconnect, writeVars
    <3> QED
      BY <2>1, <3>5
  <2> QED
    BY <2>2, <2>3
<1>3. ASSUME NEW n \in Hosts, InitializeFails(n) PROVE OwnTypes' /\ ConnTypes'
  <2>1. OwnTypes'
    BY <1>0, <1>3, HostsAssumption
    DEF OwnTypes, InitializeFails, Initializes, readVars, hostVars, writeVars
  <2>2. ConnTypes'
    BY <1>0, <1>3 DEF ConnTypes, InitializeFails, Initializes, readVars, hostVars, writeVars
  <2> QED
    BY <2>1, <2>2
<1>4. ASSUME NEW n \in Hosts, Initialize(n) PROVE OwnTypes' /\ ConnTypes'
  <2>1. OwnTypes'
    <3>1. NoFrame \in Frames
      BY DEF NoFrame, Frames
    <3> QED
      BY <1>0, <1>4, <3>1, HostsAssumption
      DEF OwnTypes, Initialize, Initializes, hostVars, writeVars, LoopStates
  <2>2. conns' = Append(conns, NewConn(n)) /\ NewConn(n) \in ConnRecords
    BY <1>4, NewConnType DEF Initialize
  <2>3. conns' \in Seq(ConnRecords) /\ DOMAIN conns' = DOMAIN conns \cup {Len(conns) + 1}
    BY <2>2, ConnAdd
  <2>4. ConnTypes'
    BY <1>0, <1>4, <2>3, GrownTypes DEF ConnTypes, Initialize, writeVars
  <2> QED
    BY <2>1, <2>4
<1>5. ASSUME NEW w \in Writers, WritePiece(w) PROVE OwnTypes' /\ ConnTypes'
  <2>1. writer' \in [Writers -> 0..2]
    BY <1>0, <1>5 DEF OwnTypes, WritePiece, MoreToWrite, EndWrite
  <2>2. OwnTypes'
    BY <1>0, <1>5, <2>1 DEF OwnTypes, WritePiece, clientVars, readVars, hostVars
  <2>3. conns' \in Seq(ConnRecords) /\ DOMAIN conns' = DOMAIN conns
    BY <1>0, <1>5, WriteStep DEF ConnTypes
  <2>4. piece' \in [Writers -> PieceTargets(DOMAIN conns')]
    <3>1. [to |-> None, frame |-> NoFrame] \in PieceTargets(DOMAIN conns)
      BY DEF PieceTargets, NoFrame, Frames
    <3>2. piece' = piece \/ piece' = [piece EXCEPT ![w] = [to |-> None, frame |-> NoFrame]]
      BY <1>5 DEF WritePiece, EndWrite
    <3> QED
      BY <1>0, <2>3, <3>1, <3>2 DEF ConnTypes
  <2>5. ConnTypes'
    BY <1>0, <1>5, <2>3, <2>4, GrownTypes DEF ConnTypes, WritePiece, clientVars, readVars
  <2> QED
    BY <2>2, <2>5
<1>6. ASSUME NEW w \in Writers, NEW k \in Kinds, BeginWrite(w, k)
      PROVE OwnTypes' /\ ConnTypes'
  <2> DEFINE s == mStream[Client]
             q == [to |-> s, frame |-> Frame(Client, k, frames + 1)]
  <2>1. OwnTypes'
    <3>1. frames' \in 0..MaxFrames
      BY <1>0, <1>6, ConnectionBoundAssumption DEF OwnTypes, BeginWrite
    <3>2. happened' = happened \/ happened' = happened \cup {"overlap"}
      BY <1>6, Zenon DEF BeginWrite
    <3>3. UNCHANGED <<clientVars, mLoopRun, reader, frame, hostVars, writer>>
      BY <1>6 DEF BeginWrite, readVars
    <3> QED
      BY <1>0, <3>1, <3>2, <3>3 DEF OwnTypes, clientVars, hostVars
  <2>2. s \in DOMAIN conns \cup {None}
    BY DEF TypeOK, Ends
  <2>3. piece' \in [Writers -> PieceTargets(DOMAIN conns)]
    <3>1. Frame(Client, k, frames + 1) \in Frames
      <4>1. k \in AllKinds /\ frames + 1 \in Nat
        BY <1>0, ConnectionBoundAssumption DEF OwnTypes
      <4> QED
        BY <4>1, FrameType DEF Real
    <3>2. q \in PieceTargets(DOMAIN conns)
      BY <2>2, <3>1 DEF PieceTargets
    <3>3. piece' = piece \/ piece' = [piece EXCEPT ![w] = q]
      BY <1>6 DEF BeginWrite
    <3> HIDE DEF q
    <3> QED
      BY <1>0, <3>2, <3>3 DEF ConnTypes
  <2>4. mCodedOutputStream' \in DOMAIN conns \cup {None, Nowhere}
    BY <1>0, <1>6, <2>2 DEF BeginWrite, ConnTypes
  <2>5. ConnTypes'
    BY <1>0, <1>6, <2>3, <2>4 DEF ConnTypes, BeginWrite, clientVars, readVars
  <2> QED
    BY <2>1, <2>5
<1>7. ASSUME ReadThrows PROVE OwnTypes' /\ ConnTypes'
  <2>1. OwnTypes'
    BY <1>0, <1>7, HostsAssumption
    DEF OwnTypes, ReadThrows, GoTo, clientVars, hostVars, writeVars, LoopStates
  <2>2. ConnTypes'
    BY <1>0, <1>7 DEF ConnTypes, ReadThrows, GoTo, clientVars, hostVars, writeVars, LoopStates
  <2> QED
    BY <2>1, <2>2
<1>8. ASSUME NEW e \in Ends, ReadLength(e) PROVE OwnTypes' /\ ConnTypes'
  <2>1. reader[e] \in Attached /\ In(e) # <<>>
    BY <1>8 DEF ReadLength, Attached
  <2>2. conns' \in Seq(ConnRecords) /\ DOMAIN conns' = DOMAIN conns
    BY <1>8, <2>1, RestType DEF ReadLength, Took
  <2>3. Head(In(e)).of \in Frames
    <3>1. In(e) \in Seq(PieceRecords)
      BY <2>1, InType
    <3>2. Head(In(e)) \in PieceRecords
      BY <2>1, <3>1
    <3> QED
      BY <3>2 DEF PieceRecords
  <2>4. OwnTypes'
    BY <1>0, <1>8, <2>3
    DEF OwnTypes, ReadLength, GoTo, clientVars, hostVars, writeVars, LoopStates
  <2>5. ConnTypes'
    BY <1>0, <1>8, <2>2, KeptTypes DEF ReadLength, clientVars, writeVars
  <2> QED
    BY <2>4, <2>5
<1>9. ASSUME NEW e \in Ends, ReadOpcode(e) PROVE OwnTypes' /\ ConnTypes'
  <2>1. reader[e] \in Attached /\ In(e) # <<>>
    BY <1>9 DEF ReadOpcode, Attached
  <2>2. conns' \in Seq(ConnRecords) /\ DOMAIN conns' = DOMAIN conns
    BY <1>9, <2>1, RestType DEF ReadOpcode, Took
  <2>4. OwnTypes'
    BY <1>0, <1>9 DEF OwnTypes, ReadOpcode, GoTo, clientVars, hostVars, writeVars, LoopStates
  <2>5. ConnTypes'
    BY <1>0, <1>9, <2>2, KeptTypes DEF ReadOpcode, clientVars, writeVars
  <2> QED
    BY <2>4, <2>5
<1>10. ASSUME NEW e \in Ends, ReadBody(e) PROVE OwnTypes' /\ ConnTypes'
  <2>1. conns' \in Seq(ConnRecords) /\ DOMAIN conns' = DOMAIN conns
    BY <1>10, BodyStep DEF Took
  <2>2. Top(e) \in LoopStates
    BY <1>0 DEF Top, LoopStates, OwnTypes, Ends, Hosts
  <2>3. NoFrame \in Frames
    BY DEF NoFrame, Frames
  <2>4. reader' \in [Ends -> LoopStates]
    BY <1>0, <1>10, <2>2 DEF OwnTypes, ReadBody, GoTo, LoopStates
  <2>5. OwnTypes'
    BY <1>0, <1>10, <2>3, <2>4 DEF OwnTypes, ReadBody, clientVars, hostVars, writeVars
  <2>6. heard' \in Seq(Messages(DOMAIN conns))
    <3>1. heard \in Seq(Messages(DOMAIN conns))
      BY <1>0 DEF ConnTypes
    <3>2. /\ heard' = heard \/ heard' = Append(heard, Heard(e))
          /\ Heard(e) \in Messages(DOMAIN conns)
      BY <1>10, BodyStep
    <3> QED
      BY <3>1, <3>2, AppendProperties
  <2>7. ConnTypes'
    BY <1>0, <1>10, <2>1, <2>6, GrownTypes DEF ConnTypes, ReadBody, clientVars, writeVars
  <2> QED
    BY <2>5, <2>7
<1>11. ASSUME NEW e \in Ends, ReadEnds(e) PROVE OwnTypes' /\ ConnTypes'
  <2>1. OwnTypes'
    BY <1>0, <1>11, HostsAssumption
    DEF OwnTypes, ReadEnds, GoTo, clientVars, hostVars, writeVars, LoopStates
  <2>2. ConnTypes'
    BY <1>0, <1>11 DEF ConnTypes, ReadEnds, GoTo, clientVars, hostVars, writeVars, LoopStates
  <2> QED
    BY <2>1, <2>2
<1>12. ASSUME NEW h \in Hosts, HostOpens(h) PROVE OwnTypes' /\ ConnTypes'
  <2>1. OwnTypes'
    BY <1>0, <1>12, HostsAssumption
    DEF OwnTypes, HostOpens, GoTo, clientVars, writeVars, LoopStates
  <2>2. ConnTypes'
    BY <1>0, <1>12 DEF ConnTypes, HostOpens, GoTo, clientVars, writeVars, LoopStates
  <2> QED
    BY <2>1, <2>2
<1>13. ASSUME NEW h \in Hosts, HostTest(h) PROVE OwnTypes' /\ ConnTypes'
  <2>1. OwnTypes'
    BY <1>0, <1>13, HostsAssumption
    DEF OwnTypes, HostTest, GoTo, clientVars, hostVars, writeVars, LoopStates
  <2>2. ConnTypes'
    BY <1>0, <1>13 DEF ConnTypes, HostTest, GoTo, clientVars, hostVars, writeVars, LoopStates
  <2> QED
    BY <2>1, <2>2
<1>14. ASSUME NEW h \in JavaHosts, HostCalls(h) PROVE OwnTypes' /\ ConnTypes'
  <2>1. reader' \in [Ends -> LoopStates]
    <3>1. server[h] \in {"open", "closed", "null"}
      BY <1>14 DEF LoopInv, HostCalls, Hosts
    <3>2. \E s \in {"crashed", "test", "accept"} : reader' = [reader EXCEPT ![h] = s]
      BY <1>14, <3>1 DEF HostCalls, GoTo
    <3> QED
      BY <1>0, <3>2 DEF OwnTypes, LoopStates
  <2>2. OwnTypes'
    BY <1>0, <1>14, <2>1 DEF OwnTypes, HostCalls, clientVars, hostVars, writeVars
  <2>3. ConnTypes'
    BY <1>0, <1>14 DEF ConnTypes, HostCalls, clientVars, writeVars
  <2> QED
    BY <2>2, <2>3
<1>15. ASSUME NEW h \in Hosts, HostAccepts(h) \/ NativeAccepts(h) PROVE OwnTypes' /\ ConnTypes'
  <2>1. OwnTypes'
    BY <1>0, <1>15
    DEF OwnTypes, HostAccepts, NativeAccepts, GoTo, clientVars, hostVars, writeVars, LoopStates
  <2>2. /\ conns' \in Seq(ConnRecords) /\ DOMAIN conns' = DOMAIN conns
        /\ mStream'[h] \in DOMAIN conns
        /\ mStream' = [mStream EXCEPT ![h] = mStream'[h]]
    BY <1>15, AcceptStep
  <2>3. mStream' \in [Ends -> DOMAIN conns \cup {None}]
    BY <1>0, <2>2 DEF ConnTypes
  <2>4. ConnTypes'
    BY <1>0, <1>15, <2>2, <2>3, GrownTypes
    DEF ConnTypes, HostAccepts, NativeAccepts, clientVars, writeVars
  <2> QED
    BY <2>1, <2>4
<1>16. ASSUME NEW h \in Hosts, HostChecks(h) PROVE OwnTypes' /\ ConnTypes'
  <2>1. reader' \in [Ends -> LoopStates] /\ mLoopRun' \in [Ends -> BOOLEAN]
    <3>1. reader[h] \in {"check", "address"}
      BY <1>16 DEF HostChecks, NullAt
    <3>2. \E s \in {"ended", "crashed", "address", "poll"} : reader' = [reader EXCEPT ![h] = s]
      BY <1>16, <3>1 DEF HostChecks, NullAt, NextCheck, GoTo
    <3>3. mLoopRun' = mLoopRun \/ mLoopRun' = [mLoopRun EXCEPT ![h] = FALSE]
      BY <1>16 DEF HostChecks
    <3> QED
      BY <1>0, <3>2, <3>3 DEF OwnTypes, LoopStates
  <2>2. OwnTypes'
    BY <1>0, <1>16, <2>1 DEF OwnTypes, HostChecks, clientVars, hostVars, writeVars
  <2>3. ConnTypes'
    BY <1>0, <1>16 DEF ConnTypes, HostChecks, clientVars, writeVars
  <2> QED
    BY <2>2, <2>3
<1>17. ASSUME NEW h \in Hosts, Poll(h) PROVE OwnTypes' /\ ConnTypes'
  <2>1. OwnTypes'
    BY <1>0, <1>17, HostsAssumption
    DEF OwnTypes, Poll, GoTo, clientVars, hostVars, writeVars, LoopStates
  <2>2. ConnTypes'
    BY <1>0, <1>17 DEF ConnTypes, Poll, GoTo, clientVars, hostVars, writeVars, LoopStates
  <2> QED
    BY <2>1, <2>2
<1>18. ASSUME NEW h \in Hosts, HostCloses(h) PROVE OwnTypes' /\ ConnTypes'
  <2>1. OwnTypes'
    BY <1>0, <1>18, HostsAssumption DEF OwnTypes, HostCloses, clientVars, writeVars
  <2>2. ConnTypes'
    BY <1>0, <1>18 DEF ConnTypes, HostCloses, clientVars, writeVars
  <2> QED
    BY <2>1, <2>2
<1>19. ASSUME NEW h \in Hosts, HostWakes(h) PROVE OwnTypes' /\ ConnTypes'
  <2>1. OwnTypes'
    BY <1>0, <1>19 DEF OwnTypes, HostWakes, clientVars, readVars, writeVars
  <2>2. conns' \in Seq(ConnRecords) /\ DOMAIN conns \subseteq DOMAIN conns'
    BY <1>0, <1>19, WakeType DEF ConnTypes
  <2>3. ConnTypes'
    BY <1>0, <1>19, <2>2, KeptTypes DEF HostWakes, clientVars, readVars, writeVars
  <2> QED
    BY <2>1, <2>3
<1>20. ASSUME NEW h \in Hosts, HostForgets(h) PROVE OwnTypes' /\ ConnTypes'
  <2>1. OwnTypes'
    BY <1>0, <1>20, HostsAssumption DEF OwnTypes, HostForgets, clientVars, readVars, writeVars
  <2>2. ConnTypes'
    BY <1>0, <1>20 DEF ConnTypes, HostForgets, clientVars, readVars, writeVars
  <2> QED
    BY <2>1, <2>2
<1>21. ASSUME NEW h \in Hosts, HostDies(h) PROVE OwnTypes' /\ ConnTypes'
  <2>1. NoFrame \in Frames
    BY DEF NoFrame, Frames
  <2>2. OwnTypes'
    BY <1>0, <1>21, <2>1 DEF OwnTypes, HostDies, GoTo, clientVars, writeVars, LoopStates
  <2>3. conns' \in Seq(ConnRecords) /\ DOMAIN conns' = DOMAIN conns
    BY <1>21, DiesStep
  <2>4. ConnTypes'
    BY <1>0, <1>21, <2>3, GrownTypes DEF ConnTypes, HostDies, clientVars, writeVars
  <2> QED
    BY <2>2, <2>4
<1>22. ASSUME NEW h \in Hosts, NativeOpens(h) PROVE OwnTypes' /\ ConnTypes'
  <2>1. OwnTypes'
    BY <1>0, <1>22, HostsAssumption
    DEF OwnTypes, NativeOpens, GoTo, clientVars, writeVars, LoopStates
  <2>2. ConnTypes'
    BY <1>0, <1>22 DEF ConnTypes, NativeOpens, GoTo, clientVars, writeVars, LoopStates
  <2> QED
    BY <2>1, <2>2
<1>24. ASSUME NEW h \in Hosts, NativeReadHeader(h) PROVE OwnTypes' /\ ConnTypes'
  <2>1. /\ conns' \in Seq(ConnRecords) /\ DOMAIN conns' = DOMAIN conns
        /\ In(h) = conns[mStream[h]].up /\ Len(In(h)) >= 2
        /\ mStream[h] \in DOMAIN conns
    BY <1>24, HeaderStep
  <2>2. In(h)[1].of \in Frames
    <3>1. In(h) \in Seq(PieceRecords)
      BY <2>1, ConnType
    <3>2. In(h)[1] \in PieceRecords
      BY <2>1, <3>1
    <3> QED
      BY <3>2 DEF PieceRecords
  <2>3. OwnTypes'
    BY <1>0, <1>24, <2>2
    DEF OwnTypes, NativeReadHeader, GoTo, clientVars, hostVars, writeVars, LoopStates
  <2>4. ConnTypes'
    BY <1>0, <1>24, <2>1, KeptTypes DEF NativeReadHeader, clientVars, writeVars
  <2> QED
    BY <2>3, <2>4
<1>25. ASSUME NEW h \in Hosts, NativeCloses(h) PROVE OwnTypes' /\ ConnTypes'
  <2>1. OwnTypes'
    BY <1>0, <1>25 DEF OwnTypes, NativeCloses, GoTo, clientVars, hostVars, writeVars, LoopStates
  <2> DEFINE i == mStream[h]
             r == [conns[i] EXCEPT !.host = FALSE]
  <2>2. i \in DOMAIN conns
    BY <1>25 DEF NativeCloses, LoopInv, TypeOK, Attached, Ends
  <2>3. conns' = [conns EXCEPT ![i] = r]
    BY <1>25 DEF NativeCloses
  <2>4. r \in ConnRecords
    BY <2>2, ConnType DEF ConnRecords
  <2> HIDE DEF r, i
  <2>5. conns' \in Seq(ConnRecords) /\ DOMAIN conns' = DOMAIN conns
    BY <2>2, <2>3, <2>4, ConnChange
  <2>6. ConnTypes'
    BY <1>0, <1>25, <2>5, GrownTypes DEF ConnTypes, NativeCloses, clientVars, writeVars
  <2> QED
    BY <2>1, <2>6
<1>26. ASSUME NEW h \in Hosts, NativeDestroyed(h) PROVE OwnTypes' /\ ConnTypes'
  <2>1. OwnTypes'
    BY <1>0, <1>26 DEF OwnTypes, NativeDestroyed, GoTo, clientVars, writeVars, LoopStates
  <2>2. conns' \in Seq(ConnRecords) /\ DOMAIN conns' = DOMAIN conns
    BY <1>0, <1>26, DestroyedStep DEF ConnTypes
  <2>3. ConnTypes'
    BY <1>0, <1>26, <2>2, KeptTypes DEF NativeDestroyed, clientVars, writeVars
  <2> QED
    BY <2>1, <2>3
<1>27. ASSUME UNCHANGED vars PROVE OwnTypes' /\ ConnTypes'
  BY <1>0, <1>27 DEF OwnTypes, ConnTypes, vars, clientVars, readVars, hostVars, writeVars
<1> QED
  BY <1>1, <1>2, <1>3, <1>4, <1>5, <1>6, <1>7, <1>8, <1>9, <1>10, <1>11, <1>12, <1>13,
     <1>14, <1>15, <1>16, <1>17, <1>18, <1>19, <1>20, <1>21, <1>22, <1>24, <1>25,
     <1>26, <1>27
  DEF Next, JavaLoop, ReaderStep, NativeLoop, HostDisconnects, Finished, Hosts, Ends

\* Who reads has a stream; the read loops are where they can be.
LEMMA LoopStep ==
  ASSUME BInv, [Next]_vars
  PROVE  LoopInv'
<1> USE DEF BInv
<1>0. /\ reader \in [Ends -> LoopStates] /\ mStream \in [Ends -> DOMAIN conns \cup {None}]
      /\ server \in [Hosts -> {"none", "open", "closed", "null", "dead"}]
      /\ LoopInv /\ Client \in Ends /\ Client \notin Hosts /\ Hosts \subseteq Ends
      /\ \A h \in Hosts : h # Client
  BY HostsAssumption DEF TypeOK, Ends
<1>1. ASSUME NEW n \in Hosts, ConnectAgain(n) PROVE LoopInv'
  BY <1>0, <1>1 DEF LoopInv, ConnectAgain, readVars, hostVars
<1>2. ASSUME NEW n \in Hosts, Disconnect(n) PROVE LoopInv'
  BY <1>0, <1>2 DEF LoopInv, Disconnect, hostVars
<1>3. ASSUME NEW n \in Hosts, InitializeFails(n) PROVE LoopInv'
  BY <1>0, <1>3 DEF LoopInv, InitializeFails, readVars, hostVars
<1>4. ASSUME NEW n \in Hosts, Initialize(n) PROVE LoopInv'
  <2>1. Len(conns) + 1 # None
    BY DEF TypeOK, None
  <2> QED
    BY <1>0, <1>4, <2>1 DEF LoopInv, Initialize, hostVars
<1>5. ASSUME NEW w \in Writers, WritePiece(w) PROVE LoopInv'
  BY <1>0, <1>5 DEF LoopInv, WritePiece, readVars, hostVars
<1>6. ASSUME NEW w \in Writers, NEW k \in Kinds, BeginWrite(w, k) PROVE LoopInv'
  BY <1>0, <1>6 DEF LoopInv, BeginWrite, readVars, hostVars
<1>7. ASSUME ReadThrows PROVE LoopInv'
  BY <1>0, <1>7 DEF LoopInv, ReadThrows, GoTo, hostVars, Attached
<1>8. ASSUME NEW e \in Ends, ReadLength(e) PROVE LoopInv'
  BY <1>0, <1>8 DEF LoopInv, ReadLength, GoTo, hostVars, Attached
<1>9. ASSUME NEW e \in Ends, ReadOpcode(e) PROVE LoopInv'
  BY <1>0, <1>9 DEF LoopInv, ReadOpcode, GoTo, hostVars, Attached
<1>10. ASSUME NEW e \in Ends, ReadBody(e) PROVE LoopInv'
  <2>1. e = Client => Top(e) \in {"read", "ended"}
    BY <1>0 DEF Top, Hosts, TypeOK
  <2>2. \E s \in {Top(e), "lost"} : reader' = [reader EXCEPT ![e] = s]
    BY <1>10 DEF ReadBody, GoTo
  <2>3. reader[e] = "body" /\ UNCHANGED <<mStream, server>>
    BY <1>10 DEF ReadBody, hostVars
  <2> QED
    BY <1>0, <2>1, <2>2, <2>3 DEF LoopInv, Attached
<1>11. ASSUME NEW e \in Ends, ReadEnds(e) PROVE LoopInv'
  <2>1. reader[e] \in {"read", "opcode", "body"}
    BY <1>11 DEF ReadEnds, EofSeenAt
  <2>2. reader' = [reader EXCEPT ![e] = "ended"] /\ UNCHANGED <<mStream, server>>
    BY <1>11 DEF ReadEnds, GoTo, hostVars
  <2> QED
    BY <1>0, <2>1, <2>2 DEF LoopInv, Attached
<1>12. ASSUME NEW h \in Hosts, HostOpens(h) \/ NativeOpens(h) PROVE LoopInv'
  BY <1>0, <1>12 DEF LoopInv, HostOpens, NativeOpens, GoTo, Attached
<1>13. ASSUME NEW h \in Hosts, HostTest(h) PROVE LoopInv'
  BY <1>0, <1>13 DEF LoopInv, HostTest, GoTo, Attached, hostVars
<1>14. ASSUME NEW h \in Hosts, HostCalls(h) PROVE LoopInv'
  <2>1. server[h] \in {"open", "closed", "null"} /\ reader[h] = "call"
    BY <1>0, <1>14 DEF LoopInv, HostCalls
  <2>2. \E s \in {"crashed", "test", "accept"} : reader' = [reader EXCEPT ![h] = s]
    BY <1>14, <2>1 DEF HostCalls, GoTo
  <2>3. UNCHANGED <<mStream, server>>
    BY <1>14 DEF HostCalls, hostVars
  <2> QED
    BY <1>0, <2>1, <2>2, <2>3 DEF LoopInv, Attached
<1>15. ASSUME NEW h \in Hosts, HostAccepts(h) \/ NativeAccepts(h) PROVE LoopInv'
  <2>1. mStream'[h] \in DOMAIN conns /\ mStream' = [mStream EXCEPT ![h] = mStream'[h]]
    BY <1>15, AcceptStep
  <2>2. None \notin DOMAIN conns
    BY DEF None, TypeOK
  <2>3. \E s \in {"check", "read"} : reader' = [reader EXCEPT ![h] = s]
    BY <1>15 DEF HostAccepts, NativeAccepts, GoTo
  <2>4. UNCHANGED server /\ reader[h] = "accept"
    BY <1>15 DEF HostAccepts, NativeAccepts, hostVars
  <2> QED
    BY <1>0, <2>1, <2>2, <2>3, <2>4 DEF LoopInv, Attached
<1>16. ASSUME NEW h \in Hosts, HostChecks(h) PROVE LoopInv'
  <2>1. reader[h] \in {"check", "address"}
    BY <1>16 DEF HostChecks, NullAt
  <2>2. \E s \in {"ended", "crashed", "address", "poll"} : reader' = [reader EXCEPT ![h] = s]
    BY <1>16, <2>1 DEF HostChecks, NullAt, NextCheck, GoTo
  <2>3. UNCHANGED <<mStream, server>>
    BY <1>16 DEF HostChecks, hostVars
  <2> QED
    BY <1>0, <2>1, <2>2, <2>3 DEF LoopInv, Attached
<1>17. ASSUME NEW h \in Hosts, Poll(h) PROVE LoopInv'
  BY <1>0, <1>17 DEF LoopInv, Poll, GoTo, hostVars, Attached
<1>18. ASSUME NEW h \in Hosts, HostCloses(h) PROVE LoopInv'
  BY <1>0, <1>18 DEF LoopInv, HostCloses
<1>19. ASSUME NEW h \in Hosts, HostWakes(h) PROVE LoopInv'
  BY <1>0, <1>19 DEF LoopInv, HostWakes, readVars
<1>20. ASSUME NEW h \in Hosts, HostForgets(h) PROVE LoopInv'
  BY <1>0, <1>20 DEF LoopInv, HostForgets, readVars
<1>21. ASSUME NEW h \in Hosts, HostDies(h) PROVE LoopInv'
  BY <1>0, <1>21 DEF LoopInv, HostDies, GoTo, Attached
<1>24. ASSUME NEW h \in Hosts, NativeReadHeader(h) PROVE LoopInv'
  BY <1>0, <1>24 DEF LoopInv, NativeReadHeader, GoTo, hostVars, Attached
<1>25. ASSUME NEW h \in Hosts, NativeCloses(h) PROVE LoopInv'
  BY <1>0, <1>25 DEF LoopInv, NativeCloses, GoTo, hostVars, Attached
<1>26. ASSUME NEW h \in Hosts, NativeDestroyed(h) PROVE LoopInv'
  BY <1>0, <1>26 DEF LoopInv, NativeDestroyed, GoTo, Attached
<1>27. ASSUME UNCHANGED vars PROVE LoopInv'
  BY <1>0, <1>27 DEF LoopInv, vars, readVars, hostVars
<1> QED
  BY <1>1, <1>2, <1>3, <1>4, <1>5, <1>6, <1>7, <1>8, <1>9, <1>10, <1>11, <1>12, <1>13,
     <1>14, <1>15, <1>16, <1>17, <1>18, <1>19, <1>20, <1>21, <1>24, <1>25, <1>26, <1>27
  DEF Next, JavaLoop, ReaderStep, NativeLoop, HostDisconnects, Finished, Hosts, Ends

\* The tail of a sequence, element by element.
LEMMA TailFacts ==
  ASSUME NEW S, NEW s \in Seq(S), s # <<>>
  PROVE  /\ Tail(s) \in Seq(S) /\ Len(Tail(s)) = Len(s) - 1 /\ Len(s) \in Nat \ {0}
         /\ \A k \in DOMAIN Tail(s) : k + 1 \in DOMAIN s /\ Tail(s)[k] = s[k + 1]
         /\ \A k \in DOMAIN Tail(s) : k \in 1..(Len(s) - 1)
         /\ Head(s) = s[1] /\ 1 \in DOMAIN s
  OBVIOUS

\* What is left after one piece was taken are pieces.
LEMMA TailOK ==
  ASSUME NEW s \in Seq(PieceRecords), s # <<>>
  PROVE  (UpOK(s) => UpOK(Tail(s))) /\ (DownOK(s) => DownOK(Tail(s)))
  BY TailFacts DEF UpOK, DownOK

\* What a client has written are messages.
LEMMA AppendOK ==
  ASSUME NEW s \in Seq(PieceRecords), NEW p, RealPiece(p), Message(p.of), UpOK(s)
  PROVE  UpOK(Append(s, p))
<1>1. p \in PieceRecords
  BY DEF RealPiece
<1>2. /\ DOMAIN Append(s, p) = 1..(Len(s) + 1) /\ DOMAIN s = 1..Len(s) /\ Len(s) \in Nat
      /\ Append(s, p)[Len(s) + 1] = p
      /\ \A k \in 1..Len(s) : Append(s, p)[k] = s[k]
  BY <1>1, AppendProperties
<1> QED
  BY <1>2 DEF UpOK

\* A concatenation, element by element.
LEMMA ConcatFacts ==
  ASSUME NEW S, NEW s \in Seq(S), NEW t \in Seq(S)
  PROVE  /\ DOMAIN (s \o t) = 1..(Len(s) + Len(t)) /\ DOMAIN s = 1..Len(s)
         /\ DOMAIN t = 1..Len(t) /\ Len(s) \in Nat /\ Len(t) \in Nat
         /\ s \o t \in Seq(S) /\ Len(s \o t) = Len(s) + Len(t)
         /\ \A k \in 1..Len(s) : (s \o t)[k] = s[k]
         /\ \A k \in 1..(Len(s) + Len(t)) : k > Len(s) =>
              (s \o t)[k] = t[k - Len(s)] /\ k - Len(s) \in 1..Len(t)
<1>1. /\ s \o t \in Seq(S) /\ Len(s \o t) = Len(s) + Len(t)
      /\ \A k \in 1..(Len(s) + Len(t)) :
           (s \o t)[k] = IF k <= Len(s) THEN s[k] ELSE t[k - Len(s)]
  BY ConcatProperties
<1>2. Len(s) \in Nat /\ Len(t) \in Nat /\ DOMAIN s = 1..Len(s) /\ DOMAIN t = 1..Len(t)
      /\ DOMAIN (s \o t) = 1..Len(s \o t)
  BY <1>1
<1> QED
  BY <1>1, <1>2

\* What a host has written are pieces.
LEMMA ConcatOK ==
  ASSUME NEW s \in Seq(PieceRecords), NEW t \in Seq(PieceRecords), DownOK(s), DownOK(t)
  PROVE  DownOK(s \o t)
  BY ConcatFacts DEF DownOK

\* What was taken leaves the rest as it was.
LEMMA TookOK ==
  ASSUME BInv, NEW e \in Ends, reader[e] \in Attached, In(e) # <<>>, Took(e),
         e = Client => conns'[mStream[e]].down = Tail(conns[mStream[e]].down)
  PROVE  /\ \A i \in DOMAIN conns' : UpOK(conns'[i].up)
         /\ \A i \in DOMAIN conns' : i # mStream[e] \/ e = Client => DownOK(conns'[i].down)
<1> DEFINE m == mStream[e]
<1>1. m \in DOMAIN conns
  BY InType
<1>2. \A i \in DOMAIN conns : UpOK(conns[i].up) /\ DownOK(conns[i].down)
  BY DEF BInv, PieceInv, StreamsOK
<1>3. conns[m].up \in Seq(PieceRecords) /\ conns[m].down \in Seq(PieceRecords)
  BY <1>1, ConnType DEF BInv
<1>4. \A i \in DOMAIN conns' : i # m => conns'[i] = conns[i] /\ i \in DOMAIN conns
  BY DEF Took
<1>5. CASE e = Client
  <2>1. conns[m].down # <<>> /\ conns'[m].up = conns[m].up /\ conns'[m].down = Tail(conns[m].down)
    BY <1>5 DEF In, Took
  <2>2. DownOK(Tail(conns[m].down)) /\ UpOK(conns[m].up)
    BY <1>1, <1>2, <1>3, <2>1, TailOK
  <2> QED
    BY <1>2, <1>4, <1>5, <2>1, <2>2
<1>6. CASE e # Client
  <2>1. conns[m].up # <<>> /\ conns'[m].up = Tail(conns[m].up)
    BY <1>6 DEF In, Took
  <2>2. UpOK(Tail(conns[m].up))
    BY <1>1, <1>2, <1>3, <2>1, TailOK
  <2> QED
    BY <1>2, <1>4, <1>6, <2>1, <2>2
<1> QED
  BY <1>5, <1>6

\* Pieces stay pieces.
LEMMA StreamsStep ==
  ASSUME BInv, [Next]_vars
  PROVE  StreamsOK'
<1>0. StreamsOK /\ TypeOK /\ \A i \in DOMAIN conns :
        conns[i].up \in Seq(PieceRecords) /\ conns[i].down \in Seq(PieceRecords)
  BY ConnType DEF BInv, PieceInv
<1>1. CASE UNCHANGED conns
  BY <1>0, <1>1 DEF StreamsOK
<1>e. UpOK(<<>>) /\ DownOK(<<>>)
  BY DEF UpOK, DownOK
<1>2. ASSUME NEW n \in Hosts, Disconnect(n) PROVE StreamsOK'
  <2> DEFINE i == mStream[Client]
             r == [conns[i] EXCEPT !.client = FALSE]
  <2>1. CASE i = None
    BY <1>1, <1>2, <2>1 DEF Disconnect
  <2>2. CASE i # None
    <3>1. i \in DOMAIN conns
      BY <1>0, <2>2 DEF TypeOK, Ends
    <3>2. conns' = [conns EXCEPT ![i] = r]
      BY <1>2, <2>2 DEF Disconnect
    <3>3. /\ DOMAIN conns' = DOMAIN conns
          /\ \A j \in DOMAIN conns : j # i => conns'[j] = conns[j]
          /\ conns'[i].up = conns[i].up /\ conns'[i].down = conns[i].down
      BY <1>0, <3>1, <3>2, FlagType
    <3> QED
      BY <1>0, <3>1, <3>3 DEF StreamsOK
  <2> QED
    BY <2>1, <2>2
<1>4. ASSUME NEW n \in Hosts, Initialize(n) PROVE StreamsOK'
  <2>1. conns' = Append(conns, NewConn(n)) /\ NewConn(n) \in ConnRecords
    BY <1>4, NewConnType DEF Initialize
  <2>2. /\ DOMAIN conns' = DOMAIN conns \cup {Len(conns) + 1}
        /\ conns'[Len(conns) + 1] = NewConn(n)
        /\ \A j \in DOMAIN conns : conns'[j] = conns[j]
    BY <1>0, <2>1, ConnAdd
  <2> QED
    BY <1>0, <1>e, <2>2, NewConnType DEF StreamsOK
<1>5. ASSUME NEW w \in Writers, WritePiece(w) PROVE StreamsOK'
  <2> DEFINE i == Target(w)
             p == Piece(Parts[writer[w] + 1], piece[w].frame)
  <2>1. CASE UNCHANGED conns
    BY <1>1, <2>1
  <2>2. CASE ~UNCHANGED conns
    <3>1. /\ i \in DOMAIN conns /\ RealPiece(p) /\ p.of = piece[w].frame
          /\ DOMAIN conns' = DOMAIN conns
          /\ conns'[i].up = Append(conns[i].up, p) /\ conns'[i].down = conns[i].down
          /\ \A j \in DOMAIN conns : j # i => conns'[j] = conns[j]
      BY <1>5, <2>2, WriteStep
    <3>2. Message(p.of)
      BY <1>5, <3>1 DEF BInv, PieceInv, WritersOK, WritePiece
    <3> HIDE DEF p, i
    <3>3. UpOK(Append(conns[i].up, p))
      BY <1>0, <3>1, <3>2, AppendOK DEF StreamsOK
    <3> QED
      BY <1>0, <3>1, <3>3 DEF StreamsOK
  <2> QED
    BY <2>1, <2>2
<1>8. ASSUME NEW e \in Ends, ReadLength(e) \/ ReadOpcode(e) PROVE StreamsOK'
  <2>1. reader[e] \in Attached /\ In(e) # <<>> /\ conns' = Rest(e)
    BY <1>8 DEF ReadLength, ReadOpcode, Attached
  <2>2. Took(e) /\ conns'[mStream[e]].down = IF e = Client THEN Tail(conns[mStream[e]].down)
                                              ELSE conns[mStream[e]].down
    BY <2>1, RestType
  <2>3. /\ \A i \in DOMAIN conns' : UpOK(conns'[i].up)
        /\ \A i \in DOMAIN conns' : i # mStream[e] \/ e = Client => DownOK(conns'[i].down)
    BY <2>1, <2>2, TookOK
  <2>4. e # Client => DownOK(conns'[mStream[e]].down)
    BY <1>0, <2>1, <2>2, InType DEF StreamsOK
  <2> QED
    BY <2>3, <2>4 DEF StreamsOK
<1>10. ASSUME NEW e \in Ends, ReadBody(e) PROVE StreamsOK'
  <2> DEFINE m == mStream[e]
             r == Replies(e, KindHeard(e, frame[e]), frame[e].nr)
  <2>1. /\ Took(e) /\ m \in DOMAIN conns /\ In(e) # <<>> /\ Message(frame[e])
        /\ e = Client => conns'[m].down = Tail(conns[m].down)
        /\ e # Client => conns'[m].down = conns[m].down \/ conns'[m].down = conns[m].down \o r
    BY <1>10, BodyStep
  <2>2. reader[e] \in Attached
    BY <1>10 DEF ReadBody, Attached
  <2>3. /\ \A i \in DOMAIN conns' : UpOK(conns'[i].up)
        /\ \A i \in DOMAIN conns' : i # m \/ e = Client => DownOK(conns'[i].down)
    BY <2>1, <2>2, TookOK
  <2>4. r \in Seq(PieceRecords) /\ DownOK(r)
    <3>1. frame[e].nr \in Nat
      BY <1>0 DEF TypeOK, Frames
    <3>2. r \in Seq(PieceRecords)
          /\ (r = <<>> \/ \E f : Message(f) /\ f.nr = frame[e].nr /\ r = Pieces(f))
      BY <3>1, RepliesType
    <3> HIDE DEF r
    <3>3. ASSUME NEW f, Message(f), r = Pieces(f) PROVE DownOK(r)
      BY <3>3, PiecesType DEF DownOK, Message
    <3> QED
      BY <1>e, <3>2, <3>3
  <2> HIDE DEF r
  <2>5. DownOK(conns[m].down)
    BY <1>0, <2>1 DEF StreamsOK
  <2>6. DownOK(conns[m].down \o r)
    BY <1>0, <2>1, <2>4, <2>5, ConcatOK
  <2> QED
    BY <2>1, <2>3, <2>5, <2>6 DEF StreamsOK
<1>15. ASSUME NEW h \in Hosts, HostAccepts(h) \/ NativeAccepts(h) PROVE StreamsOK'
  BY <1>0, <1>15, AcceptStep DEF StreamsOK
<1>19. ASSUME NEW h \in Hosts, HostWakes(h) PROVE StreamsOK'
  BY <1>0, <1>e, <1>19, WakeType DEF StreamsOK
<1>21. ASSUME NEW h \in Hosts, HostDies(h) PROVE StreamsOK'
  BY <1>0, <1>e, <1>21, DiesStep DEF StreamsOK
<1>24. ASSUME NEW h \in Hosts, NativeReadHeader(h) PROVE StreamsOK'
  <2> DEFINE i == mStream[h]
             u == conns[i].up
  <2>1. /\ i \in DOMAIN conns /\ Len(u) >= 2
        /\ DOMAIN conns' = DOMAIN conns
        /\ conns'[i].up = SubSeq(u, 3, Len(u)) /\ conns'[i].down = conns[i].down
        /\ \A j \in DOMAIN conns : j # i => conns'[j] = conns[j]
    BY <1>24, HeaderStep
  <2>2. u \in Seq(PieceRecords) /\ UpOK(u)
    BY <1>0, <2>1 DEF StreamsOK
  <2> HIDE DEF u
  <2>3. UpOK(SubSeq(u, 3, Len(u)))
    <3>1. /\ Len(u) \in Nat /\ \A k \in 3..Len(u) : u[k] \in PieceRecords
          /\ DOMAIN u = 1..Len(u)
      BY <2>2
    <3>2. /\ SubSeq(u, 3, Len(u)) \in Seq(PieceRecords)
          /\ Len(SubSeq(u, 3, Len(u))) = IF 3 <= Len(u) THEN Len(u) - 2 ELSE 0
          /\ \A k \in 1..(Len(u) - 2) : SubSeq(u, 3, Len(u))[k] = u[k + 2]
      BY <3>1, SubSeqProperties
    <3>3. DOMAIN SubSeq(u, 3, Len(u)) \subseteq 1..(Len(u) - 2)
      BY <3>1, <3>2
    <3> QED
      BY <2>2, <3>1, <3>2, <3>3 DEF UpOK
  <2> QED
    BY <1>0, <2>1, <2>3 DEF StreamsOK, u
<1>25. ASSUME NEW h \in Hosts, NativeCloses(h) PROVE StreamsOK'
  <2> DEFINE i == mStream[h]
             r == [conns[i] EXCEPT !.host = FALSE]
  <2>1. i \in DOMAIN conns
    BY <1>25 DEF NativeCloses, BInv, LoopInv, TypeOK, Attached, Ends
  <2>2. conns' = [conns EXCEPT ![i] = r]
    BY <1>25 DEF NativeCloses
  <2>3. /\ DOMAIN conns' = DOMAIN conns
        /\ \A j \in DOMAIN conns : j # i => conns'[j] = conns[j]
        /\ conns'[i].up = conns[i].up /\ conns'[i].down = conns[i].down
    BY <1>0, <2>1, <2>2, FlagType
  <2> QED
    BY <1>0, <2>1, <2>3 DEF StreamsOK
<1>26. ASSUME NEW h \in Hosts, NativeDestroyed(h) PROVE StreamsOK'
  <2> DEFINE i == mStream[h]
             s == IF ClientEnd(i) THEN Pieces(Frame(h, "SHUTDOWN", 0)) ELSE <<>>
  <2>1. CASE UNCHANGED conns
    BY <1>1, <2>1
  <2>2. CASE ~UNCHANGED conns
    <3>1. /\ i \in DOMAIN conns /\ DOMAIN conns' = DOMAIN conns
          /\ conns'[i].up = conns[i].up /\ conns'[i].down = conns[i].down \o s
          /\ \A j \in DOMAIN conns : j # i => conns'[j] = conns[j]
      BY <1>26, <2>2, DestroyedStep
    <3>2. s \in Seq(PieceRecords) /\ DownOK(s)
      <4>1. Real(Frame(h, "SHUTDOWN", 0))
        BY FrameType
      <4>2. /\ Pieces(Frame(h, "SHUTDOWN", 0)) \in Seq(PieceRecords)
            /\ DownOK(Pieces(Frame(h, "SHUTDOWN", 0)))
        BY <4>1, PiecesType DEF DownOK
      <4> QED
        BY <1>e, <4>2
    <3> HIDE DEF s
    <3>3. DownOK(conns[i].down \o s)
      BY <1>0, <3>1, <3>2, ConcatOK DEF StreamsOK
    <3> QED
      BY <1>0, <3>1, <3>3 DEF StreamsOK
  <2> QED
    BY <2>1, <2>2
<1> QED
  BY <1>1, <1>2, <1>4, <1>5, <1>8, <1>10, <1>15, <1>19, <1>21, <1>24, <1>25, <1>26
  DEF Next, JavaLoop, ReaderStep, NativeLoop, HostDisconnects, Finished, Hosts, Ends,
      ConnectAgain, InitializeFails, BeginWrite, ReadThrows, ReadEnds, HostOpens, HostTest,
      HostCalls, HostChecks, Poll, HostCloses, HostForgets, NativeOpens, vars

\* What is written is a message, and a coded stream is there for it.
LEMMA WritersStep ==
  ASSUME BInv, [Next]_vars
  PROVE  WritersOK'
<1>0. WritersOK /\ piece \in [Writers -> [to: DOMAIN conns \cup {None}, frame: Frames]]
  BY DEF BInv, PieceInv, TypeOK
<1>1. CASE UNCHANGED <<piece, mCodedOutputStream>>
  BY <1>0, <1>1 DEF WritersOK
<1>5. ASSUME NEW w \in Writers, WritePiece(w) PROVE WritersOK'
  <2>1. /\ piece' = piece \/ piece' = [piece EXCEPT ![w] = [to |-> None, frame |-> NoFrame]]
        /\ UNCHANGED mCodedOutputStream
    BY <1>5 DEF WritePiece, EndWrite
  <2> QED
    BY <1>0, <2>1 DEF WritersOK
<1>6. ASSUME NEW w \in Writers, NEW k \in Kinds, BeginWrite(w, k) PROVE WritersOK'
  <2> DEFINE s == mStream[Client]
             f == Frame(Client, k, frames + 1)
  <2>1. Message(f) /\ f.kind = k
    <3>1. k \in AllKinds /\ frames + 1 \in Nat
      BY ConnectionBoundAssumption DEF BInv, TypeOK
    <3> QED
      BY <3>1, FrameType
  <2>2. Nowhere # None
    BY DEF Nowhere, None
  <2>3. mCodedOutputStream # None => mCodedOutputStream' # None
    BY <1>6 DEF BeginWrite
  <2>4. k = "AUDIO_DATA" => mCodedOutputStream' # None
    BY <1>6, <2>2 DEF BeginWrite
  <2>5. piece' = piece \/ piece' = [piece EXCEPT ![w] = [to |-> s, frame |-> f]]
    BY <1>6 DEF BeginWrite
  <2> HIDE DEF f
  <2> QED
    BY <1>0, <2>1, <2>3, <2>4, <2>5 DEF WritersOK
<1> QED
  BY <1>1, <1>5, <1>6
  DEF Next, JavaLoop, ReaderStep, NativeLoop, HostDisconnects, Finished, ConnectAgain,
      Disconnect, InitializeFails, Initialize, ReadThrows, ReadLength, ReadOpcode, ReadBody,
      ReadEnds, HostOpens, HostTest, HostCalls, HostAccepts, HostChecks, Poll, HostCloses,
      HostWakes, HostForgets, HostDies, NativeOpens, NativeAccepts, NativeReadHeader,
      NativeCloses, NativeDestroyed, vars, writeVars

\* A loop that has read a header has read that of a frame, and no body of SHUTDOWN.
LEMMA ReadersStep ==
  ASSUME BInv, [Next]_vars
  PROVE  ReadersOK'
<1>0. /\ ReadersOK /\ reader \in [Ends -> LoopStates] /\ frame \in [Ends -> Frames]
      /\ Hosts \subseteq Ends /\ Client \in Ends
  BY DEF BInv, PieceInv, TypeOK, Ends
<1>1. CASE UNCHANGED frame /\ UNCHANGED reader
  BY <1>0, <1>1 DEF ReadersOK
<1>2. ASSUME NEW e \in Ends, NEW s \in LoopStates \ {"opcode", "body"},
             reader' = [reader EXCEPT ![e] = s],
             frame' = frame \/ frame' = [frame EXCEPT ![e] = NoFrame]
      PROVE  ReadersOK'
  BY <1>0, <1>2 DEF ReadersOK
<1>8. ASSUME NEW e \in Ends, ReadLength(e) PROVE ReadersOK'
  <2>1. reader[e] \in Attached /\ In(e) # <<>>
    BY <1>8 DEF ReadLength, Attached
  <2>2. Real(Head(In(e)).of)
    BY <2>1, InType, TailFacts DEF RealPiece
  <2>3. \/ reader' = [reader EXCEPT ![e] = "opcode"]
           /\ frame' = [frame EXCEPT ![e] = Head(In(e)).of]
        \/ reader' = [reader EXCEPT ![e] = "lost"] /\ UNCHANGED frame
    BY <1>8 DEF ReadLength, GoTo
  <2> QED
    BY <1>0, <2>2, <2>3 DEF ReadersOK
<1>9. ASSUME NEW e \in Ends, ReadOpcode(e) PROVE ReadersOK'
  <2>1. reader[e] = "opcode" /\ Real(frame[e])
    BY <1>0, <1>9 DEF ReadOpcode, ReadersOK
  <2>2. KindHeard(e, frame[e]) = "SHUTDOWN" <=> frame[e].kind = "SHUTDOWN"
    BY <2>1, KindHeardType
  <2>3. /\ UNCHANGED frame
        /\ \/ reader' = [reader EXCEPT ![e] = "body"] /\ Message(frame[e])
           \/ \E s \in {"lost", "ended"} : reader' = [reader EXCEPT ![e] = s]
    BY <1>9, <2>1, <2>2 DEF ReadOpcode, GoTo, Message
  <2> QED
    BY <1>0, <2>3 DEF ReadersOK, Message
<1>10. ASSUME NEW e \in Ends, ReadBody(e) PROVE ReadersOK'
  <2>1. Top(e) \in LoopStates \ {"opcode", "body"}
    BY <1>0 DEF Top, LoopStates, BInv, TypeOK, Ends, Hosts
  <2>2. \E s \in {Top(e), "lost"} : reader' = [reader EXCEPT ![e] = s]
    BY <1>10 DEF ReadBody, GoTo
  <2>3. frame' = [frame EXCEPT ![e] = NoFrame]
    BY <1>10 DEF ReadBody
  <2> QED
    BY <1>2, <2>1, <2>2, <2>3 DEF LoopStates
<1>14. ASSUME NEW h \in Hosts, HostCalls(h) PROVE ReadersOK'
  <2>1. server[h] \in {"open", "closed", "null"}
    BY <1>14 DEF BInv, LoopInv, HostCalls
  <2>2. \E s \in {"crashed", "test", "accept"} : reader' = [reader EXCEPT ![h] = s]
    BY <1>14, <2>1 DEF HostCalls, GoTo
  <2> QED
    BY <1>0, <1>2, <1>14, <2>2 DEF HostCalls, LoopStates
<1>16. ASSUME NEW h \in Hosts, HostChecks(h) PROVE ReadersOK'
  <2>1. reader[h] \in {"check", "address"}
    BY <1>16 DEF HostChecks, NullAt
  <2>2. \E s \in {"ended", "crashed", "address", "poll"} : reader' = [reader EXCEPT ![h] = s]
    BY <1>16, <2>1 DEF HostChecks, NullAt, NextCheck, GoTo
  <2> QED
    BY <1>0, <1>2, <1>16, <2>2 DEF HostChecks, LoopStates
<1>24. ASSUME NEW h \in Hosts, NativeReadHeader(h) PROVE ReadersOK'
  <2>1. In(h) = conns[mStream[h]].up /\ mStream[h] \in DOMAIN conns /\ Len(In(h)) >= 2
    BY <1>24, HeaderStep
  <2>2. Message(In(h)[1].of)
    <3>1. UpOK(In(h))
      BY <2>1 DEF BInv, PieceInv, StreamsOK
    <3>2. In(h) \in Seq(PieceRecords)
      BY <2>1, ConnType DEF BInv
    <3>3. 1 \in DOMAIN In(h)
      BY <2>1, <3>2
    <3> QED
      BY <3>1, <3>3 DEF UpOK
  <2>3. \/ reader' = [reader EXCEPT ![h] = "body"] /\ frame' = [frame EXCEPT ![h] = In(h)[1].of]
        \/ reader' = [reader EXCEPT ![h] = "lost"] /\ UNCHANGED frame
    BY <1>24 DEF NativeReadHeader, GoTo
  <2> QED
    BY <1>0, <2>2, <2>3 DEF ReadersOK, Message
<1>30. ASSUME NEW e \in Ends, reader' = [reader EXCEPT ![e] = "ended"], UNCHANGED frame
       PROVE  ReadersOK'
  BY <1>2, <1>30 DEF LoopStates
<1>31. ASSUME NEW h \in Hosts, \/ HostOpens(h) \/ HostTest(h) \/ HostAccepts(h) \/ Poll(h)
                               \/ HostDies(h) \/ NativeOpens(h) \/ NativeAccepts(h)
                               \/ NativeCloses(h) \/ NativeDestroyed(h)
       PROVE  ReadersOK'
  <2>1. /\ frame' = frame \/ frame' = [frame EXCEPT ![h] = NoFrame]
        /\ \E s \in {"test", "call", "ended", "check", "none", "accept", "read"} :
             reader' = [reader EXCEPT ![h] = s]
    BY <1>31 DEF HostOpens, HostTest, HostAccepts, Poll, HostDies, NativeOpens, NativeAccepts,
                 NativeCloses, NativeDestroyed, GoTo
  <2> QED
    BY <1>0, <1>2, <2>1 DEF LoopStates
<1>32. ASSUME NEW n \in Hosts, Initialize(n) PROVE ReadersOK'
  BY <1>0, <1>2, <1>32 DEF Initialize, LoopStates
<1> QED
  BY <1>0, <1>1, <1>8, <1>9, <1>10, <1>14, <1>16, <1>24, <1>30, <1>31, <1>32
  DEF Next, JavaLoop, ReaderStep, NativeLoop, HostDisconnects, Finished, ConnectAgain,
      Disconnect, InitializeFails, WritePiece, BeginWrite, ReadThrows, ReadEnds, GoTo,
      HostCloses, HostWakes, HostForgets, vars, readVars, Hosts, Ends

\* The three parts together.
LEMMA BaseStep ==
  ASSUME BInv, [Next]_vars
  PROVE  BInv'
  BY TypeStep, LoopStep, StreamsStep, WritersStep, ReadersStep DEF BInv, PieceInv

\* At the start nothing is on its way.
LEMMA BaseInit == Init => BInv
<1> SUFFICES ASSUME Init PROVE BInv
  OBVIOUS
<1>1. NoFrame \in Frames /\ Client \in Ends
  BY DEF NoFrame, Frames, Ends
<1>2. OwnTypes
  BY <1>1, ConnectionBoundAssumption DEF Init, OwnTypes, LoopStates
<1>3. ConnTypes
  BY <1>1 DEF Init, ConnTypes, PieceTargets
<1>4. TypeOK
  BY <1>2, <1>3, TypeParts
<1>5. PieceInv
  BY DEF Init, PieceInv, StreamsOK, WritersOK, ReadersOK
<1>6. LoopInv
  BY <1>1 DEF Init, LoopInv, Attached, Ends
<1> QED
  BY <1>4, <1>5, <1>6 DEF BInv

\* Every variable keeps its type, for any hosts, writers, kinds and bounds: in
\* particular no end reads a stream it does not have or an opcode it does not know.
THEOREM TypeCorrect == Spec => []TypeOK
<1>1. Init => BInv
  BY BaseInit
<1>2. BInv /\ [Next]_vars => BInv'
  BY BaseStep
<1>3. BInv => TypeOK
  BY DEF BInv
<1> QED
  BY <1>1, <1>2, <1>3, PTL DEF Spec

\* What a step keeps of a connection.
LEMMA ConnStep ==
  ASSUME BInv, [Next]_vars, NEW i \in DOMAIN conns
  PROVE  /\ i \in DOMAIN conns' /\ conns'[i].name = conns[i].name
         /\ conns'[i].client => conns[i].client
         /\ owner' = "idle" => conns'[i].client = conns[i].client
         /\ conns'[i].host => conns[i].host
         /\ conns[i].accepted => conns'[i].accepted
         /\ conns'[i].told => \/ conns[i].told
                              \/ \E h \in NativeHosts : NativeDestroyed(h) /\ mStream[h] = i
<1> DEFINE K == /\ i \in DOMAIN conns' /\ conns'[i].name = conns[i].name
                /\ conns'[i].client => conns[i].client
                /\ owner' = "idle" => conns'[i].client = conns[i].client
                /\ conns'[i].host => conns[i].host
                /\ conns[i].accepted => conns'[i].accepted
                /\ conns'[i].told => \/ conns[i].told
                                     \/ \E h \in NativeHosts : NativeDestroyed(h) /\ mStream[h] = i
<1> SUFFICES K
  OBVIOUS
<1>1. CASE UNCHANGED conns
  BY <1>1
<1>2. ASSUME NEW n \in Hosts, Disconnect(n), ~UNCHANGED conns
      PROVE  K
  <2> DEFINE m == mStream[Client]
             r == [conns[m] EXCEPT !.client = FALSE]
  <2>1. conns' = [conns EXCEPT ![m] = r] /\ m # None /\ owner' = "join"
    BY <1>2 DEF Disconnect
  <2>2. m \in DOMAIN conns
    BY <2>1 DEF BInv, TypeOK, Ends
  <2>3. /\ r \in ConnRecords /\ r.name = conns[m].name /\ ~r.client
        /\ r.host = conns[m].host /\ r.accepted = conns[m].accepted
        /\ r.told = conns[m].told
    BY <2>2, ConnType DEF ConnRecords, BInv
  <2> HIDE DEF r, m
  <2>4. /\ DOMAIN conns' = DOMAIN conns /\ conns'[m] = r
        /\ \A j \in DOMAIN conns : j # m => conns'[j] = conns[j]
    BY <2>1, <2>2, <2>3, ConnChange DEF BInv
  <2> QED
    BY <2>1, <2>3, <2>4
<1>4. ASSUME NEW n \in Hosts, Initialize(n)
      PROVE  K
  <2>1. conns' = Append(conns, NewConn(n)) /\ NewConn(n) \in ConnRecords
    BY <1>4, NewConnType DEF Initialize
  <2> QED
    BY <2>1, ConnAdd DEF BInv
<1>5. ASSUME NEW w \in Writers, WritePiece(w)
      PROVE  K
  BY <1>5, WriteStep
<1>8. ASSUME NEW e \in Ends, ReadLength(e) \/ ReadOpcode(e) \/ ReadBody(e)
      PROVE  K
  <2>1. ReadLength(e) \/ ReadOpcode(e) => reader[e] \in Attached /\ In(e) # <<>> /\ conns' = Rest(e)
    BY DEF ReadLength, ReadOpcode, Attached
  <2>2. Took(e)
    BY <1>8, <2>1, RestType, BodyStep
  <2> QED
    BY <2>2 DEF Took
<1>15. ASSUME NEW h \in Hosts, HostAccepts(h) \/ NativeAccepts(h)
      PROVE  K
  BY <1>15, AcceptStep
<1>19. ASSUME NEW h \in Hosts, HostWakes(h)
      PROVE  K
  BY <1>19, WakeType
<1>21. ASSUME NEW h \in Hosts, HostDies(h)
      PROVE  K
  BY <1>21, DiesStep
<1>24. ASSUME NEW h \in Hosts, NativeReadHeader(h)
      PROVE  K
  BY <1>24, HeaderStep
<1>25. ASSUME NEW h \in Hosts, NativeCloses(h)
      PROVE  K
  <2> DEFINE m == mStream[h]
             r == [conns[m] EXCEPT !.host = FALSE]
  <2>1. m \in DOMAIN conns
    BY <1>25 DEF NativeCloses, BInv, LoopInv, TypeOK, Attached, Ends
  <2>2. conns' = [conns EXCEPT ![m] = r]
    BY <1>25 DEF NativeCloses
  <2>3. /\ r \in ConnRecords /\ r.name = conns[m].name /\ r.client = conns[m].client
        /\ ~r.host /\ r.accepted = conns[m].accepted /\ r.told = conns[m].told
    BY <2>1, ConnType DEF ConnRecords, BInv
  <2> HIDE DEF r, m
  <2>4. /\ DOMAIN conns' = DOMAIN conns /\ conns'[m] = r
        /\ \A j \in DOMAIN conns : j # m => conns'[j] = conns[j]
    BY <2>1, <2>2, <2>3, ConnChange DEF BInv
  <2> QED
    BY <2>3, <2>4
<1>26. ASSUME NEW h \in NativeHosts, NativeDestroyed(h)
      PROVE  K
  <2>1. h \in Hosts
    BY DEF Hosts
  <2> QED
    BY <1>26, <2>1, DestroyedStep
<1> HIDE DEF K
<1> QED
  BY <1>1, <1>2, <1>4, <1>5, <1>8, <1>15, <1>19, <1>21, <1>24, <1>25, <1>26
  DEF Next, JavaLoop, ReaderStep, NativeLoop, HostDisconnects, Finished, Hosts, Ends,
      ConnectAgain, InitializeFails, BeginWrite, ReadThrows, ReadEnds, HostOpens, HostTest,
      HostCalls, HostChecks, Poll, HostCloses, HostForgets, NativeOpens, vars

\* While no connect has failed, an owner that is idle has stored the name of the
\* connection its streams are of, and has not closed it.
ReachInv ==
  "failure" \notin happened /\ owner = "idle" =>
    /\ outcome = "connected" => asked = mSocketName /\ asked # None
    /\ mSocketName = None => mSocket = None
    /\ mSocketName # None =>
         /\ mStream[Client] # None
         /\ conns[mStream[Client]].name = mSocketName
         /\ conns[mStream[Client]].client

\* connect stores the name when it has closed the old connection, and the new one.
LEMMA ReachStep ==
  ASSUME BInv, ReachInv, [Next]_vars
  PROVE  ReachInv'
<1> SUFFICES ASSUME "failure" \notin happened', owner' = "idle" PROVE ReachInv'
  BY DEF ReachInv
<1>0. mStream[Client] \in DOMAIN conns \cup {None} /\ Client \in Ends /\ Client \notin Hosts
  BY HostsAssumption DEF BInv, TypeOK, Ends
<1>k. mStream[Client] # None =>
        /\ conns'[mStream[Client]].name = conns[mStream[Client]].name
        /\ conns'[mStream[Client]].client = conns[mStream[Client]].client
  BY <1>0, ConnStep
<1>1. CASE UNCHANGED <<mSocketName, mSocket, owner, asked, outcome>>
           /\ mStream'[Client] = mStream[Client] /\ "failure" \notin happened
  BY <1>k, <1>1 DEF ReachInv
<1>2. ASSUME NEW n \in Hosts, ConnectAgain(n) PROVE ReachInv'
  <2>1. n # None
    BY HostsAssumption
  <2> QED
    BY <1>2, <2>1 DEF ConnectAgain, SameName, readVars, ReachInv
<1>3. ASSUME NEW n \in Hosts, Disconnect(n) PROVE ReachInv'
  BY <1>0, <1>3 DEF Disconnect, SameName, ReachInv
<1>4. ASSUME NEW n \in Hosts, Initialize(n) PROVE ReachInv'
  <2>1. conns' = Append(conns, NewConn(n)) /\ NewConn(n) \in ConnRecords
    BY <1>4, NewConnType DEF Initialize
  <2>2. conns'[Len(conns) + 1] = NewConn(n)
    BY <2>1, ConnAdd DEF BInv
  <2>3. mStream'[Client] = Len(conns) + 1 /\ Len(conns) + 1 # None /\ n # None
    BY <1>0, <1>4, HostsAssumption DEF Initialize, BInv, TypeOK, None
  <2> QED
    BY <1>4, <2>2, <2>3, NewConnType DEF Initialize, Initializes, ReachInv
<1>5. ASSUME NEW n \in Hosts, InitializeFails(n) PROVE ReachInv'
  BY <1>5 DEF InitializeFails
<1>6. ASSUME NEW w \in Writers, NEW k \in Kinds, BeginWrite(w, k)
      PROVE  "failure" \notin happened
  BY <1>6, Zenon DEF BeginWrite
<1>7. ASSUME NEW w \in Writers, WritePiece(w) PROVE "failure" \notin happened
  BY <1>7 DEF WritePiece
<1>8. ASSUME NEW h \in Hosts, \/ HostAccepts(h) \/ NativeAccepts(h) \/ HostDies(h)
                              \/ NativeCloses(h)
      PROVE  mStream'[Client] = mStream[Client]
  <2>1. \/ mStream' = [mStream EXCEPT ![h] = mStream'[h]]
        \/ mStream' = [mStream EXCEPT ![h] = None]
    BY <1>8, AcceptStep DEF HostDies, NativeCloses
  <2>2. mStream \in [Ends -> DOMAIN conns \cup {None}] /\ h # Client
    BY <1>0 DEF BInv, TypeOK
  <2> QED
    BY <1>0, <2>1, <2>2
<1> QED
  BY <1>1, <1>2, <1>3, <1>4, <1>5, <1>6, <1>7, <1>8, ZenonT(30)
  DEF Next, JavaLoop, ReaderStep, NativeLoop, HostDisconnects, Finished, ReadThrows,
      WritePiece, BeginWrite, ReadLength, ReadOpcode, ReadBody, ReadEnds, HostOpens,
      HostTest, HostCalls, HostAccepts, HostChecks, Poll, HostCloses, HostWakes,
      HostForgets, HostDies, NativeOpens, NativeAccepts, NativeReadHeader, NativeCloses,
      NativeDestroyed, vars, clientVars, readVars, Hosts

\* AudioClientSocket.connect: without an earlier failure, a normal return leaves open
\* streams to the name that was asked for, for any hosts and number of connections.
THEOREM ConnectReachesHolds == Spec => []ConnectReaches
<1>1. Init => BInv /\ ReachInv
  BY BaseInit DEF Init, ReachInv
<1>2. BInv /\ ReachInv /\ [Next]_vars => (BInv /\ ReachInv)'
  BY BaseStep, ReachStep
<1>3. ReachInv => ConnectReaches
  BY HostsAssumption DEF ReachInv, ConnectReaches
<1> QED
  BY <1>1, <1>2, <1>3, PTL DEF Spec

-----------------------------------------------------------------------------
(***************************************************************************)
(* FramesArriveWhole.                                                      *)
(*                                                                         *)
(* That no loop is lost and all hear in order is not inductive: it follows *)
(* from what is on its way.  On a connection pieces continue one another,  *)
(* and frames have growing numbers (Chains).  The first piece is what the  *)
(* loop at its end expects, and newer than all that it heard (Heads), the  *)
(* last is what the writer has written last (Tails), and a number that is  *)
(* given to a frame is higher than all before (Nrs).  Down comes what      *)
(* answers a message that was heard, and SHUTDOWN last (Downs).  All this  *)
(* holds while the threads have written one at a time, to the connection   *)
(* of the coded stream (Clean), and Clean does not come back once it is    *)
(* lost.                                                                   *)
(***************************************************************************)

\* Nothing has happened that FramesArriveWhole excepts.
Clean == happened \cap {"overlap", "stale"} = {}

\* One thread writes at a time.
Active(w) == piece[w].to # None
Alone == \A v, w \in Writers : Active(v) /\ Active(w) => v = w

\* A host's stream is a connection that it accepted, and what it heard came on one; a
\* client is told to end only by a native host that was destroyed.
HostInv ==
  /\ \A h \in Hosts : mStream[h] # None =>
       conns[mStream[h]].accepted /\ conns[mStream[h]].name = h
  /\ \A i \in DOMAIN conns :
       /\ server[conns[i].name] # "none"
       /\ conns[i].told => /\ conns[i].name \in NativeHosts
                          /\ server[conns[i].name] = "closed"
                          /\ reader[conns[i].name] = "none"
  /\ \A j \in DOMAIN heard : heard[j].by # Client =>
       conns[heard[j].on].accepted /\ conns[heard[j].on].name = heard[j].by

\* Which piece may follow which: those of a frame in order, and those of a later frame.
Continues(p, q) ==
  \/ p.part = "length" /\ q = Piece("opcode", p.of)
  \/ p.part = "opcode" /\ p.of.kind # "SHUTDOWN" /\ q = Piece("body", p.of)
  \/ p.part = "body" /\ q.part = "length" /\ (q.of.kind = "SHUTDOWN" \/ p.of.nr < q.of.nr)
Chain(s) == \A k \in 1..(Len(s) - 1) : Continues(s[k], s[k + 1])
Chains == \A i \in DOMAIN conns : Chain(conns[i].up) /\ Chain(conns[i].down)

\* e has heard only lower numbers on its connection.
NewsTo(e, n) ==
  \A j \in DOMAIN heard : heard[j].by = e /\ heard[j].on = mStream[e] => heard[j].nr < n

\* What e's loop finds first is what it expects.
HasHeader(e) == reader[e] \in {"opcode", "body"}
HeadOK(e) ==
  /\ HasHeader(e) =>
       /\ frame[e].kind = "SHUTDOWN" \/ NewsTo(e, frame[e].nr)
       /\ In(e) # <<>> => In(e)[1] = Piece(reader[e], frame[e])
  /\ ~HasHeader(e) /\ In(e) # <<>> =>
       /\ In(e)[1].part = "length"
       /\ In(e)[1].of.kind = "SHUTDOWN" \/ NewsTo(e, In(e)[1].of.nr)
Heads == \A e \in Ends : reader[e] \in Attached => HeadOK(e)

\* What waits for a host to accept begins with a frame.
Fresh ==
  \A i \in DOMAIN conns :
    ~conns[i].accepted /\ conns[i].up # <<>> => conns[i].up[1].part = "length"

\* What was written last is the last on its way up, or h has taken it and expects the
\* next; when no frame is being written, all there is is whole.
At(h, i) == mStream[h] = i /\ reader[h] \in Attached
Expects(p) == IF p.part = "length" THEN "opcode" ELSE "body"
Complete(i) ==
  IF conns[i].up # <<>> THEN conns[i].up[Len(conns[i].up)].part = "body"
  ELSE \A h \in Hosts : At(h, i) => ~HasHeader(h)
LastIs(i, p) ==
  IF conns[i].up # <<>> THEN conns[i].up[Len(conns[i].up)] = p
  ELSE /\ conns[i].accepted
       /\ \A h \in Hosts : At(h, i) => reader[h] = Expects(p) /\ frame[h] = p.of
TailOf(i) ==
  /\ \A w \in Writers : piece[w].to = i /\ writer[w] > 0 =>
       LastIs(i, Piece(Parts[writer[w]], piece[w].frame))
  /\ (\A w \in Writers : piece[w].to = i => writer[w] = 0) => Complete(i)
Tails == \A i \in DOMAIN conns : CanWrite(i) => TailOf(i)

\* The numbers of all that is or was on its way up: those of new frames are higher.
UpNr(n) ==
  \/ \E i \in DOMAIN conns : \E k \in DOMAIN conns[i].up : n = conns[i].up[k].of.nr
  \/ \E h \in Hosts : n = frame[h].nr
  \/ \E j \in DOMAIN heard : heard[j].by # Client /\ n = heard[j].nr
Nrs ==
  /\ \A n \in Nat : UpNr(n) => n <= frames
  /\ \A w \in Writers : Active(w) =>
       /\ piece[w].frame.nr <= frames
       /\ writer[w] = 0 => \A n \in Nat : UpNr(n) => n < piece[w].frame.nr

\* What comes down answers what was heard, and ends with a message or with SHUTDOWN; so
\* a client that has a header finds the rest.
HeardBy(i, n) ==
  \E j \in DOMAIN heard : heard[j].by # Client /\ heard[j].on = i /\ heard[j].nr = n
DownOf(i) ==
  LET d == conns[i].down IN
  /\ \A k \in DOMAIN d : d[k].of.kind # "SHUTDOWN" => HeardBy(i, d[k].of.nr)
  /\ d # <<>> => \/ d[Len(d)].part = "body"
                 \/ d[Len(d)].part = "opcode" /\ d[Len(d)].of.kind = "SHUTDOWN"
                    /\ conns[i].told
Downs ==
  /\ \A i \in DOMAIN conns : DownOf(i)
  /\ HasHeader(Client) => In(Client) # <<>>
  /\ \A j \in DOMAIN heard : heard[j].by = Client => HeardBy(heard[j].on, heard[j].nr)

\* The promise.
InOrder ==
  /\ \A e \in Ends : reader[e] # "lost"
  /\ \A i, j \in DOMAIN heard :
       i < j /\ heard[i].by = heard[j].by /\ heard[i].on = heard[j].on
         => heard[i].nr < heard[j].nr

\* The inductive invariant.
Whole == Alone /\ Chains /\ Heads /\ Fresh /\ Tails /\ Nrs /\ Downs /\ InOrder
IInv == BInv /\ HostInv /\ (Clean => Whole)

\* The empty sequence is the one of length 0.
LEMMA EmptyLen == ASSUME NEW S, NEW t \in Seq(S) PROVE t = <<>> <=> Len(t) = 0
  OBVIOUS

\* What is left of a chain after one piece is one, and its first follows that piece.
LEMMA ChainTail ==
  ASSUME NEW s \in Seq(PieceRecords), s # <<>>, Chain(s)
  PROVE  /\ Chain(Tail(s))
         /\ Tail(s) # <<>> => /\ Continues(s[1], Tail(s)[1])
                              /\ Tail(s)[Len(Tail(s))] = s[Len(s)]
         /\ Tail(s) = <<>> => s[Len(s)] = s[1]
<1>1. /\ Tail(s) \in Seq(PieceRecords) /\ Len(Tail(s)) = Len(s) - 1 /\ Len(s) \in Nat \ {0}
      /\ \A k \in 1..(Len(s) - 1) : Tail(s)[k] = s[k + 1]
  BY HeadTailProperties
<1>2. Tail(s) # <<>> => Len(s) - 1 \in Nat \ {0}
  BY <1>1
<1>3. Tail(s) = <<>> => Len(s) = 1
  <2>1. Tail(s) = <<>> => Len(Tail(s)) = 0
    BY <1>1, EmptyLen
  <2> QED
    BY <1>1, <2>1
<1>4. Chain(Tail(s))
  BY <1>1 DEF Chain
<1>5. Tail(s) # <<>> => Continues(s[1], Tail(s)[1]) /\ Tail(s)[Len(Tail(s))] = s[Len(s)]
  BY <1>1, <1>2 DEF Chain
<1> QED
  BY <1>3, <1>4, <1>5

\* A chain and a piece that may follow it are one.
LEMMA ChainAppend ==
  ASSUME NEW s \in Seq(PieceRecords), NEW p \in PieceRecords, Chain(s),
         s # <<>> => Continues(s[Len(s)], p)
  PROVE  /\ Chain(Append(s, p)) /\ Append(s, p) # <<>>
         /\ Append(s, p)[Len(Append(s, p))] = p
         /\ Append(s, p)[1] = IF s = <<>> THEN p ELSE s[1]
         /\ DOMAIN Append(s, p) = DOMAIN s \cup {Len(s) + 1}
         /\ Append(s, p)[Len(s) + 1] = p
         /\ \A k \in DOMAIN s : Append(s, p)[k] = s[k]
<1>1. /\ Append(s, p) \in Seq(PieceRecords) /\ Len(Append(s, p)) = Len(s) + 1
      /\ Append(s, p)[Len(s) + 1] = p /\ Len(s) \in Nat /\ DOMAIN s = 1..Len(s)
      /\ \A k \in 1..Len(s) : Append(s, p)[k] = s[k]
      /\ DOMAIN Append(s, p) = 1..(Len(s) + 1)
  BY AppendProperties
<1>2. s # <<>> => Len(s) > 0
  BY <1>1
<1>3. s = <<>> => Len(s) = 0
  OBVIOUS
<1>4. Chain(Append(s, p))
  BY <1>1, <1>2, <1>3 DEF Chain
<1>5. Append(s, p)[1] = IF s = <<>> THEN p ELSE s[1]
  BY <1>1, <1>2, <1>3
<1>6. Append(s, p) # <<>>
  BY <1>1
<1> QED
  BY <1>1, <1>4, <1>5, <1>6

\* Two chains, of which the second may follow the first, are one.
LEMMA ChainConcat ==
  ASSUME NEW s \in Seq(PieceRecords), NEW t \in Seq(PieceRecords), Chain(s), Chain(t),
         s # <<>> /\ t # <<>> => Continues(s[Len(s)], t[1])
  PROVE  /\ Chain(s \o t)
         /\ s \o t # <<>> <=> (s # <<>> \/ t # <<>>)
         /\ s # <<>> => (s \o t)[1] = s[1]
         /\ s = <<>> => s \o t = t
         /\ t # <<>> => (s \o t)[Len(s \o t)] = t[Len(t)]
         /\ t = <<>> => s \o t = s
         /\ \A k \in DOMAIN (s \o t) : \/ \E n \in DOMAIN s : (s \o t)[k] = s[n]
                                       \/ \E n \in DOMAIN t : (s \o t)[k] = t[n]
<1>1. /\ DOMAIN (s \o t) = 1..(Len(s) + Len(t)) /\ DOMAIN s = 1..Len(s)
      /\ DOMAIN t = 1..Len(t) /\ Len(s) \in Nat /\ Len(t) \in Nat
      /\ Len(s \o t) = Len(s) + Len(t)
      /\ \A k \in 1..Len(s) : (s \o t)[k] = s[k]
      /\ \A k \in 1..(Len(s) + Len(t)) : k > Len(s) =>
           (s \o t)[k] = t[k - Len(s)] /\ k - Len(s) \in 1..Len(t)
  BY ConcatFacts
<1>2. (s # <<>> <=> Len(s) > 0) /\ (t # <<>> <=> Len(t) > 0)
  BY <1>1
<1>3. s \o t # <<>> <=> (s # <<>> \/ t # <<>>)
  BY ConcatEqualIffEmpty
<1>4. (s = <<>> => s \o t = t) /\ (t = <<>> => s \o t = s)
  BY ConcatEmptySeq
<1>5. s # <<>> => (s \o t)[1] = s[1]
  BY <1>1, <1>2
<1>6. t # <<>> => (s \o t)[Len(s \o t)] = t[Len(t)]
  BY <1>1, <1>2
<1>7. ASSUME NEW k \in 1..(Len(s \o t) - 1)
      PROVE  Continues((s \o t)[k], (s \o t)[k + 1])
  <2>1. CASE k < Len(s)
    BY <1>1, <1>7, <2>1 DEF Chain
  <2>2. CASE k = Len(s)
    <3>1. (s \o t)[k] = s[Len(s)] /\ (s \o t)[k + 1] = t[1] /\ s # <<>> /\ t # <<>>
      BY <1>1, <1>2, <1>7, <2>2
    <3> QED
      BY <3>1
  <2>3. CASE k > Len(s)
    <3>1. PICK n \in 1..(Len(t) - 1) : (s \o t)[k] = t[n] /\ (s \o t)[k + 1] = t[n + 1]
      <4>1. k \in 1..(Len(s) + Len(t)) /\ k + 1 \in 1..(Len(s) + Len(t)) /\ k + 1 > Len(s)
        BY <1>1, <1>7, <2>3
      <4>2. (s \o t)[k] = t[k - Len(s)] /\ (s \o t)[k + 1] = t[k + 1 - Len(s)]
        BY <1>1, <2>3, <4>1
      <4>3. k + 1 - Len(s) = k - Len(s) + 1 /\ k - Len(s) \in 1..(Len(t) - 1)
        BY <1>1, <2>3, <4>1
      <4> QED
        BY <4>2, <4>3
    <3>2. Continues(t[n], t[n + 1])
      BY <3>1 DEF Chain
    <3> QED
      BY <3>1, <3>2
  <2>4. k < Len(s) \/ k = Len(s) \/ k > Len(s)
    <3>1. k \in Int /\ Len(s) \in Int
      BY <1>1, <1>7
    <3> QED
      BY <3>1
  <2> QED
    BY <2>1, <2>2, <2>3, <2>4
<1>8. \A k \in DOMAIN (s \o t) : \/ \E n \in DOMAIN s : (s \o t)[k] = s[n]
                                 \/ \E n \in DOMAIN t : (s \o t)[k] = t[n]
  BY <1>1
<1> QED
  BY <1>3, <1>4, <1>5, <1>6, <1>7, <1>8 DEF Chain

\* The pieces of a frame are a chain.
LEMMA ChainPieces ==
  ASSUME NEW f, Real(f)
  PROVE  LET s == Pieces(f) IN
         /\ s \in Seq(PieceRecords) /\ Chain(s) /\ s # <<>> /\ s[1] = Piece("length", f)
         /\ s[Len(s)] = IF Message(f) THEN Piece("body", f) ELSE Piece("opcode", f)
         /\ \A k \in DOMAIN s : s[k].of = f
<1>1. CASE Message(f)
  <2>1. Pieces(f) = <<Piece("length", f), Piece("opcode", f), Piece("body", f)>>
    BY <1>1, PiecesType
  <2>2. /\ Continues(Piece("length", f), Piece("opcode", f))
        /\ Continues(Piece("opcode", f), Piece("body", f))
    BY <1>1 DEF Continues, Piece, Message
  <2>3. Chain(Pieces(f))
    BY <2>1, <2>2 DEF Chain
  <2>4. \A p : Piece(p, f).of = f
    BY DEF Piece
  <2> QED
    BY <1>1, <2>1, <2>3, <2>4, PiecesType
<1>2. CASE ~Message(f)
  <2>1. Pieces(f) = <<Piece("length", f), Piece("opcode", f)>>
    BY <1>2, PiecesType
  <2>2. Continues(Piece("length", f), Piece("opcode", f))
    BY DEF Continues, Piece
  <2>3. Chain(Pieces(f))
    BY <2>1, <2>2 DEF Chain
  <2>4. \A p : Piece(p, f).of = f
    BY DEF Piece
  <2> QED
    BY <1>2, <2>1, <2>3, <2>4, PiecesType
<1> QED
  BY <1>1, <1>2

\* What is left of a chain after two pieces is one.
LEMMA ChainSkip ==
  ASSUME NEW s \in Seq(PieceRecords), Len(s) >= 2, Chain(s)
  PROVE  LET t == SubSeq(s, 3, Len(s)) IN
         /\ t \in Seq(PieceRecords) /\ Chain(t) /\ Continues(s[1], s[2])
         /\ t # <<>> => Continues(s[2], t[1]) /\ t[Len(t)] = s[Len(s)]
         /\ t = <<>> => s[Len(s)] = s[2]
         /\ \A k \in DOMAIN t : k + 2 \in DOMAIN s /\ t[k] = s[k + 2]
<1> DEFINE t == SubSeq(s, 3, Len(s))
<1>1. Len(s) \in Nat /\ (\A k \in 3..Len(s) : s[k] \in PieceRecords) /\ DOMAIN s = 1..Len(s)
  OBVIOUS
<1>2. /\ t \in Seq(PieceRecords) /\ Len(t) = Len(s) - 2
      /\ \A k \in 1..(Len(s) - 2) : t[k] = s[k + 2]
  <2>1. /\ t \in Seq(PieceRecords)
        /\ Len(t) = IF 3 <= Len(s) THEN Len(s) - 3 + 1 ELSE 0
        /\ \A k \in 1..(Len(s) - 3 + 1) : t[k] = s[3 + k - 1]
    BY <1>1, SubSeqProperties
  <2> QED
    BY <1>1, <2>1
<1> HIDE DEF t
<1>3. (t # <<>> => Len(s) >= 3) /\ (t = <<>> => Len(s) = 2)
  BY <1>1, <1>2
<1>4. Chain(t)
  BY <1>1, <1>2 DEF Chain
<1>5. Continues(s[1], s[2])
  BY <1>1 DEF Chain
<1>6. t # <<>> => Continues(s[2], t[1]) /\ t[Len(t)] = s[Len(s)]
  BY <1>1, <1>2, <1>3 DEF Chain
<1>7. \A k \in DOMAIN t : k + 2 \in DOMAIN s /\ t[k] = s[k + 2]
  BY <1>1, <1>2
<1> QED
  BY <1>2, <1>3, <1>4, <1>5, <1>6, <1>7 DEF t

\* What the host of a connection may become.
LEMMA ServerStep ==
  ASSUME BInv, [Next]_vars
  PROVE  /\ \A h \in Hosts : server'[h] = "open" => server[h] \in {"none", "open"}
         /\ \A h \in JavaHosts : reader'[h] = "accept" => Listening(h)
<1> DEFINE K == /\ \A h \in Hosts : server'[h] = "open" => server[h] \in {"none", "open"}
                /\ \A h \in JavaHosts : reader'[h] = "accept" => Listening(h)
<1> SUFFICES K
  OBVIOUS
<1>0. /\ reader \in [Ends -> LoopStates]
      /\ server \in [Hosts -> {"none", "open", "closed", "null", "dead"}]
      /\ JavaHosts \subseteq Hosts /\ NativeHosts \subseteq Hosts /\ Hosts \subseteq Ends
      /\ \A h \in JavaHosts : reader[h] = "accept" => Listening(h)
      /\ Client \notin Hosts /\ \A h \in NativeHosts : h \notin JavaHosts
  BY HostsAssumption DEF BInv, TypeOK, Ends, Hosts, Listening
<1>1. CASE UNCHANGED <<server, reader>>
  BY <1>0, <1>1
<1>2. ASSUME NEW e \in Ends, NEW s \in LoopStates \ {"accept"},
             reader' = [reader EXCEPT ![e] = s], UNCHANGED server
      PROVE  K
  BY <1>0, <1>2
<1>3. ASSUME NEW h \in NativeHosts, NEW s \in LoopStates,
             reader' = [reader EXCEPT ![h] = s], UNCHANGED server
      PROVE  K
  BY <1>0, <1>3
<1>4. ASSUME NEW h \in JavaHosts, HostOpens(h) \/ HostCloses(h) \/ HostForgets(h) \/ HostDies(h)
      PROVE  K
  BY <1>0, <1>4 DEF HostOpens, HostCloses, HostForgets, HostDies, GoTo, readVars
<1>5. ASSUME NEW h \in NativeHosts, NativeOpens(h) \/ NativeDestroyed(h) PROVE K
  BY <1>0, <1>5 DEF NativeOpens, NativeDestroyed, GoTo
<1>6. ASSUME NEW h \in JavaHosts, HostCalls(h) PROVE K
  <2>1. server[h] \in {"open", "closed", "null"}
    BY <1>0, <1>6 DEF BInv, LoopInv, HostCalls
  <2>2. \/ reader' = [reader EXCEPT ![h] = "accept"] /\ Listening(h)
        \/ \E s \in {"crashed", "test"} : reader' = [reader EXCEPT ![h] = s]
    BY <1>6, <2>1 DEF HostCalls, GoTo, Listening
  <2> QED
    BY <1>0, <1>6, <2>2 DEF HostCalls, hostVars
<1>7. ASSUME NEW e \in Ends, ReadBody(e) PROVE K
  <2>1. Top(e) \in LoopStates \ {"accept"}
    BY <1>0 DEF Top, LoopStates, BInv, TypeOK, Ends, Hosts
  <2>2. \E s \in {Top(e), "lost"} : reader' = [reader EXCEPT ![e] = s] /\ UNCHANGED server
    BY <1>7 DEF ReadBody, GoTo, hostVars
  <2> QED
    BY <1>2, <2>1, <2>2 DEF LoopStates
<1>8. ASSUME NEW e \in Ends, ReadLength(e) \/ ReadOpcode(e) \/ ReadEnds(e) PROVE K
  <2>1. \E s \in {"opcode", "lost", "body", "ended"} :
          reader' = [reader EXCEPT ![e] = s] /\ UNCHANGED server
    BY <1>8 DEF ReadLength, ReadOpcode, ReadEnds, GoTo, hostVars
  <2> QED
    BY <1>2, <2>1 DEF LoopStates
<1>9. ASSUME NEW h \in JavaHosts, HostTest(h) \/ HostAccepts(h) \/ Poll(h) PROVE K
  <2>1. \E s \in {"call", "ended", "check"} :
          reader' = [reader EXCEPT ![h] = s] /\ UNCHANGED server
    BY <1>9 DEF HostTest, HostAccepts, Poll, GoTo, hostVars
  <2> QED
    BY <1>0, <1>2, <2>1 DEF LoopStates
<1>10. ASSUME NEW h \in JavaHosts, HostChecks(h) PROVE K
  <2>1. reader[h] \in {"check", "address"}
    BY <1>10 DEF HostChecks, NullAt
  <2>2. \E s \in {"ended", "crashed", "address", "poll"} :
          reader' = [reader EXCEPT ![h] = s] /\ UNCHANGED server
    BY <1>10, <2>1 DEF HostChecks, NullAt, NextCheck, GoTo, hostVars
  <2> QED
    BY <1>0, <1>2, <2>2 DEF LoopStates
<1>11. ASSUME NEW h \in NativeHosts, NativeAccepts(h) \/ NativeReadHeader(h) \/ NativeCloses(h)
       PROVE  K
  <2>1. \E s \in {"read", "body", "lost", "accept"} :
          reader' = [reader EXCEPT ![h] = s] /\ UNCHANGED server
    BY <1>11 DEF NativeAccepts, NativeReadHeader, NativeCloses, GoTo, hostVars
  <2> QED
    BY <1>3, <2>1 DEF LoopStates
<1>12. ASSUME NEW n \in Hosts, Initialize(n) PROVE K
  <2>1. reader' = [reader EXCEPT ![Client] = "read"] /\ UNCHANGED server /\ Client \in Ends
    BY <1>12 DEF Initialize, hostVars, Ends
  <2> QED
    BY <1>2, <2>1 DEF LoopStates
<1>13. ASSUME ReadThrows PROVE K
  <2>1. reader' = [reader EXCEPT ![Client] = "ended"] /\ UNCHANGED server /\ Client \in Ends
    BY <1>13 DEF ReadThrows, GoTo, hostVars, Ends
  <2> QED
    BY <1>2, <2>1 DEF LoopStates
<1> HIDE DEF K
<1> QED
  BY <1>0, <1>1, <1>4, <1>5, <1>6, <1>7, <1>8, <1>9, <1>10, <1>11, <1>12, <1>13
  DEF Next, JavaLoop, ReaderStep, NativeLoop, HostDisconnects, Finished, ConnectAgain,
      Disconnect, InitializeFails, WritePiece, BeginWrite, HostWakes, vars, readVars,
      hostVars, Ends

\* Who accepts is there, and a host that dies is not.
LEMMA AcceptedStep ==
  ASSUME BInv, [Next]_vars, NEW i \in DOMAIN conns, conns'[i].host, conns'[i].accepted
  PROVE  conns[i].accepted \/ Listening(conns[i].name) \/ conns[i].name \in NativeHosts
<1> DEFINE K == conns[i].accepted \/ Listening(conns[i].name) \/ conns[i].name \in NativeHosts
<1> SUFFICES K
  OBVIOUS
<1>1. CASE conns'[i].accepted = conns[i].accepted
  BY <1>1
<1>2. ASSUME NEW h \in JavaHosts, HostAccepts(h) PROVE K
  <2>1. \/ conns'[i].accepted = conns[i].accepted
        \/ conns[i].name = h
    BY <1>2, AcceptStep, ZenonT(30) DEF Hosts
  <2>2. Listening(h)
    BY <1>2 DEF HostAccepts, Listening
  <2> QED
    BY <2>1, <2>2
<1>3. ASSUME NEW h \in NativeHosts, NativeAccepts(h) PROVE K
  <2>1. \/ conns'[i].accepted = conns[i].accepted
        \/ conns[i].name = h
    BY <1>3, AcceptStep, ZenonT(30) DEF Hosts
  <2> QED
    BY <2>1
<1>4. ASSUME NEW h \in Hosts, HostDies(h) PROVE K
  BY <1>4, DiesStep
<1>5. ASSUME NEW n \in Hosts, Disconnect(n) PROVE conns'[i].accepted = conns[i].accepted
  <2> DEFINE m == mStream[Client]
             r == [conns[m] EXCEPT !.client = FALSE]
  <2>1. UNCHANGED conns \/ (conns' = [conns EXCEPT ![m] = r] /\ m # None)
    BY <1>5 DEF Disconnect
  <2>2. m # None => m \in DOMAIN conns
    BY DEF BInv, TypeOK, Ends
  <2>3. m # None => r \in ConnRecords /\ r.accepted = conns[m].accepted
    BY <2>2, ConnType DEF ConnRecords, BInv
  <2> HIDE DEF r, m
  <2> QED
    BY <2>1, <2>2, <2>3, ConnChange DEF BInv
<1>6. ASSUME NEW n \in Hosts, Initialize(n) PROVE conns'[i].accepted = conns[i].accepted
  <2>1. conns' = Append(conns, NewConn(n)) /\ NewConn(n) \in ConnRecords
    BY <1>6, NewConnType DEF Initialize
  <2> QED
    BY <2>1, ConnAdd DEF BInv
<1>7. ASSUME NEW w \in Writers, WritePiece(w) PROVE conns'[i].accepted = conns[i].accepted
  BY <1>7, WriteStep
<1>8. ASSUME NEW e \in Ends, ReadLength(e) \/ ReadOpcode(e) \/ ReadBody(e)
      PROVE  conns'[i].accepted = conns[i].accepted
  <2>1. ReadLength(e) \/ ReadOpcode(e) =>
          reader[e] \in Attached /\ In(e) # <<>> /\ conns' = Rest(e)
    BY DEF ReadLength, ReadOpcode, Attached
  <2>2. Took(e)
    BY <1>8, <2>1, RestType, BodyStep
  <2> QED
    BY <2>2 DEF Took
<1>9. ASSUME NEW h \in Hosts, HostWakes(h) PROVE conns'[i].accepted = conns[i].accepted
  BY <1>9, WakeType
<1>10. ASSUME NEW h \in Hosts, NativeReadHeader(h) PROVE conns'[i].accepted = conns[i].accepted
  BY <1>10, HeaderStep
<1>11. ASSUME NEW h \in Hosts, NativeCloses(h) PROVE conns'[i].accepted = conns[i].accepted
  <2> DEFINE m == mStream[h]
             r == [conns[m] EXCEPT !.host = FALSE]
  <2>1. m \in DOMAIN conns
    BY <1>11 DEF NativeCloses, BInv, LoopInv, TypeOK, Attached, Ends
  <2>2. conns' = [conns EXCEPT ![m] = r]
    BY <1>11 DEF NativeCloses
  <2>3. r \in ConnRecords /\ r.accepted = conns[m].accepted
    BY <2>1, ConnType DEF ConnRecords, BInv
  <2> HIDE DEF r, m
  <2> QED
    BY <2>1, <2>2, <2>3, ConnChange DEF BInv
<1>12. ASSUME NEW h \in Hosts, NativeDestroyed(h) PROVE conns'[i].accepted = conns[i].accepted
  BY <1>12, DestroyedStep
<1> HIDE DEF K
<1> QED
  BY <1>1, <1>2, <1>3, <1>4, <1>5, <1>6, <1>7, <1>8, <1>9, <1>10, <1>11, <1>12
  DEF Next, JavaLoop, ReaderStep, NativeLoop, HostDisconnects, Finished, Hosts, Ends,
      ConnectAgain, InitializeFails, BeginWrite, ReadThrows, ReadEnds, HostOpens, HostTest,
      HostCalls, HostChecks, Poll, HostCloses, HostForgets, NativeOpens, vars

\* A connection that cannot be written to is never written to again.
LEMMA CanWriteStep ==
  ASSUME BInv, HostInv, [Next]_vars, NEW i \in DOMAIN conns, CanWrite(i)'
  PROVE  CanWrite(i)
<1>1. /\ conns'[i].name = conns[i].name /\ conns[i].client /\ conns'[i].host /\ conns[i].host
      /\ conns'[i].accepted \/ Listening(conns[i].name)' \/ conns[i].name \in NativeHosts
  BY ConnStep DEF CanWrite, HostEnd
<1>2. conns[i].name \in Hosts /\ server[conns[i].name] # "none"
  BY ConnType DEF HostInv, BInv, ConnRecords
<1>3. conns'[i].accepted =>
        conns[i].accepted \/ Listening(conns[i].name) \/ conns[i].name \in NativeHosts
  BY <1>1, AcceptedStep
<1>4. Listening(conns[i].name)' => Listening(conns[i].name) \/ conns[i].name \in NativeHosts
  <2> DEFINE n == conns[i].name
  <2>1. server'[n] = "open" => server[n] = "open"
    BY <1>2, ServerStep
  <2>2. n \in JavaHosts /\ reader'[n] = "accept" => Listening(n)
    BY ServerStep
  <2>3. Listening(n)' <=> server'[n] = "open" \/ (n \in JavaHosts /\ reader'[n] = "accept")
    BY <1>1 DEF Listening
  <2> QED
    BY <2>1, <2>2, <2>3 DEF Listening
<1> QED
  BY <1>1, <1>3, <1>4 DEF CanWrite, HostEnd

\* A connection is made by connect or by the workaround, with a host that was opened.
LEMMA AddedStep ==
  ASSUME BInv, [Next]_vars, NEW i \in DOMAIN conns', i \notin DOMAIN conns
  PROVE  /\ (\E n \in Hosts : Initialize(n)) \/ (\E h \in JavaHosts : HostWakes(h))
         /\ i = Len(conns) + 1 /\ conns'[i].up = <<>> /\ conns'[i].down = <<>>
         /\ ~conns'[i].accepted /\ ~conns'[i].told
         /\ conns'[i].name \in Hosts /\ server[conns'[i].name] # "none"
         /\ (\E h \in JavaHosts : HostWakes(h)) => ~conns'[i].client
<1>1. (\E n \in Hosts : Initialize(n)) \/ (\E h \in JavaHosts : HostWakes(h))
  <2>1. CASE UNCHANGED conns
    BY <2>1
  <2>2. ASSUME NEW n \in Hosts, Disconnect(n) PROVE DOMAIN conns' = DOMAIN conns
    <3>1. UNCHANGED conns \/ conns' = [conns EXCEPT ![mStream[Client]].client = FALSE]
      BY <2>2 DEF Disconnect
    <3> QED
      BY <3>1
  <2>3. ASSUME NEW w \in Writers, WritePiece(w) PROVE DOMAIN conns' = DOMAIN conns
    BY <2>3, WriteStep
  <2>4. ASSUME NEW e \in Ends, ReadLength(e) \/ ReadOpcode(e) \/ ReadBody(e)
        PROVE  DOMAIN conns' = DOMAIN conns
    <3>1. ReadLength(e) \/ ReadOpcode(e) =>
            reader[e] \in Attached /\ In(e) # <<>> /\ conns' = Rest(e)
      BY DEF ReadLength, ReadOpcode, Attached
    <3> QED
      BY <2>4, <3>1, RestType, BodyStep DEF Took
  <2>5. ASSUME NEW h \in Hosts, HostAccepts(h) \/ NativeAccepts(h)
        PROVE  DOMAIN conns' = DOMAIN conns
    BY <2>5, AcceptStep
  <2>6. ASSUME NEW h \in Hosts, HostDies(h) PROVE DOMAIN conns' = DOMAIN conns
    BY <2>6, DiesStep
  <2>7. ASSUME NEW h \in Hosts, NativeReadHeader(h) PROVE DOMAIN conns' = DOMAIN conns
    BY <2>7, HeaderStep
  <2>8. ASSUME NEW h \in Hosts, NativeCloses(h) PROVE DOMAIN conns' = DOMAIN conns
    BY <2>8 DEF NativeCloses
  <2>9. ASSUME NEW h \in Hosts, NativeDestroyed(h) PROVE DOMAIN conns' = DOMAIN conns
    BY <2>9, DestroyedStep
  <2> QED
    BY <2>1, <2>2, <2>3, <2>4, <2>5, <2>6, <2>7, <2>8, <2>9
    DEF Next, JavaLoop, ReaderStep, NativeLoop, HostDisconnects, Finished, Hosts, Ends,
        ConnectAgain, InitializeFails, BeginWrite, ReadThrows, ReadEnds, HostOpens, HostTest,
        HostCalls, HostChecks, Poll, HostCloses, HostForgets, NativeOpens, vars
<1>2. ASSUME NEW n \in Hosts, Initialize(n)
      PROVE  /\ i = Len(conns) + 1 /\ conns'[i] = NewConn(n) /\ server[n] # "none"
             /\ ~\E h \in JavaHosts : HostWakes(h)
  <2>1. conns' = Append(conns, NewConn(n)) /\ NewConn(n) \in ConnRecords /\ Listening(n)
    BY <1>2, NewConnType DEF Initialize
  <2>2. i = Len(conns) + 1 /\ conns'[i] = NewConn(n)
    BY <2>1, ConnAdd DEF BInv
  <2>3. server[n] # "none"
    BY <2>1 DEF Listening, BInv, LoopInv
  <2>4. ~\E h \in JavaHosts : HostWakes(h)
    <3>1. mStream'[Client] = Len(conns) + 1 /\ mStream[Client] # Len(conns) + 1
      BY <1>2 DEF Initialize, BInv, TypeOK, Ends, None
    <3> QED
      BY <3>1 DEF HostWakes, readVars
  <2> QED
    BY <2>2, <2>3, <2>4
<1>3. ASSUME NEW h \in JavaHosts, HostWakes(h)
      PROVE  /\ i = Len(conns) + 1 /\ conns'[i].up = <<>> /\ conns'[i].down = <<>>
             /\ ~conns'[i].accepted /\ ~conns'[i].told /\ ~conns'[i].client
             /\ conns'[i].name = h /\ server[h] # "none" /\ h \in Hosts
  <2>1. h \in Hosts
    BY DEF Hosts
  <2>2. conns' # conns => server[h] # "none"
    BY <1>3, <2>1 DEF HostWakes, WakesAccept, BInv, LoopInv
  <2> QED
    BY <1>3, <2>1, <2>2, WakeType
<1> QED
  BY <1>1, <1>2, <1>3, NewConnType

\* A native host that was destroyed does nothing more.
LEMMA DestroyedStays ==
  ASSUME BInv, [Next]_vars, NEW h \in NativeHosts, server[h] = "closed", reader[h] = "none"
  PROVE  server'[h] = "closed" /\ reader'[h] = "none"
<1> DEFINE K == server'[h] = "closed" /\ reader'[h] = "none"
<1> SUFFICES K
  OBVIOUS
<1>0. /\ reader \in [Ends -> LoopStates]
      /\ server \in [Hosts -> {"none", "open", "closed", "null", "dead"}]
      /\ h \in Hosts /\ h \in Ends /\ h # Client /\ h \notin JavaHosts
  BY HostsAssumption DEF BInv, TypeOK, Ends, Hosts
<1>1. CASE UNCHANGED <<server, reader>>
  BY <1>1
<1>2. ASSUME NEW e \in Ends, reader[e] # "none", NEW s, reader' = [reader EXCEPT ![e] = s],
             UNCHANGED server
      PROVE  K
  BY <1>0, <1>2
<1>3. ASSUME NEW g \in JavaHosts, HostOpens(g) \/ HostCloses(g) \/ HostForgets(g) \/ HostDies(g)
      PROVE  K
  BY <1>0, <1>3 DEF HostOpens, HostCloses, HostForgets, HostDies, GoTo, readVars
<1>4. ASSUME NEW g \in NativeHosts, NativeOpens(g) \/ NativeDestroyed(g) PROVE K
  BY <1>0, <1>4 DEF NativeOpens, NativeDestroyed, GoTo
<1>5. ASSUME NEW n \in Hosts, Initialize(n) PROVE K
  BY <1>0, <1>5 DEF Initialize, hostVars
<1>6. ASSUME ReadThrows PROVE K
  BY <1>0, <1>6 DEF ReadThrows, GoTo, hostVars
<1>7. ASSUME NEW g \in Ends, \/ HostTest(g) \/ HostCalls(g) \/ HostAccepts(g) \/ HostChecks(g)
                             \/ Poll(g) \/ ReaderStep(g) \/ NativeAccepts(g)
                             \/ NativeReadHeader(g) \/ NativeCloses(g)
      PROVE  K
  <2>1. reader[g] # "none"
    BY <1>7 DEF HostTest, HostCalls, HostAccepts, HostChecks, NullAt, Poll, ReaderStep,
                ReadLength, ReadOpcode, ReadBody, ReadEnds, EofSeenAt, NativeAccepts,
                NativeReadHeader, NativeCloses
  <2>2. (\E s : reader' = [reader EXCEPT ![g] = s]) /\ UNCHANGED server
    BY <1>7 DEF HostTest, HostCalls, HostAccepts, HostChecks, Poll, ReaderStep,
                ReadLength, ReadOpcode, ReadBody, ReadEnds, NativeAccepts,
                NativeReadHeader, NativeCloses, GoTo, hostVars
  <2> QED
    BY <1>2, <2>1, <2>2
<1> HIDE DEF K
<1> QED
  BY <1>0, <1>1, <1>3, <1>4, <1>5, <1>6, <1>7
  DEF Next, JavaLoop, NativeLoop, ReaderStep, HostDisconnects, Finished, ConnectAgain,
      Disconnect, InitializeFails, WritePiece, BeginWrite, HostWakes, vars, readVars,
      hostVars, Ends, Hosts

\* What keeps frames from arriving whole is not forgotten.
LEMMA CleanStep ==
  ASSUME [Next]_vars, Clean'
  PROVE  Clean
<1> DEFINE K == happened \subseteq happened'
<1>1. CASE UNCHANGED happened
  BY <1>1 DEF Clean
<1>2. ASSUME NEW n \in Hosts, InitializeFails(n) PROVE K
  BY <1>2 DEF InitializeFails
<1>3. ASSUME NEW w \in Writers, NEW k \in Kinds, BeginWrite(w, k) PROVE K
  <2>1. happened' = happened \/ happened' = happened \cup {"overlap"}
    BY <1>3, Zenon DEF BeginWrite
  <2> QED
    BY <2>1
<1>4. ASSUME NEW w \in Writers, WritePiece(w) PROVE K
  BY <1>4 DEF WritePiece
<1>5. K => Clean
  BY DEF Clean
<1> HIDE DEF K
<1> QED
  BY <1>1, <1>2, <1>3, <1>4, <1>5
  DEF Next, JavaLoop, ReaderStep, NativeLoop, HostDisconnects, Finished, ConnectAgain,
      Disconnect, Initialize, ReadThrows, ReadLength, ReadOpcode, ReadBody,
      ReadEnds, HostOpens, HostTest, HostCalls, HostAccepts, HostChecks, Poll, HostCloses,
      HostWakes, HostForgets, HostDies, NativeOpens, NativeAccepts, NativeReadHeader,
      NativeCloses, NativeDestroyed, vars

\* A host's streams are those of a connection it has accepted, or none.
LEMMA StreamStep ==
  ASSUME BInv, [Next]_vars, NEW h \in Hosts
  PROVE  \/ mStream'[h] = mStream[h] \/ mStream'[h] = None
         \/ HostAccepts(h) \/ NativeAccepts(h)
<1> DEFINE K == \/ mStream'[h] = mStream[h] \/ mStream'[h] = None
                \/ HostAccepts(h) \/ NativeAccepts(h)
<1> SUFFICES K
  OBVIOUS
<1>0. mStream \in [Ends -> DOMAIN conns \cup {None}] /\ h \in Ends /\ h # Client
  BY HostsAssumption DEF BInv, TypeOK, Ends
<1>1. CASE UNCHANGED mStream
  BY <1>1
<1>2. ASSUME NEW n \in Hosts, Initialize(n) PROVE K
  BY <1>0, <1>2 DEF Initialize
<1>3. ASSUME NEW g \in Hosts, HostAccepts(g) \/ NativeAccepts(g) PROVE K
  <2>1. mStream' = [mStream EXCEPT ![g] = mStream'[g]]
    BY <1>3, AcceptStep
  <2> QED
    BY <1>0, <1>3, <2>1
<1>4. ASSUME NEW g \in Hosts, HostDies(g) \/ NativeCloses(g) PROVE K
  BY <1>0, <1>4 DEF HostDies, NativeCloses
<1> HIDE DEF K
<1> QED
  BY <1>1, <1>2, <1>3, <1>4
  DEF Next, JavaLoop, ReaderStep, NativeLoop, HostDisconnects, Finished, ConnectAgain,
      Disconnect, InitializeFails, WritePiece, BeginWrite, ReadThrows, ReadLength,
      ReadOpcode, ReadBody, ReadEnds, HostOpens, HostTest, HostCalls, HostChecks, Poll,
      HostCloses, HostWakes, HostForgets, NativeOpens, NativeReadHeader,
      NativeDestroyed, vars, readVars, Hosts

\* Messages are heard one by one, by who reads a body.
LEMMA HeardStep ==
  ASSUME BInv, [Next]_vars
  PROVE  \/ UNCHANGED heard
         \/ \E e \in Ends : ReadBody(e) /\ heard' = Append(heard, Heard(e))
<1>1. ASSUME NEW e \in Ends, ReadBody(e)
      PROVE  UNCHANGED heard \/ heard' = Append(heard, Heard(e))
  BY <1>1 DEF ReadBody
<1> QED
  BY <1>1
  DEF Next, JavaLoop, ReaderStep, NativeLoop, HostDisconnects, Finished, ConnectAgain,
      Disconnect, InitializeFails, Initialize, WritePiece, BeginWrite, ReadThrows,
      ReadLength, ReadOpcode, ReadEnds, HostOpens, HostTest, HostCalls, HostAccepts,
      HostChecks, Poll, HostCloses, HostWakes, HostForgets, HostDies, NativeOpens,
      NativeAccepts, NativeReadHeader, NativeCloses, NativeDestroyed, vars, Hosts, Ends

\* A host that was opened is never as before.
LEMMA OpenedStays ==
  ASSUME BInv, [Next]_vars, NEW h \in Hosts, server[h] # "none"
  PROVE  server'[h] # "none"
<1> DEFINE K == server'[h] # "none"
<1> SUFFICES K
  OBVIOUS
<1>0. server \in [Hosts -> {"none", "open", "closed", "null", "dead"}]
  BY DEF BInv, TypeOK
<1>1. CASE UNCHANGED server
  BY <1>1
<1>2. ASSUME NEW g \in Hosts, \/ HostOpens(g) \/ HostCloses(g) \/ HostForgets(g) \/ HostDies(g)
                              \/ NativeOpens(g) \/ NativeDestroyed(g)
      PROVE  K
  BY <1>0, <1>2 DEF HostOpens, HostCloses, HostForgets, HostDies, NativeOpens, NativeDestroyed
<1> HIDE DEF K
<1>3. ASSUME NEW e \in Ends, \/ ReadLength(e) \/ ReadOpcode(e) \/ ReadBody(e) \/ ReadEnds(e)
                             \/ HostTest(e) \/ HostCalls(e) \/ HostAccepts(e) \/ HostChecks(e)
                             \/ Poll(e) \/ HostWakes(e) \/ NativeAccepts(e)
                             \/ NativeReadHeader(e) \/ NativeCloses(e)
      PROVE  UNCHANGED server
  BY <1>3 DEF ReadLength, ReadOpcode, ReadBody, ReadEnds, HostTest, HostCalls, HostAccepts,
              HostChecks, Poll, HostWakes, NativeAccepts, NativeReadHeader, NativeCloses,
              hostVars
<1>4. ASSUME NEW n \in Hosts, \/ ConnectAgain(n) \/ Disconnect(n) \/ InitializeFails(n)
                             \/ Initialize(n)
      PROVE  UNCHANGED server
  BY <1>4 DEF ConnectAgain, Disconnect, InitializeFails, Initialize, hostVars
<1>5. ASSUME NEW w \in Writers, WritePiece(w) \/ \E k \in Kinds : BeginWrite(w, k)
      PROVE  UNCHANGED server
  BY <1>5 DEF WritePiece, BeginWrite, hostVars
<1>6. ReadThrows \/ Finished => UNCHANGED server
  BY DEF ReadThrows, Finished, vars, hostVars
<1> QED
  BY <1>1, <1>2, <1>3, <1>4, <1>5, <1>6
  DEF Next, JavaLoop, ReaderStep, NativeLoop, HostDisconnects, vars, hostVars, Hosts, Ends

\* heard grows at its end.
LEMMA HeardGrows ==
  ASSUME BInv, NEW m \in Messages(DOMAIN conns), heard' = Append(heard, m)
  PROVE  /\ DOMAIN heard' = DOMAIN heard \cup {Len(heard) + 1}
         /\ heard'[Len(heard) + 1] = m /\ Len(heard) \in Nat /\ DOMAIN heard = 1..Len(heard)
         /\ \A j \in DOMAIN heard : heard'[j] = heard[j]
<1>1. heard \in Seq(Messages(DOMAIN conns))
  BY DEF BInv, TypeOK, Messages
<1> QED
  BY <1>1, AppendProperties

\* The types of what is heard and of what is written.
LEMMA MemberTypes ==
  ASSUME BInv
  PROVE  /\ \A j \in DOMAIN heard : heard[j] \in Messages(DOMAIN conns)
         /\ \A j \in DOMAIN heard : /\ heard[j].by \in Ends /\ heard[j].on \in DOMAIN conns
                                    /\ heard[j].nr \in Nat
         /\ \A e \in Ends : frame[e] \in Frames /\ frame[e].nr \in Nat
         /\ \A w \in Writers : /\ piece[w].frame \in Frames /\ piece[w].frame.nr \in Nat
                               /\ piece[w].to \in DOMAIN conns \cup {None}
                               /\ writer[w] \in 0..2
         /\ \A e \in Ends : mStream[e] \in DOMAIN conns \cup {None} /\ reader[e] \in LoopStates
         /\ None \notin DOMAIN conns /\ frames \in Nat
         /\ Hosts \subseteq Ends /\ Client \in Ends /\ Client \notin Hosts
<1>1. heard \in Seq(Messages(DOMAIN conns))
  BY DEF BInv, TypeOK, Messages
<1>2. \A j \in DOMAIN heard : heard[j] \in Messages(DOMAIN conns)
  BY <1>1
<1>3. \A j \in DOMAIN heard : /\ heard[j].by \in Ends /\ heard[j].on \in DOMAIN conns
                              /\ heard[j].nr \in Nat
  BY <1>2 DEF Messages
<1>4. \A e \in Ends : frame[e] \in Frames /\ frame[e].nr \in Nat
  BY DEF BInv, TypeOK, Frames
<1>5. \A w \in Writers : /\ piece[w].frame \in Frames /\ piece[w].frame.nr \in Nat
                         /\ piece[w].to \in DOMAIN conns \cup {None}
                         /\ writer[w] \in 0..2
  BY DEF BInv, TypeOK, Frames
<1>6. \A e \in Ends : mStream[e] \in DOMAIN conns \cup {None} /\ reader[e] \in LoopStates
  BY DEF BInv, TypeOK
<1>7. None \notin DOMAIN conns
  BY ConnType DEF BInv, None
<1>8. frames \in Nat /\ Hosts \subseteq Ends /\ Client \in Ends /\ Client \notin Hosts
  BY HostsAssumption DEF BInv, TypeOK, Ends
<1> QED
  BY <1>2, <1>3, <1>4, <1>5, <1>6, <1>7, <1>8

\* HostInv is inductive.
LEMMA HostStep ==
  ASSUME BInv, HostInv, [Next]_vars
  PROVE  HostInv'
<1>0. BInv'
  BY BaseStep
<1>1. ASSUME NEW h \in Hosts, mStream'[h] # None
      PROVE  conns'[mStream'[h]].accepted /\ conns'[mStream'[h]].name = h
  <2>1. CASE mStream'[h] = mStream[h]
    BY <1>1, <2>1, ConnStep, MemberTypes DEF HostInv
  <2>2. CASE HostAccepts(h) \/ NativeAccepts(h)
    BY <2>2, AcceptStep
  <2> QED
    BY <1>1, <2>1, <2>2, StreamStep
<1>2. ASSUME NEW i \in DOMAIN conns'
      PROVE  /\ server'[conns'[i].name] # "none"
             /\ conns'[i].told => /\ conns'[i].name \in NativeHosts
                                 /\ server'[conns'[i].name] = "closed"
                                 /\ reader'[conns'[i].name] = "none"
  <2>1. CASE i \notin DOMAIN conns
    <3>1. ~conns'[i].told /\ conns'[i].name \in Hosts /\ server[conns'[i].name] # "none"
      BY <1>2, <2>1, AddedStep
    <3> QED
      BY <3>1, OpenedStays
  <2>2. CASE i \in DOMAIN conns
    <3>1. conns'[i].name = conns[i].name /\ conns[i].name \in Hosts
      BY <2>2, ConnStep, ConnType DEF BInv, ConnRecords
    <3>2. server'[conns[i].name] # "none"
      BY <2>2, <3>1, OpenedStays DEF HostInv
    <3>3. CASE conns[i].told
      BY <2>2, <3>1, <3>2, <3>3, DestroyedStays DEF HostInv
    <3>4. CASE \E h \in NativeHosts : NativeDestroyed(h) /\ mStream[h] = i
      <4>1. PICK h \in NativeHosts : NativeDestroyed(h) /\ mStream[h] = i
        BY <3>4
      <4>2. h \in Hosts /\ h \in Ends /\ conns[i].name = h
        BY <2>2, <4>1, MemberTypes DEF HostInv, Hosts
      <4>3. server'[h] = "closed" /\ reader'[h] = "none"
        BY <4>1, <4>2 DEF NativeDestroyed, GoTo, BInv, TypeOK
      <4> QED
        BY <3>1, <4>1, <4>2, <4>3
    <3> QED
      BY <2>2, <3>1, <3>2, <3>3, <3>4, ConnStep
  <2> QED
    BY <2>1, <2>2
<1>3. ASSUME NEW j \in DOMAIN heard', heard'[j].by # Client
      PROVE  conns'[heard'[j].on].accepted /\ conns'[heard'[j].on].name = heard'[j].by
  <2>1. CASE UNCHANGED heard
    BY <1>3, <2>1, ConnStep, MemberTypes DEF HostInv
  <2>2. ASSUME NEW e \in Ends, ReadBody(e), heard' = Append(heard, Heard(e))
        PROVE  conns'[heard'[j].on].accepted /\ conns'[heard'[j].on].name = heard'[j].by
    <3>1. /\ Heard(e) \in Messages(DOMAIN conns) /\ mStream[e] \in DOMAIN conns
      BY <2>2, BodyStep
    <3>2. /\ DOMAIN heard' = DOMAIN heard \cup {Len(heard) + 1}
          /\ heard'[Len(heard) + 1] = Heard(e)
          /\ \A k \in DOMAIN heard : heard'[k] = heard[k]
      BY <2>2, <3>1, HeardGrows
    <3>3. CASE j \in DOMAIN heard
      BY <1>3, <3>2, <3>3, ConnStep, MemberTypes DEF HostInv
    <3>4. CASE j = Len(heard) + 1
      <4>1. heard'[j].by = e /\ heard'[j].on = mStream[e]
        BY <3>2, <3>4 DEF Heard
      <4>2. e \in Hosts
        BY <1>3, <2>2, <4>1 DEF Ends
      <4>3. conns[mStream[e]].accepted /\ conns[mStream[e]].name = e
        BY <3>1, <4>2, MemberTypes DEF HostInv
      <4> QED
        BY <3>1, <4>1, <4>3, ConnStep
    <3> QED
      BY <1>3, <3>2, <3>3, <3>4
  <2> QED
    BY <2>1, <2>2, HeardStep
<1> QED
  BY <1>1, <1>2, <1>3 DEF HostInv

\* Who begins to write while another does is recorded.
LEMMA AloneStep ==
  ASSUME BInv, [Next]_vars, Clean', Alone
  PROVE  Alone'
<1>0. piece \in [Writers -> [to: DOMAIN conns \cup {None}, frame: Frames]]
  BY DEF BInv, TypeOK
<1>1. CASE UNCHANGED piece
  BY <1>1 DEF Alone, Active
<1>2. ASSUME NEW w \in Writers, WritePiece(w) PROVE Alone'
  <2>1. piece' = piece \/ piece' = [piece EXCEPT ![w] = [to |-> None, frame |-> NoFrame]]
    BY <1>2 DEF WritePiece, EndWrite
  <2> QED
    BY <1>0, <2>1 DEF Alone, Active
<1>3. ASSUME NEW w \in Writers, NEW k \in Kinds, BeginWrite(w, k) PROVE Alone'
  <2>1. CASE \E v \in Writers : Active(v)
    <3>1. UNCHANGED piece \/ "overlap" \in happened'
      BY <1>3, <2>1, Zenon DEF BeginWrite, Active
    <3> QED
      BY <1>1, <3>1 DEF Clean
  <2>2. CASE ~\E v \in Writers : Active(v)
    <3>1. \E r : piece' = piece \/ piece' = [piece EXCEPT ![w] = r]
      BY <1>3, Zenon DEF BeginWrite
    <3> QED
      BY <1>0, <2>2, <3>1 DEF Alone, Active
  <2> QED
    BY <2>1, <2>2
<1> QED
  BY <1>1, <1>2, <1>3
  DEF Next, JavaLoop, ReaderStep, NativeLoop, HostDisconnects, Finished, ConnectAgain,
      Disconnect, InitializeFails, Initialize, ReadThrows, ReadLength, ReadOpcode, ReadBody,
      ReadEnds, HostOpens, HostTest, HostCalls, HostAccepts, HostChecks, Poll, HostCloses,
      HostWakes, HostForgets, HostDies, NativeOpens, NativeAccepts, NativeReadHeader,
      NativeCloses, NativeDestroyed, vars, writeVars

\* A step in which nothing is written, read or accepted: loops only leave their
\* connection, a host that dies loses what was on its way to it, and a new
\* connection is empty.
QuietEnd(e) ==
  \/ /\ reader[e] \in Attached /\ mStream'[e] = mStream[e] /\ frame'[e] = frame[e]
     /\ reader'[e] = reader[e] \/ (~HasHeader(e) /\ ~HasHeader(e)')
  \/ e = Client /\ ~HasHeader(e)' /\ mStream'[e] \in DOMAIN conns' \ DOMAIN conns
QuietConn(i) ==
  /\ conns'[i].down = conns[i].down
  /\ conns[i].told => conns'[i].told
  /\ \/ conns'[i].up = conns[i].up /\ conns'[i].accepted = conns[i].accepted
     \/ /\ conns'[i].up = <<>> /\ conns'[i].accepted /\ ~CanWrite(i)'
        /\ \A h \in Hosts : ~At(h, i)'
Quiet ==
  /\ UNCHANGED <<heard, piece, writer, frames>>
  /\ \A i \in DOMAIN conns : QuietConn(i)
  /\ \A i \in DOMAIN conns' \ DOMAIN conns : conns'[i].up = <<>> /\ conns'[i].down = <<>>
  /\ \A e \in Ends : reader'[e] = "lost" => reader[e] = "lost"
  /\ \A e \in Ends : reader'[e] \in Attached => QuietEnd(e)
  /\ \A h \in Hosts : frame'[h].nr \in {frame[h].nr, 0}

\* Nothing is a chain.
LEMMA ChainEmpty == Chain(<<>>)
  BY DEF Chain

\* A loop that reads has a stream.
LEMMA AttachedHas ==
  ASSUME BInv, NEW e \in Ends, reader[e] \in Attached
  PROVE  mStream[e] \in DOMAIN conns
  BY MemberTypes DEF BInv, LoopInv

\* A quiet step only cuts.
LEMMA QuietChains ==
  ASSUME BInv, [Next]_vars, Chains, Quiet
  PROVE  Chains'
<1> SUFFICES ASSUME NEW i \in DOMAIN conns'
             PROVE  Chain(conns'[i].up) /\ Chain(conns'[i].down)
  BY DEF Chains
<1>1. CASE i \in DOMAIN conns
  <2>1. /\ conns'[i].down = conns[i].down
        /\ conns'[i].up = conns[i].up \/ conns'[i].up = <<>>
    BY <1>1 DEF Quiet, QuietConn
  <2> QED
    BY <1>1, <2>1, ChainEmpty DEF Chains
<1>2. CASE i \notin DOMAIN conns
  <2>1. conns'[i].up = <<>> /\ conns'[i].down = <<>>
    BY <1>2 DEF Quiet
  <2> QED
    BY <2>1, ChainEmpty
<1> QED
  BY <1>1, <1>2

\* In a quiet step a loop keeps what it expects.
LEMMA QuietHeads ==
  ASSUME BInv, BInv', [Next]_vars, Heads, Quiet
  PROVE  Heads'
<1> SUFFICES ASSUME NEW e \in Ends, reader'[e] \in Attached
             PROVE  HeadOK(e)'
  BY DEF Heads
<1>1. CASE mStream'[e] = mStream[e] /\ frame'[e] = frame[e] /\ reader[e] \in Attached
           /\ (reader'[e] = reader[e] \/ (~HasHeader(e) /\ ~HasHeader(e)'))
  <2>1. mStream[e] \in DOMAIN conns
    BY <1>1, AttachedHas
  <2>2. QuietConn(mStream[e])
    BY <2>1 DEF Quiet
  <2>3. e # Client => e \in Hosts /\ At(e, mStream[e])'
    BY <1>1 DEF Ends, At
  <2>4. In(e)' = In(e)
    BY <1>1, <2>2, <2>3 DEF QuietConn, In
  <2>5. \A n : NewsTo(e, n)' <=> NewsTo(e, n)
    BY <1>1 DEF Quiet, NewsTo
  <2>6. HasHeader(e)' <=> HasHeader(e)
    BY <1>1 DEF HasHeader
  <2>7. HasHeader(e) => reader'[e] = reader[e]
    BY <1>1
  <2>8. HeadOK(e)
    BY <1>1 DEF Heads
  <2> QED
    BY <1>1, <2>4, <2>5, <2>6, <2>7, <2>8 DEF HeadOK
<1>2. CASE e = Client /\ ~HasHeader(e)' /\ mStream'[e] \in DOMAIN conns' \ DOMAIN conns
  <2>1. In(e)' = <<>>
    BY <1>2 DEF Quiet, In
  <2> QED
    BY <1>2, <2>1 DEF HeadOK
<1> QED
  BY <1>1, <1>2 DEF Quiet, QuietEnd

\* In a quiet step what can still be written to keeps its end.
LEMMA QuietTails ==
  ASSUME BInv, BInv', HostInv, [Next]_vars, Fresh, Tails, Quiet
  PROVE  Fresh' /\ Tails'
<1>1. \A i \in DOMAIN conns' : i \notin DOMAIN conns => \A h \in Hosts : ~At(h, i)'
  <2> SUFFICES ASSUME NEW i \in DOMAIN conns', i \notin DOMAIN conns, NEW h \in Hosts, At(h, i)'
               PROVE  FALSE
    OBVIOUS
  <2>1. h \in Ends /\ h # Client /\ reader'[h] \in Attached /\ mStream'[h] = i
    BY MemberTypes DEF At
  <2>2. reader[h] \in Attached /\ mStream'[h] = mStream[h]
    BY <2>1 DEF Quiet, QuietEnd
  <2> QED
    BY <2>1, <2>2, AttachedHas
<1>2. Fresh'
  BY DEF Fresh, Quiet, QuietConn
<1>3. ASSUME NEW i \in DOMAIN conns', CanWrite(i)', i \notin DOMAIN conns
      PROVE  TailOf(i)'
  <2>1. conns'[i].up = <<>>
    BY <1>3 DEF Quiet
  <2>2. \A w \in Writers : piece'[w].to # i
    <3>1. UNCHANGED piece
      BY DEF Quiet
    <3>2. conns' \in Seq(ConnRecords)
      BY DEF BInv, TypeOK
    <3>3. i # None
      BY <3>2 DEF None
    <3> QED
      BY <1>3, <3>1, <3>3, MemberTypes
  <2>3. Complete(i)'
    BY <1>1, <1>3, <2>1 DEF Complete
  <2> QED
    BY <2>2, <2>3 DEF TailOf
<1>4. ASSUME NEW i \in DOMAIN conns', CanWrite(i)', i \in DOMAIN conns
      PROVE  TailOf(i)'
  <2>1. CanWrite(i) /\ TailOf(i)
    BY <1>4, CanWriteStep DEF Tails
  <2>2. conns'[i].up = conns[i].up /\ conns'[i].accepted = conns[i].accepted
    BY <1>4 DEF Quiet, QuietConn
  <2>3. \A h \in Hosts : At(h, i)' =>
          /\ At(h, i) /\ frame'[h] = frame[h]
          /\ reader'[h] = reader[h] \/ (~HasHeader(h) /\ ~HasHeader(h)')
    BY MemberTypes DEF Quiet, QuietEnd, At
  <2>4. Complete(i) => Complete(i)'
    BY <2>2, <2>3 DEF Complete, HasHeader
  <2>5. ASSUME NEW p, LastIs(i, p) PROVE LastIs(i, p)'
    BY <2>2, <2>3, <2>5 DEF LastIs, HasHeader, Expects
  <2>6. UNCHANGED <<piece, writer>>
    BY DEF Quiet
  <2> QED
    BY <2>1, <2>4, <2>5, <2>6 DEF TailOf
<1> QED
  BY <1>2, <1>3, <1>4 DEF Tails

\* Numbers only vanish, or are 0.
LEMMA NrsKept ==
  ASSUME BInv, Nrs, UNCHANGED frames,
         \A n \in Nat : UpNr(n)' => UpNr(n) \/ (n = 0 /\ \E m \in Nat : UpNr(m)),
         \A w \in Writers : Active(w)' =>
           Active(w) /\ piece'[w] = piece[w] /\ (writer'[w] = 0 => writer[w] = 0)
  PROVE  Nrs'
<1>1. \A n \in Nat : UpNr(n)' => n <= frames
  BY MemberTypes DEF Nrs
<1>2. ASSUME NEW w \in Writers, Active(w)'
      PROVE  /\ piece'[w].frame.nr <= frames
             /\ writer'[w] = 0 => \A n \in Nat : UpNr(n)' => n < piece'[w].frame.nr
  <2>1. Active(w) /\ piece'[w] = piece[w] /\ (writer'[w] = 0 => writer[w] = 0)
    BY <1>2
  <2>2. \A m \in Nat : m < piece[w].frame.nr => 0 < piece[w].frame.nr
    BY MemberTypes
  <2> QED
    BY <2>1, <2>2 DEF Nrs
<1> QED
  BY <1>1, <1>2 DEF Nrs

\* A quiet step brings no number.
LEMMA QuietNrs ==
  ASSUME BInv, BInv', [Next]_vars, Nrs, Quiet
  PROVE  Nrs'
<1>1. ASSUME NEW n \in Nat, UpNr(n)'
      PROVE  UpNr(n) \/ (n = 0 /\ \E m \in Nat : UpNr(m))
  <2>1. CASE \E i \in DOMAIN conns' : \E k \in DOMAIN conns'[i].up : n = conns'[i].up[k].of.nr
    <3>1. PICK i \in DOMAIN conns' : \E k \in DOMAIN conns'[i].up : n = conns'[i].up[k].of.nr
      BY <2>1
    <3>2. conns'[i].up # <<>>
      BY <3>1
    <3>3. i \in DOMAIN conns /\ conns'[i].up = conns[i].up
      BY <3>1, <3>2 DEF Quiet, QuietConn
    <3> QED
      BY <3>1, <3>3 DEF UpNr
  <2>2. CASE \E h \in Hosts : n = frame'[h].nr
    <3>1. PICK h \in Hosts : n = frame'[h].nr
      BY <2>2
    <3>2. frame'[h].nr \in {frame[h].nr, 0} /\ frame[h].nr \in Nat
      BY <3>1, MemberTypes DEF Quiet
    <3>3. UpNr(frame[h].nr)
      BY <3>1 DEF UpNr
    <3> QED
      BY <3>1, <3>2, <3>3
  <2>3. CASE \E j \in DOMAIN heard' : heard'[j].by # Client /\ n = heard'[j].nr
    BY <2>3 DEF Quiet, UpNr
  <2> QED
    BY <1>1, <2>1, <2>2, <2>3 DEF UpNr
<1>2. \A w \in Writers : Active(w)' =>
        Active(w) /\ piece'[w] = piece[w] /\ (writer'[w] = 0 => writer[w] = 0)
  BY DEF Quiet, Active
<1> QED
  BY <1>1, <1>2, NrsKept DEF Quiet

\* In a quiet step nothing is heard and nothing comes down.
LEMMA QuietDowns ==
  ASSUME BInv, BInv', [Next]_vars, Downs, InOrder, Quiet
  PROVE  Downs' /\ InOrder'
<1>1. \A i, n : HeardBy(i, n)' <=> HeardBy(i, n)
  BY DEF Quiet, HeardBy
<1>2. ASSUME NEW i \in DOMAIN conns' PROVE DownOf(i)'
  <2>1. CASE i \in DOMAIN conns
    BY <1>1, <2>1 DEF Downs, DownOf, Quiet, QuietConn
  <2>2. CASE i \notin DOMAIN conns
    BY <2>2 DEF DownOf, Quiet
  <2> QED
    BY <2>1, <2>2
<1>3. ASSUME HasHeader(Client)' PROVE In(Client)' # <<>>
  <2>1. reader'[Client] \in Attached /\ Client \in Ends
    BY <1>3, MemberTypes DEF HasHeader, Attached
  <2>2. /\ reader[Client] \in Attached /\ mStream'[Client] = mStream[Client]
        /\ HasHeader(Client)
    BY <1>3, <2>1 DEF Quiet, QuietEnd, HasHeader
  <2>3. mStream[Client] \in DOMAIN conns
    BY <2>1, <2>2, AttachedHas
  <2> QED
    BY <2>2, <2>3 DEF In, Downs, Quiet, QuietConn
<1>4. Downs'
  BY <1>1, <1>2, <1>3 DEF Downs, Quiet
<1>5. InOrder'
  BY DEF InOrder, Quiet
<1> QED
  BY <1>4, <1>5

\* A quiet step leaves everything whole.
LEMMA QuietStep ==
  ASSUME BInv, BInv', HostInv, [Next]_vars, Whole, Quiet, Alone'
  PROVE  Whole'
  BY QuietChains, QuietHeads, QuietTails, QuietNrs, QuietDowns DEF Whole

\* A host that accepts finds the beginning of a frame, if anything.
LEMMA AcceptWhole ==
  ASSUME BInv, BInv', HostInv, [Next]_vars, Whole, Alone',
         NEW h \in Hosts, HostAccepts(h) \/ NativeAccepts(h)
  PROVE  Whole'
<1> DEFINE m == mStream'[h]
<1>1. /\ m \in DOMAIN conns /\ conns[m].name = h /\ ~conns[m].accepted
      /\ DOMAIN conns' = DOMAIN conns
      /\ \A j \in DOMAIN conns :
           /\ conns'[j].up = conns[j].up /\ conns'[j].down = conns[j].down
           /\ conns'[j].told = conns[j].told
           /\ conns'[j].accepted = (conns[j].accepted \/ j = m)
  BY AcceptStep
<1>2. \A e \in Ends : e # h => mStream'[e] = mStream[e] /\ reader'[e] = reader[e]
  <2>1. \E s : reader' = [reader EXCEPT ![h] = s]
    BY DEF HostAccepts, NativeAccepts, GoTo
  <2>2. mStream' = [mStream EXCEPT ![h] = m]
    BY AcceptStep
  <2> QED
    BY <2>1, <2>2 DEF BInv, TypeOK
<1>3. /\ UNCHANGED <<heard, piece, writer, frames, frame>>
      /\ reader'[h] \in {"check", "read"} /\ h \in Ends /\ h # Client
  <2>1. h \in Ends /\ h # Client
    BY MemberTypes
  <2>2. \E s \in {"check", "read"} : reader' = [reader EXCEPT ![h] = s]
    BY DEF HostAccepts, NativeAccepts, GoTo
  <2>3. reader'[h] \in {"check", "read"}
    BY <2>1, <2>2 DEF BInv, TypeOK
  <2>4. UNCHANGED <<heard, piece, writer, frames, frame>>
    BY DEF HostAccepts, NativeAccepts, writeVars
  <2> QED
    BY <2>1, <2>3, <2>4
<1> HIDE DEF m
<1>4. mStream'[h] = m
  BY DEF m
<1>5. Chains' /\ Fresh' /\ Downs' /\ Nrs' /\ InOrder'
  <2>1. Chains' /\ Fresh'
    <3>1. ASSUME NEW j \in DOMAIN conns
          PROVE  /\ Chain(conns'[j].up) /\ Chain(conns'[j].down)
                 /\ ~conns'[j].accepted /\ conns'[j].up # <<>> =>
                      conns'[j].up[1].part = "length"
      <4>1. /\ Chain(conns[j].up) /\ Chain(conns[j].down)
            /\ ~conns[j].accepted /\ conns[j].up # <<>> =>
                 conns[j].up[1].part = "length"
        BY DEF Whole, Chains, Fresh
      <4>2. /\ conns'[j].up = conns[j].up /\ conns'[j].down = conns[j].down
            /\ ~conns'[j].accepted => ~conns[j].accepted
        BY <1>1
      <4> QED
        BY <4>1, <4>2
    <3>2. DOMAIN conns' = DOMAIN conns
      BY <1>1
    <3> QED
      BY <3>1, <3>2 DEF Chains, Fresh
  <2>2. \A i, n : HeardBy(i, n)' <=> HeardBy(i, n)
    BY <1>3 DEF HeardBy
  <2>3. \A i \in DOMAIN conns' : DownOf(i)'
    <3>1. ASSUME NEW i \in DOMAIN conns PROVE DownOf(i)'
      <4>1. /\ DownOf(i) /\ conns'[i].down = conns[i].down
            /\ conns'[i].told = conns[i].told
        BY <1>1 DEF Whole, Downs
      <4> QED
        BY <2>2, <4>1 DEF DownOf
    <3> QED
      BY <1>1, <3>1
  <2>4. HasHeader(Client)' => In(Client)' # <<>>
    <3>1. /\ Client \in Ends /\ mStream'[Client] = mStream[Client]
          /\ reader'[Client] = reader[Client]
      BY <1>2, <1>3, MemberTypes
    <3>2. HasHeader(Client) => mStream[Client] \in DOMAIN conns
      BY <3>1, AttachedHas DEF HasHeader, Attached
    <3> QED
      BY <1>1, <3>1, <3>2 DEF HasHeader, In, Whole, Downs
  <2>5. Downs'
    BY <1>3, <2>2, <2>3, <2>4 DEF Whole, Downs
  <2>6. \A n \in Nat : UpNr(n)' => UpNr(n)
    BY <1>1, <1>3 DEF UpNr
  <2>7. Nrs'
    BY <1>3, <2>6, NrsKept DEF Whole, Active
  <2>8. InOrder'
    BY <1>2, <1>3 DEF Whole, InOrder
  <2> QED
    BY <2>1, <2>5, <2>7, <2>8
<1>6. ASSUME NEW e \in Ends, reader'[e] \in Attached PROVE HeadOK(e)'
  <2>1. CASE e # h
    <3>1. /\ mStream'[e] = mStream[e] /\ reader'[e] = reader[e] /\ frame'[e] = frame[e]
          /\ mStream[e] \in DOMAIN conns
      BY <1>2, <1>3, <1>6, <2>1, AttachedHas
    <3>2. In(e)' = In(e)
      BY <1>1, <3>1 DEF In
    <3>3. \A n : NewsTo(e, n)' <=> NewsTo(e, n)
      BY <1>3, <3>1 DEF NewsTo
    <3>4. HeadOK(e)
      BY <1>6, <3>1 DEF Whole, Heads
    <3> QED
      BY <3>1, <3>2, <3>3, <3>4 DEF HeadOK, HasHeader
  <2>2. CASE e = h
    <3>1. ~HasHeader(e)'
      BY <1>3, <2>2 DEF HasHeader
    <3>2. In(e)' = conns[m].up
      BY <1>1, <1>3, <1>4, <2>2 DEF In
    <3>3. conns[m].up # <<>> => conns[m].up[1].part = "length"
      BY <1>1 DEF Whole, Fresh
    <3>4. \A n : NewsTo(e, n)'
      <4>1. \A j \in DOMAIN heard : ~(heard[j].by = e /\ heard[j].on = m)
        BY <1>1, <1>3, <2>2 DEF HostInv
      <4> QED
        BY <1>3, <1>4, <2>2, <4>1 DEF NewsTo
    <3> QED
      BY <3>1, <3>2, <3>3, <3>4 DEF HeadOK
  <2> QED
    BY <2>1, <2>2
<1>7. ASSUME NEW i \in DOMAIN conns', CanWrite(i)' PROVE TailOf(i)'
  <2>1. i \in DOMAIN conns /\ TailOf(i)
    BY <1>1, <1>7, CanWriteStep DEF Whole, Tails
  <2>2. conns'[i].up = conns[i].up
    BY <1>1, <2>1
  <2>3. \A g \in Hosts : At(g, i)' =>
          \/ At(g, i) /\ reader'[g] = reader[g]
          \/ g = h /\ i = m /\ ~HasHeader(g)'
    BY <1>2, <1>3, <1>4, MemberTypes DEF At, HasHeader
  <2>4. Complete(i) => Complete(i)'
    BY <2>2, <2>3 DEF Complete, HasHeader
  <2>5. ASSUME NEW p, LastIs(i, p) PROVE LastIs(i, p)'
    BY <1>1, <1>3, <2>1, <2>2, <2>3, <2>5 DEF LastIs
  <2> QED
    BY <1>3, <2>1, <2>4, <2>5 DEF TailOf
<1> QED
  BY <1>5, <1>6, <1>7 DEF Whole, Heads, Tails

\* Where nothing moves, only what is written can change.
LEMMA StillReads ==
  ASSUME Whole, UNCHANGED <<mStream, reader, frame, conns, heard>>
  PROVE  /\ Chains' /\ Fresh' /\ Heads' /\ Downs' /\ InOrder'
         /\ \A n : UpNr(n)' <=> UpNr(n)
<1>1. Chains' /\ Fresh'
  BY DEF Whole, Chains, Fresh
<1>2. \A i, n : HeardBy(i, n)' <=> HeardBy(i, n)
  BY DEF HeardBy
<1>3. \A e : In(e)' = In(e) /\ (HasHeader(e)' <=> HasHeader(e))
  BY DEF In, HasHeader
<1>4. \A e, n : NewsTo(e, n)' <=> NewsTo(e, n)
  BY DEF NewsTo
<1>5. \A e \in Ends : HeadOK(e) => HeadOK(e)'
  BY <1>3, <1>4 DEF HeadOK
<1>6. Heads'
  BY <1>5 DEF Whole, Heads
<1>7. Downs'
  BY <1>2, <1>3 DEF Whole, Downs, DownOf
<1>8. InOrder'
  BY DEF Whole, InOrder
<1>9. \A n : UpNr(n)' <=> UpNr(n)
  BY DEF UpNr
<1> QED
  BY <1>1, <1>6, <1>7, <1>8, <1>9

\* Who begins a frame alone begins after a whole one, with a higher number.
LEMMA BeginWhole ==
  ASSUME BInv, BInv', HostInv, [Next]_vars, Whole, Clean', Alone',
         NEW w \in Writers, NEW k \in Kinds, BeginWrite(w, k)
  PROVE  Whole'
<1> DEFINE s == mStream[Client]
           f == Frame(Client, k, frames + 1)
<1>1. /\ writer[w] = 0 /\ piece[w].to = None
      /\ UNCHANGED <<mStream, reader, frame, writer, conns, heard, server>>
      /\ \/ UNCHANGED <<piece, frames>>
         \/ /\ piece' = [piece EXCEPT ![w] = [to |-> s, frame |-> f]]
            /\ frames' = frames + 1
  BY DEF BeginWrite, readVars, hostVars
<1>2. f.nr = frames + 1
  BY DEF Frame
<1> HIDE DEF f, s
<1>3. Chains' /\ Fresh' /\ Heads' /\ Downs' /\ InOrder' /\ \A n : UpNr(n)' <=> UpNr(n)
  BY <1>1, StillReads
<1>4. piece \in [Writers -> [to: DOMAIN conns \cup {None}, frame: Frames]]
  BY DEF BInv, TypeOK
<1>5. \A v \in Writers : v # w => piece'[v] = piece[v]
  BY <1>1, <1>4
<1>6. \A n : UpNr(n)' <=> UpNr(n)
  BY <1>3
<1>7. Nrs'
  <2>1. CASE UNCHANGED <<piece, frames>>
    BY <1>1, <1>6, <2>1 DEF Whole, Nrs, Active
  <2>2. CASE piece' = [piece EXCEPT ![w] = [to |-> s, frame |-> f]] /\ frames' = frames + 1
    <3>1. piece'[w].frame.nr = frames + 1
      BY <1>2, <1>4, <2>2
    <3>2. \A n \in Nat : UpNr(n)' => n < frames + 1 /\ n <= frames'
      BY <1>6, <2>2, MemberTypes DEF Whole, Nrs
    <3>3. ASSUME NEW v \in Writers, v # w, Active(v)'
          PROVE  piece'[v].frame.nr <= frames'
                 /\ (writer'[v] = 0 => \A n \in Nat : UpNr(n)' => n < piece'[v].frame.nr)
      <4>1. Active(v) /\ piece'[v] = piece[v]
        BY <1>5, <3>3 DEF Active
      <4> QED
        BY <1>1, <1>6, <2>2, <4>1, MemberTypes DEF Whole, Nrs
    <3>4. piece'[w].frame.nr <= frames' /\ \A n \in Nat : UpNr(n)' => n < piece'[w].frame.nr
      BY <2>2, <3>1, <3>2, MemberTypes
    <3> QED
      BY <3>2, <3>3, <3>4 DEF Nrs
  <2> QED
    BY <1>1, <2>1, <2>2
<1>8. ASSUME NEW i \in DOMAIN conns', CanWrite(i)' PROVE TailOf(i)'
  <2>1. i \in DOMAIN conns /\ TailOf(i)
    BY <1>1, <1>8, CanWriteStep DEF Whole, Tails
  <2>2. (Complete(i)' <=> Complete(i)) /\ \A p : LastIs(i, p)' <=> LastIs(i, p)
    BY <1>1 DEF Complete, LastIs, At, HasHeader
  <2>3. (\A v \in Writers : piece'[v].to = i => writer'[v] = 0)
          => (\A v \in Writers : piece[v].to = i => writer[v] = 0)
    BY <1>1, <1>5
  <2>4. ASSUME NEW v \in Writers, piece'[v].to = i, writer'[v] > 0
        PROVE  LastIs(i, Piece(Parts[writer[v]], piece[v].frame))'
    <3>1. v # w /\ piece'[v] = piece[v] /\ writer'[v] = writer[v]
      <4>1. v # w
        BY <1>1, <2>4
      <4> QED
        BY <1>1, <1>5, <4>1
    <3> QED
      BY <2>1, <2>2, <2>4, <3>1 DEF TailOf
  <2> QED
    BY <2>1, <2>2, <2>3, <2>4 DEF TailOf
<1> QED
  BY <1>3, <1>7, <1>8 DEF Whole, Tails

\* The next piece continues what is at the end of the connection.
LEMMA NextPiece ==
  ASSUME BInv, Whole, NEW w \in Writers, Active(w), CanWrite(piece[w].to)
  PROVE  LET i == piece[w].to
             p == Piece(Parts[writer[w] + 1], piece[w].frame)
         IN /\ conns[i].up # <<>> => Continues(conns[i].up[Len(conns[i].up)], p)
            /\ conns[i].up = <<>> =>
                 /\ ~conns[i].accepted => p.part = "length"
                 /\ \A h \in Hosts : At(h, i) =>
                      IF HasHeader(h) THEN p = Piece(reader[h], frame[h])
                      ELSE p.part = "length"
            /\ p.part = "length" => \A n \in Nat : UpNr(n) => n < piece[w].frame.nr
<1> DEFINE i == piece[w].to
           f == piece[w].frame
           p == Piece(Parts[writer[w] + 1], f)
           s == conns[i].up
<1>1. /\ i \in DOMAIN conns /\ writer[w] \in 0..2 /\ f.nr \in Nat /\ Message(f)
      /\ s \in Seq(PieceRecords)
  <2>1. i \in DOMAIN conns /\ writer[w] \in 0..2 /\ f.nr \in Nat
    BY MemberTypes DEF Active
  <2>2. Message(f)
    BY DEF BInv, PieceInv, WritersOK, Active
  <2> QED
    BY <2>1, <2>2, ConnType DEF BInv
<1>2. p.of = f /\ p.part = Parts[writer[w] + 1]
  BY DEF Piece
<1>3. TailOf(i)
  BY <1>1 DEF Whole, Tails
<1>4. Parts[1] = "length" /\ Parts[2] = "opcode" /\ Parts[3] = "body"
  BY DEF Parts
<1>5. s # <<>> => Len(s) \in DOMAIN s
  BY <1>1
<1>6. CASE writer[w] = 0
  <2>1. p.part = "length"
    BY <1>2, <1>4, <1>6
  <2>2. \A n \in Nat : UpNr(n) => n < f.nr
    BY <1>6 DEF Whole, Nrs
  <2>3. Complete(i)
    <3>1. \A v \in Writers : piece[v].to = i => writer[v] = 0
      <4>1. i # None
        BY DEF Active
      <4> QED
        BY <1>6, <4>1 DEF Whole, Alone, Active
    <3> QED
      BY <1>3, <3>1 DEF TailOf
  <2>4. s # <<>> => Continues(s[Len(s)], p)
    <3>1. s # <<>> => s[Len(s)].part = "body" /\ UpNr(s[Len(s)].of.nr)
      BY <1>1, <1>5, <2>3 DEF Complete, UpNr
    <3>2. s # <<>> => s[Len(s)].of.nr \in Nat
      <4>1. s # <<>> => s[Len(s)] \in PieceRecords
        BY <1>1, <1>5
      <4> QED
        BY <4>1 DEF PieceRecords, Frames
    <3> QED
      BY <1>2, <2>1, <2>2, <3>1, <3>2 DEF Continues
  <2>5. s = <<>> => \A h \in Hosts : At(h, i) => ~HasHeader(h)
    BY <2>3 DEF Complete
  <2> QED
    BY <2>1, <2>2, <2>4, <2>5
<1>7. CASE writer[w] \in {1, 2}
  <2> DEFINE q == Piece(Parts[writer[w]], f)
  <2>1. LastIs(i, q)
    BY <1>1, <1>3, <1>7 DEF TailOf
  <2>2. q.of = f /\ q.part = Parts[writer[w]]
    BY DEF Piece
  <2>3. /\ p.part = Expects(q) /\ p.part # "length" /\ Continues(q, p)
        /\ q.part \in {"length", "opcode"}
    <3>1. CASE writer[w] = 1
      BY <1>2, <1>4, <2>2, <3>1 DEF Expects, Continues, Piece
    <3>2. CASE writer[w] = 2
      BY <1>1, <1>2, <1>4, <2>2, <3>2 DEF Expects, Continues, Piece, Message
    <3> QED
      BY <1>7, <3>1, <3>2
  <2>4. s # <<>> => Continues(s[Len(s)], p)
    BY <2>1, <2>3 DEF LastIs
  <2>5. s = <<>> => conns[i].accepted
    BY <2>1 DEF LastIs
  <2>6. s = <<>> => \A h \in Hosts : At(h, i) => HasHeader(h) /\ p = Piece(reader[h], frame[h])
    <3> SUFFICES ASSUME s = <<>>, NEW h \in Hosts, At(h, i)
                 PROVE  HasHeader(h) /\ p = Piece(reader[h], frame[h])
      OBVIOUS
    <3>1. reader[h] = Expects(q) /\ frame[h] = f
      BY <2>1, <2>2 DEF LastIs
    <3>2. HasHeader(h)
      BY <3>1 DEF HasHeader, Expects
    <3>3. p = Piece(reader[h], frame[h])
      BY <1>2, <2>3, <3>1 DEF Piece
    <3> QED
      BY <3>2, <3>3
  <2> QED
    BY <2>3, <2>4, <2>5, <2>6
<1> QED
  BY <1>1, <1>6, <1>7

\* A write that fails ends on a connection that is never written to again.
LEMMA WriteStops ==
  ASSUME BInv, BInv', HostInv, [Next]_vars, Whole, Alone', NEW w \in Writers, Active(w),
         UNCHANGED <<mStream, reader, frame, conns, heard, frames>>, EndWrite(w),
         ~CanWrite(piece[w].to)
  PROVE  Whole'
<1>1. /\ Chains' /\ Fresh' /\ Heads' /\ Downs' /\ InOrder'
      /\ \A n : UpNr(n)' <=> UpNr(n)
  BY StillReads
<1>2. /\ \A v \in Writers : v # w => piece'[v] = piece[v] /\ writer'[v] = writer[v]
      /\ piece'[w].to = None
  BY DEF EndWrite, BInv, TypeOK
<1>3. Nrs'
  BY <1>1, <1>2, NrsKept DEF Whole, Active
<1>4. ASSUME NEW i \in DOMAIN conns', CanWrite(i)' PROVE TailOf(i)'
  <2>1. i \in DOMAIN conns /\ TailOf(i) /\ CanWrite(i) /\ i # piece[w].to /\ i # None
    BY <1>4, CanWriteStep, MemberTypes DEF Whole, Tails
  <2>2. (Complete(i)' <=> Complete(i)) /\ \A p : LastIs(i, p)' <=> LastIs(i, p)
    BY DEF Complete, LastIs, At, HasHeader
  <2>3. (\A v \in Writers : piece'[v].to = i => writer'[v] = 0)
          => (\A v \in Writers : piece[v].to = i => writer[v] = 0)
    BY <1>2, <2>1
  <2>4. ASSUME NEW v \in Writers, piece'[v].to = i, writer'[v] > 0
        PROVE  LastIs(i, Piece(Parts[writer[v]], piece[v].frame))'
    <3>1. v # w /\ piece'[v] = piece[v] /\ writer'[v] = writer[v]
      BY <1>2, <2>1, <2>4
    <3> QED
      BY <2>1, <2>2, <2>4, <3>1 DEF TailOf
  <2> QED
    BY <2>1, <2>2, <2>3, <2>4 DEF TailOf
<1> QED
  BY <1>1, <1>3, <1>4 DEF Whole, Tails

\* A piece that goes.
LEMMA WriteGoes ==
  ASSUME BInv, BInv', HostInv, [Next]_vars, Whole, Alone', NEW w \in Writers, Active(w),
         UNCHANGED <<mStream, reader, frame, heard, frames>>,
         NEW i, i = piece[w].to, CanWrite(i),
         NEW p \in PieceRecords, p = Piece(Parts[writer[w] + 1], piece[w].frame),
         DOMAIN conns' = DOMAIN conns, conns'[i].up = Append(conns[i].up, p),
         conns'[i].down = conns[i].down, conns'[i].accepted = conns[i].accepted,
         conns'[i].told = conns[i].told,
         \A j \in DOMAIN conns : j # i => conns'[j] = conns[j],
         \/ writer[w] < 2 /\ writer' = [writer EXCEPT ![w] = @ + 1] /\ UNCHANGED piece
         \/ writer[w] = 2 /\ EndWrite(w)
  PROVE  Whole'
<1> DEFINE s == conns[i].up
           f == piece[w].frame
<1>1. /\ i \in DOMAIN conns /\ s \in Seq(PieceRecords) /\ f.nr \in Nat /\ writer[w] \in 0..2
      /\ p.of = f /\ p.part = Parts[writer[w] + 1]
  BY MemberTypes, ConnType DEF Active, BInv, Piece
<1>2. /\ s # <<>> => Continues(s[Len(s)], p)
      /\ s = <<>> =>
           /\ ~conns[i].accepted => p.part = "length"
           /\ \A h \in Hosts : At(h, i) =>
                IF HasHeader(h) THEN p = Piece(reader[h], frame[h]) ELSE p.part = "length"
      /\ p.part = "length" => \A n \in Nat : UpNr(n) => n < f.nr
  BY NextPiece
<1>3. /\ Chain(Append(s, p)) /\ Append(s, p) # <<>>
      /\ Append(s, p)[Len(Append(s, p))] = p
      /\ Append(s, p)[1] = IF s = <<>> THEN p ELSE s[1]
      /\ DOMAIN Append(s, p) = DOMAIN s \cup {Len(s) + 1}
      /\ Append(s, p)[Len(s) + 1] = p
      /\ \A k \in DOMAIN s : Append(s, p)[k] = s[k]
  <2>1. Chain(s)
    BY <1>1 DEF Whole, Chains
  <2> QED
    BY <1>1, <1>2, <2>1, ChainAppend
<1> HIDE DEF s, f
<1>4. /\ conns'[i].up = Append(s, p) /\ conns[i].up = s /\ piece[w].frame = f
      /\ \A j \in DOMAIN conns : /\ conns'[j].down = conns[j].down
                                 /\ conns'[j].told = conns[j].told
                                 /\ conns'[j].accepted = conns[j].accepted
                                 /\ j # i => conns'[j].up = conns[j].up
  BY DEF s, f
<1>5. Chains' /\ Fresh'
  <2>1. Chains'
    <3>1. \A j \in DOMAIN conns : Chain(conns[j].up) /\ Chain(conns[j].down)
      BY DEF Whole, Chains
    <3>2. ASSUME NEW j \in DOMAIN conns
          PROVE  Chain(conns'[j].up) /\ Chain(conns'[j].down)
      <4>1. CASE j = i
        BY <1>1, <1>3, <1>4, <3>1, <4>1
      <4>2. CASE j # i
        BY <1>4, <3>1, <4>2
      <4> QED
        BY <4>1, <4>2
    <3> QED
      BY <1>4, <3>1, <3>2 DEF Chains
  <2>2. ASSUME NEW j \in DOMAIN conns', ~conns'[j].accepted, conns'[j].up # <<>>
        PROVE  conns'[j].up[1].part = "length"
    <3>1. \A k \in DOMAIN conns :
            ~conns[k].accepted /\ conns[k].up # <<>> => conns[k].up[1].part = "length"
      BY DEF Whole, Fresh
    <3>2. CASE j = i
      BY <1>1, <1>2, <1>3, <1>4, <2>2, <3>1, <3>2
    <3>3. CASE j # i
      BY <1>4, <2>2, <3>1, <3>3
    <3> QED
      BY <3>2, <3>3
  <2> QED
    BY <2>1, <2>2 DEF Fresh
<1>6. Downs' /\ InOrder'
  <2>1. \A j, n : HeardBy(j, n)' <=> HeardBy(j, n)
    BY DEF HeardBy
  <2>2. HasHeader(Client) => mStream[Client] \in DOMAIN conns
    BY AttachedHas, MemberTypes DEF HasHeader, Attached
  <2>3. HasHeader(Client)' => In(Client)' # <<>>
    BY <1>4, <2>2 DEF Whole, Downs, HasHeader, In
  <2>4. \A j \in DOMAIN conns' : DownOf(j)'
    <3>1. ASSUME NEW j \in DOMAIN conns PROVE DownOf(j)'
      <4>1. /\ DownOf(j) /\ conns'[j].down = conns[j].down
            /\ conns'[j].told = conns[j].told
        BY <1>4 DEF Whole, Downs
      <4> QED
        BY <2>1, <4>1 DEF DownOf
    <3>2. DOMAIN conns' = DOMAIN conns
      BY <1>4
    <3> QED
      BY <3>1, <3>2
  <2> QED
    BY <2>1, <2>3, <2>4 DEF Whole, Downs, InOrder
<1>7. /\ \A v \in Writers : v # w => piece'[v] = piece[v] /\ writer'[v] = writer[v]
      /\ IF writer[w] < 2 THEN piece'[w] = piece[w] /\ writer'[w] = writer[w] + 1
         ELSE piece'[w].to = None
      /\ None \notin DOMAIN conns
  BY <1>1, MemberTypes, SMTT(20) DEF EndWrite, BInv, TypeOK
<1>8. \A v \in Writers : v # w => ~Active(v) /\ ~Active(v)'
  BY <1>7 DEF Whole, Alone, Active
<1>9. Nrs'
  <2>1. ASSUME NEW n \in Nat, UpNr(n)' PROVE UpNr(n) \/ n = f.nr
    <3>1. ASSUME NEW j \in DOMAIN conns', NEW k \in DOMAIN conns'[j].up,
                 n = conns'[j].up[k].of.nr
          PROVE  UpNr(n) \/ n = f.nr
      <4>1. CASE j = i
        <5>1. k \in DOMAIN s \cup {Len(s) + 1} /\ n = Append(s, p)[k].of.nr
          BY <1>3, <1>4, <3>1, <4>1
        <5>2. k \in DOMAIN s => k \in DOMAIN conns[i].up /\ n = conns[i].up[k].of.nr
          BY <1>3, <1>4, <5>1
        <5>3. k = Len(s) + 1 => n = f.nr
          BY <1>1, <1>3, <5>1
        <5> QED
          BY <1>1, <5>1, <5>2, <5>3 DEF UpNr
      <4>2. CASE j # i
        BY <1>4, <3>1, <4>2 DEF UpNr
      <4> QED
        BY <4>1, <4>2
    <3> QED
      BY <2>1, <3>1 DEF UpNr
  <2>2. \A n \in Nat : UpNr(n)' => n <= frames'
    BY <1>4, <2>1 DEF Whole, Nrs
  <2>3. \A v \in Writers : Active(v)' => v = w /\ piece'[w] = piece[w] /\ writer'[w] # 0
    BY <1>1, <1>7, <1>8 DEF Active
  <2>4. piece[w].frame.nr <= frames'
    BY DEF Whole, Nrs
  <2> QED
    BY <2>2, <2>3, <2>4 DEF Nrs
<1>10. ASSUME NEW e \in Ends, reader'[e] \in Attached PROVE HeadOK(e)'
  <2>1. HeadOK(e) /\ mStream[e] \in DOMAIN conns /\ (HasHeader(e)' <=> HasHeader(e))
    BY <1>10, AttachedHas DEF Whole, Heads, HasHeader
  <2>2. \A n : NewsTo(e, n)' <=> NewsTo(e, n)
    BY DEF NewsTo
  <2>3. CASE e # Client /\ mStream[e] = i
    <3>1. In(e) = s /\ In(e)' = Append(s, p) /\ e \in Hosts /\ At(e, i)
      BY <1>4, <1>10, <2>3 DEF In, Ends, At
    <3>2. CASE s # <<>>
      BY <1>3, <2>1, <2>2, <3>1, <3>2 DEF HeadOK
    <3>3. CASE s = <<>>
      <4>1. In(e)'[1] = p
        BY <1>3, <3>1, <3>3
      <4>2. p.part = "length" => NewsTo(e, p.of.nr)
        <5>1. \A j \in DOMAIN heard : heard[j].by = e => UpNr(heard[j].nr)
          BY <2>3 DEF UpNr
        <5>2. \A j \in DOMAIN heard : heard[j].nr \in Nat
          BY MemberTypes
        <5> QED
          BY <1>1, <1>2, <5>1, <5>2 DEF NewsTo
      <4>3. IF HasHeader(e) THEN p = Piece(reader[e], frame[e]) ELSE p.part = "length"
        BY <1>2, <3>1, <3>3
      <4> QED
        BY <2>1, <2>2, <4>1, <4>2, <4>3 DEF HeadOK
    <3> QED
      BY <3>2, <3>3
  <2>4. CASE ~(e # Client /\ mStream[e] = i)
    <3>1. In(e)' = In(e)
      BY <1>4, <2>1, <2>4 DEF In
    <3> QED
      BY <2>1, <2>2, <3>1 DEF HeadOK
  <2> QED
    BY <2>3, <2>4
<1>11. ASSUME NEW j \in DOMAIN conns', CanWrite(j)' PROVE TailOf(j)'
  <2>1. j \in DOMAIN conns /\ TailOf(j) /\ j # None
    BY <1>7, <1>11, CanWriteStep DEF Whole, Tails
  <2>2. \A h : At(h, j)' <=> At(h, j)
    BY DEF At
  <2>3. CASE j # i
    <3>1. (Complete(j)' <=> Complete(j)) /\ \A q : LastIs(j, q)' <=> LastIs(j, q)
      BY <2>1, <2>2, <2>3 DEF Complete, LastIs, HasHeader
    <3>2. piece[w].to # j /\ piece'[w].to # j
      BY <1>7, <2>1, <2>3
    <3>3. (\A v \in Writers : piece'[v].to = j => writer'[v] = 0)
          => (\A v \in Writers : piece[v].to = j => writer[v] = 0)
      BY <1>7, <3>2
    <3>4. ASSUME NEW v \in Writers, piece'[v].to = j, writer'[v] > 0
          PROVE  LastIs(j, Piece(Parts[writer[v]], piece[v].frame))'
      <4>1. v # w /\ piece'[v] = piece[v] /\ writer'[v] = writer[v]
        BY <1>7, <3>2, <3>4
      <4> QED
        BY <2>1, <3>1, <3>4, <4>1 DEF TailOf
    <3> QED
      BY <2>1, <3>1, <3>3, <3>4 DEF TailOf
  <2>4. CASE j = i
    <3>1. conns'[j].up # <<>> /\ conns'[j].up[Len(conns'[j].up)] = p
      BY <1>3, <1>4, <2>4
    <3>2. LastIs(j, p)'
      BY <3>1 DEF LastIs
    <3>3. ASSUME NEW v \in Writers, piece'[v].to = j, writer'[v] > 0
          PROVE  LastIs(j, Piece(Parts[writer[v]], piece[v].frame))'
      <4>1. v = w /\ piece'[w] = piece[w] /\ writer'[w] = writer[w] + 1
        BY <1>7, <1>8, <2>1, <3>3 DEF Active
      <4>2. p = Piece(Parts[writer[w] + 1], piece[w].frame)
        OBVIOUS
      <4> QED
        BY <3>1, <4>1, <4>2 DEF LastIs
    <3>4. ASSUME \A v \in Writers : piece'[v].to = j => writer'[v] = 0
          PROVE  Complete(j)'
      <4>1. writer[w] = 2
        BY <1>1, <1>7, <2>4, <3>4
      <4>2. p.part = "body"
        BY <1>1, <4>1 DEF Parts
      <4> QED
        BY <3>1, <4>2 DEF Complete
    <3> QED
      BY <3>3, <3>4 DEF TailOf
  <2> QED
    BY <2>3, <2>4
<1> QED
  BY <1>5, <1>6, <1>9, <1>10, <1>11 DEF Whole, Heads, Tails

\* A write alone, to the connection it was begun on.
LEMMA WriteWhole ==
  ASSUME BInv, BInv', HostInv, [Next]_vars, Whole, Clean', Alone',
         NEW w \in Writers, WritePiece(w)
  PROVE  Whole'
<1> DEFINE i == piece[w].to
           p == Piece(Parts[writer[w] + 1], piece[w].frame)
<1>1. Target(w) = i
  BY DEF WritePiece, Clean
<1>2. Active(w) /\ UNCHANGED <<mStream, reader, frame, heard, frames>>
  BY DEF WritePiece, Active, readVars
<1>3. i \in DOMAIN conns /\ i # Nowhere
  <2>1. i \in DOMAIN conns
    BY <1>2, MemberTypes DEF Active
  <2> QED
    BY <2>1, ConnType DEF BInv, Nowhere
<1>4. \/ UNCHANGED conns /\ ~CanWrite(i) /\ EndWrite(w)
      \/ /\ i \in DOMAIN conns /\ CanWrite(i) /\ RealPiece(p)
         /\ DOMAIN conns' = DOMAIN conns
         /\ conns'[i].up = Append(conns[i].up, p) /\ conns'[i].down = conns[i].down
         /\ conns'[i].accepted = conns[i].accepted /\ conns'[i].told = conns[i].told
         /\ \A j \in DOMAIN conns : j # i => conns'[j] = conns[j]
         /\ \/ writer[w] < 2 /\ writer' = [writer EXCEPT ![w] = @ + 1] /\ UNCHANGED piece
            \/ writer[w] = 2 /\ EndWrite(w)
  BY <1>1, <1>3, WriteStep
<1>5. CASE UNCHANGED conns /\ ~CanWrite(i) /\ EndWrite(w)
  BY <1>2, <1>5, WriteStops
<1>6. CASE ~(UNCHANGED conns /\ ~CanWrite(i) /\ EndWrite(w))
  <2>1. p \in PieceRecords
    BY <1>4, <1>6 DEF RealPiece
  <2> QED
    BY <1>2, <1>4, <1>6, <2>1, WriteGoes
<1> QED
  BY <1>5, <1>6

\* What a loop may take from its connection.
Reading(e) == ReadLength(e) \/ ReadOpcode(e) \/ ReadBody(e)
TakesLength(e) ==
  /\ In(e)[1].part = "length" /\ ~HasHeader(e)
  /\ reader' = [reader EXCEPT ![e] = "opcode"]
  /\ frame' = [frame EXCEPT ![e] = In(e)[1].of]
  /\ UNCHANGED heard
TakesOpcode(e) ==
  /\ In(e)[1] = Piece("opcode", frame[e]) /\ reader[e] = "opcode"
  /\ IF frame[e].kind = "SHUTDOWN" THEN reader' = [reader EXCEPT ![e] = "ended"]
     ELSE reader' = [reader EXCEPT ![e] = "body"]
  /\ UNCHANGED <<frame, heard>>
TakesBody(e) ==
  /\ In(e)[1] = Piece("body", frame[e]) /\ reader[e] = "body" /\ Message(frame[e])
  /\ \E s \in {"poll", "read", "ended"} : reader' = [reader EXCEPT ![e] = s]
  /\ frame' = [frame EXCEPT ![e] = NoFrame]
  /\ heard' = Append(heard, Heard(e)) /\ Heard(e) \in Messages(DOMAIN conns)

\* What was written back: nothing, or a frame of the number that was heard.
Answers(e) ==
  LET d == conns[mStream[e]].down IN
  \/ conns'[mStream[e]].down = d
  \/ TakesBody(e) /\ \E f : /\ Message(f) /\ f.nr = frame[e].nr
                            /\ conns'[mStream[e]].down = d \o Pieces(f)

\* A loop finds the piece that it expects.
LEMMA TakesOne ==
  ASSUME BInv, Whole, NEW e \in Ends, Reading(e)
  PROVE  /\ mStream[e] \in DOMAIN conns /\ reader[e] \in Attached
         /\ In(e) \in Seq(PieceRecords) /\ In(e) # <<>> /\ Chain(In(e)) /\ HeadOK(e)
         /\ Took(e) /\ UNCHANGED <<mStream, piece, writer, frames>>
         /\ IF e = Client THEN conns'[mStream[e]].down = Tail(conns[mStream[e]].down)
            ELSE Answers(e)
         /\ TakesLength(e) \/ TakesOpcode(e) \/ TakesBody(e)
<1>1. reader[e] \in Attached /\ In(e) # <<>> /\ UNCHANGED <<mStream, piece, writer, frames>>
  BY DEF Reading, ReadLength, ReadOpcode, ReadBody, Attached, writeVars
<1>2. /\ mStream[e] \in DOMAIN conns /\ In(e) \in Seq(PieceRecords)
      /\ \A k \in DOMAIN In(e) : RealPiece(In(e)[k])
  BY <1>1, InType
<1>3. HeadOK(e) /\ Chain(In(e)) /\ Head(In(e)) = In(e)[1]
  BY <1>1, <1>2 DEF Whole, Heads, Chains, In
<1>4. CASE ReadLength(e)
  <2>1. ~HasHeader(e) /\ conns' = Rest(e)
    BY <1>4 DEF ReadLength, HasHeader
  <2>2. In(e)[1].part = "length"
    BY <1>1, <1>3, <2>1 DEF HeadOK
  <2>3. TakesLength(e)
    BY <1>3, <1>4, <2>1, <2>2 DEF ReadLength, TakesLength, GoTo
  <2>4. /\ Took(e)
        /\ conns'[mStream[e]].down = IF e = Client THEN Tail(conns[mStream[e]].down)
                                     ELSE conns[mStream[e]].down
    BY <1>1, <2>1, RestType
  <2> QED
    BY <1>1, <1>2, <1>3, <2>3, <2>4 DEF Answers
<1>5. CASE ReadOpcode(e)
  <2>1. HasHeader(e) /\ reader[e] = "opcode" /\ conns' = Rest(e)
    BY <1>5 DEF ReadOpcode, HasHeader
  <2>2. In(e)[1] = Piece("opcode", frame[e])
    BY <1>1, <1>3, <2>1 DEF HeadOK
  <2>3. KindHeard(e, frame[e]) = "SHUTDOWN" <=> frame[e].kind = "SHUTDOWN"
    BY <2>1, KindHeardType DEF BInv, PieceInv, ReadersOK
  <2>4. TakesOpcode(e)
    BY <1>3, <1>5, <2>1, <2>2, <2>3 DEF ReadOpcode, TakesOpcode, GoTo
  <2>5. /\ Took(e)
        /\ conns'[mStream[e]].down = IF e = Client THEN Tail(conns[mStream[e]].down)
                                     ELSE conns[mStream[e]].down
    BY <1>1, <2>1, RestType
  <2> QED
    BY <1>1, <1>2, <1>3, <2>4, <2>5 DEF Answers
<1>6. CASE ReadBody(e)
  <2>1. HasHeader(e) /\ reader[e] = "body"
    BY <1>6 DEF ReadBody, HasHeader
  <2>2. Head(In(e)) = Piece("body", frame[e]) /\ In(e)[1] = Piece("body", frame[e])
    BY <1>1, <1>3, <2>1 DEF HeadOK
  <2> DEFINE m == mStream[e]
             r == Replies(e, KindHeard(e, frame[e]), frame[e].nr)
  <2>3. /\ Took(e) /\ Message(frame[e])
        /\ e = Client => conns'[m].down = Tail(conns[m].down)
        /\ e # Client /\ ClientEnd(m) => conns'[m].down = conns[m].down \o r
        /\ e # Client /\ ~ClientEnd(m) => conns'[m].down = conns[m].down
        /\ heard' = Append(heard, Heard(e))
        /\ Heard(e) \in Messages(DOMAIN conns)
    BY <1>6, <2>2, BodyStep
  <2>4. Top(e) \in {"poll", "read", "ended"}
    BY DEF Top, BInv, TypeOK, Ends, Hosts
  <2>5. TakesBody(e)
    <3>1. reader' = [reader EXCEPT ![e] = Top(e)] /\ frame' = [frame EXCEPT ![e] = NoFrame]
      BY <1>6, <2>2 DEF ReadBody, GoTo
    <3> QED
      BY <2>1, <2>2, <2>3, <2>4, <3>1 DEF TakesBody
  <2>6. e # Client => Answers(e)
    <3>1. \/ r = <<>>
          \/ \E f : Message(f) /\ f.nr = frame[e].nr /\ r = Pieces(f)
      BY MemberTypes, RepliesType
    <3>2. conns[m].down \o <<>> = conns[m].down
      <4>1. conns[m].down \in Seq(PieceRecords)
        BY <1>2, ConnType DEF BInv
      <4> QED
        BY <4>1, ConcatEmptySeq
    <3> HIDE DEF r
    <3> QED
      BY <2>3, <2>5, <3>1, <3>2 DEF Answers
  <2> QED
    BY <1>1, <1>2, <1>3, <2>3, <2>5, <2>6
<1> QED
  BY <1>4, <1>5, <1>6 DEF Reading

\* After it, the rest begins with what is expected next, and what was heard is newer
\* than all before.
LEMMA TakenHead ==
  ASSUME BInv, Whole, NEW e \in Ends, Reading(e)
  PROVE  /\ In(e)' = Tail(In(e))
         /\ reader'[e] \in Attached => HeadOK(e)'
         /\ InOrder'
         /\ \A g \in Ends : g # e => reader'[g] = reader[g] /\ frame'[g] = frame[g]
         /\ \A g, n : g # e => (NewsTo(g, n)' <=> NewsTo(g, n))
<1> DEFINE s == In(e)
           t == Tail(s)
           m == mStream[e]
<1>1. /\ m \in DOMAIN conns /\ s \in Seq(PieceRecords) /\ s # <<>> /\ Chain(s)
      /\ HeadOK(e) /\ Took(e) /\ UNCHANGED <<mStream, piece, writer, frames>>
      /\ e = Client => conns'[m].down = Tail(conns[m].down)
      /\ TakesLength(e) \/ TakesOpcode(e) \/ TakesBody(e)
  BY TakesOne
<1>2. In(e)' = t
  BY <1>1 DEF In, Took
<1>3. t # <<>> => Continues(s[1], t[1])
  BY <1>1, ChainTail
<1>4. reader \in [Ends -> LoopStates] /\ frame \in [Ends -> Frames]
  BY DEF BInv, TypeOK
<1>6. t # <<>> => t[1].of.nr \in Nat
  <2>1. t \in Seq(PieceRecords)
    BY <1>1
  <2>2. t # <<>> => t[1] \in PieceRecords
    BY <2>1
  <2> QED
    BY <2>2 DEF PieceRecords, Frames
<1> HIDE DEF s, t
<1>7. \A g \in Ends : g # e => reader'[g] = reader[g] /\ frame'[g] = frame[g]
  BY <1>1, <1>4 DEF TakesLength, TakesOpcode, TakesBody
<1>8. CASE TakesLength(e)
  <2>1. /\ reader'[e] = "opcode" /\ frame'[e] = s[1].of /\ s[1].part = "length" /\ ~HasHeader(e)
        /\ UNCHANGED heard
    BY <1>4, <1>8 DEF TakesLength, s
  <2>2. \A g, n : NewsTo(g, n)' <=> NewsTo(g, n)
    BY <1>1, <2>1 DEF NewsTo
  <2>3. s[1].of.kind = "SHUTDOWN" \/ NewsTo(e, s[1].of.nr)
    BY <1>1, <2>1 DEF HeadOK, s
  <2>4. t # <<>> => t[1] = Piece("opcode", s[1].of)
    BY <1>3, <2>1 DEF Continues
  <2>5. HeadOK(e)'
    BY <1>2, <2>1, <2>2, <2>3, <2>4 DEF HeadOK, HasHeader
  <2>6. InOrder'
    BY <1>7, <2>1 DEF Whole, InOrder
  <2> QED
    BY <1>2, <1>7, <2>2, <2>5, <2>6 DEF s, t
<1>9. CASE TakesOpcode(e)
  <2>1. /\ frame'[e] = frame[e] /\ UNCHANGED heard /\ reader[e] = "opcode"
        /\ s[1] = Piece("opcode", frame[e])
        /\ IF frame[e].kind = "SHUTDOWN" THEN reader'[e] = "ended" ELSE reader'[e] = "body"
    BY <1>4, <1>9 DEF TakesOpcode, s
  <2>2. \A g, n : NewsTo(g, n)' <=> NewsTo(g, n)
    BY <1>1, <2>1 DEF NewsTo
  <2>3. frame[e].kind = "SHUTDOWN" \/ NewsTo(e, frame[e].nr)
    BY <1>1, <2>1 DEF HeadOK, HasHeader
  <2>4. t # <<>> /\ frame[e].kind # "SHUTDOWN" => t[1] = Piece("body", frame[e])
    <3>1. s[1].part = "opcode" /\ s[1].of = frame[e]
      BY <2>1 DEF Piece
    <3> QED
      BY <1>3, <3>1 DEF Continues
  <2>5. reader'[e] \in Attached => HeadOK(e)'
    BY <1>2, <2>1, <2>2, <2>3, <2>4 DEF HeadOK, HasHeader, Attached
  <2>6. InOrder'
    BY <1>7, <2>1 DEF Whole, InOrder
  <2> QED
    BY <1>2, <1>7, <2>2, <2>5, <2>6 DEF s, t
<1>10. CASE TakesBody(e)
  <2>1. /\ reader'[e] \in {"poll", "read", "ended"} /\ reader[e] = "body"
        /\ s[1] = Piece("body", frame[e]) /\ frame[e].kind # "SHUTDOWN"
        /\ heard' = Append(heard, Heard(e)) /\ Heard(e) \in Messages(DOMAIN conns)
    BY <1>4, <1>10 DEF TakesBody, Message, s
  <2>2. /\ DOMAIN heard' = DOMAIN heard \cup {Len(heard) + 1}
        /\ heard'[Len(heard) + 1] = Heard(e) /\ Len(heard) \in Nat
        /\ DOMAIN heard = 1..Len(heard)
        /\ \A j \in DOMAIN heard : heard'[j] = heard[j]
    BY <2>1, HeardGrows
  <2>3. Heard(e).by = e /\ Heard(e).on = m /\ Heard(e).nr = frame[e].nr /\ frame[e].nr \in Nat
    BY MemberTypes DEF Heard
  <2>4. NewsTo(e, frame[e].nr)
    BY <1>1, <2>1 DEF HeadOK, HasHeader
  <2>5. \A g, n : g # e => (NewsTo(g, n)' <=> NewsTo(g, n))
    BY <1>1, <2>2, <2>3 DEF NewsTo
  <2>6. ASSUME NEW n \in Nat, frame[e].nr < n PROVE NewsTo(e, n)'
    <3>1. ASSUME NEW j \in DOMAIN heard', heard'[j].by = e, heard'[j].on = mStream'[e]
          PROVE  heard'[j].nr < n
      <4>1. CASE j = Len(heard) + 1
        BY <2>2, <2>3, <2>6, <4>1
      <4>2. CASE j \in DOMAIN heard
        <5>1. heard[j].nr < frame[e].nr /\ heard[j].nr \in Nat
          BY <1>1, <2>2, <2>4, <3>1, <4>2, MemberTypes DEF NewsTo
        <5> QED
          BY <2>2, <2>3, <2>6, <4>2, <5>1
      <4> QED
        BY <2>2, <3>1, <4>1, <4>2
    <3> QED
      BY <3>1 DEF NewsTo
  <2>7. HeadOK(e)'
    <3>1. ~HasHeader(e)'
      BY <2>1 DEF HasHeader
    <3>2. s[1].part = "body" /\ s[1].of = frame[e]
      BY <2>1 DEF Piece
    <3>3. t # <<>> => /\ t[1].part = "length"
                      /\ t[1].of.kind = "SHUTDOWN" \/ frame[e].nr < t[1].of.nr
      BY <1>3, <3>2 DEF Continues
    <3> QED
      BY <1>2, <1>6, <2>6, <3>1, <3>3 DEF HeadOK
  <2>8. InOrder'
    <3>1. \A g \in Ends : reader'[g] # "lost"
      BY <1>7, <2>1 DEF Whole, InOrder
    <3>2. ASSUME NEW i \in DOMAIN heard', NEW j \in DOMAIN heard', i < j,
                 heard'[i].by = heard'[j].by, heard'[i].on = heard'[j].on
          PROVE  heard'[i].nr < heard'[j].nr
      <4>1. i \in DOMAIN heard
        BY <2>2, <3>2
      <4>2. CASE j \in DOMAIN heard
        BY <2>2, <3>2, <4>1, <4>2 DEF Whole, InOrder
      <4>3. CASE j = Len(heard) + 1
        <5>1. heard[i].by = e /\ heard[i].on = m
          BY <2>2, <2>3, <3>2, <4>1, <4>3
        <5>2. heard[i].nr < frame[e].nr
          BY <2>4, <4>1, <5>1 DEF NewsTo
        <5> QED
          BY <2>2, <2>3, <4>1, <4>3, <5>2
      <4> QED
        BY <2>2, <3>2, <4>2, <4>3
    <3> QED
      BY <3>1, <3>2 DEF InOrder
  <2> QED
    BY <1>2, <1>7, <2>5, <2>7, <2>8 DEF s, t
<1> QED
  BY <1>1, <1>8, <1>9, <1>10

\* A host that reads is the only one on its connection, which nobody has told to end.
LEMMA ReadersOwn ==
  ASSUME BInv, HostInv, NEW e \in Hosts, reader[e] \in Attached
  PROVE  LET m == mStream[e] IN
         /\ m \in DOMAIN conns /\ conns[m].accepted /\ conns[m].name = e /\ ~conns[m].told
         /\ \A h \in Hosts : mStream[h] = m => h = e
         /\ \A j \in DOMAIN heard : heard[j].by # Client /\ heard[j].on = m => heard[j].by = e
<1>1. mStream[e] \in DOMAIN conns /\ mStream[e] # None
  BY AttachedHas, MemberTypes
<1>2. conns[mStream[e]].accepted /\ conns[mStream[e]].name = e
  BY <1>1 DEF HostInv
<1>3. ~conns[mStream[e]].told
  BY <1>1, <1>2 DEF HostInv, Attached
<1> QED
  BY <1>1, <1>2, <1>3 DEF HostInv

\* A host's answer follows what is on its way to the client, and is new to it.
LEMMA AnswerWhole ==
  ASSUME BInv, HostInv, Whole, NEW e \in Hosts, Reading(e),
         NEW m, m = mStream[e], NEW nr, nr = frame[e].nr
  PROVE  LET d == conns[m].down
         IN /\ Chain(conns'[m].down) /\ DownOf(m)'
            /\ conns'[m].down = d
               \/ (/\ d # <<>> => conns'[m].down # <<>> /\ conns'[m].down[1] = d[1]
                   /\ conns'[m].down # <<>>
                   /\ d = <<>> => /\ conns'[m].down[1].part = "length"
                                  /\ mStream[Client] = m
                                       => NewsTo(Client, conns'[m].down[1].of.nr))
<1> DEFINE d == conns[m].down
<1>1. e \in Ends /\ e # Client
  BY MemberTypes
<1>2. /\ m \in DOMAIN conns /\ reader[e] \in Attached /\ HeadOK(e) /\ Took(e) /\ Answers(e)
      /\ TakesLength(e) \/ TakesOpcode(e) \/ TakesBody(e)
  BY <1>1, TakesOne
<1>3. /\ ~conns[m].told /\ conns'[m].told = conns[m].told
      /\ \A j \in DOMAIN heard : heard[j].by # Client /\ heard[j].on = m => heard[j].by = e
  BY <1>2, ReadersOwn DEF Took
<1>4. d \in Seq(PieceRecords) /\ Chain(d) /\ DownOf(m)
      /\ \A k \in DOMAIN d : RealPiece(d[k])
  BY <1>2, ConnType DEF BInv, PieceInv, StreamsOK, DownOK, Whole, Chains, Downs
<1>5. /\ heard' = heard \/ (heard' = Append(heard, Heard(e)) /\ TakesBody(e))
      /\ \A i, n : HeardBy(i, n) => HeardBy(i, n)'
      /\ TakesBody(e) => HeardBy(m, nr)'
  <2>1. CASE TakesBody(e)
    <3>1. heard' = Append(heard, Heard(e)) /\ Heard(e) \in Messages(DOMAIN conns)
      BY <2>1 DEF TakesBody
    <3>2. /\ DOMAIN heard' = DOMAIN heard \cup {Len(heard) + 1}
          /\ heard'[Len(heard) + 1] = Heard(e)
          /\ \A j \in DOMAIN heard : heard'[j] = heard[j]
      BY <3>1, HeardGrows
    <3>3. Heard(e).by = e /\ Heard(e).on = m /\ Heard(e).nr = frame[e].nr
      BY DEF Heard
    <3>4. \A i, n : HeardBy(i, n) => HeardBy(i, n)'
      BY <3>2 DEF HeardBy
    <3>5. HeardBy(m, nr)'
      BY <1>1, <3>2, <3>3 DEF HeardBy
    <3> QED
      BY <2>1, <3>1, <3>4, <3>5
  <2>2. CASE ~TakesBody(e)
    <3>1. heard' = heard
      BY <1>2, <2>2 DEF TakesLength, TakesOpcode
    <3> QED
      BY <2>2, <3>1 DEF HeardBy
  <2> QED
    BY <2>1, <2>2
<1> HIDE DEF d
<1>6. CASE conns'[m].down = d
  <2>1. DownOf(m)'
    BY <1>3, <1>4, <1>5, <1>6 DEF DownOf, d
  <2> QED
    BY <1>4, <1>6, <2>1 DEF d
<1>7. ASSUME NEW f, TakesBody(e), Message(f), f.nr = frame[e].nr,
             conns'[m].down = d \o Pieces(f)
      PROVE  /\ Chain(conns'[m].down) /\ DownOf(m)' /\ conns'[m].down # <<>>
             /\ d # <<>> => conns'[m].down[1] = d[1]
             /\ d = <<>> => /\ conns'[m].down[1].part = "length"
                            /\ mStream[Client] = m => NewsTo(Client, conns'[m].down[1].of.nr)
  <2> DEFINE t == Pieces(f)
  <2>1. /\ t \in Seq(PieceRecords) /\ Chain(t) /\ t # <<>> /\ t[1] = Piece("length", f)
        /\ t[Len(t)] = Piece("body", f) /\ \A k \in DOMAIN t : t[k].of = f
    BY <1>7, ChainPieces DEF Message
  <2>2. NewsTo(e, frame[e].nr)
    BY <1>2, <1>7 DEF TakesBody, HeadOK, HasHeader, Message
  <2>3. ASSUME NEW n, HeardBy(m, n) PROVE n < f.nr
    BY <1>3, <1>7, <2>2, <2>3 DEF HeardBy, NewsTo
  <2>4. ASSUME d # <<>> PROVE Continues(d[Len(d)], t[1])
    <3>1. Len(d) \in DOMAIN d
      BY <1>4, <2>4
    <3>2. d[Len(d)].part = "body"
      BY <1>3, <1>4, <2>4 DEF DownOf, d
    <3>3. d[Len(d)].of.kind # "SHUTDOWN"
      BY <1>4, <3>1, <3>2 DEF RealPiece, Message
    <3>4. HeardBy(m, d[Len(d)].of.nr)
      BY <1>4, <3>1, <3>3 DEF DownOf, d
    <3> QED
      BY <2>1, <2>3, <3>2, <3>4 DEF Continues, Piece
  <2> HIDE DEF t
  <2>5. /\ Chain(d \o t) /\ d \o t # <<>>
        /\ d # <<>> => (d \o t)[1] = d[1]
        /\ d = <<>> => d \o t = t
        /\ (d \o t)[Len(d \o t)] = t[Len(t)]
        /\ \A k \in DOMAIN (d \o t) : \/ \E n \in DOMAIN d : (d \o t)[k] = d[n]
                                      \/ \E n \in DOMAIN t : (d \o t)[k] = t[n]
    BY <1>4, <2>1, <2>4, ChainConcat
  <2>6. conns'[m].down = d \o t
    BY <1>7 DEF t
  <2>7. Piece("length", f).part = "length" /\ Piece("length", f).of = f
        /\ Piece("body", f).part = "body"
    BY DEF Piece
  <2>8. DownOf(m)'
    <3>1. ASSUME NEW k \in DOMAIN (d \o t), (d \o t)[k].of.kind # "SHUTDOWN",
                 NEW x, x = (d \o t)[k].of.nr
          PROVE  HeardBy(m, x)'
      <4>1. \A n \in DOMAIN d : d[n].of.kind # "SHUTDOWN" /\ x = d[n].of.nr => HeardBy(m, x)'
        <5>1. \A n \in DOMAIN d : d[n].of.kind # "SHUTDOWN" => HeardBy(m, d[n].of.nr)
          BY <1>4 DEF DownOf, d
        <5> QED
          BY <1>5, <5>1
      <4>2. \A n \in DOMAIN t : x = t[n].of.nr => HeardBy(m, x)'
        BY <1>5, <1>7, <2>1
      <4> QED
        BY <2>5, <3>1, <4>1, <4>2
    <3> QED
      BY <2>1, <2>5, <2>6, <2>7, <3>1 DEF DownOf
  <2>9. mStream[Client] = m => NewsTo(Client, f.nr)
    BY <2>3 DEF Whole, Downs, NewsTo
  <2> QED
    BY <2>1, <2>5, <2>6, <2>7, <2>8, <2>9
<1> QED
  BY <1>2, <1>6, <1>7 DEF Answers, d

\* What a host takes leaves whole what is behind it.
LEMMA ReadHostWhole ==
  ASSUME BInv, BInv', HostInv, [Next]_vars, Whole, Alone', NEW e \in Hosts, Reading(e)
  PROVE  Whole'
<1>1. PICK m : m = mStream[e]
  OBVIOUS
<1>2. PICK nr : nr = frame[e].nr
  OBVIOUS
<1> DEFINE s == conns[m].up
           t == Tail(s)
<1>3. e \in Ends /\ e # Client
  BY MemberTypes
<1>4. /\ m \in DOMAIN conns /\ reader[e] \in Attached /\ s # <<>> /\ In(e) = s
      /\ UNCHANGED <<mStream, piece, writer, frames>>
      /\ TakesLength(e) \/ TakesOpcode(e) \/ TakesBody(e)
      /\ DOMAIN conns' = DOMAIN conns /\ conns'[m].up = t
      /\ conns'[m].accepted = conns[m].accepted /\ conns'[m].told = conns[m].told
      /\ \A j \in DOMAIN conns : j # m => conns'[j] = conns[j]
  BY <1>1, <1>3, TakesOne DEF Took, In
<1>5. /\ conns[m].accepted
      /\ \A h \in Hosts : mStream[h] = m => h = e
      /\ \A j \in DOMAIN heard : heard[j].by # Client /\ heard[j].on = m => heard[j].by = e
  BY <1>1, <1>4, ReadersOwn
<1>6. /\ reader'[e] \in Attached => HeadOK(e)'
      /\ InOrder'
      /\ \A g \in Ends : g # e => reader'[g] = reader[g] /\ frame'[g] = frame[g]
      /\ \A g, n : g # e => (NewsTo(g, n)' <=> NewsTo(g, n))
  BY <1>3, TakenHead
<1>7. /\ Chain(conns'[m].down) /\ DownOf(m)'
      /\ conns'[m].down = conns[m].down
         \/ (/\ conns[m].down # <<>> => conns'[m].down # <<>>
                                        /\ conns'[m].down[1] = conns[m].down[1]
             /\ conns'[m].down # <<>>
             /\ conns[m].down = <<>> =>
                  /\ conns'[m].down[1].part = "length"
                  /\ mStream[Client] = m => NewsTo(Client, conns'[m].down[1].of.nr))
  BY <1>1, <1>2, AnswerWhole
<1>8. /\ s \in Seq(PieceRecords) /\ Chain(t)
      /\ t # <<>> => t[Len(t)] = s[Len(s)]
      /\ t = <<>> => s[Len(s)] = s[1]
      /\ \A k \in DOMAIN t : k + 1 \in DOMAIN s /\ t[k] = s[k + 1]
      /\ 1 \in DOMAIN s
  <2>1. s \in Seq(PieceRecords) /\ Chain(s)
    BY <1>4, ConnType DEF BInv, Whole, Chains
  <2> QED
    BY <1>4, <2>1, ChainTail, TailFacts
<1>9. reader \in [Ends -> LoopStates] /\ frame \in [Ends -> Frames]
  BY DEF BInv, TypeOK
<1>10. /\ heard' = heard \/ heard' = Append(heard, Heard(e))
       /\ heard' # heard => Heard(e) \in Messages(DOMAIN conns)
  BY <1>4 DEF TakesLength, TakesOpcode, TakesBody
<1>11. /\ DOMAIN heard \subseteq DOMAIN heard'
       /\ \A j \in DOMAIN heard : heard'[j] = heard[j]
       /\ \A j \in DOMAIN heard' : j \in DOMAIN heard \/ heard'[j] = Heard(e)
  BY <1>10, HeardGrows
<1>12. Heard(e).by = e /\ Heard(e).nr = nr
  BY <1>2 DEF Heard
<1> HIDE DEF s, t
<1>13. Chains' /\ Fresh'
  <2>1. Chains'
    <3>1. \A j \in DOMAIN conns : Chain(conns[j].up) /\ Chain(conns[j].down)
      BY DEF Whole, Chains
    <3> QED
      BY <1>4, <1>7, <1>8, <3>1 DEF Chains
  <2>2. Fresh'
    BY <1>4, <1>5 DEF Whole, Fresh
  <2> QED
    BY <2>1, <2>2
<1>14. ASSUME NEW g \in Ends, reader'[g] \in Attached PROVE HeadOK(g)'
  <2>1. CASE g = e
    BY <1>6, <1>14, <2>1
  <2>2. CASE g # e
    <3>1. /\ reader'[g] = reader[g] /\ frame'[g] = frame[g] /\ mStream'[g] = mStream[g]
          /\ mStream[g] \in DOMAIN conns /\ HeadOK(g) /\ (HasHeader(g)' <=> HasHeader(g))
      BY <1>4, <1>6, <1>14, <2>2, AttachedHas DEF Whole, Heads, HasHeader
    <3>2. \A n : NewsTo(g, n)' <=> NewsTo(g, n)
      BY <1>6, <2>2
    <3>3. CASE In(g)' = In(g)
      BY <3>1, <3>2, <3>3 DEF HeadOK
    <3>4. CASE In(g)' # In(g)
      <4>1. g = Client /\ mStream[g] = m
        BY <1>4, <1>5, <2>2, <3>1, <3>4 DEF In, Ends
      <4>2. In(g) = conns[m].down /\ In(g)' = conns'[m].down
        BY <1>4, <4>1 DEF In
      <4>3. CASE conns[m].down # <<>>
        BY <1>7, <3>1, <3>2, <4>2, <4>3 DEF HeadOK
      <4>4. CASE conns[m].down = <<>>
        <5>1. ~HasHeader(g)
          BY <4>1, <4>2, <4>4 DEF Whole, Downs
        <5> QED
          BY <1>7, <3>1, <3>2, <3>4, <4>1, <4>2, <4>4, <5>1 DEF HeadOK
      <4> QED
        BY <4>3, <4>4
    <3> QED
      BY <3>3, <3>4
  <2> QED
    BY <2>1, <2>2
<1>15. ASSUME NEW j \in DOMAIN conns', CanWrite(j)' PROVE TailOf(j)'
  <2>1. j \in DOMAIN conns /\ TailOf(j)
    BY <1>4, <1>15, CanWriteStep DEF Whole, Tails
  <2>2. \A h \in Hosts : At(h, j)' =>
          IF h = e THEN j = m
          ELSE /\ At(h, j) /\ reader'[h] = reader[h] /\ frame'[h] = frame[h] /\ j # m
    BY <1>1, <1>4, <1>5, <1>6, MemberTypes DEF At
  <2>3. CASE j # m
    <3>1. conns'[j].up = conns[j].up /\ conns'[j].accepted = conns[j].accepted
      BY <1>4, <2>1, <2>3
    <3>2. Complete(j) => Complete(j)'
      BY <2>2, <2>3, <3>1 DEF Complete, HasHeader
    <3>3. ASSUME NEW p, LastIs(j, p) PROVE LastIs(j, p)'
      BY <2>2, <2>3, <3>1, <3>3 DEF LastIs
    <3> QED
      BY <1>4, <2>1, <3>2, <3>3 DEF TailOf
  <2>4. CASE j = m
    <3>1. conns[j].up = s /\ conns'[j].up = t /\ conns'[j].accepted /\ s # <<>>
      BY <1>4, <1>5, <2>4 DEF s
    <3>2. Complete(j) => Complete(j)'
      <4>1. CASE t # <<>>
        BY <1>8, <3>1, <4>1 DEF Complete
      <4>2. CASE t = <<>>
        <5>1. ASSUME Complete(j) PROVE ~HasHeader(e)'
          <6>1. s[1].part = "body"
            BY <1>8, <3>1, <4>2, <5>1 DEF Complete
          <6>2. TakesBody(e)
            BY <1>4, <6>1 DEF TakesLength, TakesOpcode, Piece
          <6>3. reader'[e] \in {"poll", "read", "ended"}
            BY <1>3, <1>9, <6>2 DEF TakesBody
          <6> QED
            BY <6>3 DEF HasHeader
        <5> QED
          BY <2>2, <2>4, <3>1, <4>2, <5>1 DEF Complete
      <4> QED
        BY <4>1, <4>2
    <3>3. ASSUME NEW p, LastIs(j, p), p.part # "body" PROVE LastIs(j, p)'
      <4>1. s[Len(s)] = p
        BY <3>1, <3>3 DEF LastIs
      <4>2. CASE t # <<>>
        BY <1>8, <3>1, <4>1, <4>2 DEF LastIs
      <4>3. CASE t = <<>>
        <5>1. s[1] = p
          BY <1>8, <4>1, <4>3
        <5>2. reader'[e] = Expects(p) /\ frame'[e] = p.of
          <6>1. CASE TakesLength(e)
            BY <1>3, <1>4, <1>9, <5>1, <6>1 DEF TakesLength, Expects
          <6>2. CASE TakesOpcode(e)
            <7>1. frame[e].kind # "SHUTDOWN"
              <8>1. Message(In(e)[1].of)
                BY <1>3, <1>4, <1>8, InType
              <8>2. In(e)[1].of = frame[e]
                BY <6>2 DEF TakesOpcode, Piece
              <8> QED
                BY <8>1, <8>2 DEF Message
            <7>2. p = Piece("opcode", frame[e]) /\ reader'[e] = "body" /\ frame'[e] = frame[e]
              BY <1>3, <1>4, <1>9, <5>1, <6>2, <7>1 DEF TakesOpcode
            <7> QED
              BY <7>2 DEF Piece, Expects
          <6>3. CASE TakesBody(e)
            BY <1>4, <3>3, <5>1, <6>3 DEF TakesBody, Piece
          <6> QED
            BY <1>4, <6>1, <6>2, <6>3
        <5> QED
          BY <2>2, <2>4, <3>1, <4>3, <5>2 DEF LastIs
      <4> QED
        BY <4>2, <4>3
    <3>4. ASSUME NEW w \in Writers, writer[w] > 0
          PROVE  Piece(Parts[writer[w]], piece[w].frame).part # "body"
      <4>1. writer[w] \in {1, 2}
        BY <3>4, MemberTypes
      <4> QED
        BY <4>1 DEF Piece, Parts
    <3>5. ASSUME NEW w \in Writers, piece[w].to = j, writer[w] > 0
          PROVE  LastIs(j, Piece(Parts[writer[w]], piece[w].frame))'
      <4>1. PICK p : p = Piece(Parts[writer[w]], piece[w].frame)
        OBVIOUS
      <4>2. LastIs(j, p)
        BY <2>1, <3>5, <4>1 DEF TailOf
      <4>3. LastIs(j, p)'
        BY <3>3, <3>4, <3>5, <4>1, <4>2
      <4> QED
        BY <1>4, <4>1, <4>3
    <3> QED
      BY <1>4, <2>1, <3>2, <3>5 DEF TailOf
  <2> QED
    BY <2>3, <2>4
<1>16. Nrs'
  <2>1. UpNr(nr) /\ nr \in Nat
    BY <1>2, <1>3, MemberTypes DEF UpNr
  <2>2. UpNr(s[1].of.nr)
    BY <1>4, <1>8 DEF UpNr, s
  <2>3. \A h \in Hosts : frame'[h].nr \in {frame[h].nr, s[1].of.nr, 0}
    <3>1. frame'[e].nr \in {frame[e].nr, s[1].of.nr, 0}
      BY <1>3, <1>4, <1>9 DEF TakesLength, TakesOpcode, TakesBody, NoFrame
    <3> QED
      BY <1>6, <3>1, MemberTypes
  <2>4. ASSUME NEW n \in Nat, UpNr(n)'
        PROVE  UpNr(n) \/ (n = 0 /\ \E k \in Nat : UpNr(k))
    <3>1. ASSUME NEW j \in DOMAIN conns', NEW k \in DOMAIN conns'[j].up,
                 n = conns'[j].up[k].of.nr
          PROVE  UpNr(n)
      <4>1. CASE j = m
        <5>1. k + 1 \in DOMAIN conns[m].up /\ n = conns[m].up[k + 1].of.nr
          BY <1>4, <1>8, <3>1, <4>1 DEF s
        <5> QED
          BY <1>4, <5>1 DEF UpNr
      <4>2. CASE j # m
        BY <1>4, <3>1, <4>2 DEF UpNr
      <4> QED
        BY <4>1, <4>2
    <3>2. ASSUME NEW h \in Hosts, n = frame'[h].nr
          PROVE  UpNr(n) \/ n = 0
      <4>1. UpNr(frame[h].nr)
        BY DEF UpNr
      <4> QED
        BY <2>2, <2>3, <3>2, <4>1
    <3>3. ASSUME NEW j \in DOMAIN heard', heard'[j].by # Client, n = heard'[j].nr
          PROVE  UpNr(n)
      <4>1. CASE j \in DOMAIN heard
        BY <1>11, <3>3, <4>1 DEF UpNr
      <4>2. CASE heard'[j] = Heard(e)
        BY <1>12, <2>1, <3>3, <4>2
      <4> QED
        BY <1>11, <4>1, <4>2
    <3>4. UpNr(n) \/ n = 0
      BY <2>4, <3>1, <3>2, <3>3 DEF UpNr
    <3> QED
      BY <2>1, <3>4
  <2> QED
    BY <1>4, <2>4, NrsKept DEF Whole, Active
<1>17. Downs'
  <2>1. \A i, n : HeardBy(i, n) => HeardBy(i, n)'
    BY <1>11 DEF HeardBy
  <2>2. ASSUME NEW j \in DOMAIN conns' PROVE DownOf(j)'
    <3>1. CASE j = m
      BY <1>7, <3>1
    <3>2. CASE j # m
      <4>1. conns'[j] = conns[j] /\ DownOf(j)
        BY <1>4, <3>2 DEF Whole, Downs
      <4> QED
        BY <2>1, <4>1 DEF DownOf
    <3> QED
      BY <3>1, <3>2
  <2>3. ASSUME HasHeader(Client)' PROVE In(Client)' # <<>>
    <3>1. /\ HasHeader(Client) /\ mStream[Client] \in DOMAIN conns
          /\ mStream'[Client] = mStream[Client]
      BY <1>3, <1>4, <1>6, <2>3, AttachedHas, MemberTypes DEF HasHeader, Attached
    <3>2. conns[mStream[Client]].down # <<>>
      BY <3>1 DEF Whole, Downs, In
    <3> QED
      BY <1>4, <1>7, <3>1, <3>2 DEF In
  <2>4. ASSUME NEW j \in DOMAIN heard', heard'[j].by = Client
        PROVE  HeardBy(heard[j].on, heard[j].nr)'
    <3>1. j \in DOMAIN heard /\ heard'[j] = heard[j]
      BY <1>3, <1>11, <1>12, <2>4
    <3>2. PICK i, n : i = heard[j].on /\ n = heard[j].nr
      OBVIOUS
    <3>3. HeardBy(i, n)'
      BY <2>1, <2>4, <3>1, <3>2 DEF Whole, Downs
    <3>4. i = heard'[j].on /\ n = heard'[j].nr
      BY <3>1, <3>2
    <3> QED
      BY <3>3, <3>4
  <2> QED
    BY <2>2, <2>3, <2>4 DEF Downs
<1> QED
  BY <1>6, <1>13, <1>14, <1>15, <1>16, <1>17 DEF Whole, Heads, Tails

\* What the client takes leaves whole what is behind it.
LEMMA ReadClientWhole ==
  ASSUME BInv, BInv', HostInv, [Next]_vars, Whole, Alone', Reading(Client)
  PROVE  Whole'
<1>1. PICK m : m = mStream[Client]
  OBVIOUS
<1> DEFINE s == conns[m].down
           t == Tail(s)
<1>2. Client \in Ends /\ Client \notin Hosts
  BY MemberTypes
<1>3. /\ m \in DOMAIN conns /\ reader[Client] \in Attached /\ s # <<>> /\ In(Client) = s
      /\ UNCHANGED <<mStream, piece, writer, frames>>
      /\ TakesLength(Client) \/ TakesOpcode(Client) \/ TakesBody(Client)
      /\ DOMAIN conns' = DOMAIN conns /\ conns'[m].down = t
      /\ conns'[m].up = conns[m].up
      /\ conns'[m].accepted = conns[m].accepted /\ conns'[m].told = conns[m].told
      /\ \A j \in DOMAIN conns : j # m => conns'[j] = conns[j]
  BY <1>1, <1>2, TakesOne DEF Took, In
<1>4. /\ reader'[Client] \in Attached => HeadOK(Client)'
      /\ InOrder'
      /\ \A g \in Ends : g # Client => reader'[g] = reader[g] /\ frame'[g] = frame[g]
      /\ \A g, n : g # Client => (NewsTo(g, n)' <=> NewsTo(g, n))
  BY <1>2, TakenHead
<1>5. /\ s \in Seq(PieceRecords) /\ Chain(t) /\ Chain(s)
      /\ t # <<>> => t[Len(t)] = s[Len(s)]
      /\ t = <<>> => s[Len(s)] = s[1]
      /\ \A k \in DOMAIN t : k + 1 \in DOMAIN s /\ t[k] = s[k + 1]
      /\ 1 \in DOMAIN s
  <2>1. s \in Seq(PieceRecords) /\ Chain(s)
    BY <1>3, ConnType DEF BInv, Whole, Chains
  <2> QED
    BY <1>3, <2>1, ChainTail, TailFacts
<1>6. /\ \A k \in DOMAIN s : s[k].of.kind # "SHUTDOWN" => HeardBy(m, s[k].of.nr)
      /\ \/ s[Len(s)].part = "body"
         \/ s[Len(s)].part = "opcode" /\ s[Len(s)].of.kind = "SHUTDOWN" /\ conns[m].told
  BY <1>3 DEF Whole, Downs, DownOf
<1>7. /\ heard' = heard \/ (heard' = Append(heard, Heard(Client)) /\ TakesBody(Client))
      /\ heard' # heard => Heard(Client) \in Messages(DOMAIN conns)
  BY <1>3 DEF TakesLength, TakesOpcode, TakesBody
<1>8. /\ DOMAIN heard \subseteq DOMAIN heard'
      /\ \A j \in DOMAIN heard : heard'[j] = heard[j]
      /\ \A j \in DOMAIN heard' : j \in DOMAIN heard
                                  \/ (heard'[j] = Heard(Client) /\ TakesBody(Client))
  BY <1>7, HeardGrows
<1>9. Heard(Client).by = Client /\ Heard(Client).nr = frame[Client].nr /\ Heard(Client).on = m
  BY <1>1 DEF Heard
<1>10. reader \in [Ends -> LoopStates] /\ frame \in [Ends -> Frames]
  BY DEF BInv, TypeOK
<1> HIDE DEF s, t
<1>11. \A i, n : HeardBy(i, n)' <=> HeardBy(i, n)
  BY <1>8, <1>9 DEF HeardBy
<1>12. \A j \in DOMAIN conns :
         conns'[j].up = conns[j].up /\ conns'[j].accepted = conns[j].accepted
  BY <1>3
<1>13. \A h \in Hosts : reader'[h] = reader[h] /\ frame'[h] = frame[h] /\ h # Client /\ h \in Ends
  BY <1>2, <1>4, MemberTypes
<1>14. Chains' /\ Fresh'
  <2>1. Chains'
    <3>1. \A j \in DOMAIN conns : Chain(conns[j].up) /\ Chain(conns[j].down)
      BY DEF Whole, Chains
    <3> QED
      BY <1>3, <1>5, <3>1 DEF Chains
  <2>2. Fresh'
    BY <1>3, <1>12 DEF Whole, Fresh
  <2> QED
    BY <2>1, <2>2
<1>15. ASSUME NEW g \in Ends, reader'[g] \in Attached PROVE HeadOK(g)'
  <2>1. CASE g = Client
    BY <1>4, <1>15, <2>1
  <2>2. CASE g # Client
    <3>1. /\ reader'[g] = reader[g] /\ frame'[g] = frame[g] /\ mStream'[g] = mStream[g]
          /\ mStream[g] \in DOMAIN conns /\ HeadOK(g) /\ (HasHeader(g)' <=> HasHeader(g))
      BY <1>3, <1>4, <1>15, <2>2, AttachedHas DEF Whole, Heads, HasHeader
    <3>2. \A n : NewsTo(g, n)' <=> NewsTo(g, n)
      BY <1>4, <2>2
    <3>3. In(g)' = In(g)
      BY <1>12, <2>2, <3>1 DEF In
    <3> QED
      BY <3>1, <3>2, <3>3 DEF HeadOK
  <2> QED
    BY <2>1, <2>2
<1>16. ASSUME NEW j \in DOMAIN conns', CanWrite(j)' PROVE TailOf(j)'
  <2>1. j \in DOMAIN conns /\ TailOf(j)
    BY <1>3, <1>16, CanWriteStep DEF Whole, Tails
  <2>2. \A h \in Hosts : (At(h, j)' <=> At(h, j)) /\ (HasHeader(h)' <=> HasHeader(h))
    BY <1>3, <1>13 DEF At, HasHeader
  <2>3. Complete(j)' <=> Complete(j)
    BY <1>12, <2>1, <2>2 DEF Complete
  <2>4. \A p : LastIs(j, p)' <=> LastIs(j, p)
    BY <1>12, <1>13, <2>1, <2>2 DEF LastIs
  <2> QED
    BY <1>3, <2>1, <2>3, <2>4 DEF TailOf
<1>17. Nrs'
  <2>1. \A n : UpNr(n)' <=> UpNr(n)
    <3> SUFFICES ASSUME NEW n PROVE UpNr(n)' <=> UpNr(n)
      OBVIOUS
    <3>1. (\E i \in DOMAIN conns' : \E k \in DOMAIN conns'[i].up : n = conns'[i].up[k].of.nr)
          <=> (\E i \in DOMAIN conns : \E k \in DOMAIN conns[i].up : n = conns[i].up[k].of.nr)
      BY <1>3, <1>12
    <3>2. (\E h \in Hosts : n = frame'[h].nr) <=> (\E h \in Hosts : n = frame[h].nr)
      BY <1>13
    <3>3. (\E j \in DOMAIN heard' : heard'[j].by # Client /\ n = heard'[j].nr)
          <=> (\E j \in DOMAIN heard : heard[j].by # Client /\ n = heard[j].nr)
      BY <1>8, <1>9
    <3> QED
      BY <3>1, <3>2, <3>3 DEF UpNr
  <2> QED
    BY <1>3, <2>1, NrsKept DEF Whole, Active
<1>18. Downs'
  <2>1. DownOf(m)'
    <3>1. \A k \in DOMAIN t : t[k].of.kind # "SHUTDOWN" => HeardBy(m, t[k].of.nr)
      BY <1>5, <1>6
    <3>2. t # <<>> => \/ t[Len(t)].part = "body"
                      \/ t[Len(t)].part = "opcode" /\ t[Len(t)].of.kind = "SHUTDOWN"
                         /\ conns'[m].told
      BY <1>3, <1>5, <1>6
    <3>3. ASSUME NEW k \in DOMAIN t, t[k].of.kind # "SHUTDOWN"
          PROVE  \E j \in DOMAIN heard' : /\ heard'[j].by # Client /\ heard'[j].on = m
                                          /\ heard'[j].nr = t[k].of.nr
      <4>1. PICK j \in DOMAIN heard : /\ heard[j].by # Client /\ heard[j].on = m
                                      /\ heard[j].nr = t[k].of.nr
        BY <3>1, <3>3 DEF HeardBy
      <4> QED
        BY <1>8, <4>1
    <3> QED
      BY <1>3, <3>2, <3>3 DEF DownOf, HeardBy
  <2>2. ASSUME NEW j \in DOMAIN conns' PROVE DownOf(j)'
    <3>1. CASE j # m
      <4>1. conns'[j] = conns[j] /\ DownOf(j)
        BY <1>3, <3>1 DEF Whole, Downs
      <4> QED
        BY <1>11, <4>1 DEF DownOf
    <3> QED
      BY <2>1, <3>1
  <2>3. ASSUME HasHeader(Client)' PROVE In(Client)' # <<>>
    <3>1. In(Client)' = t
      BY <1>1, <1>3 DEF In
    <3>2. CASE TakesLength(Client)
      <4>1. s[1].part = "length"
        BY <1>3, <3>2 DEF TakesLength
      <4> QED
        BY <1>5, <1>6, <3>1, <4>1
    <3>3. CASE TakesOpcode(Client)
      <4>1. s[1].part = "opcode" /\ s[1].of = frame[Client]
        BY <1>3, <3>3 DEF TakesOpcode, Piece
      <4>2. frame[Client].kind # "SHUTDOWN"
        BY <1>2, <1>10, <2>3, <3>3 DEF TakesOpcode, HasHeader
      <4> QED
        BY <1>5, <1>6, <3>1, <4>1, <4>2
    <3>4. CASE TakesBody(Client)
      BY <1>2, <1>10, <2>3, <3>4 DEF TakesBody, HasHeader
    <3> QED
      BY <1>3, <3>2, <3>3, <3>4
  <2>4. ASSUME NEW j \in DOMAIN heard', heard'[j].by = Client
        PROVE  HeardBy(heard[j].on, heard[j].nr)'
    <3>1. PICK i, n : i = heard'[j].on /\ n = heard'[j].nr
      OBVIOUS
    <3>2. HeardBy(i, n)
      <4>1. CASE j \in DOMAIN heard
        BY <1>8, <2>4, <3>1, <4>1 DEF Whole, Downs
      <4>2. CASE heard'[j] = Heard(Client) /\ TakesBody(Client)
        <5>1. i = m /\ n = frame[Client].nr
          BY <1>9, <3>1, <4>2
        <5>2. s[1].of = frame[Client] /\ frame[Client].kind # "SHUTDOWN"
          BY <1>3, <4>2 DEF TakesBody, Piece, Message
        <5> QED
          BY <1>5, <1>6, <5>1, <5>2
      <4> QED
        BY <1>8, <2>4, <4>1, <4>2
    <3>3. HeardBy(i, n)'
      BY <1>11, <3>2
    <3> QED
      BY <3>1, <3>3
  <2> QED
    BY <2>2, <2>3, <2>4 DEF Downs
<1> QED
  BY <1>4, <1>14, <1>15, <1>16, <1>17, <1>18 DEF Whole, Heads, Tails

\* The first two of a sequence.
LEMMA FirstTwo ==
  ASSUME NEW S, NEW s \in Seq(S), Len(s) >= 2
  PROVE  SubSeq(s, 1, 2) = <<s[1], s[2]>>
<1>1. \A k \in 1..2 : s[k] \in S
  OBVIOUS
<1>2. /\ SubSeq(s, 1, 2) \in Seq(S) /\ Len(SubSeq(s, 1, 2)) = IF 1 <= 2 THEN 2 - 1 + 1 ELSE 0
      /\ \A k \in 1..(2 - 1 + 1) : SubSeq(s, 1, 2)[k] = s[1 + k - 1]
  BY <1>1, SubSeqProperties
<1>3. Len(SubSeq(s, 1, 2)) = 2 /\ \A k \in 1..2 : SubSeq(s, 1, 2)[k] = s[k]
  BY <1>2
<1>4. <<s[1], s[2]>> \in Seq(S) /\ Len(<<s[1], s[2]>>) = 2
      /\ \A k \in 1..2 : <<s[1], s[2]>>[k] = s[k]
  BY <1>1
<1>5. ASSUME NEW t \in Seq(S), NEW u \in Seq(S), Len(t) = 2, Len(u) = 2,
             \A k \in 1..2 : t[k] = s[k], \A k \in 1..2 : u[k] = s[k]
      PROVE  t = u
  <2>1. \A k \in 1..Len(t) : t[k] = u[k]
    BY <1>5
  <2> QED
    BY <1>5, <2>1, SeqEqual
<1> QED
  BY <1>2, <1>3, <1>4, <1>5

\* A native host finds the header that it expects.
LEMMA TakesHeader ==
  ASSUME BInv, Whole, NEW h \in Hosts, NativeReadHeader(h)
  PROVE  LET s == In(h) IN
         /\ s \in Seq(PieceRecords) /\ Len(s) >= 2 /\ Chain(s) /\ reader[h] = "read"
         /\ s[2] = Piece("opcode", s[1].of) /\ NewsTo(h, s[1].of.nr) /\ Message(s[1].of)
         /\ reader' = [reader EXCEPT ![h] = "body"] /\ frame' = [frame EXCEPT ![h] = s[1].of]
<1> DEFINE s == In(h)
           f == s[1].of
<1>1. h \in Ends /\ h # Client /\ reader[h] = "read" /\ reader[h] \in Attached
  BY MemberTypes DEF NativeReadHeader, Attached
<1>2. s \in Seq(PieceRecords) /\ Len(s) >= 2 /\ s # <<>>
  BY <1>1, InType DEF NativeReadHeader
<1>3. 1 \in DOMAIN s /\ 2 \in DOMAIN s /\ Len(s) \in Nat
  BY <1>2
<1>4. Message(f) /\ s[1] \in PieceRecords
  BY <1>1, <1>2, <1>3, InType
<1>5. Chain(s)
  <2>1. mStream[h] \in DOMAIN conns /\ s = conns[mStream[h]].up
    BY <1>1, AttachedHas DEF In
  <2> QED
    BY <2>1 DEF Whole, Chains
<1>6. s[1].part = "length" /\ NewsTo(h, f.nr)
  <2>1. HeadOK(h) /\ ~HasHeader(h)
    BY <1>1 DEF Whole, Heads, HasHeader
  <2> QED
    BY <1>2, <1>4, <2>1 DEF HeadOK, Message
<1>7. s[1] = Piece("length", f)
  BY <1>4, <1>6 DEF Piece, PieceRecords
<1>8. s[2] = Piece("opcode", f)
  <2>1. Continues(s[1], s[2])
    BY <1>2, <1>3, <1>5 DEF Chain
  <2> QED
    BY <1>6, <2>1 DEF Continues
<1>9. SubSeq(s, 1, 2) = SubSeq(Pieces(f), 1, 2)
  <2>1. Pieces(f) = <<Piece("length", f), Piece("opcode", f), Piece("body", f)>>
    BY <1>4, PiecesType DEF Message
  <2>2. Pieces(f) \in Seq(PieceRecords) /\ Len(Pieces(f)) >= 2
    BY <1>4, <2>1, PiecesType DEF Message
  <2>3. SubSeq(Pieces(f), 1, 2) = <<Piece("length", f), Piece("opcode", f)>>
    <3>1. Pieces(f)[1] = Piece("length", f) /\ Pieces(f)[2] = Piece("opcode", f)
      BY <2>1
    <3>2. SubSeq(Pieces(f), 1, 2) = <<Pieces(f)[1], Pieces(f)[2]>>
      BY <2>2, FirstTwo
    <3> QED
      BY <3>1, <3>2
  <2>4. SubSeq(s, 1, 2) = <<s[1], s[2]>>
    BY <1>2, FirstTwo
  <2> QED
    BY <1>7, <1>8, <2>3, <2>4
<1> HIDE DEF s
<1>10. reader' = [reader EXCEPT ![h] = "body"] /\ frame' = [frame EXCEPT ![h] = f]
  BY <1>9 DEF NativeReadHeader, GoTo, s
<1> QED
  BY <1>1, <1>2, <1>4, <1>5, <1>6, <1>8, <1>10 DEF s

\* What a native host takes leaves whole what is behind it.
LEMMA HeaderWhole ==
  ASSUME BInv, BInv', HostInv, [Next]_vars, Whole, Alone',
         NEW e \in Hosts, NativeReadHeader(e)
  PROVE  Whole'
<1>1. PICK m : m = mStream[e]
  OBVIOUS
<1> DEFINE s == conns[m].up
           t == SubSeq(s, 3, Len(s))
           f == s[1].of
<1>2. e \in Ends /\ e # Client /\ UNCHANGED <<mStream, piece, writer, frames, heard>>
  BY MemberTypes DEF NativeReadHeader, writeVars
<1>3. /\ m \in DOMAIN conns /\ In(e) = s
      /\ DOMAIN conns' = DOMAIN conns /\ conns'[m].up = t
      /\ \A j \in DOMAIN conns : /\ conns'[j].down = conns[j].down
                                 /\ conns'[j].told = conns[j].told
                                 /\ conns'[j].accepted = conns[j].accepted
                                 /\ j # m => conns'[j].up = conns[j].up
  BY <1>1, HeaderStep
<1>4. /\ s \in Seq(PieceRecords) /\ Len(s) >= 2 /\ Chain(s) /\ reader[e] = "read"
      /\ s[2] = Piece("opcode", f) /\ NewsTo(e, f.nr) /\ Message(f)
      /\ reader' = [reader EXCEPT ![e] = "body"] /\ frame' = [frame EXCEPT ![e] = f]
  BY <1>3, TakesHeader
<1>5. /\ Chain(t)
      /\ t # <<>> => Continues(s[2], t[1]) /\ t[Len(t)] = s[Len(s)]
      /\ t = <<>> => s[Len(s)] = s[2]
      /\ \A k \in DOMAIN t : k + 2 \in DOMAIN s /\ t[k] = s[k + 2]
      /\ 1 \in DOMAIN s /\ s # <<>>
  <2>1. 1 \in DOMAIN s /\ s # <<>>
    BY <1>4
  <2> QED
    BY <1>4, <2>1, ChainSkip
<1>6. conns[m].accepted /\ \A h \in Hosts : mStream[h] = m => h = e
  BY <1>1, <1>4, ReadersOwn DEF Attached
<1>7. /\ reader'[e] = "body" /\ frame'[e] = f
      /\ \A g \in Ends : g # e => reader'[g] = reader[g] /\ frame'[g] = frame[g]
  BY <1>2, <1>4 DEF BInv, TypeOK
<1>8. \A g, n : NewsTo(g, n)' <=> NewsTo(g, n)
  BY <1>2 DEF NewsTo
<1>9. conns[m].up = s
  OBVIOUS
<1> HIDE DEF s, t, f
<1>10. Chains' /\ Fresh'
  <2>1. Chains'
    <3>1. \A j \in DOMAIN conns : Chain(conns[j].up) /\ Chain(conns[j].down)
      BY DEF Whole, Chains
    <3> QED
      BY <1>3, <1>5, <3>1 DEF Chains
  <2>2. Fresh'
    BY <1>3, <1>6 DEF Whole, Fresh
  <2> QED
    BY <2>1, <2>2
<1>11. ASSUME NEW g \in Ends, reader'[g] \in Attached PROVE HeadOK(g)'
  <2>1. CASE g = e
    <3>1. In(g)' = t
      BY <1>1, <1>2, <1>3, <2>1 DEF In
    <3>2. t # <<>> => t[1] = Piece("body", f)
      BY <1>4, <1>5 DEF Continues, Piece, Message
    <3> QED
      BY <1>4, <1>7, <1>8, <2>1, <3>1, <3>2 DEF HeadOK, HasHeader
  <2>2. CASE g # e
    <3>1. /\ reader'[g] = reader[g] /\ frame'[g] = frame[g] /\ mStream'[g] = mStream[g]
          /\ mStream[g] \in DOMAIN conns /\ HeadOK(g) /\ (HasHeader(g)' <=> HasHeader(g))
      BY <1>2, <1>7, <1>11, <2>2, AttachedHas DEF Whole, Heads, HasHeader
    <3>2. In(g)' = In(g)
      BY <1>3, <1>6, <2>2, <3>1 DEF In, Ends
    <3> QED
      BY <1>8, <3>1, <3>2 DEF HeadOK
  <2> QED
    BY <2>1, <2>2
<1>12. ASSUME NEW j \in DOMAIN conns', CanWrite(j)' PROVE TailOf(j)'
  <2>1. j \in DOMAIN conns /\ TailOf(j)
    BY <1>3, <1>12, CanWriteStep DEF Whole, Tails
  <2>2. \A h \in Hosts : At(h, j)' =>
          IF h = e THEN j = m
          ELSE /\ At(h, j) /\ reader'[h] = reader[h] /\ frame'[h] = frame[h] /\ j # m
    BY <1>1, <1>2, <1>6, <1>7, MemberTypes DEF At
  <2>3. CASE j # m
    <3>1. conns'[j].up = conns[j].up /\ conns'[j].accepted = conns[j].accepted
      BY <1>3, <2>1, <2>3
    <3>2. Complete(j) => Complete(j)'
      BY <2>2, <2>3, <3>1 DEF Complete, HasHeader
    <3>3. ASSUME NEW p, LastIs(j, p) PROVE LastIs(j, p)'
      BY <2>2, <2>3, <3>1, <3>3 DEF LastIs
    <3> QED
      BY <1>2, <2>1, <3>2, <3>3 DEF TailOf
  <2>4. CASE j = m
    <3>1. conns[j].up = s /\ conns'[j].up = t /\ conns'[j].accepted /\ s # <<>>
      BY <1>3, <1>5, <1>6, <1>9, <2>4
    <3>2. s[2].part = "opcode" /\ s[2].of = f
      BY <1>4 DEF Piece
    <3>3. Complete(j) => Complete(j)'
      <4>1. Complete(j) => s[Len(s)].part = "body"
        BY <3>1 DEF Complete
      <4>2. t # <<>> /\ s[Len(s)].part = "body" => Complete(j)'
        BY <1>5, <3>1 DEF Complete
      <4> QED
        BY <1>5, <3>2, <4>1, <4>2
    <3>4. ASSUME NEW p, LastIs(j, p) PROVE LastIs(j, p)'
      <4>1. s[Len(s)] = p
        BY <3>1, <3>4 DEF LastIs
      <4>2. CASE t # <<>>
        BY <1>5, <3>1, <4>1, <4>2 DEF LastIs
      <4>3. CASE t = <<>>
        <5>1. reader'[e] = Expects(p) /\ frame'[e] = p.of
          BY <1>5, <1>7, <3>2, <4>1, <4>3 DEF Expects
        <5> QED
          BY <2>2, <2>4, <3>1, <4>3, <5>1 DEF LastIs
      <4> QED
        BY <4>2, <4>3
    <3> QED
      BY <1>2, <2>1, <3>3, <3>4 DEF TailOf
  <2> QED
    BY <2>3, <2>4
<1>13. Nrs'
  <2>1. UpNr(f.nr)
    BY <1>3, <1>5, <1>9 DEF UpNr, f
  <2>2. ASSUME NEW n \in Nat, UpNr(n)' PROVE UpNr(n)
    <3>1. ASSUME NEW j \in DOMAIN conns', NEW k \in DOMAIN conns'[j].up,
                 n = conns'[j].up[k].of.nr
          PROVE  UpNr(n)
      <4>1. CASE j = m
        <5>1. k + 2 \in DOMAIN conns[m].up /\ n = conns[m].up[k + 2].of.nr
          BY <1>3, <1>5, <1>9, <3>1, <4>1
        <5> QED
          BY <1>3, <5>1 DEF UpNr
      <4>2. CASE j # m
        BY <1>3, <3>1, <4>2 DEF UpNr
      <4> QED
        BY <4>1, <4>2
    <3>2. ASSUME NEW h \in Hosts, n = frame'[h].nr PROVE UpNr(n)
      <4>1. UpNr(frame[h].nr) /\ h \in Ends
        BY MemberTypes DEF UpNr
      <4> QED
        BY <1>7, <2>1, <3>2, <4>1
    <3>3. ASSUME NEW j \in DOMAIN heard', heard'[j].by # Client, n = heard'[j].nr
          PROVE  UpNr(n)
      BY <1>2, <3>3 DEF UpNr
    <3> QED
      BY <2>2, <3>1, <3>2, <3>3 DEF UpNr
  <2> QED
    BY <1>2, <2>2, NrsKept DEF Whole, Active
<1>14. Downs' /\ InOrder'
  <2>1. \A i, n : HeardBy(i, n)' <=> HeardBy(i, n)
    BY <1>2 DEF HeardBy
  <2>2. \A j \in DOMAIN conns' : DownOf(j)'
    BY <1>3, <2>1 DEF DownOf, Whole, Downs
  <2>3. HasHeader(Client)' => In(Client)' # <<>>
    <3>1. /\ Client \in Ends /\ mStream'[Client] = mStream[Client]
          /\ reader'[Client] = reader[Client]
      BY <1>2, <1>7, MemberTypes
    <3>2. HasHeader(Client) => mStream[Client] \in DOMAIN conns
      BY <3>1, AttachedHas DEF HasHeader, Attached
    <3> QED
      BY <1>3, <3>1, <3>2 DEF HasHeader, In, Whole, Downs
  <2>4. Downs'
    BY <1>2, <2>1, <2>2, <2>3 DEF Whole, Downs
  <2>5. InOrder'
    BY <1>2, <1>7 DEF Whole, InOrder
  <2> QED
    BY <2>4, <2>5
<1> QED
  BY <1>10, <1>11, <1>12, <1>13, <1>14 DEF Whole, Heads, Tails

\* The SHUTDOWN of a host that is destroyed follows whole frames.
LEMMA DestroyWhole ==
  ASSUME BInv, BInv', HostInv, [Next]_vars, Whole, Alone',
         NEW e \in NativeHosts, NativeDestroyed(e)
  PROVE  Whole'
<1>1. PICK m : m = mStream[e]
  OBVIOUS
<1>2. /\ e \in Hosts /\ e \in Ends /\ e # Client
      /\ UNCHANGED <<mStream, piece, writer, frames, heard, frame>>
      /\ reader' = [reader EXCEPT ![e] = "none"] /\ server[e] = "open"
  BY MemberTypes DEF NativeDestroyed, writeVars, GoTo, Hosts
<1>3. /\ reader'[e] = "none"
      /\ \A g \in Ends : g # e => reader'[g] = reader[g]
  BY <1>2 DEF BInv, TypeOK
<1>4. PICK t : t = IF ClientEnd(m) THEN Pieces(Frame(e, "SHUTDOWN", 0)) ELSE <<>>
  OBVIOUS
<1> DEFINE d == conns[m].down
<1>5. \/ UNCHANGED conns /\ m = None
      \/ /\ m \in DOMAIN conns /\ DOMAIN conns' = DOMAIN conns
         /\ conns'[m].up = conns[m].up /\ conns'[m].down = d \o t
         /\ conns'[m].accepted = conns[m].accepted /\ conns'[m].told
         /\ \A j \in DOMAIN conns : j # m => conns'[j] = conns[j]
  BY <1>1, <1>2, <1>4, DestroyedStep
<1>6. \A j \in DOMAIN conns : conns'[j].up = conns[j].up /\ conns'[j].accepted = conns[j].accepted
  BY <1>5
<1>7. DOMAIN conns' = DOMAIN conns
  BY <1>5
<1>8. ASSUME m # None
      PROVE  /\ m \in DOMAIN conns
             /\ Chain(conns'[m].down) /\ DownOf(m)'
             /\ conns'[m].down = d
                \/ (/\ d # <<>> => conns'[m].down # <<>> /\ conns'[m].down[1] = d[1]
                    /\ d = <<>> => /\ conns'[m].down[1].part = "length"
                                   /\ conns'[m].down[1].of.kind = "SHUTDOWN")
  <2>1. /\ m \in DOMAIN conns /\ conns'[m].down = d \o t /\ conns'[m].told
    BY <1>5, <1>8, MemberTypes
  <2>2. d \in Seq(PieceRecords) /\ Chain(d) /\ DownOf(m) /\ \A k \in DOMAIN d : RealPiece(d[k])
    BY <2>1, ConnType DEF BInv, PieceInv, StreamsOK, DownOK, Whole, Chains, Downs
  <2>3. conns[m].name = e /\ ~conns[m].told
    BY <1>1, <1>2, <1>8, <2>1 DEF HostInv
  <2>4. \A i, n : HeardBy(i, n)' <=> HeardBy(i, n)
    BY <1>2 DEF HeardBy
  <2>5. CASE t = <<>>
    <3>1. d \o t = d
      BY <2>2, <2>5, ConcatEmptySeq
    <3>2. DownOf(m)'
      BY <2>1, <2>2, <2>3, <2>4, <3>1 DEF DownOf
    <3> QED
      BY <2>1, <2>2, <3>1, <3>2
  <2>6. CASE t # <<>>
    <3>1. PICK f : f = Frame(e, "SHUTDOWN", 0)
      OBVIOUS
    <3>2. t = Pieces(f) /\ Real(f) /\ f.kind = "SHUTDOWN" /\ ~Message(f)
      BY <1>4, <2>6, <3>1, FrameType DEF Message
    <3>3. /\ t \in Seq(PieceRecords) /\ Chain(t) /\ t[1] = Piece("length", f)
          /\ t[Len(t)] = Piece("opcode", f) /\ \A k \in DOMAIN t : t[k].of = f
      BY <3>2, ChainPieces
    <3>4. /\ Piece("length", f).part = "length" /\ Piece("length", f).of = f
          /\ Piece("opcode", f).part = "opcode" /\ Piece("opcode", f).of = f
      BY DEF Piece
    <3>5. d # <<>> => Continues(d[Len(d)], t[1])
      <4>1. d # <<>> => d[Len(d)].part = "body"
        BY <2>2, <2>3 DEF DownOf
      <4> QED
        BY <3>2, <3>3, <3>4, <4>1 DEF Continues
    <3> HIDE DEF d
    <3>6. /\ Chain(d \o t) /\ d \o t # <<>>
          /\ d # <<>> => (d \o t)[1] = d[1]
          /\ d = <<>> => d \o t = t
          /\ (d \o t)[Len(d \o t)] = t[Len(t)]
          /\ \A k \in DOMAIN (d \o t) : \/ \E n \in DOMAIN d : (d \o t)[k] = d[n]
                                        \/ \E n \in DOMAIN t : (d \o t)[k] = t[n]
      BY <2>2, <2>6, <3>3, <3>5, ChainConcat
    <3>7. DownOf(m)'
      <4>1. ASSUME NEW k \in DOMAIN (d \o t), (d \o t)[k].of.kind # "SHUTDOWN",
                   NEW x, x = (d \o t)[k].of.nr
            PROVE  HeardBy(m, x)'
        <5>1. \A n \in DOMAIN d : d[n].of.kind # "SHUTDOWN" => HeardBy(m, d[n].of.nr)
          BY <2>2 DEF DownOf, d
        <5>2. \A n \in DOMAIN t : t[n].of.kind = "SHUTDOWN"
          BY <3>2, <3>3
        <5>3. PICK n \in DOMAIN d : (d \o t)[k] = d[n]
          BY <3>6, <4>1, <5>2
        <5> QED
          BY <2>4, <4>1, <5>1, <5>3
      <4> QED
        BY <2>1, <3>2, <3>3, <3>4, <3>6, <4>1 DEF DownOf
    <3> QED
      BY <2>1, <3>2, <3>3, <3>4, <3>6, <3>7
  <2> QED
    BY <2>5, <2>6
<1> HIDE DEF d
<1>9. conns[m].down = d
  BY DEF d
<1>10. \A j \in DOMAIN conns : j # m \/ m = None => conns'[j] = conns[j]
  BY <1>5, MemberTypes
<1>11. Chains' /\ Fresh'
  <2>1. Chains'
    <3>1. \A j \in DOMAIN conns : Chain(conns[j].up) /\ Chain(conns[j].down)
      BY DEF Whole, Chains
    <3> QED
      BY <1>6, <1>7, <1>8, <1>10, <3>1 DEF Chains
  <2>2. Fresh'
    BY <1>6, <1>7 DEF Whole, Fresh
  <2> QED
    BY <2>1, <2>2
<1>12. \A g, n : NewsTo(g, n)' <=> NewsTo(g, n)
  BY <1>2 DEF NewsTo
<1>13. ASSUME NEW g \in Ends, reader'[g] \in Attached PROVE HeadOK(g)'
  <2>1. /\ g # e /\ reader'[g] = reader[g] /\ frame'[g] = frame[g] /\ mStream'[g] = mStream[g]
        /\ mStream[g] \in DOMAIN conns /\ HeadOK(g) /\ (HasHeader(g)' <=> HasHeader(g))
    <3>1. g # e
      BY <1>3, <1>13 DEF Attached
    <3> QED
      BY <1>2, <1>3, <1>13, <3>1, AttachedHas DEF Whole, Heads, HasHeader
  <2>2. CASE In(g)' = In(g)
    BY <1>12, <2>1, <2>2 DEF HeadOK
  <2>3. CASE In(g)' # In(g)
    <3>1. g = Client /\ mStream[g] = m /\ m # None
      BY <1>6, <1>10, <2>1, <2>3 DEF In
    <3>2. In(g) = d /\ In(g)' = conns'[m].down
      BY <1>2, <1>9, <3>1 DEF In
    <3>3. CASE d # <<>>
      BY <1>8, <1>12, <2>1, <3>1, <3>2, <3>3 DEF HeadOK
    <3>4. CASE d = <<>>
      <4>1. ~HasHeader(g)
        BY <3>1, <3>2, <3>4 DEF Whole, Downs
      <4> QED
        BY <1>8, <2>1, <2>3, <3>1, <3>2, <3>4, <4>1 DEF HeadOK
    <3> QED
      BY <3>3, <3>4
  <2> QED
    BY <2>2, <2>3
<1>14. ASSUME NEW j \in DOMAIN conns', CanWrite(j)' PROVE TailOf(j)'
  <2>1. j \in DOMAIN conns /\ TailOf(j) /\ conns'[j].up = conns[j].up
        /\ conns'[j].accepted = conns[j].accepted
    BY <1>6, <1>7, <1>14, CanWriteStep DEF Whole, Tails
  <2>2. \A h \in Hosts : At(h, j)' => At(h, j) /\ reader'[h] = reader[h] /\ frame'[h] = frame[h]
    BY <1>2, <1>3, MemberTypes DEF At, Attached
  <2>3. Complete(j) => Complete(j)'
    BY <2>1, <2>2 DEF Complete, HasHeader
  <2>4. ASSUME NEW p, LastIs(j, p) PROVE LastIs(j, p)'
    BY <2>1, <2>2, <2>4 DEF LastIs
  <2> QED
    BY <1>2, <2>1, <2>3, <2>4 DEF TailOf
<1>15. Nrs'
  <2>1. \A n \in Nat : UpNr(n)' => UpNr(n)
    BY <1>2, <1>6, <1>7 DEF UpNr
  <2> QED
    BY <1>2, <2>1, NrsKept DEF Whole, Active
<1>16. Downs' /\ InOrder'
  <2>1. \A i, n : HeardBy(i, n)' <=> HeardBy(i, n)
    BY <1>2 DEF HeardBy
  <2>2. ASSUME NEW j \in DOMAIN conns' PROVE DownOf(j)'
    <3>1. CASE j = m /\ m # None
      BY <1>8, <3>1
    <3>2. CASE ~(j = m /\ m # None)
      <4>1. conns'[j] = conns[j] /\ DownOf(j)
        BY <1>7, <1>10, <3>2 DEF Whole, Downs
      <4> QED
        BY <2>1, <4>1 DEF DownOf
    <3> QED
      BY <3>1, <3>2
  <2>3. ASSUME HasHeader(Client)' PROVE In(Client)' # <<>>
    <3>1. /\ HasHeader(Client) /\ mStream[Client] \in DOMAIN conns
          /\ mStream'[Client] = mStream[Client]
      BY <1>2, <1>3, <2>3, AttachedHas, MemberTypes DEF HasHeader, Attached
    <3>2. conns[mStream[Client]].down # <<>>
      BY <3>1 DEF Whole, Downs, In
    <3> QED
      BY <1>8, <1>9, <1>10, <3>1, <3>2 DEF In
  <2>4. Downs'
    BY <1>2, <2>1, <2>2, <2>3 DEF Whole, Downs
  <2>5. InOrder'
    BY <1>2, <1>3 DEF Whole, InOrder
  <2> QED
    BY <2>4, <2>5
<1> QED
  BY <1>11, <1>13, <1>14, <1>15, <1>16 DEF Whole, Heads, Tails

\* A step in which no stream changes is quiet, if a loop at most goes where it does
\* not read, or goes on between its reads.
LEMMA QuietLoop ==
  ASSUME BInv, [Next]_vars, UNCHANGED <<mStream, frame, heard, piece, writer, frames>>,
         \A i \in DOMAIN conns :
           /\ conns'[i].up = conns[i].up /\ conns'[i].down = conns[i].down
           /\ conns'[i].accepted = conns[i].accepted
           /\ conns[i].told => conns'[i].told,
         \/ UNCHANGED reader
         \/ \E e \in Ends, s \in LoopStates :
              /\ reader' = [reader EXCEPT ![e] = s]
              /\ s \notin {"lost", "opcode", "body"}
              /\ s \in Attached => reader[e] \in Attached /\ ~HasHeader(e)
  PROVE  Quiet
<1>1. reader \in [Ends -> LoopStates]
  BY DEF BInv, TypeOK
<1>2. ASSUME NEW e \in Ends
      PROVE  \/ reader'[e] = reader[e]
             \/ /\ reader'[e] \notin {"lost", "opcode", "body"}
                /\ reader'[e] \in Attached => reader[e] \in Attached /\ ~HasHeader(e)
  BY <1>1
<1>3. \A e \in Ends : reader'[e] \in Attached => QuietEnd(e)
  BY <1>2 DEF QuietEnd, HasHeader
<1>4. \A i \in DOMAIN conns : QuietConn(i)
  BY DEF QuietConn
<1>5. \A i \in DOMAIN conns' \ DOMAIN conns : conns'[i].up = <<>> /\ conns'[i].down = <<>>
  BY AddedStep
<1>6. \A e \in Ends : reader'[e] = "lost" => reader[e] = "lost"
  BY <1>2
<1> QED
  BY <1>3, <1>4, <1>5, <1>6 DEF Quiet

\* The threads that neither read nor write.
LEMMA OwnersQuiet ==
  ASSUME BInv, [Next]_vars,
         \/ \E n \in Hosts : ConnectAgain(n) \/ Disconnect(n) \/ InitializeFails(n)
         \/ \E h \in JavaHosts : HostOpens(h) \/ HostCloses(h) \/ HostDisconnects(h)
         \/ \E h \in NativeHosts : NativeOpens(h)
         \/ Finished \/ UNCHANGED vars
  PROVE  Quiet
<1> HIDE DEF Quiet
<1>1. UNCHANGED <<mStream, frame, heard, piece, writer, frames>>
  BY DEF ConnectAgain, Disconnect, InitializeFails, HostOpens, HostCloses, HostDisconnects,
         HostWakes, HostForgets, NativeOpens, Finished, vars, readVars, writeVars
<1>2. \/ UNCHANGED reader
      \/ \E e \in Ends, s \in LoopStates :
           /\ reader' = [reader EXCEPT ![e] = s]
           /\ s \notin {"lost", "opcode", "body"}
           /\ s \in Attached => reader[e] \in Attached /\ ~HasHeader(e)
  <2>1. ASSUME NEW h \in Hosts, HostOpens(h) \/ NativeOpens(h)
        PROVE  \E s \in {"test", "accept"} : reader' = [reader EXCEPT ![h] = s]
    BY <2>1 DEF HostOpens, NativeOpens, GoTo
  <2>2. ASSUME ~\E h \in Hosts : HostOpens(h) \/ NativeOpens(h)
        PROVE  UNCHANGED reader
    BY <2>2 DEF ConnectAgain, Disconnect, InitializeFails, HostCloses, HostDisconnects,
                HostWakes, HostForgets, Finished, vars, readVars, Hosts
  <2>3. {"test", "accept"} \subseteq LoopStates \ (Attached \cup {"lost", "opcode", "body"})
    BY DEF LoopStates, Attached
  <2> QED
    BY <2>1, <2>2, <2>3, MemberTypes
<1>3. \A i \in DOMAIN conns :
        /\ conns'[i].up = conns[i].up /\ conns'[i].down = conns[i].down
        /\ conns'[i].accepted = conns[i].accepted
        /\ conns[i].told => conns'[i].told
  <2>1. CASE UNCHANGED conns
    BY <2>1
  <2>2. ASSUME NEW n \in Hosts, Disconnect(n), ~UNCHANGED conns
        PROVE  \A i \in DOMAIN conns :
                 /\ conns'[i].up = conns[i].up /\ conns'[i].down = conns[i].down
                 /\ conns'[i].accepted = conns[i].accepted
                 /\ conns[i].told => conns'[i].told
    <3> DEFINE m == mStream[Client]
               r == [conns[m] EXCEPT !.client = FALSE]
    <3>1. conns' = [conns EXCEPT ![m] = r] /\ m # None
      BY <2>2 DEF Disconnect
    <3>2. m \in DOMAIN conns
      BY <3>1, MemberTypes
    <3>3. /\ r \in ConnRecords /\ r.up = conns[m].up /\ r.down = conns[m].down
          /\ r.accepted = conns[m].accepted /\ r.told = conns[m].told
      BY <3>2, ConnType DEF ConnRecords, BInv
    <3> HIDE DEF r, m
    <3> QED
      BY <3>1, <3>2, <3>3, ConnChange DEF BInv
  <2>3. ASSUME NEW h \in Hosts, HostWakes(h)
        PROVE  \A i \in DOMAIN conns : conns'[i] = conns[i]
    BY <2>3, WakeType
  <2> QED
    BY <2>1, <2>2, <2>3 DEF ConnectAgain, InitializeFails, HostOpens, HostCloses,
                            HostDisconnects, HostForgets, NativeOpens, Finished, vars, Hosts
<1> QED
  BY <1>1, <1>2, <1>3, QuietLoop

\* The loops, where they neither take from a stream nor accept.
LEMMA LoopsQuiet ==
  ASSUME BInv, [Next]_vars,
         \/ ReadThrows \/ \E e \in Ends : ReadEnds(e)
         \/ \E h \in JavaHosts : HostTest(h) \/ HostCalls(h) \/ HostChecks(h) \/ Poll(h)
  PROVE  Quiet
<1> HIDE DEF Quiet
<1>1. UNCHANGED <<mStream, frame, heard, piece, writer, frames, conns>>
  BY DEF ReadThrows, ReadEnds, HostTest, HostCalls, HostChecks, Poll, readVars, writeVars
<1> DEFINE K == \E e \in Ends, s \in LoopStates :
                  /\ reader' = [reader EXCEPT ![e] = s]
                  /\ s \notin {"lost", "opcode", "body"}
                  /\ s \in Attached => reader[e] \in Attached /\ ~HasHeader(e)
<1>2. ASSUME NEW e \in Ends, NEW s \in {"ended", "call", "test", "accept", "crashed"},
             reader' = [reader EXCEPT ![e] = s]
      PROVE  K
  BY <1>2 DEF LoopStates, Attached
<1>3. ASSUME NEW e \in Ends, NEW s \in {"address", "poll"}, reader[e] \in {"check", "address"},
             reader' = [reader EXCEPT ![e] = s]
      PROVE  K
  BY <1>3 DEF LoopStates, Attached, HasHeader
<1> HIDE DEF K
<1>4. ASSUME ReadThrows PROVE K
  BY <1>2, <1>4, MemberTypes DEF ReadThrows, GoTo
<1>5. ASSUME NEW e \in Ends, ReadEnds(e) PROVE K
  BY <1>2, <1>5 DEF ReadEnds, GoTo
<1>6. ASSUME NEW h \in JavaHosts, HostTest(h) \/ HostCalls(h) \/ HostChecks(h) \/ Poll(h)
      PROVE  K
  <2>1. h \in Hosts /\ h \in Ends
    BY MemberTypes DEF Hosts
  <2>2. CASE HostTest(h) \/ Poll(h)
    <3>1. \E s \in {"ended", "call"} : reader' = [reader EXCEPT ![h] = s]
      BY <2>2 DEF HostTest, Poll, GoTo
    <3> QED
      BY <1>2, <2>1, <3>1
  <2>3. CASE HostCalls(h)
    <3>1. server[h] \in {"open", "closed", "null"}
      BY <2>1, <2>3 DEF BInv, LoopInv, HostCalls
    <3>2. \E s \in {"crashed", "test", "accept"} : reader' = [reader EXCEPT ![h] = s]
      BY <2>3, <3>1 DEF HostCalls, GoTo
    <3> QED
      BY <1>2, <2>1, <3>2
  <2>4. CASE HostChecks(h)
    <3>1. reader[h] \in {"check", "address"}
      BY <2>4 DEF HostChecks, NullAt
    <3>2. \/ \E s \in {"ended", "crashed"} : reader' = [reader EXCEPT ![h] = s]
          \/ \E s \in {"address", "poll"} : reader' = [reader EXCEPT ![h] = s]
      BY <2>4, <3>1 DEF HostChecks, NullAt, NextCheck, GoTo
    <3> QED
      BY <1>2, <1>3, <2>1, <3>1, <3>2
  <2> QED
    BY <1>6, <2>2, <2>3, <2>4
<1>7. K
  BY <1>4, <1>5, <1>6
<1> QED
  BY <1>1, <1>7, QuietLoop DEF K

\* A new connection is empty, and the client begins between two frames.
LEMMA InitializeQuiet ==
  ASSUME BInv, [Next]_vars, NEW n \in Hosts, Initialize(n)
  PROVE  Quiet
<1>1. /\ UNCHANGED <<heard, piece, writer, frames>>
      /\ mStream' = [mStream EXCEPT ![Client] = Len(conns) + 1]
      /\ reader' = [reader EXCEPT ![Client] = "read"]
      /\ frame' = [frame EXCEPT ![Client] = NoFrame]
      /\ conns' = Append(conns, NewConn(n))
  BY DEF Initialize, writeVars
<1>2. /\ DOMAIN conns' = DOMAIN conns \cup {Len(conns) + 1}
      /\ \A j \in DOMAIN conns : conns'[j] = conns[j]
      /\ conns'[Len(conns) + 1].up = <<>> /\ conns'[Len(conns) + 1].down = <<>>
      /\ Len(conns) + 1 \notin DOMAIN conns
  <2>1. NewConn(n) \in ConnRecords /\ NewConn(n).up = <<>> /\ NewConn(n).down = <<>>
    BY NewConnType
  <2>2. Len(conns) + 1 \notin DOMAIN conns
    BY DEF BInv, TypeOK
  <2> QED
    BY <1>1, <2>1, <2>2, ConnAdd DEF BInv
<1>3. /\ reader'[Client] = "read" /\ mStream'[Client] = Len(conns) + 1
      /\ \A e \in Ends : e # Client => /\ reader'[e] = reader[e] /\ mStream'[e] = mStream[e]
                                       /\ frame'[e] = frame[e]
  BY <1>1, MemberTypes DEF BInv, TypeOK
<1>4. \A i \in DOMAIN conns : QuietConn(i)
  BY <1>2 DEF QuietConn
<1>5. \A e \in Ends : reader'[e] \in Attached => QuietEnd(e)
  BY <1>2, <1>3 DEF QuietEnd, HasHeader
<1>6. \A h \in Hosts : frame'[h].nr \in {frame[h].nr, 0}
  BY <1>3, MemberTypes
<1>7. \A e \in Ends : reader'[e] = "lost" => reader[e] = "lost"
  BY <1>3
<1> QED
  BY <1>1, <1>2, <1>4, <1>5, <1>6, <1>7 DEF Quiet

\* What is lost with a host cannot be written to or read.
LEMMA DiesQuiet ==
  ASSUME BInv, HostInv, [Next]_vars, NEW h \in JavaHosts, HostDies(h)
  PROVE  Quiet
<1>1. h \in Hosts /\ h \in Ends /\ h # Client
  BY MemberTypes DEF Hosts
<1>2. /\ UNCHANGED <<heard, piece, writer, frames>>
      /\ mStream' = [mStream EXCEPT ![h] = None]
      /\ reader' = [reader EXCEPT ![h] = "none"]
      /\ frame' = [frame EXCEPT ![h] = NoFrame]
  BY DEF HostDies, writeVars, GoTo
<1>3. /\ reader'[h] = "none" /\ mStream'[h] = None /\ frame'[h] = NoFrame
      /\ \A e \in Ends : e # h => /\ reader'[e] = reader[e] /\ mStream'[e] = mStream[e]
                                  /\ frame'[e] = frame[e]
  BY <1>1, <1>2 DEF BInv, TypeOK
<1>4. /\ DOMAIN conns' = DOMAIN conns
      /\ \A i \in DOMAIN conns :
           IF conns[i].name = h
           THEN /\ conns'[i].up = <<>> /\ ~conns'[i].host /\ conns'[i].accepted
                /\ conns'[i].down = conns[i].down /\ conns'[i].told = conns[i].told
           ELSE conns'[i] = conns[i]
  BY <1>1, DiesStep
<1>5. ASSUME NEW i \in DOMAIN conns PROVE QuietConn(i)
  <2>1. CASE conns[i].name = h
    <3>1. ~CanWrite(i)'
      BY <1>4, <2>1 DEF CanWrite, HostEnd
    <3>2. ASSUME NEW g \in Hosts, At(g, i)' PROVE FALSE
      <4>1. mStream'[g] = i /\ g # h /\ g \in Ends
        BY <1>3, <3>2, MemberTypes DEF At, Attached
      <4>2. mStream[g] = i /\ i # None
        BY <1>3, <4>1, MemberTypes
      <4> QED
        BY <2>1, <4>1, <4>2 DEF HostInv
    <3> QED
      BY <1>4, <2>1, <3>1, <3>2 DEF QuietConn
  <2>2. CASE conns[i].name # h
    BY <1>4, <2>2 DEF QuietConn
  <2> QED
    BY <2>1, <2>2
<1>6. \A e \in Ends : reader'[e] \in Attached => QuietEnd(e)
  BY <1>3 DEF QuietEnd, Attached
<1>7. \A g \in Hosts : frame'[g].nr \in {frame[g].nr, 0}
  BY <1>3, MemberTypes DEF NoFrame
<1>8. \A e \in Ends : reader'[e] = "lost" => reader[e] = "lost"
  BY <1>3
<1> QED
  BY <1>2, <1>4, <1>5, <1>6, <1>7, <1>8 DEF Quiet

\* A native host that leaves a connection changes none of its streams.
LEMMA ClosesQuiet ==
  ASSUME BInv, [Next]_vars, NEW h \in NativeHosts, NativeCloses(h)
  PROVE  Quiet
<1>1. h \in Hosts /\ h \in Ends /\ h # Client
  BY MemberTypes DEF Hosts
<1>2. /\ UNCHANGED <<heard, piece, writer, frames, frame>>
      /\ mStream' = [mStream EXCEPT ![h] = None]
      /\ reader' = [reader EXCEPT ![h] = "accept"]
  BY DEF NativeCloses, writeVars, GoTo
<1>3. /\ reader'[h] = "accept"
      /\ \A e \in Ends : e # h => reader'[e] = reader[e] /\ mStream'[e] = mStream[e]
  BY <1>1, <1>2 DEF BInv, TypeOK
<1>4. /\ DOMAIN conns' = DOMAIN conns
      /\ \A i \in DOMAIN conns :
           /\ conns'[i].up = conns[i].up /\ conns'[i].down = conns[i].down
           /\ conns'[i].accepted = conns[i].accepted /\ conns'[i].told = conns[i].told
  <2> DEFINE m == mStream[h]
             r == [conns[m] EXCEPT !.host = FALSE]
  <2>1. m \in DOMAIN conns
    BY <1>1, AttachedHas DEF NativeCloses, Attached
  <2>2. conns' = [conns EXCEPT ![m] = r]
    BY DEF NativeCloses
  <2>3. /\ r \in ConnRecords /\ r.up = conns[m].up /\ r.down = conns[m].down
        /\ r.accepted = conns[m].accepted /\ r.told = conns[m].told
    BY <2>1, ConnType DEF ConnRecords, BInv
  <2> HIDE DEF r, m
  <2> QED
    BY <2>1, <2>2, <2>3, ConnChange DEF BInv
<1>5. \A i \in DOMAIN conns : QuietConn(i)
  BY <1>4 DEF QuietConn
<1>6. \A e \in Ends : reader'[e] \in Attached => QuietEnd(e)
  BY <1>2, <1>3 DEF QuietEnd, Attached
<1>7. \A e \in Ends : reader'[e] = "lost" => reader[e] = "lost"
  BY <1>3
<1> QED
  BY <1>2, <1>4, <1>5, <1>6, <1>7 DEF Quiet

\* Every step leaves everything whole.
LEMMA WholeStep ==
  ASSUME BInv, HostInv, [Next]_vars, Clean', Whole
  PROVE  Whole'
<1>1. BInv' /\ Alone'
  BY BaseStep, AloneStep DEF Whole
<1>2. Quiet => Whole'
  BY <1>1, QuietStep
<1>3. ASSUME NEW n \in Hosts, ConnectAgain(n) \/ Disconnect(n) \/ InitializeFails(n)
                              \/ Initialize(n)
      PROVE  Whole'
  BY <1>2, <1>3, OwnersQuiet, InitializeQuiet
<1>4. ASSUME NEW w \in Writers, WritePiece(w) \/ \E k \in Kinds : BeginWrite(w, k)
      PROVE  Whole'
  BY <1>1, <1>4, WriteWhole, BeginWhole
<1>5. ASSUME ReadThrows \/ Finished \/ UNCHANGED vars PROVE Whole'
  BY <1>2, <1>5, OwnersQuiet, LoopsQuiet
<1>6. ASSUME ReaderStep(Client) PROVE Whole'
  BY <1>1, <1>2, <1>6, ReadClientWhole, LoopsQuiet, MemberTypes DEF ReaderStep, Reading
<1>7. ASSUME NEW h \in JavaHosts, JavaLoop(h) PROVE Whole'
  <2>1. h \in Hosts /\ h \in Ends
    BY MemberTypes DEF Hosts
  <2>2. CASE HostTest(h) \/ HostCalls(h) \/ HostChecks(h) \/ Poll(h) \/ ReadEnds(h)
    BY <1>2, <2>1, <2>2, LoopsQuiet
  <2>3. CASE HostAccepts(h)
    BY <1>1, <2>1, <2>3, AcceptWhole
  <2>4. CASE Reading(h)
    BY <1>1, <2>1, <2>4, ReadHostWhole
  <2> QED
    BY <1>7, <2>2, <2>3, <2>4 DEF JavaLoop, ReaderStep, Reading
<1>8. ASSUME NEW h \in JavaHosts,
             HostOpens(h) \/ HostCloses(h) \/ HostDisconnects(h) \/ HostDies(h)
      PROVE  Whole'
  BY <1>2, <1>8, OwnersQuiet, DiesQuiet
<1>9. ASSUME NEW h \in NativeHosts, NativeOpens(h) \/ NativeLoop(h) \/ NativeDestroyed(h)
      PROVE  Whole'
  <2>1. h \in Hosts /\ h \in Ends
    BY MemberTypes DEF Hosts
  <2>2. CASE NativeOpens(h)
    BY <1>2, <2>2, OwnersQuiet
  <2>3. CASE NativeAccepts(h)
    BY <1>1, <2>1, <2>3, AcceptWhole
  <2>4. CASE NativeReadHeader(h)
    BY <1>1, <2>1, <2>4, HeaderWhole
  <2>5. CASE ReadBody(h)
    BY <1>1, <2>1, <2>5, ReadHostWhole DEF Reading
  <2>6. CASE NativeCloses(h)
    BY <1>2, <2>6, ClosesQuiet
  <2>7. CASE NativeDestroyed(h)
    BY <1>1, <2>7, DestroyWhole
  <2> QED
    BY <1>9, <2>2, <2>3, <2>4, <2>5, <2>6, <2>7 DEF NativeLoop
<1> QED
  BY <1>3, <1>4, <1>5, <1>6, <1>7, <1>8, <1>9 DEF Next

\* Nothing is written yet.
LEMMA WholeInit == Init => IInv
<1> SUFFICES ASSUME Init PROVE IInv
  OBVIOUS
<1>1. BInv
  BY BaseInit
<1>2. conns = <<>> /\ heard = <<>> /\ frames = 0
  BY DEF Init
<1>3. DOMAIN conns = {} /\ DOMAIN heard = {}
  BY <1>2
<1>4. /\ \A e \in Ends : mStream[e] = None /\ reader[e] = "none" /\ frame[e].nr = 0
      /\ \A w \in Writers : piece[w].to = None
      /\ Hosts \subseteq Ends /\ Client \in Ends
  BY DEF Init, NoFrame, Ends
<1>5. HostInv
  BY <1>3, <1>4 DEF HostInv
<1>6. Alone /\ Chains /\ Heads /\ Fresh /\ Tails
  BY <1>3, <1>4 DEF Alone, Active, Chains, Heads, Attached, Fresh, Tails
<1>7. Nrs
  <2>1. \A n \in Nat : UpNr(n) => n <= frames
    BY <1>2, <1>3, <1>4 DEF UpNr
  <2> QED
    BY <1>4, <2>1 DEF Nrs, Active
<1>8. Downs /\ InOrder
  BY <1>3, <1>4 DEF Downs, HasHeader, InOrder
<1> QED
  BY <1>1, <1>5, <1>6, <1>7, <1>8 DEF IInv, Whole

\* The three writes of a frame arrive as one, and each end hears the frames of a
\* connection in order, while no two threads write at once and the coded stream is
\* that of the connection.
THEOREM FramesArriveWholeHolds == Spec => []FramesArriveWhole
<1>1. Init => IInv
  BY WholeInit
<1>2. IInv /\ [Next]_vars => IInv'
  <2> SUFFICES ASSUME IInv, [Next]_vars PROVE IInv'
    OBVIOUS
  <2>1. BInv' /\ HostInv'
    BY BaseStep, HostStep DEF IInv
  <2>2. Clean' => Whole'
    BY CleanStep, WholeStep DEF IInv
  <2> QED
    BY <2>1, <2>2 DEF IInv
<1>3. IInv => FramesArriveWhole
  BY DEF IInv, Whole, InOrder, Clean, FramesArriveWhole
<1> QED
  BY <1>1, <1>2, <1>3, PTL DEF Spec
=============================================================================
