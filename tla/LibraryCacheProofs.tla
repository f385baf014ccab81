-------------------------- MODULE LibraryCacheProofs --------------------------
(***************************************************************************)
(* Theorems about LibraryCache: its types, that the lists calls return and *)
(* the maps they leave behind are complete, that what a call for one       *)
(* entity looks up is there, and that the batches of songs are the         *)
(* server's.  For any library, any number of callers and calls, and any    *)
(* order of the server's answers.                                          *)
(*                                                                         *)
(* That nothing is missing in the end is not inductive: it follows from    *)
(* what is on its way (InFlight).  A thread has one task or answer on its  *)
(* way at most, and spins for it (OneTaskInv), so when it goes on all that *)
(* it asked for has been delivered.  As long as no answer is cut short     *)
(* (CompleteInv): what a call wants is in the map or on its way (RefInv,   *)
(* ListInv, PageInv), and what an object of the map does not list yet some *)
(* call still owes it (AlbumInv, ArtistInv).  Between the two steps of an  *)
(* entity the first one has left its trace (HalfInv), and the objects in   *)
(* the callers' lists are those of the map (ObjectInv).                    *)
(***************************************************************************)
EXTENDS LibraryCache, TLAPS, FiniteSetTheorems, SequenceTheorems

-----------------------------------------------------------------------------
(* The server's answers. *)

\* A sequence of all the elements of a set has every one of them.
LEMMA SeqsCover ==
  ASSUME NEW S, IsFiniteSet(S), NEW q \in SetToSeqs(S)
  PROVE  q \in Seq(S) /\ Range(q) = S
<1>1. PICK n : n = Cardinality(S)
  OBVIOUS
<1>2. n \in Nat
  BY <1>1, FS_CardinalityType
<1>3. q \in [1..n -> S] /\ \A i, j \in 1..n : i # j => q[i] # q[j]
  BY <1>1 DEF SetToSeqs
<1>4. q \in Seq(S)
  BY <1>2, <1>3
<1>5. q \in Injection(1..n, S)
  BY <1>3 DEF Injection, IsInjective
<1>6. Cardinality(1..n) = Cardinality(S)
  BY <1>1, <1>2, FS_Interval
<1>7. q \in Surjection(1..n, S)
  BY <1>5, <1>6, FS_Injection
<1> QED
  BY <1>3, <1>4, <1>7 DEF Surjection, Range

\* So has an answer: its entities are those of the kind that was asked for, and it
\* has every one that the task asked for.
Asked(t) ==
  CASE t.kind = "albums" -> Albums
    [] t.kind = "artists" -> Artists
    [] t.kind = "albumSongs" -> SongsOf(t.of)
    [] t.kind = "songs" -> Range(ServerPage(t.of))
    [] OTHER -> {t.of}

\* A page has the songs at its positions of the list, and no others.
LEMMA PageOfList ==
  ASSUME NEW offset \in Nat
  PROVE  /\ ServerPage(offset) \in Seq(Songs) /\ SongList \in Seq(Songs)
         /\ \A i \in 1..Len(SongList) : offset < i /\ i <= offset + Limit =>
              SongList[i] \in Range(ServerPage(offset))
         /\ Range(ServerPage(offset)) \subseteq Range(SongList)
<1>1. SongList \in Seq(Songs)
  BY LibraryAssumption, SeqsCover
<1>2. PICK n, m : /\ n = Len(SongList)
                  /\ m = IF offset + Limit < n THEN offset + Limit ELSE n
  OBVIOUS
<1>3. n \in Nat /\ m \in Nat /\ m <= n /\ Limit \in Nat
  BY <1>1, <1>2, LibraryBoundAssumption
<1>4. PICK q : q = SubSeq(SongList, offset + 1, m)
  OBVIOUS
<1>5. \A i \in offset + 1..m : SongList[i] \in Songs
  <2>1. \A i \in offset + 1..m : i \in 1..Len(SongList)
    BY <1>2, <1>3
  <2> QED
    BY <1>1, <2>1
<1>6. /\ q \in Seq(Songs) /\ Len(q) = IF offset + 1 <= m THEN m - offset ELSE 0
      /\ \A i \in 1..m - offset : q[i] = SongList[offset + i]
  <2>1. /\ q \in Seq(Songs)
        /\ Len(q) = IF offset + 1 <= m THEN m - (offset + 1) + 1 ELSE 0
        /\ \A i \in 1..m - (offset + 1) + 1 : q[i] = SongList[(offset + 1) + i - 1]
    BY <1>3, <1>4, <1>5, SubSeqProperties
  <2>2. /\ m - (offset + 1) + 1 = m - offset
        /\ \A i \in 1..m - offset : (offset + 1) + i - 1 = offset + i
    BY <1>3
  <2> QED
    BY <2>1, <2>2
<1>7. DOMAIN q = 1..Len(q) /\ DOMAIN SongList = 1..n
  BY <1>1, <1>2, <1>6
<1>8. ASSUME NEW i \in 1..n, offset < i, i <= offset + Limit
      PROVE  SongList[i] \in Range(q)
  <2>1. i - offset \in 1..m - offset /\ i - offset \in 1..Len(q) /\ offset + (i - offset) = i
    BY <1>2, <1>3, <1>6, <1>8
  <2>2. q[i - offset] = SongList[i]
    BY <1>6, <2>1
  <2> QED
    BY <1>7, <2>1, <2>2 DEF Range
<1>9. ASSUME NEW x \in Range(q) PROVE x \in Range(SongList)
  <2>1. PICK i \in 1..Len(q) : q[i] = x
    BY <1>7, <1>9 DEF Range
  <2>2. i \in 1..m - offset /\ offset + i \in 1..n
    BY <1>3, <1>6
  <2>3. SongList[offset + i] = x
    BY <1>6, <2>1, <2>2
  <2> QED
    BY <1>7, <2>2, <2>3 DEF Range
<1>10. ServerPage(offset) = q
  BY <1>2, <1>4 DEF ServerPage
<1> QED
  BY <1>1, <1>2, <1>6, <1>8, <1>9, <1>10

LEMMA AnswersCover ==
  ASSUME NEW t \in Tasks, t.kind # "play", NEW ids \in Answers(t), NEW null \in BOOLEAN
  PROVE  /\ [by |-> t.by, kind |-> t.kind, null |-> null, ids |-> ids] \in Replies
         /\ \A x \in Asked(t) : x \in Range(ids)
<1>1. CASE t.kind = "albums"
  <2>1. ids \in Seq(Albums) /\ Range(ids) = Albums
    BY <1>1, LibraryAssumption, SeqsCover DEF Answers
  <2> QED
    BY <1>1, <2>1 DEF Tasks, Replies, Asked
<1>2. CASE t.kind = "artists"
  <2>1. ids \in Seq(Artists) /\ Range(ids) = Artists
    BY <1>2, LibraryAssumption, SeqsCover DEF Answers
  <2> QED
    BY <1>2, <2>1 DEF Tasks, Replies, Asked
<1>3. CASE t.kind = "songs"
  <2>1. t.of \in Nat /\ ids \in {ServerPage(t.of), SongList}
    BY <1>3 DEF Tasks, Answers
  <2>2. ids \in Seq(Songs) /\ Range(ServerPage(t.of)) \subseteq Range(ids)
    BY <2>1, PageOfList
  <2> QED
    BY <1>3, <2>2 DEF Tasks, Replies, Asked
<1>4. CASE t.kind = "albumSongs"
  <2>1. IsFiniteSet(SongsOf(t.of))
    BY LibraryAssumption, FS_Subset DEF SongsOf
  <2>2. ids \in Seq(SongsOf(t.of)) /\ Range(ids) = SongsOf(t.of)
    BY <1>4, <2>1, SeqsCover DEF Answers
  <2>3. ids \in Seq(Songs)
    BY <2>2 DEF SongsOf
  <2> QED
    BY <1>4, <2>2, <2>3 DEF Tasks, Replies, Asked
<1>5. CASE t.kind \in {"album", "artist", "song"}
  <2>1. ids = <<t.of>> /\ Asked(t) = {t.of}
    BY <1>5 DEF Answers, Asked
  <2>2. t.of \in Range(ids)
    BY <2>1 DEF Range
  <2> QED
    BY <1>5, <2>1, <2>2 DEF Tasks, Replies
<1> QED
  BY <1>1, <1>2, <1>3, <1>4, <1>5 DEF Tasks

\* A failed request has no entities.
LEMMA NullIsReply ==
  ASSUME NEW t \in Tasks, t.kind # "play"
  PROVE  [by |-> t.by, kind |-> t.kind, null |-> TRUE, ids |-> <<>>] \in Replies
  BY DEF Tasks, Replies

-----------------------------------------------------------------------------
(* Types. *)

\* Who fetches details has taken a list of albums or one of artists; who has found what
\* it wants asked for one entity.
CallInv ==
  \A c \in Callers :
    /\ pc[c] = "details" => \/ call[c].kind = "albums" /\ todo[c] \subseteq Albums
                            \/ call[c].kind = "artists" /\ todo[c] \subseteq Artists
    /\ pc[c] = "found" => call[c].kind \in {"album", "artist", "song"}

TInv == TypeOK /\ CallInv

LEMMA QueueTypes ==
  /\ \A t \in Tasks : /\ t.by \in Callers
                      /\ t.kind \in {"albums", "artists", "songs", "album",
                                     "albumSongs", "artist", "song", "play"}
  /\ \A m \in Replies : /\ m.by \in Callers /\ m.null \in BOOLEAN
                        /\ m.kind \in {"albums", "artists", "songs", "album",
                                       "albumSongs", "artist", "song"}
                        /\ m.ids \in Seq(Albums) \cup Seq(Artists) \cup Seq(Songs)
                        /\ m.kind \in {"albums", "album"} => m.ids \in Seq(Albums)
                        /\ m.kind \in {"artists", "artist"} => m.ids \in Seq(Artists)
                        /\ m.kind \in {"songs", "song", "albumSongs"} =>
                             m.ids \in Seq(Songs)
  BY DEF Tasks, Replies

LEMMA HeadTail ==
  ASSUME NEW S, NEW s \in Seq(S), s # <<>>
  PROVE  /\ Head(s) \in S /\ Tail(s) \in Seq(S) /\ Head(s) = s[1]
         /\ Len(s) \in Nat \ {0} /\ Len(Tail(s)) = Len(s) - 1
         /\ \A i \in 1..Len(s) - 1 : Tail(s)[i] = s[i + 1]
<1>1. /\ Head(s) \in S /\ Tail(s) \in Seq(S) /\ Len(Tail(s)) = Len(s) - 1
      /\ \A i \in 1..Len(Tail(s)) : Tail(s)[i] = s[i + 1]
  BY HeadTailProperties
<1>2. Head(s) = s[1] /\ Len(s) \in Nat \ {0}
  OBVIOUS
<1> QED
  BY <1>1, <1>2

\* What the main thread works on.
LEMMA HandlesTypes ==
  ASSUME TypeOK, NEW h, NEW done, Handles(h, done)
  PROVE  /\ Head(looper) \in Replies /\ Handler(Head(looper).kind) = h
         /\ h = "albumsCallback" => /\ Head(looper).kind \in {"albums", "album"}
                                    /\ This \in Albums
         /\ h = "artistsCallback" => /\ Head(looper).kind \in {"artists", "artist"}
                                     /\ This \in Artists
         /\ h = "getSongsCallback" =>
              /\ Head(looper).kind \in {"songs", "song", "albumSongs"}
              /\ This \in Songs
<1>1. /\ Head(looper) \in Replies /\ Head(looper).ids # <<>>
      /\ Handler(Head(looper).kind) = h
  <2>1. looper \in Seq(Replies) /\ looper # <<>>
    BY DEF TypeOK, Handles
  <2> QED
    BY <2>1, HeadTail DEF Handles
<1>2. h = "albumsCallback" => Head(looper).kind \in {"albums", "album"}
  BY <1>1, QueueTypes DEF Handler
<1>3. h = "artistsCallback" => Head(looper).kind \in {"artists", "artist"}
  BY <1>1, QueueTypes DEF Handler
<1>4. h = "getSongsCallback" => Head(looper).kind \in {"songs", "song", "albumSongs"}
  BY <1>1, QueueTypes DEF Handler
<1>5. h = "albumsCallback" => This \in Albums
  BY <1>1, <1>2, QueueTypes, HeadTail DEF This
<1>6. h = "artistsCallback" => This \in Artists
  BY <1>1, <1>3, QueueTypes, HeadTail DEF This
<1>7. h = "getSongsCallback" => This \in Songs
  BY <1>1, <1>4, QueueTypes, HeadTail DEF This
<1> QED
  BY <1>1, <1>2, <1>3, <1>4, <1>5, <1>6, <1>7

\* The first answer loses its first entity, or all that it has left.
LEMMA FewerIds ==
  ASSUME TypeOK, looper # <<>>, Head(looper).ids # <<>>, NEW ids,
         ids = Tail(Head(looper).ids) \/ ids = <<>>,
         looper' = [looper EXCEPT ![1].ids = ids]
  PROVE  /\ looper' \in Seq(Replies) /\ looper' # <<>> /\ Len(looper') = Len(looper)
         /\ looper'[1].by = looper[1].by /\ looper'[1].kind = looper[1].kind
         /\ looper'[1].null = looper[1].null /\ looper'[1].ids = ids
         /\ \A i \in 1..Len(looper) : i # 1 => looper'[i] = looper[i]
<1>1. /\ looper \in Seq(Replies) /\ Len(looper) \in Nat \ {0} /\ 1 \in 1..Len(looper)
      /\ Head(looper) = looper[1] /\ looper[1] \in Replies
  BY HeadTail DEF TypeOK
<1>2. [looper[1] EXCEPT !.ids = ids] \in Replies
  <2>1. ids \in Seq(Albums) \cup Seq(Artists) \cup Seq(Songs)
        /\ (looper[1].ids \in Seq(Albums) => ids \in Seq(Albums))
        /\ (looper[1].ids \in Seq(Artists) => ids \in Seq(Artists))
        /\ (looper[1].ids \in Seq(Songs) => ids \in Seq(Songs))
    <3>1. ASSUME NEW S, looper[1].ids \in Seq(S) PROVE ids \in Seq(S)
      <4>1. CASE ids = <<>>
        BY <4>1
      <4>2. CASE ids = Tail(looper[1].ids)
        <5>1. looper[1].ids # <<>>
          BY <1>1
        <5> QED
          BY <3>1, <4>2, <5>1, HeadTail
      <4> QED
        BY <1>1, <4>1, <4>2
    <3> QED
      BY <1>1, <3>1, QueueTypes
  <2> QED
    BY <1>1, <2>1 DEF Replies
<1>3. looper' = [looper EXCEPT ![1] = [looper[1] EXCEPT !.ids = ids]]
  OBVIOUS
<1>4. looper' \in Seq(Replies) /\ Len(looper') = Len(looper)
  BY <1>1, <1>2, <1>3
<1>5. /\ looper'[1] = [looper[1] EXCEPT !.ids = ids]
      /\ \A i \in 1..Len(looper) : i # 1 => looper'[i] = looper[i]
  BY <1>1, <1>3
<1>6. /\ looper'[1].by = looper[1].by /\ looper'[1].kind = looper[1].kind
      /\ looper'[1].null = looper[1].null /\ looper'[1].ids = ids
  BY <1>1, <1>5 DEF Replies
<1> QED
  BY <1>1, <1>4, <1>5, <1>6

\* A call that begins.
LEMMA BeginTypes ==
  ASSUME TypeOK, NEW c \in Callers, NEW k, NEW id, Begin(c, k, id),
         [kind |-> k, of |-> id] \in Calls
  PROVE  /\ calls' \in 0..MaxCalls /\ call' \in [Callers -> Calls]
         /\ call'[c].kind = k /\ call'[c].of = id
         /\ \A d \in Callers : d # c => call'[d] = call[d]
<1>1. calls' \in 0..MaxCalls
  BY LibraryBoundAssumption DEF TypeOK, Begin
<1>2. call' = [call EXCEPT ![c] = [kind |-> k, of |-> id]] /\ call \in [Callers -> Calls]
  BY DEF TypeOK, Begin
<1> QED
  BY <1>1, <1>2

\* A task that is submitted.
LEMMA SubmitTypes ==
  ASSUME TypeOK, NEW c \in Callers, NEW k, NEW id, Submit(c, k, id),
         [by |-> c, kind |-> k, of |-> id] \in Tasks
  PROVE  /\ executor' \in Seq(Tasks) /\ Len(executor) \in Nat
         /\ Len(executor') = Len(executor) + 1
         /\ executor'[Len(executor) + 1] = [by |-> c, kind |-> k, of |-> id]
         /\ \A i \in 1..Len(executor) : executor'[i] = executor[i]
         /\ status' \in [Callers -> {"PENDING", "RUNNING", "FINISHED"}]
         /\ status'[c] = "RUNNING"
         /\ \A d \in Callers : d # c => status'[d] = status[d]
<1>1. executor \in Seq(Tasks) /\ executor' = Append(executor, [by |-> c, kind |-> k, of |-> id])
  BY DEF TypeOK, Submit
<1>2. /\ executor' \in Seq(Tasks) /\ Len(executor) \in Nat
      /\ Len(executor') = Len(executor) + 1
      /\ executor'[Len(executor) + 1] = [by |-> c, kind |-> k, of |-> id]
      /\ \A i \in 1..Len(executor) : executor'[i] = executor[i]
  BY <1>1, AppendProperties
<1>3. /\ status \in [Callers -> {"PENDING", "RUNNING", "FINISHED"}]
      /\ status' = [status EXCEPT ![c] = "RUNNING"]
  BY DEF TypeOK, Submit
<1> QED
  BY <1>2, <1>3

\* A detail that is fetched is of the list.
LEMMA DetailTypes ==
  ASSUME TInv, NEW c \in Callers, pc[c] = "details", NEW id \in todo[c]
  PROVE  /\ [by |-> c, kind |-> DetailKind(c), of |-> id] \in Tasks
         /\ \/ call[c].kind = "albums" /\ DetailKind(c) = "albumSongs" /\ id \in Albums
            \/ call[c].kind = "artists" /\ DetailKind(c) = "artist" /\ id \in Artists
<1>1. \/ call[c].kind = "albums" /\ DetailKind(c) = "albumSongs" /\ id \in Albums
      \/ call[c].kind = "artists" /\ DetailKind(c) = "artist" /\ id \in Artists
  BY DEF TInv, CallInv, DetailKind
<1> QED
  BY <1>1 DEF Tasks

\* Which calls a request is for.
Requested(k, id) == \/ k \in {"albums", "artists"} /\ id = NoId
                    \/ k = "album" /\ id \in Albums
                    \/ k = "artist" /\ id \in Artists
                    \/ k = "song" /\ id \in Songs

LEMMA RequestedTypes ==
  ASSUME NEW c \in Callers, NEW k, NEW id, Requested(k, id)
  PROVE  [kind |-> k, of |-> id] \in Calls /\ [by |-> c, kind |-> k, of |-> id] \in Tasks
  BY DEF Requested, Calls, Tasks

\* The steps of a binder thread, by what they are.
LEMMA CallerSteps ==
  ASSUME NEW c \in Callers, CallerNext(c)
  PROVE  \/ \E k, id : Requested(k, id) /\ (Request(c, k, id) \/ Hit(c, k, id))
         \/ RequestPage(c) \/ Play(c)
         \/ TakeAlbums(c) \/ TakeArtists(c) \/ FetchDetails(c) \/ Return(c)
<1>1. CASE \E k \in {"albums", "artists"} : Request(c, k, NoId)
  BY <1>1 DEF Requested
<1>2. CASE \E id \in Albums : Request(c, "album", id) \/ Hit(c, "album", id)
  BY <1>2 DEF Requested
<1>3. CASE \E id \in Artists : Request(c, "artist", id) \/ Hit(c, "artist", id)
  BY <1>3 DEF Requested
<1>4. CASE \E id \in Songs : Request(c, "song", id) \/ Hit(c, "song", id)
  BY <1>4 DEF Requested
<1> QED
  BY <1>1, <1>2, <1>3, <1>4 DEF CallerNext

LEMMA PageTypes ==
  ASSUME TypeOK, NEW c \in Callers
  PROVE  /\ page[c] * Limit \in Nat
         /\ [kind |-> "songs", of |-> page[c] * Limit] \in Calls
         /\ [by |-> c, kind |-> "songs", of |-> page[c] * Limit] \in Tasks
<1>1. page[c] \in Nat /\ Limit \in Nat
  BY LibraryBoundAssumption DEF TypeOK
<1>2. page[c] * Limit \in Nat
  BY <1>1
<1> QED
  BY <1>2 DEF Calls, Tasks

LEMMA InitTypes == Init => TInv
<1> SUFFICES ASSUME Init PROVE TInv
  OBVIOUS
<1>1. NoId \in {NoId} /\ [kind |-> "play", of |-> NoId] \in Calls
  BY DEF Calls
<1>2. TypeOK
  <2>1. /\ call \in [Callers -> Calls] /\ calls \in 0..MaxCalls
        /\ pc \in [Callers -> {"idle", "wait", "found", "details"}]
        /\ status \in [Callers -> {"PENDING", "RUNNING", "FINISHED"}]
        /\ page \in [Callers -> Nat]
    BY <1>1, LibraryBoundAssumption DEF Init
  <2>2. /\ list \in [Callers -> SUBSET (Albums \cup Artists)]
        /\ live \in [Callers -> SUBSET Albums]
        /\ listSongs \in [Callers -> [Albums -> SUBSET Songs]]
        /\ todo \in [Callers -> SUBSET (Albums \cup Artists)]
    BY DEF Init
  <2>3. executor \in Seq(Tasks) /\ looper \in Seq(Replies)
    BY DEF Init
  <2> QED
    BY <2>1, <2>2, <2>3 DEF Init, TypeOK
<1>3. CallInv
  BY DEF Init, CallInv
<1> QED
  BY <1>2, <1>3 DEF TInv

LEMMA CallerTypes ==
  ASSUME TInv, NEW c \in Callers, CallerNext(c)
  PROVE  TInv'
<1>0. TypeOK /\ CallInv
  BY DEF TInv
<1>1. ASSUME NEW k, NEW id, Requested(k, id), Request(c, k, id) PROVE TInv'
  <2>1. Begin(c, k, id) /\ Submit(c, k, id)
    BY <1>1 DEF Request
  <2>2. /\ calls' \in 0..MaxCalls /\ call' \in [Callers -> Calls]
        /\ \A d \in Callers : d # c => call'[d] = call[d]
    BY <1>0, <1>1, <2>1, BeginTypes, RequestedTypes
  <2>3. /\ executor' \in Seq(Tasks)
        /\ status' \in [Callers -> {"PENDING", "RUNNING", "FINISHED"}]
    BY <1>0, <1>1, <2>1, SubmitTypes, RequestedTypes
  <2>4. pc' \in [Callers -> {"idle", "wait", "found", "details"}]
    BY <1>0, <1>1 DEF Request, TypeOK
  <2>5. TypeOK'
    BY <1>0, <1>1, <2>2, <2>3, <2>4 DEF Request, TypeOK, listVars, mapVars
  <2>6. CallInv'
    BY <1>0, <1>1, <2>2 DEF Request, CallInv, TypeOK
  <2> QED
    BY <2>5, <2>6 DEF TInv
<1>2. ASSUME NEW k, NEW id, Requested(k, id), Hit(c, k, id) PROVE TInv'
  <2>1. /\ calls' \in 0..MaxCalls /\ call' \in [Callers -> Calls]
        /\ call'[c].kind = k
        /\ \A d \in Callers : d # c => call'[d] = call[d]
    BY <1>0, <1>2, BeginTypes, RequestedTypes DEF Hit
  <2>2. /\ pc' \in [Callers -> {"idle", "wait", "found", "details"}]
        /\ \A d \in Callers : d # c => pc'[d] = pc[d]
        /\ pc'[c] = "found"
    BY <1>0, <1>2 DEF Hit, AfterHit, TypeOK
  <2>3. TypeOK'
    BY <1>0, <1>2, <2>1, <2>2 DEF Hit, TypeOK, listVars, taskVars, mapVars
  <2>4. CallInv'
    BY <1>0, <1>2, <2>1, <2>2 DEF Hit, Known, CallInv
  <2> QED
    BY <2>3, <2>4 DEF TInv
<1>3. CASE RequestPage(c)
  <2>1. Begin(c, "songs", page[c] * Limit) /\ Submit(c, "songs", page[c] * Limit)
    BY <1>3 DEF RequestPage
  <2>2. /\ calls' \in 0..MaxCalls /\ call' \in [Callers -> Calls]
        /\ \A d \in Callers : d # c => call'[d] = call[d]
    BY <1>0, <2>1, BeginTypes, PageTypes
  <2>3. /\ executor' \in Seq(Tasks)
        /\ status' \in [Callers -> {"PENDING", "RUNNING", "FINISHED"}]
    BY <1>0, <2>1, SubmitTypes, PageTypes
  <2>4. pc' \in [Callers -> {"idle", "wait", "found", "details"}] /\ page' \in [Callers -> Nat]
    BY <1>0, <1>3 DEF RequestPage, TypeOK
  <2>5. TypeOK'
    BY <1>0, <1>3, <2>2, <2>3, <2>4 DEF RequestPage, TypeOK, listVars, mapVars
  <2>6. CallInv'
    BY <1>0, <1>3, <2>2 DEF RequestPage, CallInv, TypeOK
  <2> QED
    BY <2>5, <2>6 DEF TInv
<1>4. CASE Play(c)
  <2>1. /\ calls' \in 0..MaxCalls /\ call' \in [Callers -> Calls]
        /\ \A d \in Callers : d # c => call'[d] = call[d]
    <3>1. [kind |-> "play", of |-> NoId] \in Calls
      BY DEF Calls
    <3> QED
      BY <1>0, <1>4, <3>1, BeginTypes DEF Play
  <2>2. executor' \in Seq(Tasks)
    <3>1. [by |-> c, kind |-> "play", of |-> NoId] \in Tasks
      BY DEF Tasks
    <3> QED
      BY <1>0, <1>4, <3>1, AppendProperties DEF Play, TypeOK
  <2>3. pc[c] = "idle"
    BY <1>4 DEF Play, Begin
  <2>4. TypeOK'
    BY <1>0, <1>4, <2>1, <2>2 DEF Play, TypeOK, listVars, mapVars
  <2>5. CallInv'
    BY <1>0, <1>4, <2>1, <2>3 DEF Play, CallInv
  <2> QED
    BY <2>4, <2>5 DEF TInv
<1>5. CASE TakeAlbums(c)
  <2>1. TypeOK'
    BY <1>0, <1>5 DEF TakeAlbums, TypeOK, taskVars, mapVars
  <2>2. CallInv'
    BY <1>0, <1>5 DEF TakeAlbums, TypeOK, CallInv
  <2> QED
    BY <2>1, <2>2 DEF TInv
<1>6. CASE TakeArtists(c)
  <2>1. TypeOK'
    BY <1>0, <1>6 DEF TakeArtists, TypeOK, listVars, taskVars, mapVars
  <2>2. CallInv'
    BY <1>0, <1>6 DEF TakeArtists, TypeOK, CallInv
  <2> QED
    BY <2>1, <2>2 DEF TInv
<1>7. CASE FetchDetails(c)
  <2>1. PICK id \in todo[c] : /\ Submit(c, DetailKind(c), id)
                              /\ todo' = [todo EXCEPT ![c] = @ \ {id}]
    BY <1>7 DEF FetchDetails
  <2>2. /\ executor' \in Seq(Tasks)
        /\ status' \in [Callers -> {"PENDING", "RUNNING", "FINISHED"}]
    BY <1>0, <1>7, <2>1, SubmitTypes, DetailTypes DEF FetchDetails
  <2>3. /\ todo' \in [Callers -> SUBSET (Albums \cup Artists)]
        /\ \A d \in Callers : todo'[d] \subseteq todo[d]
    BY <1>0, <2>1 DEF TypeOK
  <2>4. TypeOK'
    BY <1>0, <1>7, <2>2, <2>3 DEF FetchDetails, TypeOK, listVars, mapVars
  <2>5. CallInv'
    BY <1>0, <1>7, <2>3 DEF FetchDetails, CallInv
  <2> QED
    BY <2>4, <2>5 DEF TInv
<1>8. CASE Return(c)
  <2>1. TypeOK'
    BY <1>0, <1>8 DEF Return, TypeOK, taskVars, mapVars
  <2>2. CallInv'
    BY <1>0, <1>8 DEF Return, TypeOK, CallInv
  <2> QED
    BY <2>1, <2>2 DEF TInv
<1> QED
  BY <1>1, <1>2, <1>3, <1>4, <1>5, <1>6, <1>7, <1>8, CallerSteps

LEMMA PostTypes ==
  ASSUME TypeOK, NEW null \in BOOLEAN, NEW ids, Post(null, ids),
         \/ ~null /\ ids \in Answers(Head(executor))
         \/ null /\ ids = <<>>
  PROVE  /\ executor' \in Seq(Tasks) /\ looper' \in Seq(Replies)
         /\ Head(executor) = executor[1] /\ executor[1] \in Tasks
         /\ executor[1].kind # "play"
         /\ Len(executor) \in Nat \ {0} /\ Len(executor') = Len(executor) - 1
         /\ \A i \in 1..Len(executor) - 1 : executor'[i] = executor[i + 1]
         /\ Len(looper) \in Nat /\ Len(looper') = Len(looper) + 1
         /\ \A i \in 1..Len(looper) : looper'[i] = looper[i]
         /\ looper'[Len(looper) + 1] = [by |-> executor[1].by, kind |-> executor[1].kind,
                                        null |-> null, ids |-> ids]
         /\ null \/ \A x \in Asked(executor[1]) : x \in Range(ids)
<1>1. executor \in Seq(Tasks) /\ executor # <<>> /\ looper \in Seq(Replies)
  BY DEF TypeOK, Post
<1>2. /\ executor' \in Seq(Tasks) /\ Head(executor) = executor[1] /\ executor[1] \in Tasks
      /\ executor[1].kind # "play"
      /\ Len(executor) \in Nat \ {0} /\ Len(executor') = Len(executor) - 1
      /\ \A i \in 1..Len(executor) - 1 : executor'[i] = executor[i + 1]
  BY <1>1, HeadTail DEF Post
<1>3. PICK m : m = [by |-> executor[1].by, kind |-> executor[1].kind,
                    null |-> null, ids |-> ids]
  OBVIOUS
<1>4. m \in Replies /\ (null \/ \A x \in Asked(executor[1]) : x \in Range(ids))
  BY <1>2, <1>3, AnswersCover, NullIsReply
<1>5. looper' = Append(looper, m)
  BY <1>2, <1>3 DEF Post
<1> QED
  BY <1>1, <1>2, <1>3, <1>4, <1>5, AppendProperties

LEMMA ExecutorTypes ==
  ASSUME TInv, Answer \/ RequestFails \/ PlayEnds
  PROVE  TInv'
<1>0. TypeOK /\ CallInv
  BY DEF TInv
<1>1. /\ executor' \in Seq(Tasks) /\ looper' \in Seq(Replies)
      /\ UNCHANGED <<callerVars, listVars, half, mapVars, bare, cut, alive>>
  <2>1. CASE Answer
    <3>1. PICK ids \in Answers(Head(executor)) : Post(FALSE, ids)
      BY <2>1 DEF Answer
    <3>2. executor' \in Seq(Tasks) /\ looper' \in Seq(Replies)
      BY <1>0, <3>1, PostTypes
    <3> QED
      BY <3>1, <3>2 DEF Post
  <2>2. CASE RequestFails
    <3>1. Post(TRUE, <<>>)
      BY <2>2 DEF RequestFails
    <3>2. executor' \in Seq(Tasks) /\ looper' \in Seq(Replies)
      BY <1>0, <3>1, PostTypes
    <3> QED
      BY <3>1, <3>2 DEF Post
  <2>3. CASE PlayEnds
    BY <1>0, <2>3, HeadTail DEF PlayEnds, TypeOK
  <2> QED
    BY <2>1, <2>2, <2>3
<1>2. TypeOK'
  BY <1>0, <1>1 DEF TypeOK, callerVars, listVars, mapVars
<1>3. CallInv'
  BY <1>0, <1>1 DEF CallInv, callerVars
<1> QED
  BY <1>2, <1>3 DEF TInv

\* The last step of an entity, and what it leaves to do.
LEMMA LastStepTypes ==
  ASSUME TypeOK, NEW h, NEW done, Handles(h, done), LastStep
  PROVE  /\ looper' \in Seq(Replies) /\ looper' # <<>> /\ Len(looper') = Len(looper)
         /\ looper'[1].by = looper[1].by /\ looper'[1].kind = looper[1].kind
         /\ looper'[1].null = looper[1].null /\ looper'[1].ids = Tail(looper[1].ids)
         /\ \A i \in 1..Len(looper) : i # 1 => looper'[i] = looper[i]
<1>1. looper # <<>> /\ Head(looper) = looper[1] /\ looper[1].ids # <<>>
      /\ 1 \in DOMAIN looper
  <2>1. looper \in Seq(Replies) /\ looper # <<>>
    BY DEF Handles, TypeOK
  <2>2. Head(looper) = looper[1] /\ 1 \in DOMAIN looper
    BY <2>1
  <2> QED
    BY <2>1, <2>2 DEF Handles
<1>2. looper' = [looper EXCEPT ![1].ids = Tail(looper[1].ids)]
  BY <1>1 DEF LastStep
<1> QED
  BY <1>1, <1>2, FewerIds

LEMMA PutTypes ==
  ASSUME TypeOK, PutAlbum \/ LinkArtist \/ PutArtist \/ LinkAlbum \/ PutSong
  PROVE  TypeOK'
<1>1. CASE PutAlbum
  <2>1. Handles("albumsCallback", FALSE) /\ This \in Albums
    BY <1>1, HandlesTypes DEF PutAlbum
  <2>2. /\ albums' \in SUBSET Albums /\ albumSongs' \in [Albums -> SUBSET Songs]
        /\ live' \in [Callers -> SUBSET Albums] /\ bare' \in SUBSET Albums
    BY <1>1, <2>1 DEF PutAlbum, TypeOK
  <2> QED
    BY <1>1, <2>1, <2>2 DEF PutAlbum, FirstStep, Handles, TypeOK, callerVars
<1>2. CASE LinkArtist
  <2>1. /\ Handles("albumsCallback", TRUE) /\ This \in Albums
        /\ looper' \in Seq(Replies)
    BY <1>2, HandlesTypes, LastStepTypes DEF LinkArtist
  <2>2. artistAlbums' \in [Artists -> SUBSET Albums]
    BY <1>2, <2>1 DEF LinkArtist, TypeOK
  <2> QED
    BY <1>2, <2>1, <2>2 DEF LinkArtist, LastStep, Handles, TypeOK, callerVars, listVars
<1>3. CASE PutArtist
  <2>1. /\ Handles("artistsCallback", FALSE) /\ This \in Artists
        /\ looper' \in Seq(Replies)
    BY <1>3, HandlesTypes, LastStepTypes DEF PutArtist
  <2>2. artistAlbums' \in [Artists -> SUBSET Albums] /\ artists' \in SUBSET Artists
    <3>1. PICK as \in ArtistObjects(Head(looper).kind, This) :
            artistAlbums' = [artistAlbums EXCEPT ![This] = as]
      BY <1>3 DEF PutArtist
    <3>2. as \in SUBSET Albums
      BY <3>1 DEF ArtistObjects, AlbumsOf
    <3> QED
      BY <1>3, <2>1, <3>1, <3>2 DEF PutArtist, TypeOK
  <2> QED
    BY <1>3, <2>1, <2>2 DEF PutArtist, LastStep, Handles, TypeOK, callerVars, listVars
<1>4. CASE LinkAlbum
  <2>1. Handles("getSongsCallback", FALSE) /\ This \in Songs
    BY <1>4, HandlesTypes DEF LinkAlbum
  <2>2. /\ albumSongs' \in [Albums -> SUBSET Songs]
        /\ listSongs' \in [Callers -> [Albums -> SUBSET Songs]]
    BY <1>4, <2>1 DEF LinkAlbum, TypeOK
  <2> QED
    BY <1>4, <2>1, <2>2 DEF LinkAlbum, FirstStep, Handles, TypeOK, callerVars
<1>5. CASE PutSong
  <2>1. /\ Handles("getSongsCallback", TRUE) /\ This \in Songs
        /\ looper' \in Seq(Replies)
    BY <1>5, HandlesTypes, LastStepTypes DEF PutSong
  <2>2. songs' \in SUBSET Songs
    BY <1>5, <2>1 DEF PutSong, TypeOK
  <2> QED
    BY <1>5, <2>1, <2>2 DEF PutSong, LastStep, Handles, TypeOK, callerVars, listVars
<1> QED
  BY <1>1, <1>2, <1>3, <1>4, <1>5

LEMMA JsonTypes ==
  ASSUME TypeOK, JsonError
  PROVE  TypeOK'
<1>1. looper # <<>> /\ Head(looper).ids # <<>> /\ looper' = [looper EXCEPT ![1].ids = <<>>]
  BY DEF JsonError
<1>2. looper' \in Seq(Replies)
  BY <1>1, FewerIds
<1> QED
  BY <1>2 DEF JsonError, TypeOK, callerVars, listVars, mapVars

LEMMA FinishTypes ==
  ASSUME TypeOK, Finish
  PROVE  /\ TypeOK'
         /\ Head(looper) = looper[1] /\ looper[1] \in Replies
         /\ Len(looper) \in Nat \ {0} /\ Len(looper') = Len(looper) - 1
         /\ \A i \in 1..Len(looper) - 1 : looper'[i] = looper[i + 1]
<1>1. /\ looper \in Seq(Replies) /\ looper # <<>>
      /\ Head(looper) = looper[1] /\ looper[1] \in Replies
      /\ Len(looper) \in Nat \ {0} /\ Len(Tail(looper)) = Len(looper) - 1
      /\ Tail(looper) \in Seq(Replies)
      /\ \A i \in 1..Len(looper) - 1 : Tail(looper)[i] = looper[i + 1]
  BY HeadTail DEF TypeOK, Finish
<1>2. looper' = Tail(looper) /\ status' = [status EXCEPT ![looper[1].by] = "FINISHED"]
  BY <1>1 DEF Finish
<1>3. TypeOK'
  BY <1>1, <1>2 DEF Finish, TypeOK, listVars, mapVars
<1> QED
  BY <1>1, <1>2, <1>3

LEMMA StepTypes == TInv /\ [Next]_vars => TInv'
<1> SUFFICES ASSUME TInv, [Next]_vars PROVE TInv'
  OBVIOUS
<1>0. TypeOK /\ CallInv
  BY DEF TInv
<1>1. CASE \E c \in Callers : CallerNext(c)
  BY <1>1, CallerTypes
<1>2. CASE Answer \/ RequestFails \/ PlayEnds
  BY <1>2, ExecutorTypes
<1>3. CASE MainNext
  <2>1. TypeOK'
    <3>1. CASE HandleNull
      BY <1>0, <3>1 DEF HandleNull, TypeOK, callerVars, listVars, taskVars, mapVars
    <3> QED
      BY <1>0, <1>3, <3>1, PutTypes, JsonTypes, FinishTypes DEF MainNext
  <2>2. UNCHANGED <<pc, call, todo>>
    BY <1>3 DEF MainNext, PutAlbum, LinkArtist, PutArtist, LinkAlbum, PutSong, Handles,
                HandleNull, JsonError, Finish, callerVars
  <2>3. CallInv'
    BY <1>0, <2>2 DEF CallInv
  <2> QED
    BY <2>1, <2>3 DEF TInv
<1>4. CASE UNCHANGED vars
  <2>1. TypeOK'
    BY <1>0, <1>4 DEF TypeOK, vars, callerVars, listVars, taskVars, mapVars
  <2>2. CallInv'
    BY <1>0, <1>4 DEF CallInv, vars, callerVars
  <2> QED
    BY <2>1, <2>2 DEF TInv
<1> QED
  BY <1>1, <1>2, <1>3, <1>4 DEF Next, Finished

\* The type invariant: the maps, the lists and the answers on their way hold entities
\* of the right kind, for any library, callers and order of the server's answers.
THEOREM TypeCorrect == Spec => []TypeOK
<1>1. TInv => TypeOK
  BY DEF TInv
<1> QED
  BY <1>1, InitTypes, StepTypes, PTL DEF Spec

-----------------------------------------------------------------------------
(* What is on its way. *)

\* A binder thread spins for the task of kind k that it has submitted.
Spins(c, k) ==
  /\ status[c] = "RUNNING"
  /\ \/ pc[c] = "wait" /\ call[c].kind = k
     \/ pc[c] = "details" /\ DetailKind(c) = k

\* A binder thread has one task or answer on its way at most, and spins for it.
OneTaskInv ==
  /\ \A i \in 1..Len(executor) : executor[i].kind # "play" =>
       /\ Spins(executor[i].by, executor[i].kind)
       /\ \A j \in 1..Len(executor) :
            executor[j].kind # "play" /\ executor[j].by = executor[i].by => j = i
       /\ \A j \in 1..Len(looper) : looper[j].by # executor[i].by
  /\ \A i \in 1..Len(looper) :
       /\ Spins(looper[i].by, looper[i].kind)
       /\ \A j \in 1..Len(looper) : looper[j].by = looper[i].by => j = i

\* An album or a song whose first step is done: the map has the album, and the song
\* is in its album if the map has that.
HalfInv ==
  half =>
    /\ looper # <<>> /\ ~Head(looper).null /\ Head(looper).ids # <<>>
    /\ Handler(Head(looper).kind) = "albumsCallback" => This \in albums
    /\ Handler(Head(looper).kind) = "getSongsCallback" /\ AlbumOf[This] \in albums =>
         This \in albumSongs[AlbumOf[This]]

\* An album lists no song of another, and a live object is the map's.
ObjectInv ==
  /\ \A a \in Albums : albumSongs[a] \subseteq SongsOf(a)
  /\ \A c \in Callers : \A a \in live[c] :
       a \in albums /\ listSongs[c][a] = albumSongs[a]

\* id is still to come with the answer to a task of kind k that c has submitted, or
\* the answer is null and ends the process.
InFlight(c, k, id) ==
  \/ \E i \in 1..Len(executor) :
       executor[i].by = c /\ executor[i].kind = k /\ id \in Asked(executor[i])
  \/ \E i \in 1..Len(looper) :
       /\ looper[i].by = c /\ looper[i].kind = k
       /\ looper[i].null \/ id \in Range(looper[i].ids)

\* The handler is done with an entity of an answer to a task of kind k.
Delivered(k, id) ==
  /\ k \in {"albums", "album"} => id \in albums
  /\ k \in {"artists", "artist"} => id \in artists
  /\ k = "artist" => artistAlbums[id] = AlbumsOf(id)
  /\ k \in {"songs", "song", "albumSongs"} =>
       id \in songs /\ (AlbumOf[id] \in albums => id \in albumSongs[AlbumOf[id]])

\* c makes the call of kind k for the entity id, and has not returned from it.
Wants(c, k, id) == pc[c] \in {"wait", "found"} /\ call[c].kind = k /\ call[c].of = id

\* What a call of c for one entity wants is in the map or on its way.
WantsMet(c) ==
  /\ \A a \in Albums : Wants(c, "album", a) => a \in albums \/ InFlight(c, "album", a)
  /\ \A r \in Artists : Wants(c, "artist", r) => r \in artists \/ InFlight(c, "artist", r)
  /\ \A s \in Songs : Wants(c, "song", s) => s \in songs \/ InFlight(c, "song", s)

RefInv == \A c \in Callers : WantsMet(c)

\* A call of getAlbums that has its list has all albums in it, and each song of those
\* that are live is in its object, on its way or to be fetched.
ListMet(c) ==
  call[c].kind = "albums" =>
    /\ pc[c] = "wait" => \A a \in Albums : a \in albums \/ InFlight(c, "albums", a)
    /\ pc[c] = "details" =>
         /\ list[c] = Albums
         /\ \A a \in live[c] : \A s \in SongsOf(a) :
              s \in albumSongs[a] \/ a \in todo[c] \/ InFlight(c, "albumSongs", s)

ListInv == \A c \in Callers : ListMet(c)

\* c is going to fetch the songs of a, or s is on its way to c.
OwesSong(c, a, s) ==
  /\ call[c].kind = "albums"
  /\ \/ pc[c] = "wait"
     \/ pc[c] = "details" /\ (a \in todo[c] \/ InFlight(c, "albumSongs", s))

\* A song that the object of an album does not list is owed by a call of getAlbums.
AlbumInv ==
  \A a \in albums \ bare : \A s \in SongsOf(a) :
    s \in albumSongs[a] \/ \E c \in Callers : OwesSong(c, a, s)

\* c is going to fetch the details of r, or they are on their way to c.
OwesDetails(c, r) ==
  /\ call[c].kind = "artists"
  /\ \/ pc[c] = "wait"
     \/ pc[c] = "details" /\ (r \in todo[c] \/ InFlight(c, "artist", r))

\* An artist whose object does not list all its albums is owed by a call of getArtists.
ArtistInv ==
  \A r \in artists :
    artistAlbums[r] = AlbumsOf(r) \/ \E c \in Callers : OwesDetails(c, r)

\* c waits for a page of songs.
Paging(c) == pc[c] = "wait" /\ call[c].kind = "songs"

\* The songs at the positions that c has asked for are in the map, or on their way to it.
PageMet(c) ==
  \A i \in 1..Len(SongList) :
    i <= page[c] * Limit \/ (Paging(c) /\ i <= call[c].of + Limit) =>
      SongList[i] \in songs \/ (Paging(c) /\ InFlight(c, "songs", SongList[i]))

PageInv == \A c \in Callers : PageMet(c)

CompleteInv == ~cut => RefInv /\ ListInv /\ AlbumInv /\ ArtistInv /\ PageInv

CacheInv == OneTaskInv /\ HalfInv /\ ObjectInv /\ CompleteInv

-----------------------------------------------------------------------------
(* One task at a time. *)

\* Nothing of c is on its way.
Quiet(c) ==
  /\ \A i \in 1..Len(executor) : executor[i].kind = "play" \/ executor[i].by # c
  /\ \A i \in 1..Len(looper) : looper[i].by # c

LEMMA WhoSpinsNot ==
  ASSUME OneTaskInv, NEW c \in Callers,
         pc[c] \notin {"wait", "details"} \/ status[c] # "RUNNING"
  PROVE  Quiet(c)
  BY DEF OneTaskInv, Spins, Quiet

\* What a thread does that has nothing on its way is nothing to the others.
LEMMA OthersKeepOneTask ==
  ASSUME TypeOK, OneTaskInv, NEW c \in Callers, Quiet(c), UNCHANGED looper,
         \/ UNCHANGED executor
         \/ \E t \in Tasks : /\ executor' = Append(executor, t)
                             /\ t.kind = "play" \/ (t.by = c /\ Spins(c, t.kind)'),
         \A d \in Callers : d # c =>
           pc'[d] = pc[d] /\ call'[d] = call[d] /\ status'[d] = status[d]
  PROVE  OneTaskInv'
<1>0. /\ \A i \in 1..Len(executor) : executor[i].by \in Callers
      /\ \A i \in 1..Len(looper) : looper[i].by \in Callers
      /\ Len(executor) \in Nat /\ Len(looper) \in Nat
  BY QueueTypes DEF TypeOK
<1>1. CASE UNCHANGED executor
  BY <1>0, <1>1 DEF OneTaskInv, Quiet, Spins, DetailKind
<1>2. ASSUME NEW t \in Tasks, executor' = Append(executor, t),
             t.kind = "play" \/ (t.by = c /\ Spins(c, t.kind)')
      PROVE  OneTaskInv'
  <2>1. /\ Len(executor') = Len(executor) + 1 /\ executor'[Len(executor) + 1] = t
        /\ \A i \in 1..Len(executor) : executor'[i] = executor[i]
    BY <1>2, AppendProperties DEF TypeOK
  <2>2. \A i \in 1..Len(executor') : i \in 1..Len(executor) \/ i = Len(executor) + 1
    BY <1>0, <2>1
  <2>3. ASSUME NEW i \in 1..Len(looper)
        PROVE  /\ Spins(looper[i].by, looper[i].kind)'
               /\ \A j \in 1..Len(looper) : looper[j].by = looper[i].by => j = i
    BY <1>0, <2>3 DEF OneTaskInv, Quiet, Spins, DetailKind
  <2>4. ASSUME NEW i \in 1..Len(executor), executor[i].kind # "play"
        PROVE  /\ Spins(executor[i].by, executor[i].kind)'
               /\ executor[i].by # c
    <3>1. executor[i].by \in Callers /\ executor[i].by # c /\ executor'[i] = executor[i]
      BY <1>0, <2>1, <2>4 DEF Quiet
    <3> QED
      BY <2>4, <3>1 DEF OneTaskInv, Spins, DetailKind
  <2>5. ASSUME NEW i \in 1..Len(executor'), executor'[i].kind # "play"
        PROVE  /\ Spins(executor[i].by, executor[i].kind)'
               /\ \A j \in 1..Len(executor') :
                    executor'[j].kind # "play" /\ executor'[j].by = executor'[i].by
                      => j = i
               /\ \A j \in 1..Len(looper) : looper[j].by # executor'[i].by
    <3>1. CASE i \in 1..Len(executor)
      BY <1>2, <2>1, <2>2, <2>4, <2>5, <3>1 DEF OneTaskInv
    <3>2. CASE i = Len(executor) + 1
      <4>1. t.by = c /\ Spins(c, t.kind)' /\ executor'[i] = t
        BY <1>2, <2>1, <2>5, <3>2
      <4>2. Spins(executor[i].by, executor[i].kind)'
        BY <4>1 DEF Spins, DetailKind
      <4> QED
        BY <2>1, <2>2, <2>4, <3>2, <4>1, <4>2 DEF Quiet
    <3> QED
      BY <2>2, <3>1, <3>2
  <2> QED
    BY <2>3, <2>5 DEF OneTaskInv
<1> QED
  BY <1>1, <1>2

LEMMA CallerOneTask ==
  ASSUME TInv, OneTaskInv, NEW c \in Callers, CallerNext(c)
  PROVE  OneTaskInv'
<1>0. TypeOK
  BY DEF TInv
<1>1. ASSUME NEW k, NEW id, Requested(k, id), Request(c, k, id) PROVE OneTaskInv'
  <2>1. Begin(c, k, id) /\ Submit(c, k, id) /\ pc[c] = "idle"
    BY <1>1 DEF Request, Begin
  <2>2. PICK t : t = [by |-> c, kind |-> k, of |-> id]
    OBVIOUS
  <2>3. t \in Tasks /\ t.kind = k /\ t.by = c /\ executor' = Append(executor, t)
    BY <1>1, <2>1, <2>2, RequestedTypes DEF Submit
  <2>4. /\ call'[c].kind = k
        /\ \A d \in Callers : d # c => call'[d] = call[d]
    BY <1>0, <1>1, <2>1, BeginTypes, RequestedTypes
  <2>5. /\ status'[c] = "RUNNING" /\ pc'[c] = "wait"
        /\ \A d \in Callers : d # c => status'[d] = status[d] /\ pc'[d] = pc[d]
    BY <1>0, <1>1, <2>1 DEF Request, Submit, TypeOK
  <2>6. Spins(c, t.kind)'
    BY <2>2, <2>3, <2>4, <2>5 DEF Spins
  <2>7. UNCHANGED looper
    BY <1>1 DEF Request
  <2> QED
    BY <1>0, <2>1, <2>3, <2>4, <2>5, <2>6, <2>7, WhoSpinsNot, OthersKeepOneTask
<1>2. ASSUME NEW k, NEW id, Requested(k, id), Hit(c, k, id) PROVE OneTaskInv'
  <2>1. /\ pc[c] = "idle" /\ UNCHANGED <<executor, looper, status>>
        /\ \A d \in Callers : d # c => pc'[d] = pc[d] /\ call'[d] = call[d]
    BY <1>0, <1>2 DEF Hit, Begin, TypeOK, taskVars
  <2> QED
    BY <1>0, <2>1, WhoSpinsNot, OthersKeepOneTask
<1>3. CASE RequestPage(c)
  <2>1. /\ Begin(c, "songs", page[c] * Limit) /\ Submit(c, "songs", page[c] * Limit)
        /\ pc[c] = "idle"
    BY <1>3 DEF RequestPage, Begin
  <2>2. PICK t : t = [by |-> c, kind |-> "songs", of |-> page[c] * Limit]
    OBVIOUS
  <2>3. t \in Tasks /\ t.kind = "songs" /\ t.by = c /\ executor' = Append(executor, t)
    BY <1>0, <2>1, <2>2, PageTypes DEF Submit
  <2>4. /\ call'[c].kind = "songs"
        /\ \A d \in Callers : d # c => call'[d] = call[d]
    BY <1>0, <2>1, BeginTypes, PageTypes
  <2>5. /\ status'[c] = "RUNNING" /\ pc'[c] = "wait"
        /\ \A d \in Callers : d # c => status'[d] = status[d] /\ pc'[d] = pc[d]
    BY <1>0, <1>3, <2>1 DEF RequestPage, Submit, TypeOK
  <2>6. Spins(c, t.kind)'
    BY <2>2, <2>3, <2>4, <2>5 DEF Spins
  <2>7. UNCHANGED looper
    BY <1>3 DEF RequestPage
  <2> QED
    BY <1>0, <2>1, <2>3, <2>4, <2>5, <2>6, <2>7, WhoSpinsNot, OthersKeepOneTask
<1>4. CASE Play(c)
  <2>1. PICK t : t = [by |-> c, kind |-> "play", of |-> NoId]
    OBVIOUS
  <2>2. t \in Tasks /\ t.kind = "play" /\ executor' = Append(executor, t)
    BY <1>4, <2>1 DEF Play, Tasks
  <2>3. /\ pc[c] = "idle" /\ UNCHANGED <<looper, pc, status>>
        /\ \A d \in Callers : d # c => call'[d] = call[d]
    BY <1>0, <1>4 DEF Play, Begin, TypeOK
  <2> QED
    BY <1>0, <2>2, <2>3, WhoSpinsNot, OthersKeepOneTask
<1>5. CASE TakeAlbums(c) \/ TakeArtists(c) \/ Return(c)
  <2>1. /\ pc[c] = "found" \/ status[c] # "RUNNING"
        /\ UNCHANGED <<executor, looper, status, call>>
        /\ \A d \in Callers : d # c => pc'[d] = pc[d]
    BY <1>0, <1>5 DEF TakeAlbums, TakeArtists, Return, Awaited, TypeOK, taskVars
  <2> QED
    BY <1>0, <2>1, WhoSpinsNot, OthersKeepOneTask
<1>6. CASE FetchDetails(c)
  <2>1. PICK id \in todo[c] : Submit(c, DetailKind(c), id)
    BY <1>6 DEF FetchDetails
  <2>2. PICK k, t : k = DetailKind(c) /\ t = [by |-> c, kind |-> k, of |-> id]
    OBVIOUS
  <2>3. pc[c] = "details" /\ status[c] # "RUNNING" /\ UNCHANGED <<pc, call, looper>>
    BY <1>6 DEF FetchDetails, Awaited
  <2>4. t \in Tasks /\ t.kind = k /\ t.by = c /\ executor' = Append(executor, t)
    BY <2>1, <2>2, <2>3, DetailTypes DEF Submit
  <2>5. /\ status'[c] = "RUNNING"
        /\ \A d \in Callers : d # c => status'[d] = status[d]
    BY <1>0, <2>1 DEF Submit, TypeOK
  <2>6. Spins(c, t.kind)'
    BY <2>2, <2>3, <2>4, <2>5 DEF Spins, DetailKind
  <2> QED
    BY <1>0, <2>3, <2>4, <2>5, <2>6, WhoSpinsNot, OthersKeepOneTask
<1> QED
  BY <1>1, <1>2, <1>3, <1>4, <1>5, <1>6, CallerSteps

LEMMA PostOneTask ==
  ASSUME TypeOK, OneTaskInv, NEW null \in BOOLEAN, NEW ids, Post(null, ids),
         \/ ~null /\ ids \in Answers(Head(executor))
         \/ null /\ ids = <<>>
  PROVE  OneTaskInv'
<1>0. UNCHANGED <<pc, call, status>>
  BY DEF Post, callerVars
<1>1. PICK n, m, t, a : /\ n = Len(executor) /\ m = Len(looper) /\ t = executor[1]
                        /\ a = [by |-> t.by, kind |-> t.kind, null |-> null, ids |-> ids]
  OBVIOUS
<1>2. /\ n \in Nat \ {0} /\ Len(executor') = n - 1 /\ t.kind # "play"
      /\ \A i \in 1..n - 1 : executor'[i] = executor[i + 1]
      /\ m \in Nat /\ Len(looper') = m + 1 /\ looper'[m + 1] = a
      /\ \A i \in 1..m : looper'[i] = looper[i]
  BY <1>1, PostTypes
<1>3. a.by = t.by /\ a.kind = t.kind
  BY <1>1
<1>4. /\ Spins(t.by, t.kind)
      /\ \A j \in 2..n : executor[j].kind # "play" => executor[j].by # t.by
      /\ \A j \in 1..m : looper[j].by # t.by
  <2>1. 1 \in 1..n /\ \A j \in 2..n : j \in 1..n /\ j # 1
    BY <1>2
  <2> QED
    BY <1>1, <1>2, <2>1 DEF OneTaskInv
<1>5. ASSUME NEW i \in 1..Len(executor'), executor'[i].kind # "play"
      PROVE  /\ Spins(executor[i].by, executor[i].kind)'
             /\ \A j \in 1..Len(executor') :
                  executor'[j].kind # "play" /\ executor'[j].by = executor'[i].by => j = i
             /\ \A j \in 1..Len(looper') : looper'[j].by # executor'[i].by
  <2>1. i + 1 \in 2..n /\ i + 1 \in 1..n /\ executor'[i] = executor[i + 1]
    BY <1>2
  <2>2. /\ Spins(executor[i + 1].by, executor[i + 1].kind)
        /\ \A j \in 1..n : executor[j].kind # "play" /\ executor[j].by = executor[i + 1].by
             => j = i + 1
        /\ \A j \in 1..m : looper[j].by # executor[i + 1].by
    BY <1>1, <1>5, <2>1 DEF OneTaskInv
  <2>3. Spins(executor[i].by, executor[i].kind)'
    BY <1>0, <2>1, <2>2 DEF Spins, DetailKind
  <2>4. ASSUME NEW j \in 1..Len(executor'), executor'[j].kind # "play",
               executor'[j].by = executor'[i].by
        PROVE  j = i
    <3>1. j + 1 \in 1..n /\ executor'[j] = executor[j + 1]
      BY <1>2
    <3>2. j + 1 = i + 1
      BY <2>1, <2>2, <2>4, <3>1
    <3> QED
      BY <3>2
  <2>5. ASSUME NEW j \in 1..Len(looper') PROVE looper'[j].by # executor'[i].by
    <3>1. j \in 1..m \/ j = m + 1
      BY <1>2
    <3> QED
      BY <1>2, <1>3, <1>4, <1>5, <2>1, <2>2, <3>1
  <2> QED
    BY <2>3, <2>4, <2>5
<1>6. ASSUME NEW i \in 1..Len(looper')
      PROVE  /\ Spins(looper[i].by, looper[i].kind)'
             /\ \A j \in 1..Len(looper') : looper'[j].by = looper'[i].by => j = i
  <2>1. \A j \in 1..Len(looper') : j \in 1..m \/ j = m + 1
    BY <1>2
  <2>2. CASE i \in 1..m
    <3>1. looper'[i] = looper[i] /\ Spins(looper[i].by, looper[i].kind)
      BY <1>1, <1>2, <2>2 DEF OneTaskInv
    <3>2. Spins(looper[i].by, looper[i].kind)'
      BY <1>0, <3>1 DEF Spins, DetailKind
    <3> QED
      BY <1>1, <1>2, <1>3, <1>4, <2>1, <2>2, <3>1, <3>2 DEF OneTaskInv
  <2>3. CASE i = m + 1
    <3>1. looper'[i].by = t.by /\ looper'[i].kind = t.kind
      BY <1>2, <1>3, <2>3
    <3>2. Spins(looper[i].by, looper[i].kind)'
      BY <1>0, <1>4, <3>1 DEF Spins, DetailKind
    <3> QED
      BY <1>2, <1>4, <2>1, <2>3, <3>1, <3>2
  <2> QED
    BY <2>1, <2>2, <2>3
<1> QED
  BY <1>5, <1>6 DEF OneTaskInv

LEMMA PlayEndsOneTask ==
  ASSUME TypeOK, OneTaskInv, PlayEnds
  PROVE  OneTaskInv'
<1>0. UNCHANGED <<pc, call, status, looper>>
  BY DEF PlayEnds, callerVars
<1>1. PICK n : n = Len(executor)
  OBVIOUS
<1>2. /\ n \in Nat \ {0} /\ Len(executor') = n - 1
      /\ \A i \in 1..n - 1 : executor'[i] = executor[i + 1]
  BY <1>1, HeadTail DEF PlayEnds, TypeOK
<1>3. \A i \in 1..n - 1 : i + 1 \in 1..n
  BY <1>2
<1>4. ASSUME NEW i \in 1..Len(executor'), executor'[i].kind # "play"
      PROVE  /\ Spins(executor[i].by, executor[i].kind)'
             /\ \A j \in 1..Len(executor') :
                  executor'[j].kind # "play" /\ executor'[j].by = executor'[i].by => j = i
             /\ \A j \in 1..Len(looper) : looper[j].by # executor'[i].by
  <2>1. i + 1 \in 1..n /\ executor'[i] = executor[i + 1]
    BY <1>2, <1>3
  <2>2. /\ Spins(executor[i + 1].by, executor[i + 1].kind)
        /\ \A j \in 1..n : executor[j].kind # "play" /\ executor[j].by = executor[i + 1].by
             => j = i + 1
        /\ \A j \in 1..Len(looper) : looper[j].by # executor[i + 1].by
    BY <1>1, <1>4, <2>1 DEF OneTaskInv
  <2>3. Spins(executor[i].by, executor[i].kind)'
    BY <1>0, <2>1, <2>2 DEF Spins, DetailKind
  <2>4. ASSUME NEW j \in 1..Len(executor'), executor'[j].kind # "play",
               executor'[j].by = executor'[i].by
        PROVE  j = i
    <3>1. j + 1 \in 1..n /\ executor'[j] = executor[j + 1]
      BY <1>2, <1>3
    <3>2. j + 1 = i + 1
      BY <2>1, <2>2, <2>4, <3>1
    <3> QED
      BY <3>2
  <2> QED
    BY <2>1, <2>2, <2>3, <2>4
<1>5. ASSUME NEW i \in 1..Len(looper)
      PROVE  /\ Spins(looper[i].by, looper[i].kind)'
             /\ \A j \in 1..Len(looper) : looper[j].by = looper[i].by => j = i
  BY <1>0 DEF OneTaskInv, Spins, DetailKind
<1> QED
  BY <1>0, <1>4, <1>5 DEF OneTaskInv

\* Handling an entity changes neither whose the answers are nor what they answer.
LEMMA HandlingOneTask ==
  ASSUME OneTaskInv, UNCHANGED <<executor, pc, call, status>>,
         Len(looper') = Len(looper),
         \A i \in 1..Len(looper) : /\ looper'[i].by = looper[i].by
                                   /\ looper'[i].kind = looper[i].kind
  PROVE  OneTaskInv'
  BY DEF OneTaskInv, Spins, DetailKind

LEMMA FinishOneTask ==
  ASSUME TypeOK, OneTaskInv, Finish
  PROVE  OneTaskInv'
<1>0. UNCHANGED <<pc, call, executor>>
  BY DEF Finish
<1>1. PICK n, b : n = Len(looper) /\ b = looper[1].by
  OBVIOUS
<1>2. /\ n \in Nat \ {0} /\ Len(looper') = n - 1 /\ b \in Callers
      /\ \A i \in 1..n - 1 : looper'[i] = looper[i + 1]
      /\ \A i \in 1..n - 1 : i + 1 \in 1..n /\ i + 1 # 1
      /\ 1 \in 1..n
      /\ \A d \in Callers : d # b => status'[d] = status[d]
  <2>1. /\ n \in Nat \ {0} /\ Len(looper') = n - 1 /\ b \in Callers
        /\ \A i \in 1..n - 1 : looper'[i] = looper[i + 1]
        /\ Head(looper) = looper[1]
    BY <1>1, FinishTypes, QueueTypes
  <2>2. /\ \A i \in 1..n - 1 : i + 1 \in 1..n /\ i + 1 # 1
        /\ 1 \in 1..n
    BY <2>1
  <2>3. \A d \in Callers : d # b => status'[d] = status[d]
    BY <1>1, <2>1 DEF Finish, TypeOK
  <2> QED
    BY <2>1, <2>2, <2>3
<1>3. /\ \A i \in 1..Len(executor) : executor[i].by \in Callers
      /\ \A i \in 1..n : looper[i].by \in Callers
  BY <1>1, QueueTypes DEF TypeOK
<1>4. /\ \A i \in 1..Len(executor) : executor[i].kind # "play" => executor[i].by # b
      /\ \A i \in 1..n : i # 1 => looper[i].by # b
  BY <1>1, <1>2 DEF OneTaskInv
<1>5. ASSUME NEW i \in 1..Len(executor), executor[i].kind # "play"
      PROVE  /\ Spins(executor[i].by, executor[i].kind)'
             /\ \A j \in 1..Len(executor) :
                  executor[j].kind # "play" /\ executor[j].by = executor[i].by => j = i
             /\ \A j \in 1..Len(looper') : looper'[j].by # executor[i].by
  <2>1. /\ Spins(executor[i].by, executor[i].kind)
        /\ \A j \in 1..Len(executor) :
             executor[j].kind # "play" /\ executor[j].by = executor[i].by => j = i
        /\ \A j \in 1..n : looper[j].by # executor[i].by
    BY <1>1, <1>5 DEF OneTaskInv
  <2>2. status'[executor[i].by] = status[executor[i].by]
    BY <1>2, <1>3, <1>4, <1>5
  <2>3. Spins(executor[i].by, executor[i].kind)'
    BY <1>0, <2>1, <2>2 DEF Spins, DetailKind
  <2> QED
    BY <1>2, <2>1, <2>3
<1>6. ASSUME NEW i \in 1..Len(looper')
      PROVE  /\ Spins(looper[i].by, looper[i].kind)'
             /\ \A j \in 1..Len(looper') : looper'[j].by = looper'[i].by => j = i
  <2>1. i + 1 \in 1..n /\ i + 1 # 1 /\ looper'[i] = looper[i + 1]
    BY <1>2
  <2>2. /\ Spins(looper[i + 1].by, looper[i + 1].kind)
        /\ \A j \in 1..n : looper[j].by = looper[i + 1].by => j = i + 1
    BY <1>1, <2>1 DEF OneTaskInv
  <2>3. status'[looper[i + 1].by] = status[looper[i + 1].by]
    BY <1>2, <1>3, <1>4, <2>1
  <2>4. Spins(looper[i].by, looper[i].kind)'
    BY <1>0, <2>1, <2>2, <2>3 DEF Spins, DetailKind
  <2>5. ASSUME NEW j \in 1..Len(looper'), looper'[j].by = looper'[i].by PROVE j = i
    <3>1. j + 1 \in 1..n /\ looper'[j] = looper[j + 1]
      BY <1>2
    <3>2. j + 1 = i + 1
      BY <2>1, <2>2, <2>5, <3>1
    <3> QED
      BY <3>2
  <2> QED
    BY <2>4, <2>5
<1> QED
  BY <1>0, <1>5, <1>6 DEF OneTaskInv

-----------------------------------------------------------------------------
(* What is on its way arrives. *)

LEMMA QuietIsDone ==
  ASSUME NEW c \in Callers, Quiet(c), NEW k, k # "play", NEW x
  PROVE  ~InFlight(c, k, x)
  BY DEF Quiet, InFlight

\* A task that is submitted is on its way, and takes nothing off it.
LEMMA SubmitInFlight ==
  ASSUME TypeOK, NEW t \in Tasks, UNCHANGED looper,
         UNCHANGED executor \/ executor' = Append(executor, t)
  PROVE  /\ \A c, k, x : InFlight(c, k, x) => InFlight(c, k, x)'
         /\ executor' = Append(executor, t) =>
              \A x \in Asked(t) : InFlight(t.by, t.kind, x)'
<1>1. CASE UNCHANGED executor
  <2>1. \A c, k, x : InFlight(c, k, x) => InFlight(c, k, x)'
    BY <1>1 DEF InFlight
  <2>2. executor # Append(executor, t)
    BY AppendProperties DEF TypeOK
  <2> QED
    BY <1>1, <2>1, <2>2
<1>2. CASE executor' = Append(executor, t)
  <2>1. /\ Len(executor) \in Nat /\ Len(executor') = Len(executor) + 1
        /\ executor'[Len(executor) + 1] = t
        /\ \A i \in 1..Len(executor) : executor'[i] = executor[i]
    BY <1>2, AppendProperties DEF TypeOK
  <2>2. /\ \A i \in 1..Len(executor) : i \in 1..Len(executor')
        /\ Len(executor) + 1 \in 1..Len(executor')
    BY <2>1
  <2>3. \A c, k, x : InFlight(c, k, x) => InFlight(c, k, x)'
    BY <2>1, <2>2 DEF InFlight
  <2>4. \A x \in Asked(t) : InFlight(t.by, t.kind, x)'
    BY <2>1, <2>2 DEF InFlight
  <2> QED
    BY <2>3, <2>4
<1> QED
  BY <1>1, <1>2

LEMMA PostInFlight ==
  ASSUME TypeOK, NEW null \in BOOLEAN, NEW ids, Post(null, ids),
         \/ ~null /\ ids \in Answers(Head(executor))
         \/ null /\ ids = <<>>,
         NEW c, NEW k, NEW x, InFlight(c, k, x)
  PROVE  InFlight(c, k, x)'
<1>1. PICK n, m, t, a : /\ n = Len(executor) /\ m = Len(looper) /\ t = executor[1]
                        /\ a = [by |-> t.by, kind |-> t.kind, null |-> null, ids |-> ids]
  OBVIOUS
<1>2. /\ n \in Nat \ {0} /\ Len(executor') = n - 1
      /\ \A i \in 1..n - 1 : executor'[i] = executor[i + 1]
      /\ m \in Nat /\ Len(looper') = m + 1 /\ looper'[m + 1] = a
      /\ \A i \in 1..m : looper'[i] = looper[i]
      /\ null \/ \A y \in Asked(t) : y \in Range(ids)
  BY <1>1, PostTypes
<1>3. a.by = t.by /\ a.kind = t.kind /\ a.null = null /\ a.ids = ids
  BY <1>1
<1>4. CASE \E i \in 1..m : /\ looper[i].by = c /\ looper[i].kind = k
                           /\ looper[i].null \/ x \in Range(looper[i].ids)
  <2>1. \A i \in 1..m : i \in 1..Len(looper')
    BY <1>2
  <2> QED
    BY <1>2, <1>4, <2>1 DEF InFlight
<1>5. ASSUME NEW i \in 1..n, executor[i].by = c, executor[i].kind = k,
             x \in Asked(executor[i])
      PROVE  InFlight(c, k, x)'
  <2>1. CASE i = 1
    <3>1. m + 1 \in 1..Len(looper')
      BY <1>2
    <3>2. a.by = c /\ a.kind = k /\ (a.null \/ x \in Range(a.ids))
      BY <1>1, <1>2, <1>3, <1>5, <2>1
    <3> QED
      BY <1>2, <3>1, <3>2 DEF InFlight
  <2>2. CASE i # 1
    <3>1. i - 1 \in 1..Len(executor') /\ i - 1 \in 1..n - 1 /\ (i - 1) + 1 = i
      BY <1>2, <2>2
    <3>2. executor'[i - 1] = executor[i]
      BY <1>2, <3>1
    <3> QED
      BY <1>5, <3>1, <3>2 DEF InFlight
  <2> QED
    BY <2>1, <2>2
<1> QED
  BY <1>1, <1>4, <1>5 DEF InFlight

LEMMA PlayEndsInFlight ==
  ASSUME TypeOK, PlayEnds, NEW c, NEW k, k # "play", NEW x, InFlight(c, k, x)
  PROVE  InFlight(c, k, x)'
<1>1. PICK n : n = Len(executor)
  OBVIOUS
<1>2. /\ n \in Nat \ {0} /\ Len(executor') = n - 1 /\ executor[1].kind = "play"
      /\ \A i \in 1..n - 1 : executor'[i] = executor[i + 1]
      /\ UNCHANGED looper
  BY <1>1, HeadTail DEF PlayEnds, TypeOK
<1>3. ASSUME NEW i \in 1..n, executor[i].kind = k
      PROVE  i - 1 \in 1..Len(executor') /\ executor'[i - 1] = executor[i]
  <2>1. i # 1
    BY <1>2, <1>3
  <2>2. i - 1 \in 1..n - 1 /\ (i - 1) + 1 = i
    BY <1>2, <2>1
  <2> QED
    BY <1>2, <2>2
<1> QED
  BY <1>1, <1>2, <1>3 DEF InFlight

\* The last step of an entity takes that one off its way.
LEMMA LastStepInFlight ==
  ASSUME TypeOK, NEW h, NEW done, Handles(h, done), LastStep,
         NEW c, NEW k, NEW x, InFlight(c, k, x)
  PROVE  \/ InFlight(c, k, x)'
         \/ c = Head(looper).by /\ k = Head(looper).kind /\ x = This
<1>0. UNCHANGED executor
  BY DEF Handles
<1>1. PICK m, q : m = Len(looper) /\ q = looper[1].ids
  OBVIOUS
<1>2. /\ Len(looper') = m /\ m \in Nat \ {0} /\ 1 \in 1..m
      /\ looper'[1].by = looper[1].by /\ looper'[1].kind = looper[1].kind
      /\ looper'[1].null = looper[1].null /\ looper'[1].ids = Tail(q)
      /\ \A i \in 1..m : i # 1 => looper'[i] = looper[i]
      /\ Head(looper) = looper[1] /\ This = Head(q) /\ looper[1] \in Replies
      /\ q # <<>> /\ ~looper[1].null
  <2>1. looper \in Seq(Replies) /\ looper # <<>>
    BY DEF TypeOK, Handles
  <2>2. m \in Nat \ {0} /\ 1 \in 1..m /\ Head(looper) = looper[1] /\ looper[1] \in Replies
    BY <1>1, <2>1, HeadTail
  <2>3. q # <<>> /\ ~looper[1].null /\ This = Head(q)
    BY <1>1, <2>2 DEF Handles, This
  <2> QED
    BY <1>1, <2>2, <2>3, LastStepTypes
<1>3. \A y \in Range(q) : y = Head(q) \/ y \in Range(Tail(q))
  <2>1. PICK S : q \in Seq(S)
    BY <1>1, <1>2, QueueTypes
  <2>2. /\ Head(q) = q[1] /\ Len(q) \in Nat \ {0} /\ Tail(q) \in Seq(S)
        /\ Len(Tail(q)) = Len(q) - 1
        /\ \A i \in 1..Len(q) - 1 : Tail(q)[i] = q[i + 1]
    BY <1>2, <2>1, HeadTail
  <2>3. DOMAIN q = 1..Len(q) /\ DOMAIN Tail(q) = 1..Len(q) - 1
    BY <2>1, <2>2
  <2>4. ASSUME NEW i \in 1..Len(q), i # 1
        PROVE  i - 1 \in 1..Len(q) - 1 /\ Tail(q)[i - 1] = q[i]
    <3>1. i - 1 \in 1..Len(q) - 1 /\ (i - 1) + 1 = i
      BY <2>2, <2>4
    <3> QED
      BY <2>2, <3>1
  <2>5. ASSUME NEW y \in Range(q), y # Head(q) PROVE y \in Range(Tail(q))
    <3>1. PICK i \in 1..Len(q) : q[i] = y
      BY <2>3 DEF Range
    <3>2. i # 1
      BY <2>2, <2>5, <3>1
    <3> QED
      BY <2>3, <2>4, <3>1, <3>2 DEF Range
  <2> QED
    BY <2>5
<1>4. CASE \E i \in 1..Len(executor) :
             executor[i].by = c /\ executor[i].kind = k /\ x \in Asked(executor[i])
  BY <1>0, <1>4 DEF InFlight
<1>5. ASSUME NEW i \in 1..m, looper[i].by = c, looper[i].kind = k,
             looper[i].null \/ x \in Range(looper[i].ids)
      PROVE  \/ InFlight(c, k, x)'
             \/ c = looper[1].by /\ k = looper[1].kind /\ x = Head(q)
  <2>1. CASE i # 1
    BY <1>2, <1>5, <2>1 DEF InFlight
  <2>2. CASE i = 1 /\ x # Head(q)
    <3>1. x \in Range(Tail(q))
      BY <1>1, <1>2, <1>3, <1>5, <2>2
    <3> QED
      BY <1>2, <1>5, <2>2, <3>1 DEF InFlight
  <2>3. CASE i = 1 /\ x = Head(q)
    BY <1>5, <2>3
  <2> QED
    BY <2>1, <2>2, <2>3
<1> QED
  BY <1>1, <1>2, <1>4, <1>5 DEF InFlight

LEMMA FinishInFlight ==
  ASSUME TypeOK, Finish, NEW c, NEW k, NEW x, InFlight(c, k, x)
  PROVE  InFlight(c, k, x)'
<1>1. PICK n : n = Len(looper)
  OBVIOUS
<1>2. /\ n \in Nat \ {0} /\ Len(looper') = n - 1 /\ UNCHANGED executor
      /\ \A i \in 1..n - 1 : looper'[i] = looper[i + 1]
      /\ ~looper[1].null /\ looper[1].ids = <<>>
  BY <1>1, FinishTypes DEF Finish
<1>3. x \notin Range(looper[1].ids)
  BY <1>2 DEF Range
<1>4. ASSUME NEW i \in 1..n, looper[i].null \/ x \in Range(looper[i].ids)
      PROVE  i - 1 \in 1..Len(looper') /\ looper'[i - 1] = looper[i]
  <2>1. i # 1
    BY <1>2, <1>3, <1>4
  <2>2. i - 1 \in 1..n - 1 /\ (i - 1) + 1 = i
    BY <1>2, <2>1
  <2> QED
    BY <1>2, <2>2
<1> QED
  BY <1>1, <1>2, <1>4 DEF InFlight

-----------------------------------------------------------------------------
(* The first step of an entity, and the objects. *)

\* A binder thread leaves the maps, the answers and the others' lists alone.
LEMMA CallerKeeps ==
  ASSUME TInv, NEW c \in Callers, CallerNext(c)
  PROVE  /\ UNCHANGED <<looper, half, mapVars, bare, cut, alive>>
         /\ \A d \in Callers : d # c =>
              /\ pc'[d] = pc[d] /\ call'[d] = call[d] /\ page'[d] = page[d]
              /\ list'[d] = list[d]
              /\ todo'[d] = todo[d] /\ live'[d] = live[d] /\ listSongs'[d] = listSongs[d]
         /\ \/ live'[c] = live[c] /\ listSongs'[c] = listSongs[c]
            \/ live'[c] = albums /\ listSongs'[c] = albumSongs
            \/ live'[c] = {}
<1>0. TypeOK
  BY DEF TInv
<1>1. ASSUME NEW k, NEW id, Request(c, k, id) \/ Hit(c, k, id)
      PROVE  /\ UNCHANGED <<looper, half, mapVars, bare, cut, alive, list, todo, page>>
             /\ UNCHANGED listVars
             /\ \A d \in Callers : d # c => pc'[d] = pc[d] /\ call'[d] = call[d]
  BY <1>0, <1>1 DEF Request, Hit, Begin, TypeOK, taskVars
<1>2. CASE RequestPage(c) \/ Play(c)
  <2>1. /\ UNCHANGED <<looper, half, mapVars, bare, cut, alive, list, todo, listVars>>
        /\ \A d \in Callers : d # c =>
             pc'[d] = pc[d] /\ call'[d] = call[d] /\ page'[d] = page[d]
    BY <1>0, <1>2 DEF RequestPage, Play, Begin, TypeOK
  <2> QED
    BY <2>1 DEF listVars
<1>3. CASE TakeAlbums(c)
  BY <1>0, <1>3 DEF TakeAlbums, TypeOK, taskVars
<1>4. CASE TakeArtists(c)
  BY <1>0, <1>4 DEF TakeArtists, TypeOK, taskVars, listVars
<1>5. CASE FetchDetails(c)
  BY <1>0, <1>5 DEF FetchDetails, TypeOK, listVars
<1>6. CASE Return(c)
  BY <1>0, <1>6 DEF Return, TypeOK, taskVars
<1>7. CASE \E k, id : Request(c, k, id) \/ Hit(c, k, id)
  BY <1>1, <1>7 DEF listVars
<1> QED
  BY <1>2, <1>3, <1>4, <1>5, <1>6, <1>7, CallerSteps

LEMMA CallerObjects ==
  ASSUME TInv, HalfInv, ObjectInv, NEW c \in Callers, CallerNext(c)
  PROVE  HalfInv' /\ ObjectInv'
<1>1. UNCHANGED <<looper, half, albums, albumSongs>>
  BY CallerKeeps DEF mapVars
<1>2. HalfInv'
  BY <1>1 DEF HalfInv, This
<1>3. ASSUME NEW d \in Callers, NEW a \in live'[d]
      PROVE  a \in albums /\ listSongs'[d][a] = albumSongs[a]
  <2>1. CASE d # c
    <3>1. live'[d] = live[d] /\ listSongs'[d] = listSongs[d]
      BY <2>1, CallerKeeps
    <3> QED
      BY <1>3, <3>1 DEF ObjectInv
  <2>2. CASE d = c
    <3>1. \/ live'[c] = live[c] /\ listSongs'[c] = listSongs[c]
          \/ live'[c] = albums /\ listSongs'[c] = albumSongs
          \/ live'[c] = {}
      BY CallerKeeps
    <3> QED
      BY <1>3, <2>2, <3>1 DEF ObjectInv
  <2> QED
    BY <2>1, <2>2
<1>4. ObjectInv'
  BY <1>1, <1>3 DEF ObjectInv
<1> QED
  BY <1>2, <1>4

LEMMA PostObjects ==
  ASSUME TypeOK, HalfInv, ObjectInv, NEW null \in BOOLEAN, NEW ids, Post(null, ids),
         \/ ~null /\ ids \in Answers(Head(executor))
         \/ null /\ ids = <<>>
  PROVE  HalfInv' /\ ObjectInv'
<1>1. UNCHANGED <<half, albums, albumSongs, live, listSongs>>
  BY DEF Post, mapVars, listVars
<1>2. looper # <<>> => looper' # <<>> /\ Head(looper') = Head(looper)
  <2>1. /\ looper \in Seq(Replies) /\ looper' \in Seq(Replies) /\ Len(looper) \in Nat
        /\ Len(looper') = Len(looper) + 1
        /\ \A i \in 1..Len(looper) : looper'[i] = looper[i]
    BY PostTypes DEF TypeOK
  <2>2. ASSUME looper # <<>> PROVE looper' # <<>> /\ Head(looper') = Head(looper)
    <3>1. Len(looper) # 0 /\ Head(looper) = looper[1]
      BY <2>1, <2>2
    <3>2. 1 \in 1..Len(looper) /\ looper' # <<>>
      BY <2>1, <3>1
    <3>3. Head(looper') = looper'[1]
      BY <2>1, <3>2
    <3> QED
      BY <2>1, <3>1, <3>2, <3>3
  <2> QED
    BY <2>2
<1> QED
  BY <1>1, <1>2 DEF HalfInv, ObjectInv, This

\* The main thread's steps, but for a null answer and the end of one.
LEMMA HandlingObjects ==
  ASSUME TypeOK, HalfInv, ObjectInv,
         PutAlbum \/ LinkArtist \/ PutArtist \/ LinkAlbum \/ PutSong \/ JsonError
  PROVE  HalfInv' /\ ObjectInv'
<1>1. CASE PutAlbum
  <2>1. /\ Handles("albumsCallback", FALSE) /\ This \in Albums /\ UNCHANGED looper
        /\ looper # <<>> /\ ~Head(looper).null /\ Head(looper).ids # <<>>
        /\ Handler(Head(looper).kind) = "albumsCallback"
    BY <1>1, HandlesTypes DEF PutAlbum, FirstStep, Handles
  <2>2. HalfInv'
    <3>1. This \in albums'
      BY <1>1 DEF PutAlbum
    <3> QED
      BY <2>1, <3>1 DEF HalfInv, This
  <2>3. ASSUME NEW a \in Albums PROVE albumSongs'[a] \subseteq SongsOf(a)
    BY <1>1, <2>1, <2>3 DEF PutAlbum, ObjectInv, TypeOK
  <2>4. ASSUME NEW d \in Callers, NEW a \in live'[d]
        PROVE  a \in albums' /\ listSongs'[d][a] = albumSongs'[a]
    <3>1. a \in live[d] /\ a # This /\ a \in Albums
      BY <1>1, <2>4 DEF PutAlbum, TypeOK
    <3> QED
      BY <1>1, <2>1, <2>4, <3>1 DEF PutAlbum, ObjectInv, TypeOK
  <2> QED
    BY <2>2, <2>3, <2>4 DEF ObjectInv
<1>2. CASE LinkArtist \/ PutArtist \/ PutSong \/ JsonError
  <2>1. ~half' /\ UNCHANGED <<albums, albumSongs, live, listSongs>>
    BY <1>2 DEF LinkArtist, PutArtist, PutSong, JsonError, LastStep, listVars, mapVars
  <2> QED
    BY <2>1 DEF HalfInv, ObjectInv
<1>3. CASE LinkAlbum
  <2>1. /\ Handles("getSongsCallback", FALSE) /\ This \in Songs /\ UNCHANGED looper
        /\ looper # <<>> /\ ~Head(looper).null /\ Head(looper).ids # <<>>
        /\ Handler(Head(looper).kind) = "getSongsCallback"
    BY <1>3, HandlesTypes DEF LinkAlbum, FirstStep, Handles
  <2>2. PICK s : s = This
    OBVIOUS
  <2>3. /\ UNCHANGED <<albums, live>>
        /\ \A a \in Albums : albumSongs'[a] = IF InAlbum(s, a) THEN albumSongs[a] \cup {s}
                                              ELSE albumSongs[a]
        /\ \A d \in Callers : \A a \in Albums :
             listSongs'[d][a] = IF InAlbum(s, a) /\ a \in live[d]
                                THEN listSongs[d][a] \cup {s} ELSE listSongs[d][a]
    BY <1>3, <2>2 DEF LinkAlbum
  <2>4. HalfInv'
    <3>1. AlbumOf[s] \in albums => s \in albumSongs'[AlbumOf[s]]
      <4>1. AlbumOf[s] \in Albums
        BY <2>1, <2>2, LibraryAssumption
      <4> QED
        BY <2>3, <4>1 DEF InAlbum
    <3> QED
      BY <2>1, <2>2, <2>3, <3>1 DEF HalfInv, This
  <2>5. ASSUME NEW a \in Albums PROVE albumSongs'[a] \subseteq SongsOf(a)
    <3>1. albumSongs[a] \subseteq SongsOf(a)
      BY DEF ObjectInv
    <3>2. InAlbum(s, a) => s \in SongsOf(a)
      BY <2>1, <2>2 DEF InAlbum, SongsOf
    <3> QED
      BY <2>3, <3>1, <3>2
  <2>6. ASSUME NEW d \in Callers, NEW a \in live'[d]
        PROVE  a \in albums' /\ listSongs'[d][a] = albumSongs'[a]
    <3>1. a \in live[d] /\ a \in Albums
      BY <2>3, <2>6 DEF TypeOK
    <3>2. a \in albums /\ listSongs[d][a] = albumSongs[a]
      BY <3>1 DEF ObjectInv
    <3> QED
      BY <2>3, <3>1, <3>2
  <2> QED
    BY <2>4, <2>5, <2>6 DEF ObjectInv
<1> QED
  BY <1>1, <1>2, <1>3

LEMMA OtherObjects ==
  ASSUME HalfInv, ObjectInv, PlayEnds \/ HandleNull \/ Finish \/ UNCHANGED vars
  PROVE  HalfInv' /\ ObjectInv'
<1>1. CASE PlayEnds \/ HandleNull \/ UNCHANGED vars
  <2>1. UNCHANGED <<looper, half, albums, albumSongs, live, listSongs>>
    BY <1>1 DEF PlayEnds, HandleNull, vars, taskVars, mapVars, listVars
  <2> QED
    BY <2>1 DEF HalfInv, ObjectInv, This
<1>2. CASE Finish
  <2>1. ~half' /\ UNCHANGED <<albums, albumSongs, live, listSongs>>
    BY <1>2 DEF Finish, HalfInv, mapVars, listVars
  <2> QED
    BY <2>1 DEF HalfInv, ObjectInv
<1> QED
  BY <1>1, <1>2

-----------------------------------------------------------------------------
(* What a call is owed it gets. *)

\* The executor and the main thread leave the calls what they want and owe, when what
\* they take off its way is delivered and what they put is owed.
LEMMA KeepsComplete ==
  ASSUME TypeOK, CompleteInv, cut' = cut, UNCHANGED <<pc, call, page, list, todo>>,
         albums \subseteq albums', artists \subseteq artists', songs \subseteq songs',
         albums' \subseteq Albums, artists' \subseteq Artists,
         \A c, k, x : k # "play" /\ InFlight(c, k, x) => InFlight(c, k, x)' \/ Delivered(k, x)',
         \A c \in Callers : \A a \in live'[c] :
           a \in live[c] /\ a \in albums' /\ albumSongs[a] \subseteq albumSongs'[a],
         \A a \in albums' \ bare' :
           \/ a \in albums \ bare /\ albumSongs[a] \subseteq albumSongs'[a]
           \/ \E c \in Callers : pc[c] = "wait" /\ call[c].kind = "albums",
         \A r \in artists' :
           \/ artistAlbums'[r] = AlbumsOf(r)
           \/ r \in artists /\ artistAlbums[r] # AlbumsOf(r)
           \/ \E c \in Callers : pc[c] = "wait" /\ call[c].kind = "artists"
  PROVE  CompleteInv'
<1> SUFFICES ASSUME ~cut PROVE RefInv' /\ ListInv' /\ AlbumInv' /\ ArtistInv' /\ PageInv'
  BY DEF CompleteInv
<1>0. RefInv /\ ListInv /\ AlbumInv /\ ArtistInv /\ PageInv
  BY DEF CompleteInv
<1>1. \A c, k, x : k # "play" /\ InFlight(c, k, x) => InFlight(c, k, x)' \/ Delivered(k, x)'
  OBVIOUS
<1>2. RefInv'
  <2> SUFFICES ASSUME NEW c \in Callers
               PROVE  /\ \A a \in Albums :
                           Wants(c, "album", a)' => a \in albums' \/ InFlight(c, "album", a)'
                      /\ \A r \in Artists :
                           Wants(c, "artist", r)' =>
                             r \in artists' \/ InFlight(c, "artist", r)'
                      /\ \A s \in Songs :
                           Wants(c, "song", s)' => s \in songs' \/ InFlight(c, "song", s)'
    BY DEF RefInv, WantsMet
  <2>1. \A k, x : Wants(c, k, x)' => Wants(c, k, x)
    BY DEF Wants
  <2>2. \A a \in Albums :
          Wants(c, "album", a)' => a \in albums' \/ InFlight(c, "album", a)'
    BY <1>0, <1>1, <2>1 DEF RefInv, WantsMet, Delivered
  <2>3. \A r \in Artists :
          Wants(c, "artist", r)' => r \in artists' \/ InFlight(c, "artist", r)'
    BY <1>0, <1>1, <2>1 DEF RefInv, WantsMet, Delivered
  <2>4. \A s \in Songs :
          Wants(c, "song", s)' => s \in songs' \/ InFlight(c, "song", s)'
    BY <1>0, <1>1, <2>1 DEF RefInv, WantsMet, Delivered
  <2> QED
    BY <2>2, <2>3, <2>4
<1>3. ASSUME NEW c, NEW a, a \in albums', NEW s \in SongsOf(a),
             InFlight(c, "albumSongs", s)
      PROVE  InFlight(c, "albumSongs", s)' \/ s \in albumSongs'[a]
  <2>1. InFlight(c, "albumSongs", s)' \/ Delivered("albumSongs", s)'
    BY <1>1, <1>3
  <2>2. AlbumOf[s] = a
    BY <1>3 DEF SongsOf
  <2> QED
    BY <1>3, <2>1, <2>2 DEF Delivered
<1>4. ListInv'
  <2> SUFFICES ASSUME NEW c \in Callers, call[c].kind = "albums"
               PROVE  /\ pc[c] = "wait" =>
                           \A a \in Albums : a \in albums' \/ InFlight(c, "albums", a)'
                      /\ pc[c] = "details" =>
                           /\ list[c] = Albums
                           /\ \A a \in live'[c] : \A s \in SongsOf(a) :
                                \/ s \in albumSongs'[a]
                                \/ a \in todo[c]
                                \/ InFlight(c, "albumSongs", s)'
    BY DEF ListInv, ListMet
  <2>1. ASSUME pc[c] = "wait", NEW a \in Albums
        PROVE  a \in albums' \/ InFlight(c, "albums", a)'
    BY <1>0, <1>1, <2>1 DEF ListInv, ListMet, Delivered
  <2>2. ASSUME pc[c] = "details", NEW a \in live'[c], NEW s \in SongsOf(a)
        PROVE  s \in albumSongs'[a] \/ a \in todo[c] \/ InFlight(c, "albumSongs", s)'
    <3>1. a \in live[c] /\ a \in albums' /\ albumSongs[a] \subseteq albumSongs'[a]
      BY <2>2
    <3>2. s \in albumSongs[a] \/ a \in todo[c] \/ InFlight(c, "albumSongs", s)
      BY <1>0, <2>2, <3>1 DEF ListInv, ListMet
    <3> QED
      BY <1>3, <2>2, <3>1, <3>2
  <2>3. pc[c] = "details" => list[c] = Albums
    BY <1>0 DEF ListInv, ListMet
  <2> QED
    BY <2>1, <2>2, <2>3
<1>5. AlbumInv'
  <2> SUFFICES ASSUME NEW a \in albums' \ bare', NEW s \in SongsOf(a),
                      s \notin albumSongs'[a]
               PROVE  \E c \in Callers : OwesSong(c, a, s)'
    BY DEF AlbumInv
  <2>1. CASE a \in albums \ bare /\ albumSongs[a] \subseteq albumSongs'[a]
    <3>1. PICK c \in Callers : OwesSong(c, a, s)
      BY <1>0, <2>1 DEF AlbumInv
    <3>2. OwesSong(c, a, s)'
      BY <1>3, <3>1 DEF OwesSong
    <3> QED
      BY <3>2
  <2>2. CASE \E c \in Callers : pc[c] = "wait" /\ call[c].kind = "albums"
    BY <2>2 DEF OwesSong
  <2> QED
    BY <2>1, <2>2
<1>6. ArtistInv'
  <2> SUFFICES ASSUME NEW r \in artists', artistAlbums'[r] # AlbumsOf(r)
               PROVE  \E c \in Callers : OwesDetails(c, r)'
    <3>1. (\A r \in artists' :
             artistAlbums'[r] = AlbumsOf(r) \/ \E c \in Callers : OwesDetails(c, r)')
          => ArtistInv'
      BY DEF ArtistInv, AlbumsOf
    <3> QED
      BY <3>1
  <2>1. CASE r \in artists /\ artistAlbums[r] # AlbumsOf(r)
    <3>1. PICK c \in Callers : OwesDetails(c, r)
      BY <1>0, <2>1 DEF ArtistInv
    <3>2. ~Delivered("artist", r)'
      BY DEF Delivered, AlbumsOf
    <3>3. OwesDetails(c, r)'
      BY <1>1, <3>1, <3>2 DEF OwesDetails
    <3> QED
      BY <3>3
  <2>2. CASE \E c \in Callers : pc[c] = "wait" /\ call[c].kind = "artists"
    BY <2>2 DEF OwesDetails
  <2> QED
    BY <2>1, <2>2
<1>7. PageInv'
  <2> SUFFICES ASSUME NEW c \in Callers PROVE PageMet(c)'
    BY DEF PageInv
  <2>1. PageMet(c)
    BY <1>0 DEF PageInv
  <2>2. \A x : InFlight(c, "songs", x) => InFlight(c, "songs", x)' \/ x \in songs'
    BY <1>1 DEF Delivered
  <2> QED
    BY <2>1, <2>2 DEF PageMet, Paging
<1> QED
  BY <1>2, <1>4, <1>5, <1>6, <1>7

LEMMA PostComplete ==
  ASSUME TypeOK, TypeOK', ObjectInv, CompleteInv, NEW null \in BOOLEAN, NEW ids,
         Post(null, ids),
         \/ ~null /\ ids \in Answers(Head(executor))
         \/ null /\ ids = <<>>
  PROVE  CompleteInv'
<1>1. /\ UNCHANGED <<pc, call, page, list, todo, cut, albums, artists, songs, bare, live>>
      /\ UNCHANGED <<albumSongs, artistAlbums>>
  BY DEF Post, callerVars, listVars, mapVars
<1>2. \A c, k, x : InFlight(c, k, x) => InFlight(c, k, x)'
  BY PostInFlight
<1>3. albums \subseteq Albums /\ artists \subseteq Artists
  BY DEF TypeOK
<1> QED
  BY <1>1, <1>2, <1>3, KeepsComplete DEF ObjectInv

LEMMA PlayEndsComplete ==
  ASSUME TypeOK, ObjectInv, CompleteInv, PlayEnds
  PROVE  CompleteInv'
<1>1. /\ UNCHANGED <<pc, call, page, list, todo, cut, albums, artists, songs, bare, live>>
      /\ UNCHANGED <<albumSongs, artistAlbums>>
  BY DEF PlayEnds, callerVars, listVars, mapVars
<1>2. \A c, k, x : k # "play" /\ InFlight(c, k, x) => InFlight(c, k, x)'
  BY PlayEndsInFlight
<1>3. albums \subseteq Albums /\ artists \subseteq Artists
  BY DEF TypeOK
<1> QED
  BY <1>1, <1>2, <1>3, KeepsComplete DEF ObjectInv

LEMMA FinishComplete ==
  ASSUME TypeOK, ObjectInv, CompleteInv, Finish
  PROVE  CompleteInv'
<1>1. /\ UNCHANGED <<pc, call, page, list, todo, cut, albums, artists, songs, bare, live>>
      /\ UNCHANGED <<albumSongs, artistAlbums>>
  BY DEF Finish, callerVars, listVars, mapVars
<1>2. \A c, k, x : InFlight(c, k, x) => InFlight(c, k, x)'
  BY FinishInFlight
<1>3. albums \subseteq Albums /\ artists \subseteq Artists
  BY DEF TypeOK
<1> QED
  BY <1>1, <1>2, <1>3, KeepsComplete DEF ObjectInv

\* Whose answer is handled spins for it.
LEMMA HeadSpins ==
  ASSUME TypeOK, OneTaskInv, NEW h, NEW done, Handles(h, done)
  PROVE  /\ Head(looper).by \in Callers
         /\ Spins(Head(looper).by, Head(looper).kind)
<1>1. looper \in Seq(Replies) /\ looper # <<>>
  BY DEF TypeOK, Handles
<1>2. Head(looper) = looper[1] /\ 1 \in 1..Len(looper) /\ looper[1] \in Replies
  BY <1>1, HeadTail
<1> QED
  BY <1>2, QueueTypes DEF OneTaskInv

LEMMA PutAlbumComplete ==
  ASSUME TypeOK, TypeOK', OneTaskInv, ObjectInv, CompleteInv, PutAlbum
  PROVE  CompleteInv'
<1>1. /\ Handles("albumsCallback", FALSE) /\ This \in Albums
      /\ Head(looper).kind \in {"albums", "album"}
  BY HandlesTypes DEF PutAlbum
<1>2. PICK x, k, b : x = This /\ k = Head(looper).kind /\ b = Head(looper).by
  OBVIOUS
<1>3. /\ UNCHANGED <<pc, call, page, list, todo, cut, artists, songs, artistAlbums, looper,
                     executor>>
      /\ albums' = albums \cup {x}
      /\ \A a \in Albums : a # x => albumSongs'[a] = albumSongs[a]
      /\ \A c \in Callers : live'[c] = live[c] \ {x}
      /\ bare' = IF k = "album" THEN bare \cup {x} ELSE bare \ {x}
  BY <1>1, <1>2 DEF PutAlbum, FirstStep, Handles, callerVars, TypeOK
<1>4. \A c, l, y : InFlight(c, l, y) => InFlight(c, l, y)'
  BY <1>3 DEF InFlight
<1>5. albums' \subseteq Albums /\ artists' \subseteq Artists
  BY DEF TypeOK
<1>6. \A c \in Callers : \A a \in live'[c] :
        a \in live[c] /\ a \in albums' /\ albumSongs[a] \subseteq albumSongs'[a]
  <2>1. \A c \in Callers : \A a \in live[c] : a \in albums /\ a \in Albums
    BY DEF ObjectInv, TypeOK
  <2> QED
    BY <1>3, <2>1
<1>7. ASSUME NEW a \in albums' \ bare'
      PROVE  \/ a \in albums \ bare /\ albumSongs[a] \subseteq albumSongs'[a]
             \/ \E c \in Callers : pc[c] = "wait" /\ call[c].kind = "albums"
  <2>1. CASE a = x
    <3>1. k = "albums"
      BY <1>1, <1>2, <1>3, <2>1
    <3>2. b \in Callers /\ Spins(b, "albums")
      BY <1>1, <1>2, <3>1, HeadSpins
    <3> QED
      BY <3>2 DEF Spins, DetailKind
  <2>2. CASE a # x
    BY <1>3, <1>5, <2>2
  <2> QED
    BY <2>1, <2>2
<1>8. \A r \in artists' : \/ artistAlbums'[r] = AlbumsOf(r)
                          \/ r \in artists /\ artistAlbums[r] # AlbumsOf(r)
  BY <1>3
<1> QED
  BY <1>3, <1>4, <1>5, <1>6, <1>7, <1>8, KeepsComplete

LEMMA LinkArtistComplete ==
  ASSUME TypeOK, TypeOK', HalfInv, ObjectInv, CompleteInv, LinkArtist
  PROVE  CompleteInv'
<1>1. /\ Handles("albumsCallback", TRUE) /\ This \in Albums /\ LastStep
      /\ Head(looper).kind \in {"albums", "album"}
      /\ This \in albums
  BY HandlesTypes DEF LinkArtist, HalfInv, Handles
<1>2. PICK x, k : x = This /\ k = Head(looper).kind
  OBVIOUS
<1>3. /\ UNCHANGED <<pc, call, page, list, todo, cut, albums, albumSongs, artists, songs, live,
                     bare>>
      /\ \A r \in Artists :
           artistAlbums'[r] = IF r \in artists /\ ArtistOf[x] = r
                              THEN artistAlbums[r] \cup {x} ELSE artistAlbums[r]
  BY <1>1, <1>2 DEF LinkArtist, Handles, callerVars, listVars
<1>4. Delivered(k, x)'
  BY <1>1, <1>2, <1>3 DEF Delivered
<1>5. \A c, l, y : InFlight(c, l, y) => InFlight(c, l, y)' \/ Delivered(l, y)'
  BY <1>1, <1>2, <1>4, LastStepInFlight
<1>6. albums' \subseteq Albums /\ artists' \subseteq Artists
  BY DEF TypeOK
<1>7. \A r \in artists' : \/ artistAlbums'[r] = AlbumsOf(r)
                          \/ r \in artists /\ artistAlbums[r] # AlbumsOf(r)
  <2>1. \A r \in Artists : ArtistOf[x] = r => x \in AlbumsOf(r)
    BY <1>1, <1>2 DEF AlbumsOf
  <2> QED
    BY <1>3, <1>6, <2>1
<1> QED
  BY <1>3, <1>5, <1>6, <1>7, KeepsComplete DEF ObjectInv

LEMMA PutArtistComplete ==
  ASSUME TypeOK, TypeOK', OneTaskInv, ObjectInv, CompleteInv, PutArtist
  PROVE  CompleteInv'
<1>1. /\ Handles("artistsCallback", FALSE) /\ This \in Artists /\ LastStep
      /\ Head(looper).kind \in {"artists", "artist"}
  BY HandlesTypes DEF PutArtist
<1>2. PICK x, k, b : x = This /\ k = Head(looper).kind /\ b = Head(looper).by
  OBVIOUS
<1>3. /\ UNCHANGED <<pc, call, page, list, todo, cut, albums, albumSongs, songs, live, bare>>
      /\ artists' = artists \cup {x}
  BY <1>1, <1>2 DEF PutArtist, Handles, callerVars, listVars
<1>4. /\ \A r \in Artists : r # x => artistAlbums'[r] = artistAlbums[r]
      /\ k = "artist" => artistAlbums'[x] = AlbumsOf(x)
  <2>1. PICK as \in ArtistObjects(k, x) : artistAlbums' = [artistAlbums EXCEPT ![x] = as]
    BY <1>2 DEF PutArtist
  <2>2. k = "artist" => as = AlbumsOf(x)
    BY <2>1 DEF ArtistObjects
  <2>3. x \in Artists /\ artistAlbums \in [Artists -> SUBSET Albums]
    BY <1>1, <1>2 DEF TypeOK
  <2> QED
    BY <2>1, <2>2, <2>3
<1>5. Delivered(k, x)'
  <2>1. k \in {"artists", "artist"} /\ x \in artists'
    BY <1>1, <1>2, <1>3
  <2> QED
    BY <1>4, <2>1 DEF Delivered, AlbumsOf
<1>6. \A c, l, y : InFlight(c, l, y) => InFlight(c, l, y)' \/ Delivered(l, y)'
  BY <1>1, <1>2, <1>5, LastStepInFlight
<1>7. albums' \subseteq Albums /\ artists' \subseteq Artists
  BY DEF TypeOK
<1>8. ASSUME NEW r \in artists'
      PROVE  \/ artistAlbums'[r] = AlbumsOf(r)
             \/ r \in artists /\ artistAlbums[r] # AlbumsOf(r)
             \/ \E c \in Callers : pc[c] = "wait" /\ call[c].kind = "artists"
  <2>1. CASE r = x /\ k = "artists"
    <3>1. b \in Callers /\ Spins(b, "artists")
      BY <1>1, <1>2, <2>1, HeadSpins
    <3> QED
      BY <3>1 DEF Spins, DetailKind
  <2>2. CASE r = x /\ k = "artist"
    BY <1>4, <2>2
  <2>3. CASE r # x
    BY <1>3, <1>4, <1>7, <2>3
  <2> QED
    BY <1>1, <1>2, <2>1, <2>2, <2>3
<1> QED
  BY <1>3, <1>6, <1>7, <1>8, KeepsComplete DEF ObjectInv

LEMMA LinkAlbumComplete ==
  ASSUME TypeOK, TypeOK', ObjectInv, CompleteInv, LinkAlbum
  PROVE  CompleteInv'
<1>1. Handles("getSongsCallback", FALSE)
  BY DEF LinkAlbum
<1>2. /\ UNCHANGED <<pc, call, page, list, todo, cut, albums, artists, artistAlbums, songs>>
      /\ UNCHANGED <<live, bare, looper, executor>>
      /\ \A a \in Albums : albumSongs[a] \subseteq albumSongs'[a]
  BY <1>1 DEF LinkAlbum, FirstStep, Handles, callerVars
<1>3. \A c, l, y : InFlight(c, l, y) => InFlight(c, l, y)'
  BY <1>2 DEF InFlight
<1>4. albums' \subseteq Albums /\ artists' \subseteq Artists
  BY DEF TypeOK
<1>5. \A c \in Callers : \A a \in live[c] : a \in albums /\ a \in Albums
  BY DEF ObjectInv, TypeOK
<1> QED
  BY <1>2, <1>3, <1>4, <1>5, KeepsComplete

LEMMA PutSongComplete ==
  ASSUME TypeOK, TypeOK', HalfInv, ObjectInv, CompleteInv, PutSong
  PROVE  CompleteInv'
<1>1. /\ Handles("getSongsCallback", TRUE) /\ This \in Songs /\ LastStep
      /\ Head(looper).kind \in {"songs", "song", "albumSongs"}
      /\ AlbumOf[This] \in albums => This \in albumSongs[AlbumOf[This]]
  BY HandlesTypes DEF PutSong, HalfInv, Handles
<1>2. PICK x, k : x = This /\ k = Head(looper).kind
  OBVIOUS
<1>3. /\ UNCHANGED <<pc, call, page, list, todo, cut, albums, albumSongs, artists, artistAlbums,
                     live, bare>>
      /\ songs' = songs \cup {x}
  BY <1>1, <1>2 DEF PutSong, Handles, callerVars, listVars
<1>4. Delivered(k, x)'
  BY <1>1, <1>2, <1>3 DEF Delivered
<1>5. \A c, l, y : InFlight(c, l, y) => InFlight(c, l, y)' \/ Delivered(l, y)'
  BY <1>1, <1>2, <1>4, LastStepInFlight
<1>6. albums' \subseteq Albums /\ artists' \subseteq Artists
  BY DEF TypeOK
<1> QED
  BY <1>3, <1>5, <1>6, KeepsComplete DEF ObjectInv

-----------------------------------------------------------------------------
(* What a binder thread's step does to what is owed. *)

\* A step of c: the others keep what they want and owe, and what c does not owe any
\* more is there.
LEMMA OthersKeepComplete ==
  ASSUME CompleteInv, NEW c \in Callers, UNCHANGED <<mapVars, bare, cut>>,
         \A d \in Callers : d # c =>
           /\ pc'[d] = pc[d] /\ call'[d] = call[d] /\ list'[d] = list[d] /\ page'[d] = page[d]
           /\ todo'[d] = todo[d] /\ live'[d] = live[d],
         \A d, k, x : InFlight(d, k, x) => InFlight(d, k, x)',
         ~cut => WantsMet(c)' /\ ListMet(c)' /\ PageMet(c)',
         \A a \in albums : \A s \in SongsOf(a) : OwesSong(c, a, s) => OwesSong(c, a, s)',
         \A r \in artists : OwesDetails(c, r) => OwesDetails(c, r)'
  PROVE  CompleteInv'
<1> SUFFICES ASSUME ~cut PROVE RefInv' /\ ListInv' /\ AlbumInv' /\ ArtistInv' /\ PageInv'
  BY DEF CompleteInv
<1>0. /\ RefInv /\ ListInv /\ AlbumInv /\ ArtistInv /\ PageInv
      /\ UNCHANGED <<albums, albumSongs, artists, artistAlbums, songs, bare>>
  BY DEF CompleteInv, mapVars
<1>1. ASSUME NEW d \in Callers, d # c PROVE WantsMet(d)' /\ ListMet(d)' /\ PageMet(d)'
  <2>1. WantsMet(d) /\ ListMet(d) /\ PageMet(d)
    BY <1>0 DEF RefInv, ListInv, PageInv
  <2>2. WantsMet(d)'
    BY <1>0, <1>1, <2>1 DEF WantsMet, Wants
  <2>3. ListMet(d)'
    BY <1>0, <1>1, <2>1 DEF ListMet, SongsOf
  <2>4. PageMet(d)'
    BY <1>0, <1>1, <2>1 DEF PageMet, Paging
  <2> QED
    BY <2>2, <2>3, <2>4
<1>2. RefInv' /\ ListInv' /\ PageInv'
  BY <1>1 DEF RefInv, ListInv, PageInv
<1>3. AlbumInv'
  <2> SUFFICES ASSUME NEW a \in albums \ bare, NEW s \in SongsOf(a),
                      s \notin albumSongs[a]
               PROVE  \E d \in Callers : OwesSong(d, a, s)'
    BY <1>0 DEF AlbumInv, SongsOf
  <2>1. PICK d \in Callers : OwesSong(d, a, s)
    BY <1>0 DEF AlbumInv
  <2>2. d # c => OwesSong(d, a, s)'
    BY <2>1 DEF OwesSong
  <2>3. d = c => OwesSong(d, a, s)'
    BY <2>1
  <2> QED
    BY <2>2, <2>3
<1>4. ArtistInv'
  <2> SUFFICES ASSUME NEW r \in artists, artistAlbums[r] # AlbumsOf(r)
               PROVE  \E d \in Callers : OwesDetails(d, r)'
    BY <1>0 DEF ArtistInv, AlbumsOf
  <2>1. PICK d \in Callers : OwesDetails(d, r)
    BY <1>0 DEF ArtistInv
  <2>2. d # c => OwesDetails(d, r)'
    BY <2>1 DEF OwesDetails
  <2>3. d = c => OwesDetails(d, r)'
    BY <2>1
  <2> QED
    BY <2>2, <2>3
<1> QED
  BY <1>2, <1>3, <1>4

\* What c has read stays read in a step that asks for no page, when the last page it has
\* asked for has come.
LEMMA ReadPages ==
  ASSUME CompleteInv, NEW c \in Callers, page'[c] = page[c], UNCHANGED songs, ~Paging(c)',
         Paging(c) => \A x : ~InFlight(c, "songs", x)
  PROVE  ~cut => PageMet(c)'
  BY DEF CompleteInv, PageInv, PageMet

\* A thread that is not waiting or fetching owes nothing.
LEMMA IdleOwesNothing ==
  ASSUME NEW c, pc[c] \in {"idle", "found"}
  PROVE  (\A a, s : ~OwesSong(c, a, s)) /\ (\A r : ~OwesDetails(c, r))
  BY DEF OwesSong, OwesDetails

LEMMA RequestComplete ==
  ASSUME TInv, CompleteInv, NEW c \in Callers, CallerNext(c),
         NEW k, NEW id, Requested(k, id), Request(c, k, id)
  PROVE  CompleteInv'
<1>0. TypeOK
  BY DEF TInv
<1>1. Begin(c, k, id) /\ Submit(c, k, id) /\ pc[c] = "idle" /\ pc'[c] = "wait"
      /\ UNCHANGED <<looper, page, songs>>
  BY <1>0 DEF Request, Begin, TypeOK, mapVars
<1>2. PICK t : t = [by |-> c, kind |-> k, of |-> id]
  OBVIOUS
<1>3. t \in Tasks /\ t.kind = k /\ t.by = c /\ t.of = id /\ executor' = Append(executor, t)
  BY <1>1, <1>2, RequestedTypes DEF Submit
<1>4. /\ \A d, l, x : InFlight(d, l, x) => InFlight(d, l, x)'
      /\ \A x \in Asked(t) : InFlight(c, k, x)'
  BY <1>0, <1>1, <1>3, SubmitInFlight
<1>5. call'[c].kind = k /\ call'[c].of = id
  BY <1>0, <1>1, BeginTypes, RequestedTypes
<1>6. /\ k = "albums" => Asked(t) = Albums
      /\ k \in {"album", "artist", "song"} => Asked(t) = {id}
  BY <1>3 DEF Asked
<1>7. WantsMet(c)'
  BY <1>4, <1>5, <1>6 DEF WantsMet, Wants
<1>8. ListMet(c)'
  BY <1>1, <1>4, <1>5, <1>6 DEF ListMet
<1>9. ~cut => PageMet(c)'
  <2>1. ~Paging(c) /\ ~Paging(c)'
    BY <1>1, <1>5 DEF Paging, Requested
  <2> QED
    BY <1>1, <2>1, ReadPages
<1> QED
  BY <1>1, <1>4, <1>7, <1>8, <1>9, CallerKeeps, IdleOwesNothing, OthersKeepComplete

LEMMA HitComplete ==
  ASSUME TInv, CompleteInv, NEW c \in Callers, CallerNext(c),
         NEW k, NEW id, Requested(k, id), Hit(c, k, id)
  PROVE  CompleteInv'
<1>0. TypeOK
  BY DEF TInv
<1>1. Begin(c, k, id) /\ Known(k, id) /\ pc[c] = "idle" /\ pc'[c] = "found"
      /\ UNCHANGED <<executor, looper, page, albums, artists, songs>>
  BY <1>0 DEF Hit, AfterHit, Begin, TypeOK, taskVars, mapVars
<1>2. \A d, l, x : InFlight(d, l, x) => InFlight(d, l, x)'
  BY <1>1 DEF InFlight
<1>3. call'[c].kind = k /\ call'[c].of = id
  BY <1>0, <1>1, BeginTypes, RequestedTypes
<1>4. WantsMet(c)'
  BY <1>1, <1>3 DEF WantsMet, Wants, Known
<1>5. ListMet(c)'
  BY <1>1 DEF ListMet
<1>6. ~cut => PageMet(c)'
  BY <1>1, ReadPages DEF Paging
<1> QED
  BY <1>1, <1>2, <1>4, <1>5, <1>6, CallerKeeps, IdleOwesNothing, OthersKeepComplete

LEMMA PlayComplete ==
  ASSUME TInv, CompleteInv, NEW c \in Callers, CallerNext(c), Play(c)
  PROVE  CompleteInv'
<1>0. TypeOK
  BY DEF TInv
<1>1. /\ UNCHANGED <<looper, pc, page, songs>> /\ pc[c] = "idle"
      /\ executor' = Append(executor, [by |-> c, kind |-> "play", of |-> NoId])
  BY DEF Play, Begin, mapVars
<1>2. [by |-> c, kind |-> "play", of |-> NoId] \in Tasks
  BY DEF Tasks
<1>3. \A d, l, x : InFlight(d, l, x) => InFlight(d, l, x)'
  BY <1>0, <1>1, <1>2, SubmitInFlight
<1>4. WantsMet(c)' /\ ListMet(c)'
  BY <1>1 DEF WantsMet, Wants, ListMet
<1>5. ~cut => PageMet(c)'
  BY <1>1, ReadPages DEF Paging
<1> QED
  BY <1>1, <1>3, <1>4, <1>5, CallerKeeps, IdleOwesNothing, OthersKeepComplete

\* The page that is asked for follows the ones that have come.
LEMMA PageComplete ==
  ASSUME TInv, CompleteInv, NEW c \in Callers, CallerNext(c), RequestPage(c)
  PROVE  CompleteInv'
<1>0. TypeOK
  BY DEF TInv
<1>1. PICK o, t : o = page[c] * Limit /\ t = [by |-> c, kind |-> "songs", of |-> o]
  OBVIOUS
<1>2. /\ Begin(c, "songs", o) /\ [kind |-> "songs", of |-> o] \in Calls
      /\ t \in Tasks /\ t.by = c /\ t.kind = "songs" /\ t.of = o
      /\ executor' = Append(executor, t)
      /\ o \in Nat /\ page[c] \in Nat /\ Limit \in Nat
      /\ UNCHANGED <<looper, songs>> /\ pc[c] = "idle" /\ pc'[c] = "wait"
      /\ page'[c] = page[c] + 1 \/ page'[c] = 0
  BY <1>0, <1>1, PageTypes, LibraryBoundAssumption
     DEF RequestPage, Begin, Submit, TypeOK, mapVars
<1>3. /\ \A d, l, x : InFlight(d, l, x) => InFlight(d, l, x)'
      /\ \A x \in Range(ServerPage(o)) : InFlight(c, "songs", x)'
  <2>1. Asked(t) = Range(ServerPage(o))
    BY <1>2 DEF Asked
  <2> QED
    BY <1>0, <1>2, <2>1, SubmitInFlight
<1>4. call'[c].kind = "songs" /\ call'[c].of = o
  BY <1>0, <1>2, BeginTypes
<1>5. WantsMet(c)' /\ ListMet(c)'
  BY <1>4 DEF WantsMet, Wants, ListMet
<1>6. ~cut => PageMet(c)'
  <2> SUFFICES ASSUME ~cut, NEW i \in 1..Len(SongList),
                      i <= page'[c] * Limit \/ i <= o + Limit
               PROVE  SongList[i] \in songs \/ InFlight(c, "songs", SongList[i])'
    BY <1>2, <1>4 DEF PageMet, Paging
  <2>1. i <= o + Limit /\ i \in Nat
    <3>1. (page[c] + 1) * Limit = o + Limit /\ 0 * Limit = 0
      BY <1>1, <1>2
    <3> QED
      BY <1>2, <3>1
  <2>2. CASE i <= o
    <3>1. PageMet(c) /\ ~Paging(c)
      BY <1>2 DEF CompleteInv, PageInv, Paging
    <3> QED
      BY <1>1, <2>2, <3>1 DEF PageMet
  <2>3. CASE o < i
    <3>1. SongList[i] \in Range(ServerPage(o))
      BY <1>2, <2>1, <2>3, PageOfList
    <3> QED
      BY <1>3, <3>1
  <2> QED
    BY <1>2, <2>1, <2>2, <2>3
<1> QED
  BY <1>2, <1>3, <1>5, <1>6, CallerKeeps, IdleOwesNothing, OthersKeepComplete

LEMMA TakeComplete ==
  ASSUME TInv, OneTaskInv, CompleteInv, NEW c \in Callers, CallerNext(c),
         TakeAlbums(c) \/ TakeArtists(c)
  PROVE  CompleteInv'
<1>0. TypeOK
  BY DEF TInv
<1>1. /\ pc[c] = "wait" /\ pc'[c] = "details" /\ call'[c] = call[c] /\ status[c] = "FINISHED"
      /\ UNCHANGED <<executor, looper, page, songs>>
      /\ call[c].kind \in {"albums", "artists"}
  BY <1>0 DEF TakeAlbums, TakeArtists, Awaited, TypeOK, taskVars, mapVars
<1>2. \A d, l, x : InFlight(d, l, x) => InFlight(d, l, x)'
  BY <1>1 DEF InFlight
<1>3. \A a : ~InFlight(c, "albums", a)
  BY <1>1, WhoSpinsNot, QuietIsDone
<1>4. WantsMet(c)' /\ (~cut => PageMet(c)')
  BY <1>1, ReadPages DEF WantsMet, Wants, Paging
<1>5. CASE TakeAlbums(c)
  <2>1. /\ call[c].kind = "albums" /\ list'[c] = albums /\ todo'[c] = albums
        /\ live'[c] = albums
    BY <1>0, <1>5 DEF TakeAlbums, TypeOK
  <2>2. ~cut => albums = Albums
    <3>1. ASSUME ~cut PROVE \A a \in Albums : a \in albums
      BY <1>1, <1>3, <2>1, <3>1 DEF CompleteInv, ListInv, ListMet
    <3> QED
      BY <1>0, <3>1 DEF TypeOK
  <2>3. ~cut => ListMet(c)'
    BY <1>1, <2>1, <2>2 DEF ListMet
  <2>4. /\ \A a \in albums : \A s \in SongsOf(a) : OwesSong(c, a, s)'
        /\ \A r : ~OwesDetails(c, r)
    BY <1>1, <2>1 DEF OwesSong, OwesDetails
  <2> QED
    BY <1>2, <1>4, <2>3, <2>4, CallerKeeps, OthersKeepComplete
<1>6. CASE TakeArtists(c)
  <2>1. call[c].kind = "artists" /\ todo'[c] = artists
    BY <1>0, <1>6 DEF TakeArtists, TypeOK
  <2>2. ListMet(c)'
    BY <1>1, <2>1 DEF ListMet
  <2>3. /\ \A a, s : ~OwesSong(c, a, s)
        /\ \A r \in artists : OwesDetails(c, r)'
    BY <1>1, <2>1 DEF OwesSong, OwesDetails
  <2> QED
    BY <1>2, <1>4, <2>2, <2>3, CallerKeeps, OthersKeepComplete
<1> QED
  BY <1>5, <1>6

LEMMA DetailsComplete ==
  ASSUME TInv, OneTaskInv, CompleteInv, NEW c \in Callers, CallerNext(c), FetchDetails(c)
  PROVE  CompleteInv'
<1>0. TypeOK
  BY DEF TInv
<1>1. PICK id \in todo[c] : /\ Submit(c, DetailKind(c), id)
                            /\ todo' = [todo EXCEPT ![c] = @ \ {id}]
  BY DEF FetchDetails
<1>2. PICK k, t : k = DetailKind(c) /\ t = [by |-> c, kind |-> k, of |-> id]
  OBVIOUS
<1>3. /\ pc[c] = "details" /\ UNCHANGED <<pc, call, page, list, live, looper, mapVars>>
      /\ todo'[c] = todo[c] \ {id}
  BY <1>0, <1>1 DEF FetchDetails, listVars, TypeOK
<1>4. /\ t \in Tasks /\ t.kind = k /\ t.by = c /\ t.of = id
      /\ executor' = Append(executor, t)
      /\ \/ call[c].kind = "albums" /\ k = "albumSongs"
         \/ call[c].kind = "artists" /\ k = "artist"
  BY <1>1, <1>2, <1>3, DetailTypes DEF Submit
<1>5. /\ \A d, l, x : InFlight(d, l, x) => InFlight(d, l, x)'
      /\ \A x \in Asked(t) : InFlight(c, k, x)'
  BY <1>0, <1>3, <1>4, SubmitInFlight
<1>6. /\ call[c].kind = "albums" => \A s \in SongsOf(id) : InFlight(c, "albumSongs", s)'
      /\ call[c].kind = "artists" => InFlight(c, "artist", id)'
  BY <1>4, <1>5 DEF Asked
<1>7. WantsMet(c)' /\ (~cut => PageMet(c)')
  BY <1>3, ReadPages DEF WantsMet, Wants, Paging, mapVars
<1>8. ~cut => ListMet(c)'
  <2> SUFFICES ASSUME ~cut, call[c].kind = "albums"
               PROVE  /\ list[c] = Albums
                      /\ \A a \in live[c] : \A s \in SongsOf(a) :
                           \/ s \in albumSongs[a]
                           \/ a \in todo'[c]
                           \/ InFlight(c, "albumSongs", s)'
    BY <1>3 DEF ListMet, SongsOf, mapVars
  <2>1. ListMet(c)
    BY DEF CompleteInv, ListInv
  <2> QED
    BY <1>3, <1>5, <1>6, <2>1 DEF ListMet
<1>9. /\ \A a, s : s \in SongsOf(a) /\ OwesSong(c, a, s) => OwesSong(c, a, s)'
      /\ \A r : OwesDetails(c, r) => OwesDetails(c, r)'
  BY <1>3, <1>5, <1>6 DEF OwesSong, OwesDetails
<1> QED
  BY <1>5, <1>7, <1>8, <1>9, CallerKeeps, OthersKeepComplete

LEMMA ReturnComplete ==
  ASSUME TInv, OneTaskInv, CompleteInv, NEW c \in Callers, CallerNext(c), Return(c)
  PROVE  CompleteInv'
<1>0. TypeOK
  BY DEF TInv
<1>1. pc'[c] = "idle" /\ UNCHANGED <<executor, looper, page, songs>>
  BY <1>0 DEF Return, TypeOK, taskVars, mapVars
<1>2. \A d, l, x : InFlight(d, l, x) => InFlight(d, l, x)'
  BY <1>1 DEF InFlight
<1>3. WantsMet(c)' /\ ListMet(c)'
  BY <1>1 DEF WantsMet, Wants, ListMet
<1>4. (\A a, s : ~OwesSong(c, a, s)) /\ (\A r : ~OwesDetails(c, r))
  <2>1. CASE pc[c] = "found"
    BY <2>1, IdleOwesNothing
  <2>2. CASE pc[c] = "details" /\ todo[c] = {} /\ Awaited(c)
    <3>1. \A x : ~InFlight(c, "albumSongs", x) /\ ~InFlight(c, "artist", x)
      BY <2>2, WhoSpinsNot, QuietIsDone DEF Awaited
    <3> QED
      BY <2>2, <3>1 DEF OwesSong, OwesDetails
  <2>3. CASE pc[c] = "wait" /\ call[c].kind \notin {"albums", "artists"}
    BY <2>3 DEF OwesSong, OwesDetails
  <2> QED
    BY <2>1, <2>2, <2>3 DEF Return
<1>5. ~cut => PageMet(c)'
  <2>1. Paging(c) => \A x : ~InFlight(c, "songs", x)
    <3>1. Paging(c) => status[c] # "RUNNING"
      BY DEF Return, Paging, Awaited
    <3> QED
      BY <3>1, WhoSpinsNot, QuietIsDone
  <2>2. ~Paging(c)'
    BY <1>1 DEF Paging
  <2> QED
    BY <1>1, <2>1, <2>2, ReadPages
<1> QED
  BY <1>2, <1>3, <1>4, <1>5, CallerKeeps, OthersKeepComplete

LEMMA CallerComplete ==
  ASSUME TInv, OneTaskInv, CompleteInv, NEW c \in Callers, CallerNext(c)
  PROVE  CompleteInv'
  BY CallerSteps, RequestComplete, HitComplete, PlayComplete, PageComplete, TakeComplete,
     DetailsComplete, ReturnComplete

-----------------------------------------------------------------------------
(* The invariant. *)

LEMMA InitCache == Init => CacheInv
<1> SUFFICES ASSUME Init PROVE CacheInv
  OBVIOUS
<1>1. /\ executor = <<>> /\ looper = <<>> /\ Len(executor) = 0 /\ Len(looper) = 0 /\ ~half
      /\ \A c \in Callers : pc[c] = "idle" /\ live[c] = {}
  BY DEF Init
<1>2. OneTaskInv /\ HalfInv
  BY <1>1 DEF OneTaskInv, HalfInv
<1>3. ObjectInv
  BY <1>1 DEF ObjectInv, Init
<1>4. RefInv /\ ListInv /\ PageInv
  <2>1. RefInv /\ ListInv
    BY <1>1 DEF RefInv, WantsMet, Wants, ListInv, ListMet
  <2>2. PageInv
    <3>1. \A c \in Callers : page[c] * Limit = 0
      BY LibraryBoundAssumption DEF Init
    <3> QED
      BY <1>1, <3>1 DEF PageInv, PageMet, Paging
  <2> QED
    BY <2>1, <2>2
<1>5. AlbumInv /\ ArtistInv
  BY DEF Init, AlbumInv, ArtistInv
<1> QED
  BY <1>2, <1>3, <1>4, <1>5 DEF CacheInv, CompleteInv

LEMMA StepCache == TInv /\ CacheInv /\ [Next]_vars => CacheInv'
<1> SUFFICES ASSUME TInv, CacheInv, [Next]_vars PROVE CacheInv'
  OBVIOUS
<1>0. TypeOK /\ TypeOK' /\ OneTaskInv /\ HalfInv /\ ObjectInv /\ CompleteInv
  BY StepTypes DEF TInv, CacheInv
<1>1. ASSUME NEW c \in Callers, CallerNext(c) PROVE CacheInv'
  BY <1>0, <1>1, CallerOneTask, CallerObjects, CallerComplete DEF CacheInv
<1>2. CASE Answer \/ RequestFails
  <2>1. PICK null, ids : /\ null \in BOOLEAN /\ Post(null, ids)
                           /\ \/ ~null /\ ids \in Answers(Head(executor))
                              \/ null /\ ids = <<>>
    BY <1>2 DEF Answer, RequestFails
  <2> QED
    BY <1>0, <2>1, PostOneTask, PostObjects, PostComplete DEF CacheInv
<1>3. CASE PlayEnds
  BY <1>0, <1>3, PlayEndsOneTask, OtherObjects, PlayEndsComplete DEF CacheInv
<1>4. CASE PutAlbum \/ LinkAlbum
  <2>1. PICK h : Handles(h, FALSE) /\ UNCHANGED looper
    BY <1>4 DEF PutAlbum, LinkAlbum, FirstStep
  <2>2. OneTaskInv'
    BY <1>0, <2>1, HandlingOneTask DEF Handles, callerVars
  <2> QED
    BY <1>0, <1>4, <2>2, HandlingObjects, PutAlbumComplete, LinkAlbumComplete DEF CacheInv
<1>5. CASE LinkArtist \/ PutArtist \/ PutSong
  <2>1. PICK h, done : Handles(h, done) /\ LastStep
    BY <1>5 DEF LinkArtist, PutArtist, PutSong
  <2>2. /\ Len(looper') = Len(looper)
        /\ \A i \in 1..Len(looper) : /\ looper'[i].by = looper[i].by
                                     /\ looper'[i].kind = looper[i].kind
    BY <1>0, <2>1, LastStepTypes
  <2>3. OneTaskInv'
    BY <1>0, <2>1, <2>2, HandlingOneTask DEF Handles, callerVars
  <2> QED
    BY <1>0, <1>5, <2>3, HandlingObjects, LinkArtistComplete, PutArtistComplete,
       PutSongComplete DEF CacheInv
<1>6. CASE JsonError
  <2>1. looper # <<>> /\ Head(looper).ids # <<>> /\ looper' = [looper EXCEPT ![1].ids = <<>>]
    BY <1>6 DEF JsonError
  <2>2. /\ Len(looper') = Len(looper)
        /\ \A i \in 1..Len(looper) : /\ looper'[i].by = looper[i].by
                                     /\ looper'[i].kind = looper[i].kind
    BY <1>0, <2>1, FewerIds
  <2>3. UNCHANGED <<executor, pc, call, status>> /\ cut'
    BY <1>6 DEF JsonError, callerVars
  <2>4. OneTaskInv'
    BY <1>0, <2>2, <2>3, HandlingOneTask
  <2> QED
    BY <1>0, <1>6, <2>3, <2>4, HandlingObjects DEF CacheInv, CompleteInv
<1>7. CASE Finish
  BY <1>0, <1>7, FinishOneTask, OtherObjects, FinishComplete DEF CacheInv
<1>8. CASE HandleNull \/ UNCHANGED vars
  <2>1. /\ UNCHANGED <<pc, call, status, page, list, todo, live, executor, looper, bare, cut>>
        /\ UNCHANGED <<albums, albumSongs, artists, artistAlbums, songs>>
    BY <1>8 DEF HandleNull, vars, callerVars, listVars, taskVars, mapVars
  <2>2. OneTaskInv'
    BY <1>0, <2>1, HandlingOneTask
  <2>3. CompleteInv'
    <3>1. \A c, k, x : InFlight(c, k, x) => InFlight(c, k, x)'
      BY <2>1 DEF InFlight
    <3> QED
      BY <1>0, <2>1, <3>1, KeepsComplete DEF ObjectInv, TypeOK
  <2> QED
    BY <1>0, <1>8, <2>2, <2>3, OtherObjects DEF CacheInv
<1> QED
  BY <1>1, <1>2, <1>3, <1>4, <1>5, <1>6, <1>7, <1>8 DEF Next, MainNext, Finished

\* The inductive invariant, on which all that follows rests.
THEOREM CacheCorrect == Spec => [](TInv /\ CacheInv)
<1>1. Init => TInv /\ CacheInv
  BY InitTypes, InitCache
<1>2. TInv /\ CacheInv /\ [Next]_vars => (TInv /\ CacheInv)'
  BY StepTypes, StepCache
<1> QED
  BY <1>1, <1>2, PTL DEF Spec

-----------------------------------------------------------------------------
(* What the calls promise. *)

LEMMA NothingInFlight ==
  ASSUME Rest
  PROVE  \A c, k, x : ~InFlight(c, k, x)
  BY DEF Rest, InFlight

\* However the answers of the calls interleave, when none is left every album whose
\* object getAlbums has put lists all its songs: for any library and any number of
\* callers, whatever order the server answers in.
THEOREM AlbumsCompleteAtRestHolds == Spec => []AlbumsCompleteAtRest
<1>1. TInv /\ CacheInv => AlbumsCompleteAtRest
  <2> SUFFICES ASSUME TInv, CacheInv, Rest, ~cut, NEW a \in albums \ bare
               PROVE  albumSongs[a] = SongsOf(a)
    BY DEF AlbumsCompleteAtRest
  <2>1. \A c \in Callers : \A s : ~OwesSong(c, a, s)
    BY DEF Rest, OwesSong
  <2>2. \A s \in SongsOf(a) : s \in albumSongs[a]
    BY <2>1 DEF CacheInv, CompleteInv, AlbumInv
  <2>3. albumSongs[a] \subseteq SongsOf(a)
    BY DEF CacheInv, ObjectInv, TInv, TypeOK
  <2> QED
    BY <2>2, <2>3
<1> QED
  BY <1>1, CacheCorrect, PTL

\* When no answer is left every artist of the map lists all its albums.
THEOREM ArtistsCompleteAtRestHolds == Spec => []ArtistsCompleteAtRest
<1>1. TInv /\ CacheInv => ArtistsCompleteAtRest
  <2> SUFFICES ASSUME CacheInv, Rest, ~cut, NEW r \in artists
               PROVE  artistAlbums[r] = AlbumsOf(r)
    BY DEF ArtistsCompleteAtRest
  <2>1. \A c \in Callers : ~OwesDetails(c, r)
    BY DEF Rest, OwesDetails
  <2> QED
    BY <2>1 DEF CacheInv, CompleteInv, ArtistInv
<1> QED
  BY <1>1, CacheCorrect, PTL

\* The only step with which a call returns is Return, and nothing of it is on its way.
LEMMA ReturnsQuiet ==
  ASSUME TInv, CacheInv, [Next]_vars, NEW c \in Callers, Returns(c)
  PROVE  Return(c) /\ \A k, x : k # "play" => ~InFlight(c, k, x)
<1>0. TypeOK /\ OneTaskInv
  BY DEF TInv, CacheInv
<1>1. Return(c)
  <2>1. PICK d \in Callers : CallerNext(d)
    <3>1. pc' # pc
      BY DEF Returns
    <3> QED
      BY <3>1 DEF Next, Answer, RequestFails, Post, PlayEnds, MainNext, PutAlbum, LinkArtist,
                  PutArtist, LinkAlbum, PutSong, Handles, HandleNull, JsonError, Finish,
                  Finished, vars, callerVars
  <2>2. d = c
    BY <2>1, CallerKeeps DEF Returns
  <2>3. ASSUME NEW k, NEW id, Request(c, k, id) \/ Hit(c, k, id) PROVE FALSE
    BY <2>3 DEF Request, Hit, Begin, Returns
  <2>4. ~(RequestPage(c) \/ Play(c))
    BY DEF RequestPage, Play, Begin, Returns
  <2>5. ~(TakeAlbums(c) \/ TakeArtists(c) \/ FetchDetails(c))
    BY <1>0 DEF TakeAlbums, TakeArtists, FetchDetails, Returns, TypeOK
  <2> QED
    BY <2>1, <2>2, <2>3, <2>4, <2>5, CallerSteps
<1>2. CASE status[c] # "RUNNING" \/ pc[c] = "found"
  BY <1>0, <1>1, <1>2, WhoSpinsNot, QuietIsDone
<1> QED
  BY <1>1, <1>2 DEF Return, Awaited

\* getAlbums returns every album of the server, and those whose object no other call has
\* replaced meanwhile list all their songs, whatever calls run beside.
THEOREM ListHasItsSongsHolds == Spec => ListHasItsSongs
<1>1. TInv /\ CacheInv /\ [Next]_vars =>
        \A c \in Callers :
          Returns(c) /\ call[c].kind = "albums" /\ ~cut =>
            /\ list[c] = Albums
            /\ \A a \in live[c] : listSongs[c][a] = SongsOf(a)
  <2> SUFFICES ASSUME TInv, CacheInv, [Next]_vars, NEW c \in Callers, Returns(c),
                      call[c].kind = "albums", ~cut
               PROVE  /\ list[c] = Albums
                      /\ \A a \in live[c] : listSongs[c][a] = SongsOf(a)
    OBVIOUS
  <2>1. Return(c) /\ \A x : ~InFlight(c, "albumSongs", x)
    BY ReturnsQuiet
  <2>2. pc[c] = "details" /\ todo[c] = {}
    BY <2>1 DEF Return, TInv, CallInv
  <2>3. ListMet(c)
    BY DEF CacheInv, CompleteInv, ListInv
  <2>4. ASSUME NEW a \in live[c] PROVE listSongs[c][a] = SongsOf(a)
    <3>1. a \in Albums /\ listSongs[c][a] = albumSongs[a] /\ albumSongs[a] \subseteq SongsOf(a)
      BY DEF CacheInv, ObjectInv, TInv, TypeOK
    <3>2. \A s \in SongsOf(a) : s \in albumSongs[a]
      BY <2>1, <2>2, <2>3 DEF ListMet
    <3> QED
      BY <3>1, <3>2
  <2> QED
    BY <2>2, <2>3, <2>4 DEF ListMet
<1> QED
  BY <1>1, CacheCorrect, PTL DEF ListHasItsSongs, Spec

\* What getSong, getAlbum and getArtist look up when they return is in the map, whether
\* the task they waited for has put it there or they found it and waited for none.
THEOREM NeverNullHolds == Spec => NeverNull
<1>1. TInv /\ CacheInv /\ [Next]_vars =>
        \A c \in Callers : Returns(c) /\ ~cut =>
          /\ call[c].kind = "album" => call[c].of \in albums
          /\ call[c].kind = "artist" => call[c].of \in artists
          /\ call[c].kind = "song" => call[c].of \in songs
  <2> SUFFICES ASSUME TInv, CacheInv, [Next]_vars, NEW c \in Callers, Returns(c), ~cut
               PROVE  /\ call[c].kind = "album" => call[c].of \in albums
                      /\ call[c].kind = "artist" => call[c].of \in artists
                      /\ call[c].kind = "song" => call[c].of \in songs
    OBVIOUS
  <2>1. Return(c) /\ \A k, x : k # "play" => ~InFlight(c, k, x)
    BY ReturnsQuiet
  <2>2. WantsMet(c)
    BY DEF CacheInv, CompleteInv, RefInv
  <2>3. /\ call[c] \in Calls
        /\ call[c].kind \in {"album", "artist", "song"} => pc[c] \in {"wait", "found"}
    BY <2>1 DEF TInv, TypeOK, CallInv, Return
  <2>4. /\ call[c].kind = "album" => call[c].of \in Albums
        /\ call[c].kind = "artist" => call[c].of \in Artists
        /\ call[c].kind = "song" => call[c].of \in Songs
    BY <2>3 DEF Calls
  <2> QED
    BY <2>1, <2>2, <2>3, <2>4 DEF WantsMet, Wants
<1> QED
  BY <1>1, CacheCorrect, PTL DEF NeverNull, Spec

\* The page that is looked up in a map that has the songs at the positions up to its end
\* is the server's, when the songs are numbered in the order in which it lists them.
LEMMA LookedUpPage ==
  ASSUME SongList = [i \in 1..Cardinality(Songs) |-> i - 1], songs \subseteq Songs,
         NEW offset \in Nat,
         \A i \in 1..Len(SongList) : i <= offset + Limit => SongList[i] \in songs
  PROVE  ReturnedPage(offset) = ServerPage(offset)
<1>1. PICK n, k, m : /\ n = Cardinality(Songs) /\ k = Cardinality(songs)
                     /\ m = IF offset + Limit < n THEN offset + Limit ELSE n
  OBVIOUS
<1>2. IsFiniteSet(songs) /\ n \in Nat /\ k \in Nat /\ k <= n /\ Limit \in Nat
  BY <1>1, LibraryAssumption, LibraryBoundAssumption, FS_Subset, FS_CardinalityType
<1>3. Len(SongList) = n /\ \A i \in 1..n : SongList[i] = i - 1
  BY <1>1, <1>2
<1>4. m \in Nat /\ m <= n
  BY <1>1, <1>2
<1>5. \A x \in 0..m - 1 : x \in songs
  <2> SUFFICES ASSUME NEW x \in 0..m - 1 PROVE x \in songs
    OBVIOUS
  <2>1. x + 1 \in 1..n /\ x + 1 <= offset + Limit /\ (x + 1) - 1 = x
    BY <1>1, <1>2, <1>4
  <2> QED
    BY <1>3, <2>1
<1>6. m <= k
  <2>1. Cardinality(0..m - 1) = m
    <3>1. Cardinality(0..m - 1) = IF 0 > m - 1 THEN 0 ELSE (m - 1) - 0 + 1
      BY <1>4, FS_Interval
    <3> QED
      BY <1>4, <3>1
  <2>2. Cardinality(0..m - 1) <= k
    <3>1. 0..m - 1 \subseteq songs
      BY <1>5
    <3> QED
      BY <1>1, <1>2, <3>1, FS_Subset
  <2> QED
    BY <2>1, <2>2
<1>7. (IF offset + Limit < k THEN offset + Limit ELSE k) = m
  BY <1>1, <1>2, <1>6
<1>8. ReturnedPage(offset) = [i \in 1..m - offset |-> offset + i - 1]
  <2>1. \A i \in 1..m - offset : offset + i - 1 \in songs
    <3>1. \A i \in 1..m - offset : offset + i - 1 \in 0..m - 1
      BY <1>4
    <3> QED
      BY <1>5, <3>1
  <2>2. ReturnedPage(offset) =
          [i \in 1..m - offset |-> IF offset + i - 1 \in songs THEN offset + i - 1 ELSE NoId]
    BY <1>1, <1>7 DEF ReturnedPage
  <2> QED
    BY <2>1, <2>2
<1>9. ServerPage(offset) = [i \in 1..m - offset |-> offset + i - 1]
  <2>1. PICK q : q = SubSeq(SongList, offset + 1, m)
    OBVIOUS
  <2>2. ASSUME NEW i \in offset + 1..m PROVE SongList[i] \in Nat
    <3>1. i \in 1..n /\ i - 1 \in Nat
      BY <1>2, <1>4
    <3> QED
      BY <1>3, <3>1
  <2>3. /\ q \in Seq(Nat)
        /\ Len(q) = IF offset + 1 <= m THEN m - (offset + 1) + 1 ELSE 0
        /\ \A i \in 1..m - (offset + 1) + 1 : q[i] = SongList[(offset + 1) + i - 1]
    BY <1>4, <2>1, <2>2, SubSeqProperties
  <2>4. 1..Len(q) = 1..m - offset /\ m - (offset + 1) + 1 = m - offset
    BY <1>4, <2>3
  <2>5. ASSUME NEW i \in 1..m - offset PROVE q[i] = offset + i - 1
    <3>1. offset + i \in 1..n
      BY <1>2, <1>4
    <3>2. (offset + 1) + i - 1 = offset + i
      OBVIOUS
    <3>3. q[i] = SongList[offset + i]
      BY <2>3, <2>4, <3>2
    <3> QED
      BY <1>3, <3>1, <3>3
  <2>6. q = [i \in 1..Len(q) |-> q[i]]
    BY <2>3
  <2>7. q = [i \in 1..m - offset |-> offset + i - 1]
    BY <2>4, <2>5, <2>6
  <2> QED
    BY <1>1, <1>3, <2>1, <2>7 DEF ServerPage
<1> QED
  BY <1>8, <1>9

\* The batches that an application reads one after the other with getSongs are the
\* server's, with no song missing and no null among them, for any library whose songs
\* are numbered from 0 in the order in which the server lists them.
THEOREM PageIsRangeHolds ==
  ASSUME SongList = [i \in 1..Cardinality(Songs) |-> i - 1]
  PROVE  Spec => PageIsRange
<1>1. TInv /\ CacheInv /\ [Next]_vars =>
        \A c \in Callers :
          Returns(c) /\ call[c].kind = "songs" /\ ~cut =>
            ReturnedPage(call[c].of) = ServerPage(call[c].of)
  <2> SUFFICES ASSUME TInv, CacheInv, [Next]_vars, NEW c \in Callers, Returns(c),
                      call[c].kind = "songs", ~cut
               PROVE  ReturnedPage(call[c].of) = ServerPage(call[c].of)
    OBVIOUS
  <2>1. Return(c) /\ \A x : ~InFlight(c, "songs", x)
    BY ReturnsQuiet
  <2>2. Paging(c)
    BY <2>1 DEF Return, TInv, CallInv, Paging
  <2>3. PageMet(c)
    BY DEF CacheInv, CompleteInv, PageInv
  <2>4. call[c].of \in Nat /\ songs \subseteq Songs
    <3>1. call[c] \in Calls
      BY DEF TInv, TypeOK
    <3>2. call[c].of \in Nat
      BY <3>1 DEF Calls
    <3> QED
      BY <3>2 DEF TInv, TypeOK
  <2>5. \A i \in 1..Len(SongList) : i <= call[c].of + Limit => SongList[i] \in songs
    BY <2>1, <2>2, <2>3 DEF PageMet
  <2> QED
    BY <2>4, <2>5, LookedUpPage
<1> QED
  BY <1>1, CacheCorrect, PTL DEF PageIsRange, Spec
=============================================================================
