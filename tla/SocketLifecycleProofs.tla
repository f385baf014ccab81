------------------------- MODULE SocketLifecycleProofs -------------------------
(***************************************************************************)
(* For any objects, descriptor numbers and bounds: the types; an event     *)
(* thread that initialize waits for makes no further system call; the      *)
(* protobuf library is shut by its last user; objects touch only the       *)
(* sockets they opened, until a stale number is used; and until then a     *)
(* host that goes has told every reader it served.                         *)
(*                                                                         *)
(* The argument for the files: a member that holds a number holds one      *)
(* that is open and stands for a socket of its object, except the m_Server *)
(* of a failed initialize and the m_Client that is closed and not yet      *)
(* reset.  An open number is never given again, and only its own object    *)
(* closes it.                                                              *)
(*                                                                         *)
(* The argument for the readers, in the last part: of the connections of a *)
(* host that are open at most one was not told, the one m_Client stands    *)
(* for.  close(m_Client) ends it, since no other number and no thread has  *)
(* it, and the host accepts only when m_Client is -1.                      *)
(***************************************************************************)
EXTENDS SocketLifecycle, TLAPS, FiniteSetTheorems, SequenceTheorems,
        WellFoundedInduction

\* A receive buffer holds no more than was sent.
InboxInv == \A f \in 1..Len(files) : files[f].inbox <= messages

\* An owner that joins has told the event thread to stop.
JoinInv == \A s \in Sockets : owner[s] = "joining" => m_Server[s] = -1

\* The objects whose constructor has counted them and whose destructor has not yet
\* discounted them.
CountedObjects == {s \in Sockets : owner[s] \notin Uncounted}

\* While no two owners changed the count at once it is the number of objects, and
\* whoever changes it has read it as it is.
CountInv ==
  ~raced =>
    /\ gProtobufUsageCount = Cardinality(CountedObjects)
    /\ \A s \in Sockets : owner[s] \in {"counting", "discounting"} =>
         /\ seen[s] = gProtobufUsageCount
         /\ \A t \in Sockets : owner[t] \in {"counting", "discounting"} => t = s

\* Only hosts accept and close, and an object without a joinable event thread has
\* none that runs.
ThreadInv ==
  \A s \in Sockets :
    /\ s \in Clients => thread[s] \notin {"accept", "close", "reset"}
    /\ owner[s] \in {"none", "counting"} => s \notin joinable
    /\ owner[s] \in {"none", "counting", "idle"} /\ s \notin joinable =>
         thread[s] \in {"none", "ended"}

\* n stands for an open socket of s, in one of the roles.
Stands(n, s, roles) ==
  /\ n \in Fds /\ fds[n] # None
  /\ files[fds[n]].by = s
  /\ files[fds[n]].role \in roles

ServerRoles(s) == IF s \in Hosts THEN {"listening"} ELSE Roles

OwnServer(s) ==
  s \notin failed /\ ~Freed(s) /\ m_Server[s] # -1 =>
    Stands(m_Server[s], s, ServerRoles(s))

OwnClient(h) ==
  ~Freed(h) /\ thread[h] # "reset" /\ m_Client[h] # -1 =>
    Stands(m_Client[h], h, {"stream", "late"})

FilesInv ==
  "stale" \notin misuse =>
    /\ "foreign" \notin misuse
    /\ \A s \in Sockets : OwnServer(s)
    /\ \A h \in Hosts : OwnClient(h)

IInv == TypeOK /\ InboxInv /\ JoinInv /\ CountInv /\ ThreadInv /\ FilesInv

-----------------------------------------------------------------------------
(* Descriptor numbers and files. *)

\* A set of numbers that is not empty has a least element.
LEMMA LeastNumber ==
  ASSUME NEW S, S \subseteq Nat, S # {}
  PROVE  \E n \in S : \A k \in S : n <= k
<1>1. PICK n \in S : \A k \in S : ~(<<k, n>> \in OpToRel(<, Nat))
  BY NatLessThanWellFounded, WFMin
<1>2. \A k \in S : ~(k < n)
  BY <1>1, Zenon DEF OpToRel
<1> QED
  BY <1>2

\* The kernel gives a number that is free.
LEMMA LowestIsFree ==
  ASSUME FreeFds # {}
  PROVE  LowestFree \in Fds /\ fds[LowestFree] = None
<1>1. \E n \in FreeFds : \A k \in FreeFds : n <= k
  BY FdsAssumption, LeastNumber DEF FreeFds
<1> QED
  BY <1>1 DEF LowestFree, FreeFds

\* A number stands for an opened file or for none.
LEMMA FileOfType ==
  ASSUME TypeOK, NEW n
  PROVE  FileOf(n) \in 0..Len(files)
  BY DEF TypeOK, FileOf, None

\* A system call can only add these to the history of misuse.
LEMMA TouchType == ASSUME NEW s, NEW f PROVE Touch(s, f) \subseteq Misuses
  BY DEF Touch, Misuses

\* The oldest connection that waits is one that waits.
LEMMA OldestIsPending ==
  ASSUME NEW h, Pending(h) # {}
  PROVE  Oldest(Pending(h)) \in Pending(h)
<1>1. Pending(h) \subseteq Nat
  BY DEF Pending
<1>2. \E f \in Pending(h) : \A g \in Pending(h) : f <= g
  BY <1>1, LeastNumber
<1> QED
  BY <1>2 DEF Oldest

\* What the types say of a file.
LEMMA FileType ==
  ASSUME TypeOK, NEW f \in 1..Len(files)
  PROVE  /\ files[f] \in FileRecords
         /\ files[f].inbox \in Nat /\ files[f].inbox <= MaxMessages
<1>1. files[f] \in FileRecords
  BY DEF TypeOK
<1> QED
  BY <1>1, LimitAssumption DEF FileRecords

\* What a change of one file leaves of the others.
LEMMA FileUpdate ==
  ASSUME TypeOK, NEW f \in 1..Len(files), NEW r \in FileRecords,
         files' = [files EXCEPT ![f] = r]
  PROVE  /\ files' \in Seq(FileRecords) /\ Len(files') = Len(files)
         /\ \A g \in 1..Len(files) : files'[g] = IF g = f THEN r ELSE files[g]
  BY ExceptSeq DEF TypeOK

\* What is there when a file has been added.
LEMMA FileAdd ==
  ASSUME TypeOK, InboxInv, NEW s \in Sockets, NEW role \in Roles,
         files' = Append(files, NewFile(s, role)),
         Len(files) < MaxFiles, UNCHANGED messages
  PROVE  /\ files' \in Seq(FileRecords) /\ Len(files') = Len(files) + 1
         /\ Len(files') <= MaxFiles
         /\ \A g \in 1..Len(files) : files'[g] = files[g]
         /\ files'[Len(files) + 1] = NewFile(s, role)
         /\ InboxInv'
<1>1. NewFile(s, role) \in FileRecords
  BY LimitAssumption DEF NewFile, FileRecords
<1>2. /\ files' \in Seq(FileRecords) /\ Len(files') = Len(files) + 1
      /\ \A g \in 1..Len(files) : files'[g] = files[g]
      /\ files'[Len(files) + 1] = NewFile(s, role)
  BY <1>1, AppendProperties DEF TypeOK
<1>3. NewFile(s, role).inbox = 0
  BY DEF NewFile
<1> QED
  BY <1>2, <1>3, LimitAssumption DEF InboxInv, TypeOK

\* A step that leaves the count alone and counts and discounts nobody keeps CountInv.
LEMMA CountKept ==
  ASSUME CountInv, UNCHANGED countVars,
         \A s \in Sockets : /\ owner'[s] \in Uncounted <=> owner[s] \in Uncounted
                            /\ owner'[s] \in {"counting", "discounting"} =>
                                 owner[s] \in {"counting", "discounting"}
  PROVE  CountInv'
<1>1. CountedObjects' = CountedObjects
  BY DEF CountedObjects
<1> QED
  BY <1>1 DEF CountInv, countVars

\* The calls that an object makes with its members touch its own files, until a
\* stale number is used.
LEMMA TouchOwn ==
  ASSUME TypeOK, FilesInv, NEW s \in Sockets, ~Freed(s), NEW f,
         f = FileOf(m_Server[s]) \/ (s \in Hosts /\ f = FileOf(m_Client[s])),
         "stale" \notin misuse \cup Touch(s, f)
  PROVE  "foreign" \notin misuse \cup Touch(s, f)
<1>1. OwnServer(s) /\ (s \in Hosts => OwnClient(s)) /\ "foreign" \notin misuse
  BY DEF FilesInv
<1>2. FileOf(-1) = None
  BY FdsAssumption DEF FileOf, None
<1>3. f # None /\ thread[s] # "reset" /\ s \notin failed => files[f].by = s
  BY <1>1, <1>2 DEF OwnServer, OwnClient, Stands, FileOf
<1> QED
  BY <1>1, <1>3 DEF Touch

\* A step that opens and closes no file, changes no file's opener or role, resets
\* members or keeps them as good as they were, and touches no foreign file keeps
\* FilesInv.
LEMMA FilesKept ==
  ASSUME FilesInv, TypeOK, UNCHANGED fds,
         \A s \in Sockets : Freed(s) => Freed(s)',
         \A s \in Sockets : s \in failed' \/ m_Server'[s] = -1
                            \/ (s \notin failed /\ m_Server'[s] = m_Server[s]),
         \A h \in Hosts : \/ m_Client'[h] = -1
                          \/ /\ m_Client'[h] = m_Client[h]
                             /\ thread[h] = "reset" =>
                                  thread'[h] = "reset" \/ Freed(h),
         \A f \in 1..Len(files) :
            files'[f].by = files[f].by /\ files'[f].role = files[f].role,
         misuse \subseteq misuse',
         "stale" \notin misuse' => "foreign" \notin misuse'
  PROVE  FilesInv'
<1> SUFFICES ASSUME "stale" \notin misuse' PROVE FilesInv'
  BY DEF FilesInv
<1>1. "stale" \notin misuse
  OBVIOUS
<1>2. ASSUME NEW n, NEW s, NEW roles, Stands(n, s, roles) PROVE Stands(n, s, roles)'
  BY <1>2 DEF Stands, TypeOK, None
<1>3. ASSUME NEW s \in Sockets PROVE OwnServer(s)'
  BY <1>1, <1>2 DEF FilesInv, OwnServer, ServerRoles
<1>4. ASSUME NEW h \in Hosts PROVE OwnClient(h)'
  BY <1>1, <1>2 DEF FilesInv, OwnClient, Sockets
<1> QED
  BY <1>3, <1>4 DEF FilesInv

\* The initial states satisfy the inductive invariant.
LEMMA InitInv == Init => IInv
<1> SUFFICES ASSUME Init PROVE IInv
  OBVIOUS
<1>1. TypeOK
  <2>1. files \in Seq(FileRecords) /\ Len(files) = 0
    BY DEF Init
  <2>2. /\ on \in [Sockets -> 0..Len(files)]
        /\ fds \in [Fds -> 0..Len(files)]
    BY <2>1 DEF Init, None
  <2>3. /\ owner \in [Sockets -> OwnerStates] /\ thread \in [Sockets -> ThreadStates]
        /\ m_Server \in [Sockets -> Fds \cup {-1}]
        /\ m_Client \in [Sockets -> Fds \cup {-1}]
    BY DEF Init, OwnerStates, ThreadStates
  <2>4. /\ inits \in [Sockets -> Nat] /\ seen \in [Sockets -> Int]
        /\ failed \subseteq Sockets /\ joinable \subseteq Sockets
        /\ gProtobufUsageCount \in Int
        /\ library \in {"up", "down"} /\ misuse \subseteq Misuses
    BY DEF Init
  <2>5. raced \in BOOLEAN
    BY DEF Init
  <2>6. messages \in 0..MaxMessages
    BY LimitAssumption DEF Init
  <2> QED
    BY <2>1, <2>2, <2>3, <2>4, <2>5, <2>6, LimitAssumption DEF TypeOK
<1>2. CountInv
  <2>1. CountedObjects = {}
    BY DEF Init, CountedObjects, Uncounted
  <2> QED
    BY <2>1, FS_EmptySet DEF Init, CountInv
<1> QED
  BY <1>1, <1>2 DEF Init, IInv, InboxInv, JoinInv, ThreadInv, FilesInv, OwnServer,
     OwnClient, Sockets

\* Every step of the specification keeps it.
LEMMA StepInv == IInv /\ [Next]_vars => IInv'
<1> SUFFICES ASSUME IInv, [Next]_vars PROVE IInv'
  OBVIOUS
<1> USE SocketsAssumption, FdsAssumption, LimitAssumption DEF IInv, Sockets
<1>1. ASSUME NEW s \in Sockets, Construct(s) PROVE IInv'
  <2>1. TypeOK'
    BY <1>1 DEF Construct, threadVars, fileVars, OwnerStates, ThreadStates, TypeOK
  <2>2. InboxInv'
    BY <1>1 DEF Construct, threadVars, fileVars, InboxInv
  <2>3. JoinInv'
    BY <1>1 DEF Construct, threadVars, fileVars, JoinInv, TypeOK
  <2>4. CountInv'
    <3>1. ~raced' => ~raced /\ ~Counting
      BY <1>1 DEF Construct, TypeOK
    <3>2. CountedObjects' = CountedObjects
      BY <1>1 DEF Construct, CountedObjects, Uncounted, TypeOK
    <3> QED
      BY <1>1, <3>1, <3>2 DEF Construct, Counting, CountInv, TypeOK
  <2>5. ThreadInv'
    BY <1>1 DEF Construct, threadVars, fileVars, ThreadInv, TypeOK
  <2>6. FilesInv'
    BY <1>1, FilesKept DEF Construct, threadVars, fileVars, FilesInv, Freed, TypeOK
  <2> QED
    BY <2>1, <2>2, <2>3, <2>4, <2>5, <2>6
<1>2. ASSUME NEW s \in Sockets, ConstructEnds(s) PROVE IInv'
  <2>1. TypeOK'
    BY <1>2 DEF ConstructEnds, Counted, threadVars, fileVars, OwnerStates, TypeOK
  <2>2. InboxInv'
    BY <1>2 DEF ConstructEnds, threadVars, fileVars, InboxInv
  <2>3. JoinInv'
    BY <1>2 DEF ConstructEnds, threadVars, fileVars, JoinInv, TypeOK
  <2>4. CountInv'
    <3>1. CountedObjects' = CountedObjects \cup {s} /\ s \notin CountedObjects
      BY <1>2 DEF ConstructEnds, CountedObjects, Uncounted, TypeOK
    <3>2. IsFiniteSet(CountedObjects)
      BY SocketsAssumption, FS_Subset DEF CountedObjects
    <3>3. Cardinality(CountedObjects') = Cardinality(CountedObjects) + 1
      BY <3>1, <3>2, FS_AddElement
    <3> QED
      BY <1>2, <3>3 DEF ConstructEnds, Counted, CountInv, TypeOK
  <2>5. ThreadInv'
    BY <1>2 DEF ConstructEnds, threadVars, fileVars, ThreadInv, TypeOK
  <2>6. FilesInv'
    BY <1>2, FilesKept DEF ConstructEnds, threadVars, fileVars, FilesInv, Freed,
       TypeOK
  <2> QED
    BY <2>1, <2>2, <2>3, <2>4, <2>5, <2>6
<1>3. ASSUME NEW s \in Sockets, Initialize(s) PROVE IInv'
  <2>1. TypeOK'
    BY <1>3 DEF Initialize, Stopped, threadVars, fileVars, countVars, OwnerStates,
       TypeOK
  <2>2. InboxInv'
    BY <1>3 DEF Initialize, threadVars, fileVars, countVars, InboxInv
  <2>3. JoinInv'
    BY <1>3 DEF Initialize, Stopped, JoinInv, TypeOK
  <2>4. CountInv'
    BY <1>3, CountKept DEF Initialize, threadVars, fileVars, countVars, Uncounted,
       TypeOK
  <2>5. ThreadInv'
    BY <1>3 DEF Initialize, threadVars, fileVars, countVars, ThreadInv, TypeOK
  <2>6. FilesInv'
    BY <1>3, FilesKept DEF Initialize, Stopped, threadVars, fileVars, FilesInv,
       Freed, TypeOK
  <2> QED
    BY <2>1, <2>2, <2>3, <2>4, <2>5, <2>6
<1>4. ASSUME NEW s \in Sockets, SocketFails(s) PROVE IInv'
  <2>1. TypeOK'
    BY <1>4, SMTT(30) DEF SocketFails, Opens, threadVars, fileVars, countVars, OwnerStates,
       TypeOK
  <2>2. InboxInv'
    BY <1>4 DEF SocketFails, Opens, threadVars, fileVars, countVars, InboxInv
  <2>3. JoinInv'
    BY <1>4 DEF SocketFails, Opens, threadVars, fileVars, countVars, JoinInv, TypeOK
  <2>4. CountInv'
    BY <1>4, CountKept DEF SocketFails, Opens, threadVars, fileVars, countVars,
       Uncounted, TypeOK
  <2>5. ThreadInv'
    BY <1>4 DEF SocketFails, Opens, threadVars, fileVars, countVars, ThreadInv,
       TypeOK
  <2>6. FilesInv'
    BY <1>4, FilesKept DEF SocketFails, Opens, threadVars, fileVars, countVars,
       FilesInv, Freed, TypeOK
  <2> QED
    BY <2>1, <2>2, <2>3, <2>4, <2>5, <2>6
<1>5. ASSUME NEW s \in Sockets, OpenFails(s) PROVE IInv'
  <2>1. TypeOK'
    BY <1>5, LowestIsFree DEF OpenFails, Opens, threadVars, fileVars, countVars,
       OwnerStates, TypeOK
  <2>2. InboxInv'
    BY <1>5 DEF OpenFails, Opens, threadVars, fileVars, countVars, InboxInv
  <2>3. JoinInv'
    BY <1>5 DEF OpenFails, Opens, threadVars, fileVars, countVars, JoinInv, TypeOK
  <2>4. CountInv'
    BY <1>5, CountKept DEF OpenFails, Opens, threadVars, fileVars, countVars,
       Uncounted, TypeOK
  <2>5. ThreadInv'
    BY <1>5 DEF OpenFails, Opens, threadVars, fileVars, countVars, ThreadInv, TypeOK
  <2>6. FilesInv'
    BY <1>5, FilesKept DEF OpenFails, Opens, threadVars, fileVars, countVars,
       FilesInv, Freed, TypeOK
  <2> QED
    BY <2>1, <2>2, <2>3, <2>4, <2>5, <2>6
<1>6. ASSUME NEW s \in Sockets, Open(s) PROVE IInv'
  <2>1. TypeOK'
    <3>1. DEFINE role == IF s \in Hosts THEN "listening" ELSE "stream"
    <3>2. role \in Roles
      BY DEF Roles
    <3>3. files' = Append(files, NewFile(s, role)) /\ UNCHANGED messages
      BY <1>6 DEF Open
    <3>4. /\ files' \in Seq(FileRecords)
          /\ Len(files') = Len(files) + 1 /\ Len(files') <= MaxFiles
      BY <1>6, <3>2, <3>3, FileAdd DEF Open
    <3> QED
      BY <1>6, <3>4, LowestIsFree DEF Open, Opens, countVars, OwnerStates,
         ThreadStates, None, TypeOK
  <2>2. InboxInv'
    BY <1>6, FileAdd DEF Open, Roles
  <2>3. JoinInv'
    BY <1>6 DEF Open, Opens, threadVars, fileVars, countVars, JoinInv, TypeOK
  <2>4. CountInv'
    BY <1>6, CountKept DEF Open, Opens, threadVars, fileVars, countVars, Uncounted,
       TypeOK
  <2>5. ThreadInv'
    BY <1>6 DEF Open, Opens, threadVars, fileVars, countVars, ThreadInv, TypeOK
  <2>6. FilesInv'
    <3> DEFINE new == Len(files) + 1
    <3>1. LowestFree \in Fds /\ fds[LowestFree] = None
      BY <1>6, LowestIsFree DEF Open
    <3>2. /\ \A g \in 1..Len(files) : files'[g] = files[g]
          /\ files'[new] = NewFile(s, IF s \in Hosts THEN "listening" ELSE "stream")
      BY <1>6, FileAdd DEF Open, Roles
    <3>3. ASSUME NEW n, NEW t, NEW roles, Stands(n, t, roles) PROVE Stands(n, t, roles)'
      BY <1>6, <3>1, <3>2, <3>3 DEF Open, Stands, TypeOK, None
    <3>4. m_Server'[s] = LowestFree /\ Stands(m_Server[s], s, ServerRoles(s))'
      BY <1>6, <3>1, <3>2 DEF Open, Stands, ServerRoles, NewFile, Roles, None,
         TypeOK
    <3>5. ASSUME NEW t \in Sockets, "stale" \notin misuse, t # s PROVE OwnServer(t)'
      BY <1>6, <3>3, <3>5 DEF Open, Opens, FilesInv, OwnServer, ServerRoles, Freed,
         TypeOK
    <3>6. OwnServer(s)'
      BY <3>4 DEF OwnServer
    <3>7. ASSUME NEW h \in Hosts, "stale" \notin misuse PROVE OwnClient(h)'
      BY <1>6, <3>3, <3>7 DEF Open, Opens, FilesInv, OwnClient, Freed, ThreadInv,
         TypeOK
    <3> QED
      BY <1>6, <3>5, <3>6, <3>7 DEF Open, FilesInv
  <2> QED
    BY <2>1, <2>2, <2>3, <2>4, <2>5, <2>6
<1>7. ASSUME NEW s \in Sockets, Write(s) PROVE IInv'
  <2>1. TypeOK'
    BY <1>7, TouchType DEF Write, objectVars, threadVars, fileVars, countVars,
       TypeOK
  <2>2. InboxInv'
    BY <1>7 DEF Write, objectVars, threadVars, fileVars, countVars, InboxInv
  <2>3. JoinInv'
    BY <1>7 DEF Write, objectVars, threadVars, fileVars, countVars, JoinInv, TypeOK
  <2>4. CountInv'
    BY <1>7, CountKept DEF Write, objectVars, threadVars, fileVars, countVars,
       Uncounted, TypeOK
  <2>5. ThreadInv'
    BY <1>7 DEF Write, objectVars, threadVars, fileVars, countVars, ThreadInv,
       TypeOK
  <2>6. FilesInv'
    <3>1. \/ FileOf(Target(s)) = FileOf(m_Server[s])
          \/ s \in Hosts /\ FileOf(Target(s)) = FileOf(m_Client[s])
      BY DEF Target
    <3>2. ~Freed(s)
      BY <1>7 DEF Write, Freed
    <3>3. "stale" \notin misuse' => "foreign" \notin misuse'
      BY <1>7, <3>1, <3>2, TouchOwn DEF Write
    <3> QED
      BY <1>7, <3>3, FilesKept DEF Write, objectVars, threadVars, fileVars,
         countVars, FilesInv, Freed, TypeOK
  <2> QED
    BY <2>1, <2>2, <2>3, <2>4, <2>5, <2>6
<1>8. ASSUME NEW s \in Sockets, Tell(s) PROVE IInv'
  <2>0. /\ files' \in Seq(FileRecords) /\ Len(files') = Len(files)
        /\ \A g \in 1..Len(files) :
             /\ files'[g].by = files[g].by /\ files'[g].role = files[g].role
             /\ files'[g].inbox = files[g].inbox
    <3> DEFINE f == FileOf(m_Client[s])
                r == [files[f] EXCEPT !.told = TRUE]
    <3>1. f \in 0..Len(files)
      BY FileOfType
    <3>2. CASE f = None
      BY <1>8, <3>2 DEF Tell, ToldOn, TypeOK
    <3>3. CASE f # None
      <4>1. f \in 1..Len(files)
        BY <3>1, <3>3 DEF None, TypeOK
      <4>2. files[f] \in FileRecords
        BY <4>1 DEF TypeOK
      <4>3. /\ r \in FileRecords /\ r.by = files[f].by /\ r.role = files[f].role
            /\ r.inbox = files[f].inbox
        BY <4>2 DEF FileRecords
      <4>4. files' = [files EXCEPT ![f] = r]
        BY <1>8, <3>3 DEF Tell, ToldOn
      <4> HIDE DEF f, r
      <4>5. /\ files' \in Seq(FileRecords) /\ Len(files') = Len(files)
            /\ \A g \in 1..Len(files) : files'[g] = IF g = f THEN r ELSE files[g]
        BY <4>1, <4>3, <4>4, FileUpdate
      <4> QED
        BY <4>3, <4>5
    <3> QED
      BY <3>2, <3>3
  <2>1. TypeOK'
    BY <1>8, <2>0, TouchType DEF Tell, threadVars, countVars, OwnerStates,
       ThreadStates, TypeOK
  <2>2. InboxInv'
    BY <1>8, <2>0 DEF Tell, InboxInv
  <2>3. JoinInv'
    BY <1>8 DEF Tell, threadVars, fileVars, countVars, JoinInv, TypeOK
  <2>4. CountInv'
    BY <1>8, CountKept DEF Tell, threadVars, fileVars, countVars, Uncounted, TypeOK
  <2>5. ThreadInv'
    BY <1>8 DEF Tell, threadVars, fileVars, countVars, ThreadInv, TypeOK
  <2>6. FilesInv'
    <3>1. ~Freed(s)
      BY <1>8 DEF Tell, Freed
    <3>2. "stale" \notin misuse' => "foreign" \notin misuse'
      BY <1>8, <3>1, TouchOwn DEF Tell, ToldOn
    <3> QED
      BY <1>8, <2>0, <3>2, FilesKept DEF Tell, threadVars, Freed, TypeOK
  <2> QED
    BY <2>1, <2>2, <2>3, <2>4, <2>5, <2>6
<1>9. ASSUME NEW s \in Sockets, Shut(s) PROVE IInv'
  <2>0. /\ files' \in Seq(FileRecords) /\ Len(files') = Len(files)
        /\ \A g \in 1..Len(files) :
             /\ files'[g].by = files[g].by /\ files'[g].role = files[g].role
             /\ files'[g].inbox = files[g].inbox
    <3> DEFINE f == FileOf(m_Server[s])
                r == [files[f] EXCEPT !.shut = TRUE]
    <3>1. f \in 0..Len(files)
      BY FileOfType
    <3>2. CASE f = None
      BY <1>9, <3>2 DEF Shut, None, TypeOK
    <3>3. CASE f # None
      <4>1. f \in 1..Len(files)
        BY <3>1, <3>3 DEF None, TypeOK
      <4>2. files[f] \in FileRecords
        BY <4>1 DEF TypeOK
      <4>3. /\ r \in FileRecords /\ r.by = files[f].by /\ r.role = files[f].role
            /\ r.inbox = files[f].inbox
        BY <4>2 DEF FileRecords
      <4>4. files' = [files EXCEPT ![f] = r]
        BY <1>9, <3>3 DEF Shut, None
      <4> HIDE DEF f, r
      <4>5. /\ files' \in Seq(FileRecords) /\ Len(files') = Len(files)
            /\ \A g \in 1..Len(files) : files'[g] = IF g = f THEN r ELSE files[g]
        BY <4>1, <4>3, <4>4, FileUpdate
      <4> QED
        BY <4>3, <4>5
    <3> QED
      BY <3>2, <3>3
  <2>1. TypeOK'
    BY <1>9, <2>0, TouchType DEF Shut, threadVars, countVars, OwnerStates,
       ThreadStates, TypeOK
  <2>2. InboxInv'
    BY <1>9, <2>0 DEF Shut, InboxInv
  <2>3. JoinInv'
    BY <1>9 DEF Shut, threadVars, fileVars, countVars, JoinInv, TypeOK
  <2>4. CountInv'
    BY <1>9, CountKept DEF Shut, threadVars, fileVars, countVars, Uncounted, TypeOK
  <2>5. ThreadInv'
    BY <1>9 DEF Shut, threadVars, fileVars, countVars, ThreadInv, TypeOK
  <2>6. FilesInv'
    <3>1. ~Freed(s)
      BY <1>9 DEF Shut, Freed
    <3>2. "stale" \notin misuse' => "foreign" \notin misuse'
      BY <1>9, <3>1, TouchOwn DEF Shut
    <3> QED
      BY <1>9, <2>0, <3>2, FilesKept DEF Shut, threadVars, Freed, TypeOK
  <2> QED
    BY <2>1, <2>2, <2>3, <2>4, <2>5, <2>6
<1>10. ASSUME NEW s \in Sockets, CloseServer(s) PROVE IInv'
  <2>1. TypeOK'
    BY <1>10, TouchType, FdsAssumption DEF CloseServer, ClosedServer, threadVars,
       countVars, OwnerStates, None, TypeOK
  <2>2. InboxInv'
    BY <1>10 DEF CloseServer, threadVars, fileVars, countVars, InboxInv
  <2>3. JoinInv'
    BY <1>10 DEF CloseServer, threadVars, fileVars, countVars, JoinInv, TypeOK
  <2>4. CountInv'
    BY <1>10, CountKept DEF CloseServer, threadVars, fileVars, countVars, Uncounted,
       TypeOK
  <2>5. ThreadInv'
    BY <1>10 DEF CloseServer, threadVars, fileVars, countVars, ThreadInv, TypeOK
  <2>6. FilesInv'
    <3> DEFINE n == m_Server[s]
    <3>1. SUFFICES ASSUME "stale" \notin misuse' PROVE FilesInv'
      BY DEF FilesInv
    <3>2. ~Freed(s)
      BY <1>10 DEF CloseServer, Freed
    <3>3. "foreign" \notin misuse'
      BY <1>10, <3>1, <3>2, TouchOwn DEF CloseServer
    <3>4. misuse' = misuse \cup Touch(s, FileOf(n))
      BY <1>10 DEF CloseServer
    <3>5. thread[s] # "reset"
      BY <1>10 DEF CloseServer, ThreadInv
    <3>6. n \in Fds /\ fds[n] # None => files[fds[n]].by = s
      BY <3>1, <3>3, <3>4, <3>5 DEF Touch, FileOf
    <3>7. ASSUME NEW k, NEW t, NEW roles, t # s, Stands(k, t, roles)
          PROVE  Stands(k, t, roles)'
      BY <1>10, <3>6, <3>7 DEF CloseServer, Stands, TypeOK
    <3>8. ASSUME NEW t \in Sockets, t # s PROVE OwnServer(t)'
      BY <1>10, <3>1, <3>4, <3>7, <3>8 DEF CloseServer, FilesInv, OwnServer,
         ServerRoles, Freed, TypeOK
    <3>9. OwnServer(s)'
      BY <1>10 DEF CloseServer, ClosedServer, OwnServer, TypeOK
    <3>10. ASSUME NEW h \in Hosts PROVE OwnClient(h)'
      BY <1>10, <3>1, <3>4, <3>7, <3>10 DEF CloseServer, FilesInv, OwnClient, Freed,
         threadVars, TypeOK
    <3> QED
      BY <3>3, <3>8, <3>9, <3>10 DEF FilesInv
  <2> QED
    BY <2>1, <2>2, <2>3, <2>4, <2>5, <2>6
<1>11. ASSUME NEW s \in Sockets, Free(s) PROVE IInv'
  <2>1. TypeOK'
    BY <1>11 DEF Free, threadVars, fileVars, OwnerStates, ThreadStates, None, TypeOK
  <2>2. InboxInv'
    BY <1>11 DEF Free, threadVars, fileVars, InboxInv
  <2>3. JoinInv'
    BY <1>11 DEF Free, threadVars, fileVars, JoinInv, TypeOK
  <2>4. CountInv'
    <3>1. ~raced' => ~raced /\ ~Counting
      BY <1>11 DEF Free, TypeOK
    <3>2. CountedObjects' = CountedObjects
      BY <1>11 DEF Free, CountedObjects, Uncounted, TypeOK
    <3> QED
      BY <1>11, <3>1, <3>2 DEF Free, Counting, CountInv, TypeOK
  <2>5. ThreadInv'
    BY <1>11 DEF Free, threadVars, fileVars, ThreadInv, TypeOK
  <2>6. FilesInv'
    BY <1>11, FilesKept DEF Free, threadVars, fileVars, FilesInv, Freed, TypeOK
  <2> QED
    BY <2>1, <2>2, <2>3, <2>4, <2>5, <2>6
<1>12. ASSUME NEW s \in Sockets, DiscountEnds(s) PROVE IInv'
  <2>1. TypeOK'
    BY <1>12 DEF DiscountEnds, threadVars, fileVars, OwnerStates, TypeOK
  <2>2. InboxInv'
    BY <1>12 DEF DiscountEnds, threadVars, fileVars, InboxInv
  <2>3. JoinInv'
    BY <1>12 DEF DiscountEnds, threadVars, fileVars, JoinInv, TypeOK
  <2>4. CountInv'
    <3>1. CountedObjects' = CountedObjects \ {s} /\ s \in CountedObjects
      BY <1>12 DEF DiscountEnds, CountedObjects, Uncounted, TypeOK
    <3>2. IsFiniteSet(CountedObjects)
      BY SocketsAssumption, FS_Subset DEF CountedObjects
    <3>3. Cardinality(CountedObjects') = Cardinality(CountedObjects) - 1
      BY <3>1, <3>2, FS_RemoveElement
    <3> QED
      BY <1>12, <3>3 DEF DiscountEnds, CountInv, TypeOK
  <2>5. ThreadInv'
    BY <1>12 DEF DiscountEnds, threadVars, fileVars, ThreadInv, TypeOK
  <2>6. FilesInv'
    BY <1>12, FilesKept DEF DiscountEnds, threadVars, fileVars, FilesInv, Freed,
       TypeOK
  <2> QED
    BY <2>1, <2>2, <2>3, <2>4, <2>5, <2>6
<1>13. ASSUME NEW s \in Sockets, Test(s) PROVE IInv'
  <2>0. /\ thread[s] = "test" /\ UNCHANGED <<objectVars, fileVars, countVars>>
        /\ \E f \in 0..Len(files), p \in {"accept", "recv", "close", "ended"} :
             /\ Call(s, p, f)
             /\ p \in {"accept", "close"} => s \in Hosts
        /\ misuse \subseteq misuse' /\ misuse' \subseteq Misuses
        /\ "stale" \notin misuse' => "foreign" \notin misuse'
    <3>1. CASE m_Server[s] < 0
      <4>1. Call(s, "ended", 0) /\ misuse' = misuse
        BY <1>13, <3>1 DEF Test, ThreadAt, GoTo, Call, None
      <4>2. 0 \in 0..Len(files)
        BY DEF TypeOK
      <4>3. /\ thread[s] = "test" /\ UNCHANGED <<objectVars, fileVars, countVars>>
        BY <1>13 DEF Test, ThreadAt
      <4> QED
        BY <4>1, <4>2, <4>3 DEF Call, FilesInv, TypeOK
    <3>2. CASE ~(m_Server[s] < 0)
      <4> DEFINE call == IF s \in Hosts /\ m_Client[s] < 0 THEN "accept" ELSE "recv"
                 f == FileOf(IF call = "accept" THEN m_Server[s] ELSE Target(s))
                 bad == IF call = "recv" /\ s \in Hosts THEN "close" ELSE "ended"
      <4>1. /\ IF f = None THEN GoTo(s, bad) ELSE Call(s, call, f)
            /\ misuse' = misuse \cup Touch(s, f)
            /\ thread[s] = "test" /\ ~Freed(s)
            /\ UNCHANGED <<objectVars, fileVars, countVars>>
        BY <1>13, <3>2 DEF Test, ThreadAt
      <4>2. f \in 0..Len(files)
        BY FileOfType
      <4>3. f = FileOf(m_Server[s]) \/ (s \in Hosts /\ f = FileOf(m_Client[s]))
        BY DEF Target
      <4>4. "stale" \notin misuse' => "foreign" \notin misuse'
        <5> HIDE DEF f
        <5> QED
          BY <4>1, <4>3, TouchOwn
      <4>5. misuse \subseteq misuse' /\ misuse' \subseteq Misuses
        BY <4>1, TouchType DEF TypeOK
      <4>6. \E g \in 0..Len(files), p \in {"accept", "recv", "close", "ended"} :
              Call(s, p, g) /\ (p \in {"accept", "close"} => s \in Hosts)
        <5>1. CASE f = None
          <6>1. /\ Call(s, bad, 0) /\ bad \in {"close", "ended"}
                /\ bad = "close" => s \in Hosts
            BY <4>1, <5>1 DEF GoTo, Call, None
          <6>2. 0 \in 0..Len(files)
            BY <4>2, <5>1 DEF None
          <6> HIDE DEF bad
          <6> QED
            BY <6>1, <6>2 DEF Call
        <5>2. CASE f # None
          <6>1. /\ Call(s, call, f) /\ call \in {"accept", "recv"}
                /\ call = "accept" => s \in Hosts
            BY <4>1, <5>2
          <6> HIDE DEF f, call
          <6> QED
            BY <4>2, <6>1 DEF Call
        <5> QED
          BY <5>1, <5>2
      <4> QED
        BY <4>1, <4>4, <4>5, <4>6 DEF Call
    <3> QED
      BY <3>1, <3>2 DEF Call
  <2>1. TypeOK'
    <3>1. PICK f \in 0..Len(files), p \in {"accept", "recv", "close", "ended"} :
            Call(s, p, f) /\ (p \in {"accept", "close"} => s \in Hosts)
      BY <2>0 DEF Call
    <3> QED
      BY <2>0, <3>1 DEF Call, objectVars, fileVars, countVars, ThreadStates, TypeOK
  <2>2. InboxInv'
    BY <2>0 DEF fileVars, InboxInv
  <2>3. JoinInv'
    BY <2>0 DEF objectVars, JoinInv
  <2>4. CountInv'
    BY <2>0, CountKept DEF objectVars
  <2>5. ThreadInv'
    <3>1. PICK f \in 0..Len(files), p \in {"accept", "recv", "close", "ended"} :
            Call(s, p, f) /\ (p \in {"accept", "close"} => s \in Hosts)
      BY <2>0 DEF Call
    <3> QED
      BY <2>0, <3>1 DEF Call, objectVars, ThreadInv, TypeOK
  <2>6. FilesInv'
    <3>1. PICK f \in 0..Len(files), p \in {"accept", "recv", "close", "ended"} :
            Call(s, p, f) /\ (p \in {"accept", "close"} => s \in Hosts)
      BY <2>0 DEF Call
    <3> QED
      BY <2>0, <3>1, FilesKept DEF Call, objectVars, fileVars, Freed, TypeOK
  <2> QED
    BY <2>1, <2>2, <2>3, <2>4, <2>5, <2>6
<1>14. ASSUME NEW s \in Sockets, Accept(s) PROVE IInv'
  <2>0. /\ s \in Hosts /\ LowestFree \in Fds /\ fds[LowestFree] = None
        /\ \E f \in 1..Len(files) :
             /\ files[f].by = s /\ files[f].role = "pending"
             /\ files' \in Seq(FileRecords) /\ Len(files') = Len(files)
             /\ \A g \in 1..Len(files) : g # f => files'[g] = files[g]
             /\ files'[f].by = s /\ files'[f].role \in {"stream", "late"}
             /\ files'[f].inbox = files[f].inbox
             /\ fds' = [fds EXCEPT ![LowestFree] = f] /\ Call(s, "recv", f)
    <3> DEFINE f == Oldest(Pending(s))
               role == IF owner[s] \in {"shutting", "freeing"} THEN "late" ELSE "stream"
               r == [files[f] EXCEPT !.role = role]
    <3>1. f \in 1..Len(files) /\ files[f].by = s /\ files[f].role = "pending"
      BY <1>14, OldestIsPending DEF Accept, Pending
    <3>2. LowestFree \in Fds /\ fds[LowestFree] = None
      BY <1>14, LowestIsFree DEF Accept
    <3>3. s \in Hosts
      BY <1>14 DEF Accept, ThreadAt, ThreadInv
    <3>4. files[f] \in FileRecords
      BY <3>1, FileType
    <3>5. /\ r \in FileRecords /\ r.by = files[f].by /\ r.role = role
          /\ r.inbox = files[f].inbox
      BY <3>4 DEF FileRecords, Roles
    <3>6. /\ files' = [files EXCEPT ![f] = r]
          /\ fds' = [fds EXCEPT ![LowestFree] = f] /\ Call(s, "recv", f)
      BY <1>14 DEF Accept
    <3> HIDE DEF f, r
    <3>7. /\ files' \in Seq(FileRecords) /\ Len(files') = Len(files)
          /\ \A g \in 1..Len(files) : files'[g] = IF g = f THEN r ELSE files[g]
      BY <3>1, <3>5, <3>6, FileUpdate
    <3>8. role \in {"stream", "late"}
      OBVIOUS
    <3> HIDE DEF role
    <3> QED
      BY <3>1, <3>2, <3>3, <3>5, <3>6, <3>7, <3>8 DEF Call
  <2>1. TypeOK'
    BY <1>14, <2>0, SMTT(30) DEF Accept, Call, countVars, ThreadStates, TypeOK
  <2>2. InboxInv'
    BY <1>14, <2>0 DEF Accept, InboxInv, TypeOK
  <2>3. JoinInv'
    BY <1>14 DEF Accept, ThreadAt, Call, objectVars, fileVars, countVars, JoinInv,
       TypeOK
  <2>4. CountInv'
    BY <1>14, CountKept DEF Accept, ThreadAt, Call, objectVars, fileVars, countVars,
       Uncounted, TypeOK
  <2>5. ThreadInv'
    BY <1>14 DEF Accept, ThreadAt, Call, objectVars, fileVars, countVars, ThreadInv,
       TypeOK
  <2>6. FilesInv'
    <3>1. PICK f \in 1..Len(files) :
            /\ files[f].by = s /\ files[f].role = "pending"
            /\ \A g \in 1..Len(files) : g # f => files'[g] = files[g]
            /\ files'[f].by = s /\ files'[f].role \in {"stream", "late"}
            /\ fds' = [fds EXCEPT ![LowestFree] = f] /\ Call(s, "recv", f)
      BY <2>0 DEF Call
    <3>2. LowestFree \in Fds /\ fds[LowestFree] = None /\ f # None
      BY <2>0 DEF None
    <3>3. ASSUME NEW n, NEW t, NEW roles, Stands(n, t, roles),
                 t # s \/ "pending" \notin roles
          PROVE  Stands(n, t, roles)'
      BY <3>1, <3>2, <3>3 DEF Stands, TypeOK, None
    <3>4. m_Client'[s] = LowestFree /\ Stands(m_Client[s], s, {"stream", "late"})'
      BY <1>14, <3>1, <3>2 DEF Accept, Stands, TypeOK
    <3>5. ASSUME NEW t \in Sockets, "stale" \notin misuse PROVE OwnServer(t)'
      <4>1. t # s \/ "pending" \notin ServerRoles(t)
        BY <2>0 DEF ServerRoles
      <4> QED
        BY <1>14, <3>3, <3>5, <4>1 DEF Accept, FilesInv, OwnServer, ServerRoles,
           Freed
    <3>6. ASSUME NEW t \in Hosts, "stale" \notin misuse, t # s PROVE OwnClient(t)'
      BY <1>14, <3>1, <3>3, <3>6 DEF Accept, Call, FilesInv, OwnClient, Freed,
         TypeOK
    <3>7. OwnClient(s)'
      BY <3>4 DEF OwnClient
    <3> QED
      BY <1>14, <3>5, <3>6, <3>7 DEF Accept, FilesInv
  <2> QED
    BY <2>1, <2>2, <2>3, <2>4, <2>5, <2>6
<1>15. ASSUME NEW s \in Sockets, AcceptFails(s) PROVE IInv'
  <2>1. TypeOK'
    BY <1>15 DEF AcceptFails, ThreadAt, GoTo, objectVars, fileVars, countVars,
       OwnerStates, ThreadStates, None, TypeOK
  <2>2. InboxInv'
    BY <1>15 DEF AcceptFails, ThreadAt, GoTo, objectVars, fileVars, countVars,
       InboxInv
  <2>3. JoinInv'
    BY <1>15 DEF AcceptFails, ThreadAt, GoTo, objectVars, fileVars, countVars,
       JoinInv, TypeOK
  <2>4. CountInv'
    BY <1>15, CountKept DEF AcceptFails, ThreadAt, GoTo, objectVars, fileVars,
       countVars, Uncounted, TypeOK
  <2>5. ThreadInv'
    BY <1>15 DEF AcceptFails, ThreadAt, GoTo, objectVars, fileVars, countVars,
       ThreadInv, TypeOK
  <2>6. FilesInv'
    BY <1>15, FilesKept DEF AcceptFails, ThreadAt, GoTo, objectVars, fileVars,
       countVars, FilesInv, Freed, TypeOK
  <2> QED
    BY <2>1, <2>2, <2>3, <2>4, <2>5, <2>6
<1>16. ASSUME NEW s \in Sockets, Recv(s) PROVE IInv'
  <2>0. /\ files' \in Seq(FileRecords) /\ Len(files') = Len(files)
        /\ \A g \in 1..Len(files) :
             /\ files'[g].by = files[g].by /\ files'[g].role = files[g].role
             /\ files'[g].inbox <= files[g].inbox
    <3> DEFINE f == on[s]
               r == [files[f] EXCEPT !.inbox = @ - 1]
    <3>1. f \in 0..Len(files)
      BY DEF TypeOK
    <3>2. files' = [files EXCEPT ![f] = r] /\ files[f].inbox > 0
      BY <1>16 DEF Recv
    <3>3. CASE f = 0
      <4>1. files' = files
        BY <3>2, <3>3 DEF TypeOK
      <4> QED
        BY <4>1, FileType DEF TypeOK
    <3>4. CASE f # 0
      <4>1. f \in 1..Len(files) /\ files[f] \in FileRecords
        BY <3>1, <3>4, FileType DEF TypeOK
      <4>2. /\ r \in FileRecords /\ r.by = files[f].by /\ r.role = files[f].role
            /\ r.inbox = files[f].inbox - 1
        <5>1. files[f].inbox - 1 \in 0..MaxMessages
          BY <3>2, <4>1, FileType
        <5> QED
          BY <4>1, <5>1 DEF FileRecords
      <4>3. \A g \in 1..Len(files) : files[g].inbox \in Nat
        BY FileType
      <4> HIDE DEF f, r
      <4>4. /\ files' \in Seq(FileRecords) /\ Len(files') = Len(files)
            /\ \A g \in 1..Len(files) : files'[g] = IF g = f THEN r ELSE files[g]
        BY <3>2, <4>1, <4>2, FileUpdate
      <4> QED
        BY <4>1, <4>2, <4>3, <4>4
    <3> QED
      BY <3>3, <3>4
  <2>1. TypeOK'
    BY <1>16, <2>0 DEF Recv, GoTo, objectVars, countVars, ThreadStates, None, TypeOK
  <2>2. InboxInv'
    BY <1>16, <2>0 DEF Recv, InboxInv, TypeOK, FileRecords
  <2>3. JoinInv'
    BY <1>16 DEF Recv, ThreadAt, GoTo, objectVars, fileVars, countVars, JoinInv,
       TypeOK
  <2>4. CountInv'
    BY <1>16, CountKept DEF Recv, ThreadAt, GoTo, objectVars, fileVars, countVars,
       Uncounted, TypeOK
  <2>5. ThreadInv'
    BY <1>16 DEF Recv, ThreadAt, GoTo, objectVars, fileVars, countVars, ThreadInv,
       TypeOK
  <2>6. FilesInv'
    BY <1>16, <2>0, FilesKept DEF Recv, ThreadAt, GoTo, objectVars, FilesInv, Freed,
       TypeOK
  <2> QED
    BY <2>1, <2>2, <2>3, <2>4, <2>5, <2>6
<1>17. ASSUME NEW s \in Sockets, RecvEnds(s) PROVE IInv'
  <2>1. TypeOK'
    BY <1>17 DEF RecvEnds, ThreadAt, GoTo, objectVars, fileVars, countVars,
       OwnerStates, ThreadStates, None, TypeOK
  <2>2. InboxInv'
    BY <1>17 DEF RecvEnds, ThreadAt, GoTo, objectVars, fileVars, countVars, InboxInv
  <2>3. JoinInv'
    BY <1>17 DEF RecvEnds, ThreadAt, GoTo, objectVars, fileVars, countVars, JoinInv,
       TypeOK
  <2>4. CountInv'
    BY <1>17, CountKept DEF RecvEnds, ThreadAt, GoTo, objectVars, fileVars,
       countVars, Uncounted, TypeOK
  <2>5. ThreadInv'
    BY <1>17 DEF RecvEnds, ThreadAt, GoTo, objectVars, fileVars, countVars,
       ThreadInv, TypeOK
  <2>6. FilesInv'
    BY <1>17, FilesKept DEF RecvEnds, ThreadAt, GoTo, objectVars, fileVars,
       countVars, FilesInv, Freed, TypeOK
  <2> QED
    BY <2>1, <2>2, <2>3, <2>4, <2>5, <2>6
<1>18. ASSUME NEW s \in Sockets, Process(s) PROVE IInv'
  <2>1. TypeOK'
    BY <1>18 DEF Process, ThreadAt, GoTo, objectVars, fileVars, countVars,
       OwnerStates, ThreadStates, None, TypeOK
  <2>2. InboxInv'
    BY <1>18 DEF Process, ThreadAt, GoTo, objectVars, fileVars, countVars, InboxInv
  <2>3. JoinInv'
    BY <1>18 DEF Process, ThreadAt, GoTo, objectVars, fileVars, countVars, JoinInv,
       TypeOK
  <2>4. CountInv'
    BY <1>18, CountKept DEF Process, ThreadAt, GoTo, objectVars, fileVars,
       countVars, Uncounted, TypeOK
  <2>5. ThreadInv'
    BY <1>18 DEF Process, ThreadAt, GoTo, objectVars, fileVars, countVars,
       ThreadInv, TypeOK
  <2>6. FilesInv'
    BY <1>18, FilesKept DEF Process, ThreadAt, GoTo, objectVars, fileVars,
       countVars, FilesInv, Freed, TypeOK
  <2> QED
    BY <2>1, <2>2, <2>3, <2>4, <2>5, <2>6
<1>19. ASSUME NEW s \in Sockets, CloseClient(s) PROVE IInv'
  <2>1. TypeOK'
    BY <1>19, TouchType DEF CloseClient, GoTo, objectVars, countVars, ThreadStates,
       None, TypeOK
  <2>2. InboxInv'
    BY <1>19 DEF CloseClient, ThreadAt, GoTo, objectVars, fileVars, countVars,
       InboxInv
  <2>3. JoinInv'
    BY <1>19 DEF CloseClient, ThreadAt, GoTo, objectVars, fileVars, countVars,
       JoinInv, TypeOK
  <2>4. CountInv'
    BY <1>19, CountKept DEF CloseClient, ThreadAt, GoTo, objectVars, fileVars,
       countVars, Uncounted, TypeOK
  <2>5. ThreadInv'
    BY <1>19 DEF CloseClient, ThreadAt, GoTo, objectVars, fileVars, countVars,
       ThreadInv, TypeOK
  <2>6. FilesInv'
    <3> DEFINE n == m_Client[s]
    <3>1. SUFFICES ASSUME "stale" \notin misuse' PROVE FilesInv'
      BY DEF FilesInv
    <3>2. s \in Hosts /\ ~Freed(s) /\ thread[s] = "close"
      BY <1>19 DEF CloseClient, ThreadAt, ThreadInv
    <3>3. misuse' = misuse \cup Touch(s, FileOf(n))
      BY <1>19 DEF CloseClient
    <3>4. "foreign" \notin misuse' /\ "stale" \notin misuse
      BY <3>1, <3>2, <3>3, TouchOwn
    <3>5. n # -1 => Stands(n, s, {"stream", "late"})
      BY <3>2, <3>4 DEF FilesInv, OwnClient
    <3>6. ASSUME NEW k, NEW t, NEW roles, Stands(k, t, roles),
                 t # s \/ roles = {"listening"}
          PROVE  Stands(k, t, roles)'
      <4>1. k # n
        BY <3>5, <3>6, FdsAssumption DEF Stands
      <4> QED
        BY <1>19, <3>6, <4>1 DEF CloseClient, Stands, TypeOK
    <3>7. ASSUME NEW t \in Sockets PROVE OwnServer(t)'
      <4>1. t # s \/ ServerRoles(t) = {"listening"}
        BY <3>2 DEF ServerRoles
      <4> QED
        BY <1>19, <3>4, <3>6, <4>1 DEF CloseClient, objectVars, FilesInv, OwnServer,
           ServerRoles, Freed
    <3>8. ASSUME NEW h \in Hosts, h # s PROVE OwnClient(h)'
      BY <1>19, <3>4, <3>6, <3>8 DEF CloseClient, GoTo, objectVars, FilesInv,
         OwnClient, Freed, TypeOK
    <3>9. OwnClient(s)'
      BY <1>19 DEF CloseClient, GoTo, OwnClient, TypeOK
    <3> QED
      BY <3>4, <3>7, <3>8, <3>9 DEF FilesInv
  <2> QED
    BY <2>1, <2>2, <2>3, <2>4, <2>5, <2>6
<1>20. ASSUME NEW s \in Sockets, ResetClient(s) PROVE IInv'
  <2>1. TypeOK'
    BY <1>20 DEF ResetClient, ClosedClient, GoTo, fileVars, countVars, ThreadStates,
       None, TypeOK
  <2>2. InboxInv'
    BY <1>20 DEF ResetClient, ThreadAt, GoTo, objectVars, fileVars, countVars,
       InboxInv
  <2>3. JoinInv'
    BY <1>20 DEF ResetClient, ThreadAt, GoTo, objectVars, fileVars, countVars,
       JoinInv, TypeOK
  <2>4. CountInv'
    BY <1>20, CountKept DEF ResetClient, ThreadAt, GoTo, objectVars, fileVars,
       countVars, Uncounted, TypeOK
  <2>5. ThreadInv'
    BY <1>20 DEF ResetClient, ThreadAt, GoTo, objectVars, fileVars, countVars,
       ThreadInv, TypeOK
  <2>6. FilesInv'
    BY <1>20, FilesKept DEF ResetClient, ClosedClient, ThreadAt, GoTo, fileVars,
       FilesInv, Freed, TypeOK
  <2> QED
    BY <2>1, <2>2, <2>3, <2>4, <2>5, <2>6
<1>21. ASSUME NEW s \in Sockets, UseFreed(s) PROVE IInv'
  <2>1. TypeOK'
    BY <1>21 DEF UseFreed, ThreadAt, GoTo, objectVars, fileVars, countVars,
       OwnerStates, ThreadStates, None, TypeOK
  <2>2. InboxInv'
    BY <1>21 DEF UseFreed, ThreadAt, GoTo, objectVars, fileVars, countVars, InboxInv
  <2>3. JoinInv'
    BY <1>21 DEF UseFreed, ThreadAt, GoTo, objectVars, fileVars, countVars, JoinInv,
       TypeOK
  <2>4. CountInv'
    BY <1>21, CountKept DEF UseFreed, ThreadAt, GoTo, objectVars, fileVars,
       countVars, Uncounted, TypeOK
  <2>5. ThreadInv'
    BY <1>21 DEF UseFreed, ThreadAt, GoTo, objectVars, fileVars, countVars,
       ThreadInv, TypeOK
  <2>6. FilesInv'
    BY <1>21, FilesKept DEF UseFreed, ThreadAt, GoTo, objectVars, fileVars,
       countVars, FilesInv, Freed, TypeOK
  <2> QED
    BY <2>1, <2>2, <2>3, <2>4, <2>5, <2>6
<1>22. ASSUME NEW h \in Hosts, PeerConnects(h) PROVE IInv'
  <2>0. /\ files' \in Seq(FileRecords) /\ Len(files') = Len(files) + 1
        /\ Len(files') <= MaxFiles /\ InboxInv'
        /\ \A g \in 1..Len(files) : files'[g] = files[g]
    BY <1>22, FileAdd DEF PeerConnects, Roles
  <2>1. TypeOK'
    BY <1>22, <2>0, SMTT(30) DEF PeerConnects, objectVars, threadVars, countVars, TypeOK
  <2>2. InboxInv'
    BY <2>0
  <2>3. JoinInv'
    BY <1>22 DEF PeerConnects, objectVars, threadVars, countVars, JoinInv, TypeOK
  <2>4. CountInv'
    BY <1>22, CountKept DEF PeerConnects, objectVars, threadVars, countVars,
       Uncounted, TypeOK
  <2>5. ThreadInv'
    BY <1>22 DEF PeerConnects, objectVars, threadVars, countVars, ThreadInv, TypeOK
  <2>6. FilesInv'
    BY <1>22, <2>0, FilesKept DEF PeerConnects, objectVars, threadVars, FilesInv,
       Freed, TypeOK
  <2> QED
    BY <2>1, <2>2, <2>3, <2>4, <2>5, <2>6
<1>23. ASSUME NEW f \in 1..Len(files), PeerSends(f) PROVE IInv'
  <2>0. /\ files' \in Seq(FileRecords) /\ Len(files') = Len(files)
        /\ \A g \in 1..Len(files) :
             /\ files'[g].by = files[g].by /\ files'[g].role = files[g].role
             /\ files'[g].inbox <= messages'
    <3> DEFINE r == [files[f] EXCEPT !.inbox = @ + 1]
    <3>1. files[f] \in FileRecords /\ \A g \in 1..Len(files) : files[g].inbox \in Nat
      BY FileType
    <3>2. files' = [files EXCEPT ![f] = r] /\ messages <= messages' /\ messages' \in 0..MaxMessages
      BY <1>23 DEF PeerSends, TypeOK
    <3>3. files[f].inbox + 1 <= messages'
      BY <1>23, <3>1 DEF PeerSends, InboxInv, TypeOK
    <3>4. /\ r \in FileRecords /\ r.by = files[f].by /\ r.role = files[f].role
          /\ r.inbox <= messages'
      <4>1. files[f].inbox + 1 \in 0..MaxMessages
        BY <3>1, <3>2, <3>3
      <4>2. /\ r \in FileRecords /\ r.by = files[f].by /\ r.role = files[f].role
            /\ r.inbox = files[f].inbox + 1
        BY <3>1, <4>1 DEF FileRecords
      <4> QED
        BY <3>3, <4>2
    <3>5. /\ files' \in Seq(FileRecords) /\ Len(files') = Len(files)
          /\ \A g \in 1..Len(files) : files'[g] = IF g = f THEN r ELSE files[g]
      BY <3>2, <3>4, FileUpdate
    <3>6. \A g \in 1..Len(files) : files[g].inbox <= messages'
      BY <3>1, <3>2 DEF InboxInv, TypeOK
    <3> HIDE DEF r
    <3> QED
      BY <3>4, <3>5, <3>6
  <2>1. TypeOK'
    BY <1>23, <2>0 DEF PeerSends, objectVars, threadVars, countVars, TypeOK
  <2>2. InboxInv'
    BY <2>0 DEF InboxInv
  <2>3. JoinInv'
    BY <1>23 DEF PeerSends, objectVars, threadVars, countVars, JoinInv, TypeOK
  <2>4. CountInv'
    BY <1>23, CountKept DEF PeerSends, objectVars, threadVars, countVars, Uncounted,
       TypeOK
  <2>5. ThreadInv'
    BY <1>23 DEF PeerSends, objectVars, threadVars, countVars, ThreadInv, TypeOK
  <2>6. FilesInv'
    BY <1>23, <2>0, FilesKept DEF PeerSends, objectVars, threadVars, FilesInv,
       Freed, TypeOK
  <2> QED
    BY <2>1, <2>2, <2>3, <2>4, <2>5, <2>6
<1>24. ASSUME NEW f \in 1..Len(files), PeerCloses(f) PROVE IInv'
  <2>0. /\ files' \in Seq(FileRecords) /\ Len(files') = Len(files)
        /\ \A g \in 1..Len(files) :
             /\ files'[g].by = files[g].by /\ files'[g].role = files[g].role
             /\ files'[g].inbox <= messages'
    <3> DEFINE r == [files[f] EXCEPT !.peer = FALSE]
    <3>1. files[f] \in FileRecords /\ \A g \in 1..Len(files) : files[g].inbox \in Nat
      BY FileType
    <3>2. files' = [files EXCEPT ![f] = r] /\ messages <= messages' /\ messages' \in 0..MaxMessages
      BY <1>24 DEF PeerCloses, TypeOK
    <3>3. files[f].inbox <= messages'
      BY <1>24, <3>1 DEF PeerCloses, InboxInv, TypeOK
    <3>4. /\ r \in FileRecords /\ r.by = files[f].by /\ r.role = files[f].role
          /\ r.inbox <= messages'
      <4>1. files[f].inbox \in 0..MaxMessages
        BY <3>1, <3>2, <3>3
      <4>2. /\ r \in FileRecords /\ r.by = files[f].by /\ r.role = files[f].role
            /\ r.inbox = files[f].inbox
        BY <3>1, <4>1 DEF FileRecords
      <4> QED
        BY <3>3, <4>2
    <3>5. /\ files' \in Seq(FileRecords) /\ Len(files') = Len(files)
          /\ \A g \in 1..Len(files) : files'[g] = IF g = f THEN r ELSE files[g]
      BY <3>2, <3>4, FileUpdate
    <3>6. \A g \in 1..Len(files) : files[g].inbox <= messages'
      BY <3>1, <3>2 DEF InboxInv, TypeOK
    <3> HIDE DEF r
    <3> QED
      BY <3>4, <3>5, <3>6
  <2>1. TypeOK'
    BY <1>24, <2>0 DEF PeerCloses, objectVars, threadVars, countVars, TypeOK
  <2>2. InboxInv'
    BY <2>0 DEF InboxInv
  <2>3. JoinInv'
    BY <1>24 DEF PeerCloses, objectVars, threadVars, countVars, JoinInv, TypeOK
  <2>4. CountInv'
    BY <1>24, CountKept DEF PeerCloses, objectVars, threadVars, countVars,
       Uncounted, TypeOK
  <2>5. ThreadInv'
    BY <1>24 DEF PeerCloses, objectVars, threadVars, countVars, ThreadInv, TypeOK
  <2>6. FilesInv'
    BY <1>24, <2>0, FilesKept DEF PeerCloses, objectVars, threadVars, FilesInv,
       Freed, TypeOK
  <2> QED
    BY <2>1, <2>2, <2>3, <2>4, <2>5, <2>6
<1>25. CASE Finished \/ UNCHANGED vars
  <2>1. UNCHANGED <<objectVars, threadVars, fileVars, countVars, misuse>>
    BY <1>25 DEF Finished, vars
  <2>2. TypeOK' /\ InboxInv' /\ JoinInv' /\ ThreadInv'
    BY <2>1 DEF objectVars, threadVars, fileVars, countVars, TypeOK, InboxInv,
       JoinInv, ThreadInv
  <2>3. CountInv'
    BY <2>1, CountKept DEF objectVars
  <2>4. FilesInv'
    BY <2>1, FilesKept DEF objectVars, threadVars, fileVars, FilesInv, Freed
  <2> QED
    BY <2>2, <2>3, <2>4
<1> QED
  BY <1>1, <1>2, <1>3, <1>4, <1>5, <1>6, <1>7, <1>8, <1>9, <1>10, <1>11, <1>12,
     <1>13, <1>14, <1>15, <1>16, <1>17, <1>18, <1>19, <1>20, <1>21, <1>22, <1>23,
     <1>24, <1>25 DEF Next, OwnerStep, ThreadStep

-----------------------------------------------------------------------------
LEMMA Invariant == Spec => []IInv
  BY InitInv, StepInv, PTL DEF Spec

\* The variables keep their types: in particular at most MaxFiles files, and a
\* receive buffer never below zero or above what was sent.
THEOREM TypeCorrect == Spec => []TypeOK
<1>1. IInv => TypeOK
  BY DEF IInv
<1> QED
  BY <1>1, Invariant, PTL

\* "Ensure we stop previous events": whatever the peers and the other objects do, an
\* event thread that an initialize has told to stop ends at its next test.
THEOREM StopsAtNextTestHolds == Spec => StopsAtNextTest
<1>1. IInv /\ [Next]_vars =>
        [\A s \in Sockets : owner[s] = "joining" /\ thread[s] = "test"
                               => thread'[s] \in {"test", "ended"}]_vars
  <2> SUFFICES ASSUME IInv, Next, NEW s \in Sockets,
                      owner[s] = "joining", thread[s] = "test"
               PROVE  thread'[s] \in {"test", "ended"}
    BY DEF vars
  <2>1. thread \in [Sockets -> ThreadStates] /\ m_Server[s] < 0
    BY DEF IInv, TypeOK, JoinInv
  <2>2. ASSUME NEW t \in Sockets, OwnerStep(t)
        PROVE  thread'[s] \in {"test", "ended"}
    BY <2>1, <2>2 DEF OwnerStep, Construct, ConstructEnds, Initialize, SocketFails,
       OpenFails, Open, Opens, Write, Tell, Shut, CloseServer, Free, DiscountEnds,
       threadVars
  <2>3. ASSUME NEW t \in Sockets, ThreadStep(t)
        PROVE  thread'[s] \in {"test", "ended"}
    BY <2>1, <2>3 DEF Sockets, ThreadStep, Test, Accept, AcceptFails, Recv,
       RecvEnds, Process, CloseClient, ResetClient, UseFreed, Freed, ThreadAt, GoTo,
       Call
  <2>4. ASSUME NEW h \in Hosts, PeerConnects(h) PROVE thread' = thread
    BY <2>4 DEF PeerConnects, threadVars
  <2>5. ASSUME NEW f \in 1..Len(files), PeerSends(f) \/ PeerCloses(f)
        PROVE  thread' = thread
    BY <2>5 DEF PeerSends, PeerCloses, threadVars
  <2>6. Finished => thread' = thread
    BY DEF Finished, vars, threadVars
  <2> QED
    BY <2>2, <2>3, <2>4, <2>5, <2>6 DEF Next
<1> QED
  BY <1>1, Invariant, PTL DEF Spec, StopsAtNextTest

\* gProtobufUsageCount does its work for any number of objects made and destroyed in
\* any order, if the changes of the count do not overlap: who shuts the library is
\* the last that was counted.
THEOREM LibraryOutlivesSocketsHolds == Spec => LibraryOutlivesSockets
<1>1. IInv /\ [Next]_vars =>
        [library' # library /\ ~raced' => \A s \in Sockets : owner'[s] \in Uncounted]_vars
  <2> SUFFICES ASSUME IInv, IInv', Next, library' # library, ~raced'
               PROVE  \A s \in Sockets : owner'[s] \in Uncounted
    BY StepInv DEF vars
  <2>1. PICK s \in Sockets : DiscountEnds(s)
    BY DEF Next, OwnerStep, ThreadStep, Construct, ConstructEnds, Initialize,
       SocketFails, OpenFails, Open, Write, Tell, Shut, CloseServer, Free, Test,
       Accept, AcceptFails, Recv, RecvEnds, Process, CloseClient, ResetClient,
       UseFreed, PeerConnects, PeerSends, PeerCloses, Finished, countVars, vars
  <2>2. gProtobufUsageCount' = 0
    BY <2>1 DEF DiscountEnds, IsLast, IInv, TypeOK
  <2>3. Cardinality(CountedObjects') = 0
    BY <2>2 DEF IInv, CountInv
  <2>4. IsFiniteSet(CountedObjects')
    BY SocketsAssumption, FS_Subset DEF CountedObjects
  <2> QED
    BY <2>3, <2>4, FS_EmptySet DEF CountedObjects
<1> QED
  BY <1>1, Invariant, PTL DEF Spec, LibraryOutlivesSockets

\* However numbers are reused among any objects and however threads and owners
\* interleave, the first use of another object's socket is that of a number that a
\* failed initialize has left behind.
THEOREM TouchesOwnFilesHolds == Spec => []TouchesOwnFiles
<1>1. IInv => TouchesOwnFiles
  BY DEF IInv, FilesInv, TouchesOwnFiles
<1> QED
  BY <1>1, Invariant, PTL

-----------------------------------------------------------------------------
(* Who is told that a host is gone. *)

\* A file has at most one number, and one that waits to be accepted has none.
NumbersInv ==
  /\ \A n, k \in Fds : fds[n] # None /\ fds[n] = fds[k] => n = k
  /\ \A n \in Fds : fds[n] # None => files[fds[n]].role # "pending"

\* A system call is made on a file of the object that makes it, and a host accepts
\* when it has no client.
CallsInv ==
  /\ \A h \in Hosts : thread[h] = "accept" => m_Client[h] = -1
  /\ "stale" \notin misuse =>
       \A s \in Sockets : thread[s] \in {"accept", "recv"} =>
         /\ on[s] # None /\ files[on[s]].by = s
         /\ files[on[s]].role # "pending"

\* The destructor of h has not yet looked for a client.
Serving(h) == owner[h] \notin {"shutting", "freeing", "discounting", "gone"}

\* f is the connection that h serves now.
IsClientOf(f, h) == thread[h] # "reset" /\ FileOf(m_Client[h]) = f

\* A connection of h that is open and was not told is the one that h serves.
ToldInv ==
  "stale" \notin misuse =>
    \A f \in 1..Len(files) :
      files[f].by \in Hosts /\ files[f].role = "stream" /\ Alive(f) =>
        files[f].told \/ (Serving(files[f].by) /\ IsClientOf(f, files[f].by))

TInv == NumbersInv /\ CallsInv /\ ToldInv

\* The initial states satisfy it.
LEMMA InitTold == Init => TInv
  BY DEF Init, TInv, NumbersInv, CallsInv, ToldInv, None, Sockets

\* A number, and a member of on, stands for no file or for one that was opened.
LEMMA NumbersType ==
  ASSUME TypeOK
  PROVE  /\ Len(files) \in Nat
         /\ \A n \in Fds : fds[n] # None => fds[n] \in 1..Len(files)
         /\ \A s \in Sockets : on[s] # None => on[s] \in 1..Len(files)
  BY DEF TypeOK, None

\* A change of fields other than by and role keeps those, and told if that is kept.
LEMMA NamesKept ==
  ASSUME TypeOK, NEW f \in 1..Len(files), NEW r,
         files' = [files EXCEPT ![f] = r],
         r.by = files[f].by, r.role = files[f].role, files[f].told => r.told
  PROVE  /\ Len(files') = Len(files)
         /\ \A g \in 1..Len(files) :
              /\ files'[g].by = files[g].by /\ files'[g].role = files[g].role
              /\ files[g].told => files'[g].told
<1>1. files \in Seq(FileRecords)
  BY DEF TypeOK
<1>2. files \in Seq(FileRecords \cup {r})
  BY <1>1
<1> QED
  BY <1>2, ExceptSeq

\* A step that moves no number and makes no call, and after which whoever served
\* does, keeps the invariant.
LEMMA ToldKept ==
  ASSUME TypeOK, TInv, misuse \subseteq misuse', UNCHANGED <<fds, m_Client>>,
         Len(files') = Len(files),
         \A f \in 1..Len(files) :
           /\ files'[f].by = files[f].by /\ files'[f].role = files[f].role
           /\ files[f].told => files'[f].told,
         \A s \in Sockets :
           \/ thread'[s] = thread[s] /\ on'[s] = on[s]
           \/ thread'[s] \notin {"accept", "recv", "reset"},
         \A h \in Hosts : Serving(h) => Serving(h)'
  PROVE  TInv'
<1>1. NumbersInv'
  BY NumbersType DEF TInv, NumbersInv
<1>2. CallsInv'
  BY NumbersType DEF TInv, CallsInv, Sockets
<1>3. ToldInv'
  <2> SUFFICES ASSUME "stale" \notin misuse', NEW f \in 1..Len(files),
                      files[f].by \in Hosts, files[f].role = "stream", Alive(f)',
                      ~files'[f].told
               PROVE  (Serving(files[f].by) /\ IsClientOf(f, files[f].by))'
    BY DEF ToldInv
  <2>1. Alive(f)
    BY DEF Alive
  <2>2. Serving(files[f].by) /\ IsClientOf(f, files[f].by)
    BY <2>1 DEF TInv, ToldInv
  <2> QED
    BY <2>2 DEF IsClientOf, FileOf, Sockets
<1> QED
  BY <1>1, <1>2, <1>3 DEF TInv

\* A new socket of one that has no thread in a system call is not the old
\* connection of anyone.
LEMMA OpenTold == ASSUME IInv, TInv, NEW s \in Sockets, Open(s) PROVE TInv'
<1> DEFINE new == Len(files) + 1
           role == IF s \in Hosts THEN "listening" ELSE "stream"
<1>0. TypeOK /\ InboxInv /\ ThreadInv
  BY DEF IInv
<1>1. LowestFree \in Fds /\ fds[LowestFree] = None
  BY LowestIsFree DEF Open
<1>2. /\ Len(files') = new
      /\ \A g \in 1..Len(files) : files'[g] = files[g]
      /\ files'[new] = NewFile(s, role)
  BY <1>0, FileAdd DEF Open, Roles
<1>3. /\ fds' = [fds EXCEPT ![LowestFree] = new]
      /\ UNCHANGED <<m_Client, on, misuse>>
      /\ thread' = [thread EXCEPT ![s] = "test"]
      /\ thread[s] # "reset"
  BY <1>0 DEF Open, ThreadInv, Opens, countVars
<1>4. /\ Len(files) \in Nat
      /\ \A n \in Fds : fds'[n] = IF n = LowestFree THEN new ELSE fds[n]
      /\ \A t \in Sockets : thread'[t] = IF t = s THEN "test" ELSE thread[t]
  BY <1>0, <1>3 DEF TypeOK
<1>5. NumbersInv'
  BY <1>0, <1>1, <1>2, <1>4, NumbersType DEF TInv, NumbersInv, NewFile, None
<1>6. CallsInv'
  BY <1>0, <1>2, <1>3, <1>4, NumbersType DEF TInv, CallsInv, Sockets
<1>7. ToldInv'
  <2> SUFFICES ASSUME "stale" \notin misuse, NEW f \in 1..new,
                      files'[f].by \in Hosts, files'[f].role = "stream", Alive(f)',
                      ~files'[f].told
               PROVE  (Serving(files[f].by) /\ IsClientOf(f, files[f].by))'
    BY <1>2, <1>3 DEF ToldInv
  <2>1. f \in 1..Len(files)
    BY <1>2, <1>4, SocketsAssumption DEF NewFile
  <2>2. Alive(f)
    BY <1>3, <1>4, <2>1 DEF Alive
  <2>3. Serving(files[f].by) /\ IsClientOf(f, files[f].by)
    BY <1>2, <2>1, <2>2 DEF TInv, ToldInv
  <2>4. Serving(files[f].by)' /\ files'[f] = files[f]
    BY <1>0, <1>2, <2>1, <2>3 DEF Serving, Open, Opens, TypeOK, Sockets
  <2> QED
    BY <1>1, <1>2, <1>3, <1>4, <2>1, <2>3, <2>4 DEF IsClientOf, FileOf, Sockets, None
<1> QED
  BY <1>5, <1>6, <1>7 DEF TInv

\* The destructor tells the connection that its host serves.
LEMMA TellTold == ASSUME IInv, TInv, NEW h \in Hosts, Tell(h) PROVE TInv'
<1> DEFINE f == FileOf(m_Client[h])
           r == [files[f] EXCEPT !.told = TRUE]
<1>0. TypeOK /\ f \in 0..Len(files) /\ Len(files) \in Nat
  BY FileOfType DEF IInv, TypeOK
<1>1. /\ files' = IF f = None THEN files ELSE [files EXCEPT ![f] = r]
      /\ owner' = [owner EXCEPT ![h] = "shutting"]
      /\ UNCHANGED <<m_Client, thread, on, fds>> /\ misuse \subseteq misuse'
      /\ owner[h] = "idle"
  BY DEF Tell, ToldOn, threadVars
<1>2. /\ Len(files') = Len(files)
      /\ \A g \in 1..Len(files) :
           /\ files'[g].by = files[g].by /\ files'[g].role = files[g].role
           /\ files[g].told => files'[g].told
      /\ f # None => files'[f].told
  <2>1. CASE f = None
    BY <1>0, <1>1, <2>1
  <2>2. CASE f # None
    <3>1. f \in 1..Len(files)
      BY <1>0, <2>2 DEF None
    <3>2. files[f] \in FileRecords
      BY <1>0, <3>1 DEF TypeOK
    <3>3. r.by = files[f].by /\ r.role = files[f].role /\ r.told = TRUE
      BY <3>2 DEF FileRecords
    <3>4. files' = [files EXCEPT ![f] = r]
      BY <1>1, <2>2
    <3> HIDE DEF f, r
    <3>5. files'[f] = r
      <4>1. DOMAIN files = 1..Len(files)
        BY <1>0 DEF TypeOK
      <4> QED
        BY <3>1, <3>4, <4>1
    <3> QED
      BY <1>0, <3>1, <3>3, <3>4, <3>5, NamesKept
  <2> QED
    BY <2>1, <2>2
<1> HIDE DEF r
<1>3. NumbersInv'
  BY <1>0, <1>1, <1>2, NumbersType DEF TInv, NumbersInv
<1>4. CallsInv'
  BY <1>0, <1>1, <1>2, NumbersType DEF TInv, CallsInv, Sockets
<1>5. ToldInv'
  <2> SUFFICES ASSUME "stale" \notin misuse', NEW g \in 1..Len(files),
                      files[g].by \in Hosts, files[g].role = "stream", Alive(g)',
                      ~files'[g].told
               PROVE  (Serving(files[g].by) /\ IsClientOf(g, files[g].by))'
    BY <1>2 DEF ToldInv
  <2>1. Alive(g) /\ ~files[g].told
    BY <1>1, <1>2 DEF Alive
  <2>2. Serving(files[g].by) /\ IsClientOf(g, files[g].by)
    BY <1>1, <2>1 DEF TInv, ToldInv
  <2>3. files[g].by # h
    BY <1>2, <2>2 DEF IsClientOf, None
  <2> QED
    BY <1>0, <1>1, <1>2, <2>2, <2>3 DEF Serving, IsClientOf, FileOf, TypeOK, Sockets
<1> QED
  BY <1>3, <1>4, <1>5 DEF TInv

\* A client closes no file of a host.
LEMMA CloseServerTold == ASSUME IInv, TInv, NEW c \in Clients, CloseServer(c) PROVE TInv'
<1> DEFINE n == m_Server[c]
<1>0. TypeOK /\ ThreadInv /\ FilesInv /\ c \in Sockets
  BY DEF IInv, Sockets
<1>1. /\ fds' = IF n \in Fds THEN [fds EXCEPT ![n] = None] ELSE fds
      /\ misuse' = misuse \cup Touch(c, FileOf(n))
      /\ owner' = [owner EXCEPT ![c] = "freeing"]
      /\ UNCHANGED <<m_Client, thread, on, files>>
      /\ thread[c] # "reset"
  BY <1>0 DEF CloseServer, threadVars, ThreadInv
<1>2. \A k \in Fds : fds'[k] = IF k = n THEN None ELSE fds[k]
  BY <1>0, <1>1 DEF TypeOK
<1>3. NumbersInv'
  BY <1>1, <1>2 DEF TInv, NumbersInv
<1>4. CallsInv'
  BY <1>0, <1>1 DEF TInv, CallsInv
<1>5. ToldInv'
  <2> SUFFICES ASSUME "stale" \notin misuse', NEW f \in 1..Len(files),
                      files[f].by \in Hosts, files[f].role = "stream", Alive(f)',
                      ~files[f].told
               PROVE  (Serving(files[f].by) /\ IsClientOf(f, files[f].by))'
    BY <1>1 DEF ToldInv
  <2>1. Alive(f) /\ f # None
    BY <1>1, <1>2 DEF Alive, None
  <2>2. Serving(files[f].by) /\ IsClientOf(f, files[f].by)
    BY <1>1, <2>1 DEF TInv, ToldInv
  <2>3. FileOf(n) # f
    <3>1. ~Freed(c)
      BY DEF CloseServer, Freed
    <3>2. "foreign" \notin Touch(c, FileOf(n)) /\ "stale" \notin Touch(c, FileOf(n))
      BY <1>0, <1>1, <3>1, TouchOwn
    <3> QED
      BY <1>1, <2>1, <3>2, SocketsAssumption DEF Touch
  <2>4. Serving(files[f].by)'
    BY <1>0, <1>1, <2>2, SocketsAssumption DEF Serving, TypeOK, Sockets
  <2> QED
    BY <1>1, <1>2, <2>2, <2>3, <2>4 DEF IsClientOf, FileOf
<1> QED
  BY <1>3, <1>4, <1>5 DEF TInv

\* The event thread makes its calls on open sockets of its object.
LEMMA TestTold == ASSUME IInv, TInv, NEW s \in Sockets, Test(s) PROVE TInv'
<1>0. TypeOK /\ FilesInv /\ ~Freed(s) /\ thread[s] = "test"
  BY DEF IInv, Test, ThreadAt
<1>1. UNCHANGED <<owner, m_Client, fds, files>> /\ misuse \subseteq misuse'
  BY DEF Test, objectVars, fileVars
<1>2. CASE thread'[s] \notin {"accept", "recv", "reset"}
  <2>1. \A t \in Sockets :
          \/ thread'[t] = thread[t] /\ on'[t] = on[t]
          \/ thread'[t] \notin {"accept", "recv", "reset"}
    BY <1>0, <1>2 DEF Test, GoTo, Call, TypeOK
  <2> QED
    BY <1>0, <1>1, <2>1, ToldKept DEF Serving
<1>3. CASE thread'[s] \in {"accept", "recv", "reset"}
  <2>1. PICK p, f :
          /\ p \in {"accept", "recv"}
          /\ f = FileOf(m_Server[s]) \/ (s \in Hosts /\ f = FileOf(m_Client[s]))
          /\ f # None /\ Call(s, p, f) /\ misuse' = misuse \cup Touch(s, f)
          /\ p = "accept" => m_Client[s] < 0
    BY <1>0, <1>3 DEF Test, GoTo, Call, Target, TypeOK
  <2>2. /\ thread' = [thread EXCEPT ![s] = p] /\ on' = [on EXCEPT ![s] = f]
        /\ \A t \in Sockets : /\ thread'[t] = IF t = s THEN p ELSE thread[t]
                              /\ on'[t] = IF t = s THEN f ELSE on[t]
    BY <1>0, <2>1 DEF Call, TypeOK
  <2>3. \E n \in Fds : fds[n] = f
    BY <2>1 DEF FileOf
  <2>4. NumbersInv'
    BY <1>1 DEF TInv, NumbersInv
  <2>5. CallsInv'
    <3>1. ASSUME NEW h \in Hosts, thread'[h] = "accept" PROVE m_Client'[h] = -1
      <4>1. CASE h = s
        <5>1. m_Client[s] < 0 /\ m_Client[s] \in Fds \cup {-1}
          BY <1>0, <2>1, <2>2, <3>1, <4>1 DEF TypeOK
        <5>2. m_Client[s] \in Fds => m_Client[s] \in Nat
          BY FdsAssumption
        <5> QED
          BY <1>1, <4>1, <5>1, <5>2
      <4>2. CASE h # s
        BY <1>1, <2>2, <3>1, <4>2 DEF TInv, CallsInv, Sockets
      <4> QED
        BY <4>1, <4>2
    <3>2. ASSUME "stale" \notin misuse' PROVE files[f].by = s
      <4>1. "foreign" \notin misuse' /\ "stale" \notin misuse'
        BY <1>0, <2>1, <3>2, TouchOwn
      <4> QED
        BY <1>0, <2>1, <4>1 DEF Touch
    <3>3. files[f].role # "pending"
      BY <2>1, <2>3 DEF TInv, NumbersInv
    <3> QED
      BY <1>1, <2>1, <2>2, <3>1, <3>2, <3>3 DEF TInv, CallsInv
  <2>6. ToldInv'
    <3> SUFFICES ASSUME "stale" \notin misuse, NEW g \in 1..Len(files),
                        files[g].by \in Hosts, files[g].role = "stream", Alive(g)',
                        ~files[g].told
                 PROVE  (Serving(files[g].by) /\ IsClientOf(g, files[g].by))'
      BY <1>1 DEF ToldInv
    <3>1. Alive(g)
      BY <1>1, <2>2, <2>3 DEF Alive
    <3>2. Serving(files[g].by) /\ IsClientOf(g, files[g].by)
      BY <3>1 DEF TInv, ToldInv
    <3> QED
      BY <1>1, <2>1, <2>2, <3>2 DEF Serving, IsClientOf, FileOf, Sockets
  <2> QED
    BY <2>4, <2>5, <2>6 DEF TInv
<1> QED
  BY <1>2, <1>3

\* Whom a host accepts it serves, and it accepts when it serves nobody.
LEMMA AcceptTold == ASSUME IInv, TInv, NEW h \in Hosts, Accept(h) PROVE TInv'
<1> DEFINE f == Oldest(Pending(h))
           role == IF owner[h] \in {"shutting", "freeing"} THEN "late" ELSE "stream"
           r == [files[f] EXCEPT !.role = role]
<1>0. /\ TypeOK /\ ~Freed(h) /\ thread[h] = "accept" /\ h \in Sockets
      /\ m_Client[h] = -1
  BY DEF IInv, Accept, ThreadAt, Sockets, TInv, CallsInv
<1>1. LowestFree \in Fds /\ fds[LowestFree] = None
  BY LowestIsFree DEF Accept
<1>2. f \in 1..Len(files) /\ files[f].by = h /\ files[f].role = "pending"
  BY OldestIsPending DEF Accept, Pending
<1>3. /\ fds' = [fds EXCEPT ![LowestFree] = f]
      /\ thread' = [thread EXCEPT ![h] = "recv"] /\ on' = [on EXCEPT ![h] = f]
      /\ m_Client' = [m_Client EXCEPT ![h] = LowestFree]
      /\ files' = [files EXCEPT ![f] = r]
      /\ UNCHANGED <<owner, misuse>>
  BY DEF Accept, Call
<1>4. /\ \A n \in Fds : fds'[n] = IF n = LowestFree THEN f ELSE fds[n]
      /\ \A t \in Sockets : /\ thread'[t] = IF t = h THEN "recv" ELSE thread[t]
                            /\ on'[t] = IF t = h THEN f ELSE on[t]
                            /\ m_Client'[t] = IF t = h THEN LowestFree ELSE m_Client[t]
  BY <1>0, <1>3 DEF TypeOK
<1>5. /\ Len(files') = Len(files)
      /\ \A g \in 1..Len(files) :
           /\ files'[g].by = files[g].by
           /\ files'[g].role = IF g = f THEN role ELSE files[g].role
           /\ files'[g].told = files[g].told
  <2>1. files \in Seq(FileRecords) /\ files[f] \in FileRecords
    BY <1>0, <1>2 DEF TypeOK
  <2>2. /\ r.by = files[f].by /\ r.role = role /\ r.told = files[f].told
        /\ r \in FileRecords
    BY <2>1 DEF FileRecords, Roles
  <2> HIDE DEF f, r, role
  <2> QED
    BY <1>0, <1>2, <1>3, <2>1, <2>2, FileUpdate
<1> HIDE DEF r
<1>6. \A n \in Fds : fds[n] # f
  BY <1>2 DEF TInv, NumbersInv, None
<1>7. NumbersInv'
  <2>1. \A n, k \in Fds : fds'[n] # None /\ fds'[n] = fds'[k] => n = k
    BY <1>1, <1>4, <1>6 DEF TInv, NumbersInv
  <2>2. role # "pending"
    OBVIOUS
  <2>3. \A n \in Fds : fds'[n] # None => files'[fds'[n]].role # "pending"
    BY <1>0, <1>2, <1>4, <1>5, <1>6, <2>2, NumbersType DEF TInv, NumbersInv
  <2> QED
    BY <2>1, <2>3 DEF NumbersInv
<1>8. CallsInv'
  BY <1>0, <1>2, <1>3, <1>4, <1>5, NumbersType DEF TInv, CallsInv, Sockets, None
<1>9. ToldInv'
  <2> SUFFICES ASSUME "stale" \notin misuse, NEW g \in 1..Len(files),
                      files[g].by \in Hosts, files'[g].role = "stream", Alive(g)',
                      ~files[g].told
               PROVE  (Serving(files[g].by) /\ IsClientOf(g, files[g].by))'
    BY <1>3, <1>5 DEF ToldInv
  <2>1. CASE g = f
    <3>1. Serving(h)
      BY <1>0, <1>5, <2>1 DEF Serving, Freed
    <3> QED
      BY <1>0, <1>1, <1>2, <1>3, <1>4, <1>5, <2>1, <3>1 DEF Serving, IsClientOf, FileOf
  <2>2. CASE g # f
    <3>1. Alive(g)
      BY <1>3, <1>4, <2>2 DEF Alive, Sockets
    <3>2. Serving(files[g].by) /\ IsClientOf(g, files[g].by)
      BY <1>5, <2>2, <3>1 DEF TInv, ToldInv
    <3>3. files[g].by # h
      BY <1>0, <3>2, FdsAssumption DEF IsClientOf, FileOf, None
    <3> QED
      BY <1>1, <1>3, <1>4, <1>5, <3>2, <3>3 DEF Serving, IsClientOf, FileOf, Sockets, None
  <2> QED
    BY <2>1, <2>2
<1> QED
  BY <1>7, <1>8, <1>9 DEF TInv

\* close(m_Client) ends the connection: no other number and no thread has it.
LEMMA CloseClientTold == ASSUME IInv, TInv, NEW h \in Hosts, CloseClient(h) PROVE TInv'
<1> DEFINE n == m_Client[h]
<1>0. TypeOK /\ FilesInv /\ ~Freed(h) /\ thread[h] = "close" /\ h \in Sockets
  BY DEF IInv, CloseClient, ThreadAt, Sockets
<1>1. /\ fds' = IF n \in Fds THEN [fds EXCEPT ![n] = None] ELSE fds
      /\ misuse' = misuse \cup Touch(h, FileOf(n))
      /\ thread' = [thread EXCEPT ![h] = "reset"]
      /\ on' = [on EXCEPT ![h] = None]
      /\ UNCHANGED <<owner, m_Client, files>>
  BY DEF CloseClient, GoTo, objectVars
<1>2. /\ \A k \in Fds : fds'[k] = IF k = n THEN None ELSE fds[k]
      /\ \A t \in Sockets : /\ thread'[t] = IF t = h THEN "reset" ELSE thread[t]
                            /\ on'[t] = IF t = h THEN None ELSE on[t]
  BY <1>0, <1>1 DEF TypeOK
<1>3. NumbersInv'
  BY <1>1, <1>2 DEF TInv, NumbersInv
<1>4. CallsInv'
  BY <1>1, <1>2 DEF TInv, CallsInv, Sockets
<1>5. ToldInv'
  <2> SUFFICES ASSUME "stale" \notin misuse', NEW f \in 1..Len(files),
                      files[f].by \in Hosts, files[f].role = "stream", Alive(f)',
                      ~files[f].told
               PROVE  (Serving(files[f].by) /\ IsClientOf(f, files[f].by))'
    BY <1>1 DEF ToldInv
  <2>1. Alive(f) /\ f # None
    BY <1>1, <1>2 DEF Alive, None
  <2>2. Serving(files[f].by) /\ IsClientOf(f, files[f].by)
    BY <1>1, <2>1 DEF TInv, ToldInv
  <2>3. files[f].by # h
    <3>1. SUFFICES ASSUME files[f].by = h PROVE FALSE
      OBVIOUS
    <3>2. n \in Fds /\ fds[n] = f
      BY <2>1, <2>2, <3>1 DEF IsClientOf, FileOf
    <3>3. \A k \in Fds : fds'[k] # f
      BY <1>2, <2>1, <3>2 DEF TInv, NumbersInv
    <3>4. PICK t \in Sockets : thread'[t] \in {"accept", "recv"} /\ on'[t] = f
      BY <3>3 DEF Alive
    <3>5. t # h /\ thread[t] \in {"accept", "recv"} /\ on[t] = f
      BY <1>2, <3>4
    <3> QED
      BY <1>1, <3>1, <3>5 DEF TInv, CallsInv
  <2>4. ASSUME n \in Fds PROVE fds[n] # f
    <3>1. n # -1
      BY <2>4, FdsAssumption
    <3>2. OwnClient(h)
      BY <1>0, <1>1 DEF FilesInv
    <3> QED
      BY <1>0, <2>3, <3>1, <3>2 DEF OwnClient, Stands
  <2> QED
    BY <1>1, <1>2, <2>2, <2>3, <2>4 DEF Serving, IsClientOf, FileOf, Sockets
<1> QED
  BY <1>3, <1>4, <1>5 DEF TInv

\* After the reset there is no client.
LEMMA ResetClientTold == ASSUME IInv, TInv, NEW h \in Hosts, ResetClient(h) PROVE TInv'
<1>0. TypeOK /\ thread[h] = "reset" /\ h \in Sockets
  BY DEF IInv, ResetClient, ThreadAt, Sockets
<1>1. /\ m_Client' = [m_Client EXCEPT ![h] = -1]
      /\ thread' = [thread EXCEPT ![h] = "test"]
      /\ on' = [on EXCEPT ![h] = None]
      /\ UNCHANGED <<owner, fds, files, misuse>>
  BY DEF ResetClient, ClosedClient, GoTo, fileVars
<1>2. \A t \in Sockets : /\ thread'[t] = IF t = h THEN "test" ELSE thread[t]
                         /\ on'[t] = IF t = h THEN None ELSE on[t]
                         /\ m_Client'[t] = IF t = h THEN -1 ELSE m_Client[t]
  BY <1>0, <1>1 DEF TypeOK
<1>3. NumbersInv'
  BY <1>1 DEF TInv, NumbersInv
<1>4. CallsInv'
  BY <1>1, <1>2 DEF TInv, CallsInv, Sockets
<1>5. ToldInv'
  <2> SUFFICES ASSUME "stale" \notin misuse, NEW f \in 1..Len(files),
                      files[f].by \in Hosts, files[f].role = "stream", Alive(f)',
                      ~files[f].told
               PROVE  (Serving(files[f].by) /\ IsClientOf(f, files[f].by))'
    BY <1>1 DEF ToldInv
  <2>1. Alive(f)
    BY <1>1, <1>2 DEF Alive
  <2>2. Serving(files[f].by) /\ IsClientOf(f, files[f].by)
    BY <2>1 DEF TInv, ToldInv
  <2>3. files[f].by # h
    BY <1>0, <2>2 DEF IsClientOf
  <2> QED
    BY <1>1, <1>2, <2>2, <2>3 DEF Serving, IsClientOf, FileOf, Sockets
<1> QED
  BY <1>3, <1>4, <1>5 DEF TInv

\* A connection that waits to be accepted has no number.
LEMMA PeerConnectsTold == ASSUME IInv, TInv, NEW h \in Hosts, PeerConnects(h) PROVE TInv'
<1> DEFINE new == Len(files) + 1
<1>0. TypeOK /\ InboxInv /\ h \in Sockets /\ Len(files) \in Nat
  BY DEF IInv, Sockets, TypeOK
<1>1. /\ Len(files') = new
      /\ \A g \in 1..Len(files) : files'[g] = files[g]
      /\ files'[new] = NewFile(h, "pending")
  BY <1>0, FileAdd DEF PeerConnects, Roles
<1>2. UNCHANGED <<owner, m_Client, thread, on, fds, misuse>>
  BY DEF PeerConnects, objectVars, threadVars
<1>3. NumbersInv'
  BY <1>0, <1>1, <1>2, NumbersType DEF TInv, NumbersInv
<1>4. CallsInv'
  BY <1>0, <1>1, <1>2, NumbersType DEF TInv, CallsInv, Sockets
<1>5. ToldInv'
  <2> SUFFICES ASSUME "stale" \notin misuse, NEW f \in 1..new,
                      files'[f].by \in Hosts, files'[f].role = "stream", Alive(f)',
                      ~files'[f].told
               PROVE  (Serving(files[f].by) /\ IsClientOf(f, files[f].by))'
    BY <1>1, <1>2 DEF ToldInv
  <2>1. f \in 1..Len(files)
    BY <1>0, <1>1 DEF NewFile
  <2>2. Alive(f)
    BY <1>2 DEF Alive
  <2> QED
    BY <1>1, <1>2, <2>1, <2>2 DEF TInv, ToldInv, Serving, IsClientOf, FileOf
<1> QED
  BY <1>3, <1>4, <1>5 DEF TInv

\* Every step keeps it.
LEMMA StepTold == IInv /\ TInv /\ [Next]_vars => TInv'
<1> SUFFICES ASSUME IInv, TInv, [Next]_vars PROVE TInv'
  OBVIOUS
<1>0. TypeOK /\ ThreadInv
  BY DEF IInv
<1>1. ASSUME NEW s \in Sockets,
             \/ Construct(s) \/ ConstructEnds(s) \/ Initialize(s)
             \/ SocketFails(s) \/ OpenFails(s) \/ Write(s)
             \/ Free(s) \/ DiscountEnds(s)
      PROVE  TInv'
  <2>1. /\ UNCHANGED <<fds, files, m_Client, thread, on>> /\ misuse \subseteq misuse'
        /\ \A h \in Hosts : Serving(h) => Serving(h)'
    <3>1. /\ UNCHANGED <<fds, files, m_Client, thread, on>> /\ misuse \subseteq misuse'
          /\ \/ UNCHANGED owner
             \/ \E p \in {"counting", "idle", "joining"} : owner' = [owner EXCEPT ![s] = p]
             \/ owner[s] \in {"freeing", "discounting"} /\ \E p : owner' = [owner EXCEPT ![s] = p]
      BY <1>1 DEF Construct, ConstructEnds, Initialize, SocketFails, OpenFails,
         Opens, Write, Free, DiscountEnds, objectVars, threadVars, fileVars
    <3> QED
      BY <1>0, <3>1 DEF Serving, TypeOK, Sockets
  <2> QED
    BY <1>0, <2>1, ToldKept
<1>2. ASSUME NEW s \in Sockets,
             AcceptFails(s) \/ RecvEnds(s) \/ Process(s) \/ UseFreed(s)
      PROVE  TInv'
  <2>1. /\ UNCHANGED <<owner, fds, files, m_Client, misuse>>
        /\ \E p \in ThreadStates \ {"accept", "recv", "reset"} : GoTo(s, p)
    BY <1>2 DEF AcceptFails, RecvEnds, Process, UseFreed, objectVars, fileVars,
       ThreadStates
  <2>2. \A t \in Sockets :
          \/ thread'[t] = thread[t] /\ on'[t] = on[t]
          \/ thread'[t] \notin {"accept", "recv", "reset"}
    BY <1>0, <2>1 DEF GoTo, TypeOK
  <2> QED
    BY <1>0, <2>1, <2>2, ToldKept DEF Serving
<1>3. ASSUME NEW s \in Sockets, Recv(s) PROVE TInv'
  <2> DEFINE f == on[s]
             r == [files[f] EXCEPT !.inbox = @ - 1]
  <2>1. /\ UNCHANGED <<owner, fds, m_Client, misuse>> /\ files' = [files EXCEPT ![f] = r]
        /\ GoTo(s, "process")
    BY <1>3 DEF Recv, objectVars
  <2>2. \A t \in Sockets :
          \/ thread'[t] = thread[t] /\ on'[t] = on[t]
          \/ thread'[t] \notin {"accept", "recv", "reset"}
    BY <1>0, <2>1 DEF GoTo, TypeOK
  <2>3. CASE f = None
    <3>1. files' = files
      BY <1>0, <2>1, <2>3 DEF TypeOK, None
    <3> QED
      BY <1>0, <2>1, <2>2, <3>1, ToldKept DEF Serving
  <2>4. CASE f # None
    <3>1. f \in 1..Len(files) /\ files[f] \in FileRecords
      BY <1>0, <2>4, NumbersType DEF TypeOK
    <3>2. r.by = files[f].by /\ r.role = files[f].role /\ r.told = files[f].told
      BY <3>1 DEF FileRecords
    <3> HIDE DEF f, r
    <3>3. /\ Len(files') = Len(files)
          /\ \A g \in 1..Len(files) :
               /\ files'[g].by = files[g].by /\ files'[g].role = files[g].role
               /\ files[g].told => files'[g].told
      BY <1>0, <2>1, <3>1, <3>2, NamesKept
    <3> QED
      BY <1>0, <2>1, <2>2, <3>3, ToldKept DEF Serving
  <2> QED
    BY <2>3, <2>4
<1>4. ASSUME NEW s \in Sockets, Shut(s) PROVE TInv'
  <2> DEFINE f == FileOf(m_Server[s])
             r == [files[f] EXCEPT !.shut = TRUE]
  <2>1. /\ UNCHANGED <<fds, m_Client, thread, on>> /\ misuse \subseteq misuse'
        /\ files' = IF f = None THEN files ELSE [files EXCEPT ![f] = r]
        /\ \A h \in Hosts : Serving(h) => Serving(h)'
    BY <1>0, <1>4 DEF Shut, threadVars, Serving, TypeOK
  <2>2. CASE f = None
    BY <1>0, <2>1, <2>2, ToldKept
  <2>3. CASE f # None
    <3>1. f \in 1..Len(files) /\ files[f] \in FileRecords
      BY <1>0, <2>3, FileOfType DEF TypeOK, None
    <3>2. r.by = files[f].by /\ r.role = files[f].role /\ r.told = files[f].told
      BY <3>1 DEF FileRecords
    <3> HIDE DEF f, r
    <3>3. /\ Len(files') = Len(files)
          /\ \A g \in 1..Len(files) :
               /\ files'[g].by = files[g].by /\ files'[g].role = files[g].role
               /\ files[g].told => files'[g].told
      BY <1>0, <2>1, <2>3, <3>1, <3>2, NamesKept
    <3> QED
      BY <1>0, <2>1, <3>3, ToldKept
  <2> QED
    BY <2>2, <2>3
<1>5. ASSUME NEW f \in 1..Len(files), PeerSends(f) \/ PeerCloses(f) PROVE TInv'
  <2>1. UNCHANGED <<owner, fds, m_Client, thread, on, misuse>>
    BY <1>5 DEF PeerSends, PeerCloses, objectVars, threadVars
  <2>2. PICK r : /\ files' = [files EXCEPT ![f] = r]
                 /\ r.by = files[f].by /\ r.role = files[f].role
                 /\ r.told = files[f].told
    <3>1. files[f] \in FileRecords
      BY <1>0 DEF TypeOK
    <3>2. \/ files' = [files EXCEPT ![f] = [files[f] EXCEPT !.inbox = @ + 1]]
          \/ files' = [files EXCEPT ![f] = [files[f] EXCEPT !.peer = FALSE]]
      BY <1>5 DEF PeerSends, PeerCloses
    <3>3. \A r \in {[files[f] EXCEPT !.inbox = @ + 1], [files[f] EXCEPT !.peer = FALSE]} :
            r.by = files[f].by /\ r.role = files[f].role /\ r.told = files[f].told
      BY <3>1 DEF FileRecords
    <3> QED
      BY <3>2, <3>3
  <2>3. /\ Len(files') = Len(files)
        /\ \A g \in 1..Len(files) :
             /\ files'[g].by = files[g].by /\ files'[g].role = files[g].role
             /\ files[g].told => files'[g].told
    BY <1>0, <2>2, NamesKept
  <2> QED
    BY <1>0, <2>1, <2>3, ToldKept DEF Serving
<1>6. CASE Finished \/ UNCHANGED vars
  <2>1. UNCHANGED <<owner, fds, files, m_Client, thread, on, misuse>>
    BY <1>6 DEF Finished, vars, objectVars, threadVars, fileVars
  <2> QED
    BY <1>0, <2>1, ToldKept DEF Serving
<1>7. ASSUME NEW s \in Sockets, Accept(s) \/ CloseClient(s) \/ ResetClient(s)
      PROVE  s \in Hosts
  BY <1>0, <1>7 DEF Sockets, ThreadInv, Accept, CloseClient, ResetClient, ThreadAt
<1> QED
  BY <1>1, <1>2, <1>3, <1>4, <1>5, <1>6, <1>7, OpenTold, TellTold, CloseServerTold,
     TestTold, AcceptTold, CloseClientTold, ResetClientTold, PeerConnectsTold
     DEF Next, OwnerStep, ThreadStep, Tell, CloseServer

\* The SHUTDOWN message is for every reader that may need it: whatever the number of
\* hosts, clients and connections and the order of their steps, and however often the
\* numbers of closed connections are reused.
THEOREM ServedIsToldHolds == Spec => []ServedIsTold
<1>1. Init => IInv /\ TInv
  BY InitInv, InitTold
<1>2. IInv /\ TInv /\ [Next]_vars => (IInv /\ TInv)'
  BY StepInv, StepTold
<1>3. TInv => ServedIsTold
  BY DEF TInv, ToldInv, ServedIsTold, Serving
<1> QED
  BY <1>1, <1>2, <1>3, PTL DEF Spec
=============================================================================
