-------------------------- MODULE CachedPlayerProofs --------------------------
(***************************************************************************)
(* For any songs, sockets and sizes: the types, that no decoded chunk is   *)
(* written twice or out of order whatever overlaps, that a song played     *)
(* alone is written whole, and that a socket gets a format before audio.   *)
(*                                                                         *)
(* The argument: the tasks are in the order of the plays, so what a chunk  *)
(* is put behind comes before it; a chunk is in the buffer, or in pcm on   *)
(* its way to the socket, or written, and pcm and the buffer never both    *)
(* count.  A buffer that playSong replaces loses chunks or gives zeros,    *)
(* but never gives a chunk again.                                          *)
(***************************************************************************)
EXTENDS CachedPlayer, TLAPS, SequenceTheorems

data == pcmBuffer.data
Moving == pc \in {"clear", "write"}

\* The tasks are in the order of the plays, and the thread runs the first.
TaskInv ==
  /\ \A i, j \in 1..Len(tasks) : i < j => tasks[i] < tasks[j]
  /\ \A i \in 1..Len(tasks) : tasks[i] <= plays /\ (caller # "idle" => tasks[i] < plays)
  /\ pc # "fetch" => tasks # <<>>
  /\ pc = "fetch" => chunk = 0
  /\ caller # "idle" => plays >= 1
  /\ plays # 0 => socket # 0

\* Between chunks the buffer is below the threshold and being filled.
BufferInv ==
  /\ pcmBuffer.flipped => pc \in {"remaining", "get", "clear"}
  /\ Len(data) <= Threshold
  /\ pc \in {"fetch", "decode"} => Len(data) < Threshold
  /\ pc \in {"write", "callback"} => data = <<>>
  /\ pc = "get" => \A i \in 1..Len(pcm) : pcm[i].play = 0

\* Everything decoded so far comes before the chunk that is decoded next.
Past(u) ==
  /\ u.play <= plays /\ (caller # "idle" => u.play < plays)
  /\ \A k \in 1..Len(tasks) :
       u.play < tasks[k] \/ (k = 1 /\ u.play = tasks[1] /\ u.chunk <= chunk)

PastInv ==
  /\ \A i \in 1..Len(sent) : Decoded(sent[i]) => Past(sent[i])
  /\ \A i \in 1..Len(data) : Past(data[i])
  /\ Moving => \A i \in 1..Len(pcm) : pcm[i].play # 0 => Past(pcm[i])

\* What is written comes before what pcm holds or, when pcm does not count, before
\* what the buffer holds.
OrderInv ==
  /\ \A i, j \in 1..Len(data) : i < j => Later(data[i], data[j])
  /\ \A i \in 1..Len(data) : data[i].play # 0
  /\ ~Moving =>
       \A i \in 1..Len(sent), j \in 1..Len(data) :
         Decoded(sent[i]) => Later(sent[i], data[j])
  /\ Moving =>
       /\ \A i, j \in 1..Len(pcm) :
            i < j /\ pcm[i].play # 0 /\ pcm[j].play # 0 => Later(pcm[i], pcm[j])
       /\ \A i \in 1..Len(sent), j \in 1..Len(pcm) :
            Decoded(sent[i]) /\ pcm[j].play # 0 => Later(sent[i], pcm[j])

\* The task that runs has given the socket its format.
FormatInv ==
  Only({"overlap"}) /\ pc # "fetch" =>
    \E j \in 1..Len(sent) : sent[j].format /\ sent[j].socket = socket

\* A chunk on its way to the socket.
IsPending(p, k) ==
  IF Moving
  THEN \E i \in 1..Len(pcm) : pcm[i].play = p /\ pcm[i].chunk = k
  ELSE \E i \in 1..Len(data) : data[i].play = p /\ data[i].chunk = k

\* One song at a time: the buffer is the song's, and nothing of it is lost.
AloneInv ==
  Only({"switch"}) =>
    /\ tasks # <<>> => Len(tasks) = 1 /\ tasks[1] = plays /\ caller = "idle"
    /\ caller # "idle" => data = <<>>
    /\ caller = "execute" => ~bufferingFinished
    /\ tasks # <<>> /\ ~bufferingFinished =>
         /\ pc \in {"fetch", "decode", "check"}
         /\ Len(data) = chunk
    /\ tasks # <<>> /\ bufferingFinished /\ pc \in {"fetch", "decode"} => data = <<>>
    /\ pc \in {"remaining", "get"} => pcmBuffer.flipped
    /\ pc = "get" => Len(pcm) = Len(data)
    /\ tasks # <<>> => \A k \in 1..chunk : IsSent(plays, k) \/ IsPending(plays, k)

\* The songs that were played before it were written.
DoneInv ==
  Only({"switch"}) =>
    \A p \in 1..plays :
      \/ p = plays /\ (tasks # <<>> \/ caller # "idle")
      \/ Chunks[p] < Threshold
      \/ \A k \in 1..Chunks[p] : IsSent(p, k)

IInv == /\ TypeOK /\ TaskInv /\ BufferInv /\ PastInv /\ NeverRepeats /\ OrderInv
        /\ FormatInv /\ FormatPrecedesAudio /\ AloneInv /\ DoneInv

-----------------------------------------------------------------------------
\* What the types say of the elements of each sequence.
LEMMA Elements ==
  ASSUME NEW S, NEW s \in Seq(S)
  PROVE  Len(s) \in Nat /\ \A i \in 1..Len(s) : s[i] \in S
OBVIOUS

LEMMA TaskFacts ==
  ASSUME TypeOK
  PROVE  /\ Len(Chunks) \in Nat /\ Plays = 1..Len(Chunks)
         /\ plays \in Nat /\ plays <= Len(Chunks) /\ chunk \in Nat
         /\ tasks \in Seq(Plays) /\ Len(tasks) \in Nat
         /\ \A i \in 1..Len(tasks) : tasks[i] \in Plays /\ tasks[i] \in Nat
<1>1. Len(Chunks) \in Nat /\ Plays = 1..Len(Chunks)
  BY PlaysAssumption DEF Plays
<1>2. tasks \in Seq(Plays) /\ plays \in 0..Len(Chunks) /\ chunk \in Nat
  BY DEF TypeOK
<1>3. Len(tasks) \in Nat /\ \A i \in 1..Len(tasks) : tasks[i] \in Plays
  BY <1>2, Elements
<1> QED
  BY <1>1, <1>2, <1>3

LEMMA BufferFacts ==
  ASSUME TypeOK
  PROVE  /\ data \in Seq(Units) /\ Len(data) \in Nat
         /\ \A i \in 1..Len(data) : data[i].play \in Nat /\ data[i].chunk \in Nat
<1>1. data \in Seq(Units)
  BY DEF TypeOK, Buffers, data
<1>2. Len(data) \in Nat /\ \A i \in 1..Len(data) : data[i] \in Units
  BY <1>1, Elements
<1> QED
  BY <1>1, <1>2 DEF Units

LEMMA PcmFacts ==
  ASSUME TypeOK
  PROVE  /\ pcm \in Seq(Units) /\ Len(pcm) \in Nat
         /\ \A i \in 1..Len(pcm) : pcm[i].play \in Nat /\ pcm[i].chunk \in Nat
<1>1. pcm \in Seq(Units)
  BY DEF TypeOK
<1>2. Len(pcm) \in Nat /\ \A i \in 1..Len(pcm) : pcm[i] \in Units
  BY <1>1, Elements
<1> QED
  BY <1>1, <1>2 DEF Units

LEMMA SentFacts ==
  ASSUME TypeOK
  PROVE  /\ sent \in Seq(Items) /\ Len(sent) \in Nat
         /\ \A i \in 1..Len(sent) : sent[i].play \in Nat /\ sent[i].chunk \in Nat
<1>1. sent \in Seq(Items)
  BY DEF TypeOK
<1>2. Len(sent) \in Nat /\ \A i \in 1..Len(sent) : sent[i] \in Items
  BY <1>1, Elements
<1> QED
  BY <1>1, <1>2 DEF Items

LEMMA FreshType == Fresh \in Buffers /\ Fresh.data = <<>> /\ ~Fresh.flipped
BY DEF Fresh, Buffers

\* What a write adds to what was sent.
LEMMA Written ==
  ASSUME sent \in Seq(Items), NEW items \in Seq(Items), Write(items)
  PROVE  /\ sent' \in Seq(Items) /\ Len(sent') = Len(sent) + Len(items)
         /\ Len(sent) \in Nat /\ Len(items) \in Nat
         /\ \A i \in 1..Len(sent) : i \in 1..Len(sent') /\ sent'[i] = sent[i]
         /\ \A k \in 1..Len(items) :
              Len(sent) + k \in 1..Len(sent') /\ sent'[Len(sent) + k] = items[k]
         /\ \A i \in 1..Len(sent') :
              i \in 1..Len(sent) \/ \E k \in 1..Len(items) : i = Len(sent) + k
<1>1. sent' = sent \o items
  BY DEF Write
<1>2. Len(sent) \in Nat /\ Len(items) \in Nat
  OBVIOUS
<1>3. /\ sent' \in Seq(Items) /\ Len(sent') = Len(sent) + Len(items)
      /\ \A i \in 1..Len(sent) + Len(items) :
           sent'[i] = IF i <= Len(sent) THEN sent[i] ELSE items[i - Len(sent)]
  BY <1>1, ConcatProperties
<1>4. \A k \in 1..Len(items) :
        /\ Len(sent) + k \in 1..Len(sent') /\ ~(Len(sent) + k <= Len(sent))
        /\ (Len(sent) + k) - Len(sent) = k
  BY <1>2, <1>3
<1>5. \A i \in 1..Len(sent') :
        i \in 1..Len(sent) \/ (i - Len(sent) \in 1..Len(items) /\ i = Len(sent) + (i - Len(sent)))
  BY <1>2, <1>3
<1> QED
  BY <1>2, <1>3, <1>4, <1>5

\* What was sent and what waits keep their order if nothing moves.
LEMMA OrderKept ==
  ASSUME OrderInv, UNCHANGED <<sent, pcmBuffer, pcm>>, Moving <=> Moving'
  PROVE  OrderInv'
BY DEF OrderInv, data

\* What was written stays so.
LEMMA StaysSent ==
  ASSUME sent \in Seq(Items), NEW items \in Seq(Items), Write(items),
         NEW p, NEW k, IsSent(p, k)
  PROVE  IsSent(p, k)'
<1>1. PICK i \in 1..Len(sent) : ~sent[i].format /\ sent[i].play = p /\ sent[i].chunk = k
  BY DEF IsSent
<1>2. i \in 1..Len(sent') /\ sent'[i] = sent[i]
  BY <1>1, Written
<1> QED
  BY <1>1, <1>2 DEF IsSent

\* A song that was written stays written, while one is played or waits.
LEMMA DoneKept ==
  ASSUME DoneInv, plays' = plays, happened \subseteq happened',
         \A p, k : IsSent(p, k) => IsSent(p, k)',
         tasks # <<>> \/ caller # "idle" => tasks' # <<>> \/ caller' # "idle"
  PROVE  DoneInv'
<1> SUFFICES ASSUME Only({"switch"})', NEW p \in 1..plays
             PROVE  \/ p = plays /\ (tasks' # <<>> \/ caller' # "idle")
                    \/ Chunks[p] < Threshold
                    \/ \A k \in 1..Chunks[p] : IsSent(p, k)'
  BY DEF DoneInv
<1>1. Only({"switch"})
  BY DEF Only
<1> QED
  BY <1>1 DEF DoneInv

\* The initial states satisfy the inductive invariant.
LEMMA InitInv == Init => IInv
<1> SUFFICES ASSUME Init PROVE IInv
  OBVIOUS
<1> USE PlaysAssumption, BufferAssumption, PlayerBoundAssumption DEF Init
<1>1. TypeOK
  <2>1. Len(Chunks) \in Nat /\ happened \subseteq Happenings
    OBVIOUS
  <2>2. Len(pcmBuffer.data) <= Capacity /\ pcmBuffer \in Buffers
    BY FreshType
  <2>3. <<>> \in Seq(Plays) /\ <<>> \in Seq(Units) /\ <<>> \in Seq(Items)
    BY EmptySeq
  <2>4. bufferingFinished \in BOOLEAN /\ justStarted \in BOOLEAN
    OBVIOUS
  <2> QED
    BY <2>1, <2>2, <2>3, <2>4 DEF TypeOK
<1>2. TaskInv /\ BufferInv /\ PastInv /\ NeverRepeats /\ OrderInv
  BY DEF TaskInv, BufferInv, PastInv, NeverRepeats, OrderInv, Fresh, data, Moving
<1>3. FormatInv /\ FormatPrecedesAudio /\ AloneInv /\ DoneInv
  BY DEF FormatInv, FormatPrecedesAudio, AloneInv, DoneInv, Fresh, data, Moving
<1> QED
  BY <1>1, <1>2, <1>3 DEF IInv

\* Every step of the specification keeps it.
LEMMA StepInv == IInv /\ [Next]_vars => IInv'
<1> SUFFICES ASSUME IInv, [Next]_vars PROVE IInv'
  OBVIOUS
<1> USE PlaysAssumption, BufferAssumption, PlayerBoundAssumption DEF IInv
<1>1. ASSUME SetAudioSocketName PROVE IInv'
  <2>1. TypeOK'
    BY <1>1 DEF SetAudioSocketName, UnderWay, locals, TaskInv, Happenings, TypeOK
  <2>2. TaskInv'
    <3>1. socket' # 0
      BY <1>1 DEF SetAudioSocketName, TypeOK
    <3> QED
      BY <1>1, <3>1 DEF SetAudioSocketName, locals, TaskInv
  <2>3. BufferInv'
    BY <1>1, BufferFacts DEF SetAudioSocketName, UnderWay, locals, data, Fresh,
       TypeOK, Buffers, BufferInv
  <2>4. PastInv'
    BY <1>1, TaskFacts, BufferFacts, PcmFacts, SentFacts, SMTT(20) DEF SetAudioSocketName,
       UnderWay, locals, Past, Moving, data, BufferInv, TaskInv, Fresh, Decoded,
       PastInv
  <2>5. NeverRepeats'
    BY <1>1, SentFacts DEF SetAudioSocketName, UnderWay, locals, Decoded, Later,
       NeverRepeats
  <2>6. OrderInv'
    BY <1>1, OrderKept DEF SetAudioSocketName, locals, Moving
  <2>7. FormatInv'
    BY <1>1 DEF SetAudioSocketName, UnderWay, locals, Only, TaskInv, FormatInv
  <2>8. FormatPrecedesAudio'
    BY <1>1, SentFacts DEF SetAudioSocketName, UnderWay, locals, Only,
       FormatPrecedesAudio
  <2>9. AloneInv'
    BY <1>1, TaskFacts, BufferFacts, PcmFacts, SMTT(20) DEF SetAudioSocketName, UnderWay,
       locals, Only, Moving, IsPending, IsSent, data, TaskInv, BufferInv, Fresh,
       AloneInv
  <2>10. DoneInv'
    BY <1>1, DoneKept DEF SetAudioSocketName, UnderWay, locals, IsSent, DoneInv
  <2> QED
    BY <2>1, <2>2, <2>3, <2>4, <2>5, <2>6, <2>7, <2>8, <2>9, <2>10
<1>2. ASSUME ConnectFails PROVE IInv'
  <2>1. TypeOK'
    BY <1>2 DEF ConnectFails, fields, locals, TaskInv, Happenings, TypeOK
  <2>2. TaskInv'
    BY <1>2, TaskFacts DEF ConnectFails, fields, locals, TaskInv
  <2>3. BufferInv'
    BY <1>2, BufferFacts DEF ConnectFails, fields, locals, data, Fresh, TypeOK,
       Buffers, BufferInv
  <2>4. PastInv'
    BY <1>2 DEF ConnectFails, fields, locals, Past, Moving, data, Decoded, PastInv
  <2>5. NeverRepeats'
    BY <1>2, SentFacts DEF ConnectFails, fields, locals, Decoded, Later,
       NeverRepeats
  <2>6. OrderInv'
    BY <1>2, OrderKept DEF ConnectFails, fields, locals, Moving
  <2>7. FormatInv'
    BY <1>2 DEF ConnectFails, fields, locals, Only, TaskInv, FormatInv
  <2>8. FormatPrecedesAudio'
    BY <1>2, SentFacts DEF ConnectFails, fields, locals, Only, FormatPrecedesAudio
  <2>9. AloneInv'
    BY <1>2, TaskFacts, BufferFacts, PcmFacts, SMTT(20) DEF ConnectFails, fields, locals,
       Only, Moving, IsPending, IsSent, data, TaskInv, BufferInv, Fresh, AloneInv
  <2>10. DoneInv'
    BY <1>2, DoneKept DEF ConnectFails, fields, locals, IsSent, DoneInv
  <2> QED
    BY <2>1, <2>2, <2>3, <2>4, <2>5, <2>6, <2>7, <2>8, <2>9, <2>10
<1>3. ASSUME PlaySong PROVE IInv'
  <2>0. /\ caller = "idle" /\ caller' = "reset" /\ plays' = plays + 1
        /\ plays < Len(Chunks) /\ socket # 0 /\ pcmBuffer' = Fresh /\ data' = <<>>
        /\ UNCHANGED <<socket, tasks, sent, pcm, chunk, pc>>
        /\ happened' = happened \/ (happened' = happened \cup {"overlap"} /\ tasks # <<>>)
        /\ Only({"switch"})' => Only({"switch"}) /\ tasks = <<>>
    BY <1>3, FreshType DEF PlaySong, UnderWay, locals, data, Only
  <2>1. TypeOK'
    <3>0. plays' \in 0..Len(Chunks)
      BY <2>0, TaskFacts
    <3>1. happened' \subseteq Happenings
      BY <2>0 DEF TypeOK, Happenings
    <3>2. pcmBuffer' \in Buffers /\ Len(pcmBuffer'.data) <= Capacity
      BY <2>0, FreshType
    <3> QED
      BY <1>3, <2>0, <3>0, <3>1, <3>2 DEF PlaySong, locals, TypeOK
  <2>2. TaskInv'
    BY <2>0, TaskFacts, SMTT(30) DEF TaskInv
  <2>3. BufferInv'
    BY <1>3, BufferFacts DEF PlaySong, UnderWay, locals, data, Fresh, TypeOK,
       Buffers, BufferInv
  <2>4. PastInv'
    <3>1. \A u : Past(u) /\ u.play \in Nat => Past(u)'
      BY <2>0, TaskFacts DEF Past
    <3>2. Len(data') = 0
      BY <2>0
    <3>3. (\A i \in 1..Len(sent) : Decoded(sent[i]) => Past(sent[i]))'
      BY <2>0, <3>1, SentFacts DEF PastInv, Decoded
    <3>4. (Moving => \A i \in 1..Len(pcm) : pcm[i].play # 0 => Past(pcm[i]))'
      BY <2>0, <3>1, PcmFacts DEF PastInv, Moving
    <3>5. (\A i \in 1..Len(data) : Past(data[i]))'
      BY <3>2
    <3> QED
      BY <3>3, <3>4, <3>5 DEF PastInv
  <2>5. NeverRepeats'
    BY <1>3, SentFacts DEF PlaySong, UnderWay, locals, Decoded, Later, NeverRepeats
  <2>6. OrderInv'
    BY <1>3, BufferFacts, PcmFacts, SentFacts DEF PlaySong, UnderWay, locals,
       Moving, Later, data, Decoded, BufferInv, Fresh, OrderInv
  <2>7. FormatInv'
    BY <1>3 DEF PlaySong, UnderWay, locals, Only, TaskInv, FormatInv
  <2>8. FormatPrecedesAudio'
    BY <1>3, SentFacts DEF PlaySong, UnderWay, locals, Only, FormatPrecedesAudio
  <2>9. AloneInv'
    BY <1>3, TaskFacts, BufferFacts, PcmFacts DEF PlaySong, UnderWay, locals, Only,
       Moving, IsPending, IsSent, data, TaskInv, BufferInv, Fresh, AloneInv
  <2>10. DoneInv'
    <3>1. SUFFICES ASSUME Only({"switch"})', NEW p \in 1..plays', p # plays'
                   PROVE  Chunks[p] < Threshold \/ \A k \in 1..Chunks[p] : IsSent(p, k)'
      BY <2>0 DEF DoneInv
    <3>2. p \in 1..plays /\ tasks = <<>> /\ caller = "idle" /\ Only({"switch"})
      BY <2>0, <3>1, TaskFacts
    <3>3. \A k : IsSent(p, k) => IsSent(p, k)'
      BY <2>0 DEF IsSent
    <3> QED
      BY <3>2, <3>3 DEF DoneInv
  <2> QED
    BY <2>1, <2>2, <2>3, <2>4, <2>5, <2>6, <2>7, <2>8, <2>9, <2>10
<1>4. ASSUME ResetBuffering PROVE IInv'
  <2>1. TypeOK'
    BY <1>4 DEF ResetBuffering, Reset, locals, TaskInv, Happenings, TypeOK
  <2>2. TaskInv'
    BY <1>4, TaskFacts DEF ResetBuffering, Reset, locals, TaskInv
  <2>3. BufferInv'
    BY <1>4, BufferFacts DEF ResetBuffering, Reset, locals, data, Fresh, TypeOK,
       Buffers, BufferInv
  <2>4. PastInv'
    BY <1>4, TaskFacts, BufferFacts, PcmFacts, SentFacts, SMTT(20) DEF ResetBuffering, Reset,
       locals, Past, Moving, data, BufferInv, TaskInv, Fresh, Decoded, PastInv
  <2>5. NeverRepeats'
    BY <1>4, SentFacts DEF ResetBuffering, Reset, locals, Decoded, Later,
       NeverRepeats
  <2>6. OrderInv'
    BY <1>4, OrderKept DEF ResetBuffering, locals, Moving
  <2>7. FormatInv'
    BY <1>4 DEF ResetBuffering, Reset, locals, Only, TaskInv, FormatInv
  <2>8. FormatPrecedesAudio'
    BY <1>4, SentFacts DEF ResetBuffering, Reset, locals, Only, FormatPrecedesAudio
  <2>9. AloneInv'
    BY <1>4, TaskFacts, BufferFacts, PcmFacts, SMTT(20) DEF ResetBuffering, Reset, locals,
       Only, Moving, IsPending, IsSent, data, TaskInv, BufferInv, Fresh, AloneInv
  <2>10. DoneInv'
    BY <1>4, DoneKept DEF ResetBuffering, Reset, locals, IsSent, DoneInv
  <2> QED
    BY <2>1, <2>2, <2>3, <2>4, <2>5, <2>6, <2>7, <2>8, <2>9, <2>10
<1>5. ASSUME Execute PROVE IInv'
  <2>0. /\ caller = "execute" /\ caller' = "idle" /\ tasks' = Append(tasks, plays)
        /\ UNCHANGED <<plays, named, socket, pcmBuffer, data, bufferingFinished, sent, pcm, chunk>>
        /\ UNCHANGED <<pc, started, happened, justStarted>>
    BY <1>5 DEF Execute, fields, locals, data
  <2>a. /\ plays \in Plays /\ tasks' \in Seq(Plays) /\ Len(tasks') = Len(tasks) + 1
        /\ tasks'[Len(tasks) + 1] = plays /\ tasks' # <<>>
        /\ \A i \in 1..Len(tasks) : tasks'[i] = tasks[i]
    <3>1. plays \in Plays
      BY <2>0, TaskFacts DEF TypeOK, TaskInv
    <3>2. tasks \in Seq(Plays)
      BY TaskFacts
    <3> QED
      BY <2>0, <3>1, <3>2, AppendProperties
  <2>c. \A i \in 1..Len(tasks') : i \in 1..Len(tasks) \/ i = Len(tasks) + 1
    BY <2>a, TaskFacts
  <2>1. TypeOK'
    BY <2>0, <2>a DEF TypeOK
  <2>2. TaskInv'
    <3>1. \A i \in 1..Len(tasks) : tasks[i] < plays
      BY <2>0 DEF TaskInv
    <3>2. \A i, j \in 1..Len(tasks') : i < j => tasks'[i] < tasks'[j]
      <4>1. ASSUME NEW i \in 1..Len(tasks'), NEW j \in 1..Len(tasks'), i < j
            PROVE  tasks'[i] < tasks'[j]
        <5>1. i \in 1..Len(tasks)
          BY <2>a, <2>c, <4>1, TaskFacts
        <5> QED
          BY <2>a, <2>c, <3>1, <4>1, <5>1 DEF TaskInv
      <4> QED
        BY <4>1
    <3>3. ASSUME NEW i \in 1..Len(tasks') PROVE tasks'[i] <= plays
      <4>1. CASE i \in 1..Len(tasks)
        BY <2>a, <4>1 DEF TaskInv
      <4>2. CASE i = Len(tasks) + 1
        BY <2>a, <4>2, TaskFacts
      <4> QED
        BY <2>c, <4>1, <4>2
    <3> QED
      BY <2>0, <2>a, <3>2, <3>3 DEF TaskInv
  <2>3. BufferInv'
    BY <1>5, BufferFacts DEF Execute, fields, locals, data, Fresh, TypeOK, Buffers,
       BufferInv
  <2>4. PastInv'
    <3>1. \A u : Past(u) => Past(u)'
      BY <2>0, <2>a, <2>c DEF Past
    <3> QED
      BY <2>0, <3>1 DEF PastInv, Moving
  <2>5. NeverRepeats'
    BY <1>5, SentFacts DEF Execute, fields, locals, Decoded, Later, NeverRepeats
  <2>6. OrderInv'
    BY <1>5, OrderKept DEF Execute, fields, locals, Moving
  <2>7. FormatInv'
    BY <1>5 DEF Execute, fields, locals, Only, TaskInv, FormatInv
  <2>8. FormatPrecedesAudio'
    BY <1>5, SentFacts DEF Execute, fields, locals, Only, FormatPrecedesAudio
  <2>9. AloneInv'
    BY <1>5, TaskFacts, BufferFacts, PcmFacts, SMTT(20) DEF Execute, fields, locals, Only,
       Moving, IsPending, IsSent, data, TaskInv, BufferInv, Fresh, AloneInv
  <2>10. DoneInv'
    <3>1. \A p, k : IsSent(p, k) => IsSent(p, k)'
      BY <2>0 DEF IsSent
    <3> QED
      BY <2>0, <2>a, <3>1, DoneKept
  <2> QED
    BY <2>1, <2>2, <2>3, <2>4, <2>5, <2>6, <2>7, <2>8, <2>9, <2>10
<1>6. ASSUME Format PROVE IInv'
  <2>0. /\ pc = "fetch" /\ pc' = "decode" /\ tasks # <<>> /\ chunk = 0 /\ Write(FormatItem)
        /\ UNCHANGED <<plays, caller, named, socket, pcmBuffer, data, bufferingFinished>>
        /\ UNCHANGED <<tasks, chunk, justStarted, pcm, started, happened>>
    BY <1>6 DEF Format, fields, locals, data
  <2>a. /\ FormatItem \in Seq(Items) /\ Len(FormatItem) = 1
        /\ FormatItem[1].format /\ FormatItem[1].socket = socket
    <3>1. Playing \in Plays /\ plays # 0 /\ socket \in 1..MaxSockets
      <4>1. Playing = tasks[1] /\ 1 \in 1..Len(tasks)
        BY <2>0, TaskFacts DEF Playing
      <4>2. tasks[1] \in Plays /\ tasks[1] <= plays
        BY <4>1, TaskFacts DEF TaskInv
      <4>3. plays # 0
        BY <4>2, TaskFacts
      <4> QED
        BY <4>1, <4>2, <4>3 DEF TaskInv, TypeOK
    <3>2. [socket |-> socket, format |-> TRUE, play |-> Playing, chunk |-> 0] \in Items
      BY <3>1, TaskFacts DEF Items
    <3> QED
      BY <3>2 DEF FormatItem
  <2>c. /\ sent' \in Seq(Items) /\ Len(sent') = Len(sent) + 1 /\ Len(sent) \in Nat
        /\ \A i \in 1..Len(sent) : i \in 1..Len(sent') /\ sent'[i] = sent[i]
        /\ sent'[Len(sent')].format /\ sent'[Len(sent')].socket = socket
        /\ Len(sent') \in 1..Len(sent')
        /\ \A i \in 1..Len(sent') : i \in 1..Len(sent) \/ i = Len(sent')
    <3> DEFINE items == FormatItem
    <3>1. /\ sent' \in Seq(Items) /\ Len(sent') = Len(sent) + Len(items)
          /\ Len(sent) \in Nat
          /\ \A i \in 1..Len(sent) : i \in 1..Len(sent') /\ sent'[i] = sent[i]
          /\ \A k \in 1..Len(items) :
               Len(sent) + k \in 1..Len(sent') /\ sent'[Len(sent) + k] = items[k]
          /\ \A i \in 1..Len(sent') :
               i \in 1..Len(sent) \/ \E k \in 1..Len(items) : i = Len(sent) + k
      <4>1. items \in Seq(Items) /\ sent \in Seq(Items) /\ Write(items)
        BY <2>0, <2>a, SentFacts
      <4> HIDE DEF items
      <4> QED
        BY <4>1, Written
    <3>2. Len(items) = 1 /\ 1 \in 1..Len(items)
      BY <2>a
    <3>3. sent'[Len(sent')] = items[1]
      BY <3>1, <3>2
    <3> QED
      BY <2>a, <3>1, <3>2, <3>3
  <2>1. TypeOK'
    BY <2>0, <2>c DEF TypeOK
  <2>2. TaskInv'
    BY <1>6, TaskFacts DEF Format, Write, FormatItem, Playing, fields, locals,
       TaskInv
  <2>3. BufferInv'
    BY <1>6, BufferFacts DEF Format, Write, FormatItem, Playing, fields, locals,
       data, Fresh, TypeOK, Buffers, BufferInv
  <2>4. PastInv'
    <3>1. \A u : Past(u) => Past(u)'
      BY <2>0 DEF Past
    <3> QED
      BY <2>0, <2>c, <3>1 DEF PastInv, Moving, Decoded
  <2>5. NeverRepeats'
    BY <2>c DEF NeverRepeats, Decoded
  <2>6. OrderInv'
    BY <2>0, <2>c DEF OrderInv, Moving, Decoded
  <2>7. FormatInv'
    BY <2>0, <2>c DEF FormatInv
  <2>8. FormatPrecedesAudio'
    <3>1. SUFFICES ASSUME Only({"overlap"}), NEW i \in 1..Len(sent'), ~sent'[i].format
                   PROVE  \E j \in 1..(i - 1) : sent'[j].format /\ sent'[j].socket = sent'[i].socket
      BY <2>0 DEF FormatPrecedesAudio, Only
    <3>2. i \in 1..Len(sent) /\ sent'[i] = sent[i]
      BY <2>c, <3>1
    <3>3. PICK j \in 1..(i - 1) : sent[j].format /\ sent[j].socket = sent[i].socket
      BY <3>1, <3>2 DEF FormatPrecedesAudio
    <3>4. j \in 1..Len(sent)
      BY <2>c, <3>2, <3>3
    <3> QED
      BY <2>c, <3>2, <3>3, <3>4
  <2>9. AloneInv'
    <3>1. \A p, k : IsSent(p, k) => IsSent(p, k)'
      BY <2>0, <2>a, SentFacts, StaysSent
    <3>2. \A p, k : IsPending(p, k) => IsPending(p, k)'
      BY <2>0 DEF IsPending, Moving
    <3> QED
      BY <2>0, <3>1, <3>2 DEF AloneInv, Only
  <2>10. DoneInv'
    <3>1. \A p, k : IsSent(p, k) => IsSent(p, k)'
      BY <2>0, <2>a, SentFacts, StaysSent
    <3> QED
      BY <2>0, <3>1, DoneKept
  <2> QED
    BY <2>1, <2>2, <2>3, <2>4, <2>5, <2>6, <2>7, <2>8, <2>9, <2>10
<1>7. ASSUME FormatFails PROVE IInv'
  <2>1. TypeOK'
    BY <1>7 DEF FormatFails, fields, locals, TaskInv, Happenings, TypeOK
  <2>2. TaskInv'
    BY <1>7, TaskFacts DEF FormatFails, fields, locals, TaskInv
  <2>3. BufferInv'
    BY <1>7, BufferFacts DEF FormatFails, fields, locals, data, Fresh, TypeOK,
       Buffers, BufferInv
  <2>4. PastInv'
    BY <1>7, TaskFacts, BufferFacts, PcmFacts, SentFacts, SMTT(20) DEF FormatFails, fields,
       locals, Past, Moving, data, BufferInv, TaskInv, Fresh, Decoded, PastInv
  <2>5. NeverRepeats'
    BY <1>7, SentFacts DEF FormatFails, fields, locals, Decoded, Later, NeverRepeats
  <2>6. OrderInv'
    BY <1>7, OrderKept DEF FormatFails, fields, locals, Moving
  <2>7. FormatInv'
    BY <1>7 DEF FormatFails, fields, locals, Only, TaskInv, FormatInv
  <2>8. FormatPrecedesAudio'
    BY <1>7, SentFacts DEF FormatFails, fields, locals, Only, FormatPrecedesAudio
  <2>9. AloneInv'
    BY <1>7, TaskFacts, BufferFacts, PcmFacts, SMTT(20) DEF FormatFails, fields, locals, Only,
       Moving, IsPending, IsSent, data, TaskInv, BufferInv, Fresh, AloneInv
  <2>10. DoneInv'
    BY <1>7, DoneKept DEF FormatFails, fields, locals, IsSent, DoneInv
  <2> QED
    BY <2>1, <2>2, <2>3, <2>4, <2>5, <2>6, <2>7, <2>8, <2>9, <2>10
<1>8. ASSUME PutChunk PROVE IInv'
  <2>u. PICK u : u = [play |-> tasks[1], chunk |-> chunk + 1]
    OBVIOUS
  <2>0. /\ pc = "decode" /\ pc' = "check" /\ chunk' = chunk + 1
        /\ pcmBuffer' = [pcmBuffer EXCEPT !.data = Append(@, u)] /\ justStarted' = FALSE
        /\ UNCHANGED <<plays, caller, named, socket, bufferingFinished, tasks>>
        /\ UNCHANGED <<pcm, sent, started, happened>>
    <3>1. Playing = tasks[1]
      BY DEF Playing
    <3> QED
      BY <1>8, <2>u, <3>1 DEF PutChunk
  <2>a. /\ 1 \in 1..Len(tasks) /\ tasks[1] \in Plays /\ tasks[1] \in Nat /\ tasks[1] <= plays
        /\ tasks[1] # 0 /\ u.play = tasks[1] /\ u.chunk = chunk + 1
        /\ caller # "idle" => tasks[1] < plays
        /\ \A k \in 1..Len(tasks) : k # 1 => tasks[1] < tasks[k]
    <3>1. 1 \in 1..Len(tasks)
      BY <2>0, TaskFacts DEF TaskInv
    <3> QED
      BY <2>u, <3>1, TaskFacts DEF TaskInv
  <2>c. /\ data' \in Seq(Units) /\ Len(data') = Len(data) + 1
        /\ \A i \in 1..Len(data) : i \in 1..Len(data') /\ data'[i] = data[i]
        /\ data'[Len(data')] = u /\ Len(data') \in 1..Len(data')
        /\ \A i \in 1..Len(data') : i \in 1..Len(data) \/ i = Len(data')
        /\ pcmBuffer' \in Buffers /\ pcmBuffer'.flipped = pcmBuffer.flipped
    <3>1. u \in Units
      BY <2>u, <2>a, TaskFacts DEF Units
    <3>2. data' = Append(data, u)
      BY <2>0 DEF TypeOK, Buffers, data
    <3>3. /\ data' \in Seq(Units) /\ Len(data') = Len(data) + 1
          /\ \A i \in 1..Len(data) : data'[i] = data[i]
          /\ data'[Len(data) + 1] = u
      BY <3>1, <3>2, BufferFacts, AppendProperties
    <3>4. pcmBuffer' \in Buffers /\ pcmBuffer'.flipped = pcmBuffer.flipped
      BY <2>0, <3>2, <3>3 DEF TypeOK, Buffers, data
    <3> QED
      BY <3>3, <3>4, BufferFacts
  <2>1. TypeOK'
    <3>1. Len(pcmBuffer'.data) <= Capacity /\ chunk' \in Nat
      BY <2>0, <2>c, BufferFacts, TaskFacts DEF BufferInv, data
    <3> QED
      BY <2>0, <2>c, <3>1 DEF TypeOK
  <2>2. TaskInv'
    BY <2>0, <2>a DEF TaskInv
  <2>3. BufferInv'
    <3>1. Len(data') <= Threshold /\ ~pcmBuffer'.flipped
      BY <2>0, <2>c, BufferFacts DEF BufferInv
    <3> QED
      BY <2>0, <3>1 DEF BufferInv
  <2>4. PastInv'
    <3>1. \A v : Past(v) /\ v.chunk \in Nat => Past(v)'
      BY <2>0, TaskFacts DEF Past
    <3>2. Past(u)'
      BY <2>0, <2>a, TaskFacts DEF Past
    <3> QED
      <4>1. (\A i \in 1..Len(sent) : Decoded(sent[i]) => Past(sent[i]))'
        BY <2>0, <3>1, SentFacts DEF PastInv, Decoded
      <4>2. (\A i \in 1..Len(data) : Past(data[i]))'
        BY <2>c, <3>1, <3>2, BufferFacts DEF PastInv
      <4>3. ~Moving'
        BY <2>0 DEF Moving
      <4> QED
        BY <4>1, <4>2, <4>3 DEF PastInv
  <2>5. NeverRepeats'
    BY <1>8, SentFacts DEF PutChunk, Playing, Decoded, Later, NeverRepeats
  <2>6. OrderInv'
    <3>1. \A v : Past(v) /\ v.chunk \in Nat => Later(v, u)
      BY <2>a, TaskFacts DEF Past, Later
    <3>2. \A i \in 1..Len(data) : Later(data[i], u)
      BY <3>1, BufferFacts DEF PastInv
    <3>3. \A i \in 1..Len(sent) : Decoded(sent[i]) => Later(sent[i], u)
      BY <3>1, SentFacts DEF PastInv
    <3>4. \A i, j \in 1..Len(data') : i < j => Later(data'[i], data'[j])
      BY <2>c, <3>2, BufferFacts, SMTT(30) DEF OrderInv
    <3>5. \A i \in 1..Len(data') : data'[i].play # 0
      BY <2>a, <2>c, TaskFacts DEF OrderInv
    <3>6. \A i \in 1..Len(sent), j \in 1..Len(data') :
            Decoded(sent[i]) => Later(sent[i], data'[j])
      BY <2>0, <2>c, <3>3 DEF OrderInv, Moving
    <3> QED
      BY <2>0, <3>4, <3>5, <3>6 DEF OrderInv, Moving
  <2>7. FormatInv'
    BY <1>8 DEF PutChunk, Playing, Only, TaskInv, FormatInv
  <2>8. FormatPrecedesAudio'
    BY <1>8, SentFacts DEF PutChunk, Playing, Only, FormatPrecedesAudio
  <2>9. AloneInv'
    <3>1. SUFFICES ASSUME Only({"switch"}) PROVE AloneInv'
      BY <2>0 DEF AloneInv, Only
    <3>2. Len(tasks) = 1 /\ tasks[1] = plays /\ caller = "idle" /\ tasks # <<>>
      BY <2>a, <3>1 DEF AloneInv
    <3>3. ~bufferingFinished => Len(data') = chunk'
      BY <2>0, <2>c, <3>1, <3>2 DEF AloneInv
    <3>4. ASSUME NEW k \in 1..chunk' PROVE IsSent(plays, k)' \/ IsPending(plays, k)'
      <4>1. CASE k = chunk + 1
        BY <2>0, <2>a, <2>c, <3>2, <4>1 DEF IsPending, Moving
      <4>2. CASE k \in 1..chunk
        <5>1. IsSent(plays, k) => IsSent(plays, k)'
          BY <2>0 DEF IsSent
        <5>2. IsPending(plays, k) => IsPending(plays, k)'
          BY <2>0, <2>c DEF IsPending, Moving
        <5> QED
          BY <3>1, <3>2, <4>2, <5>1, <5>2 DEF AloneInv
      <4> QED
        BY <2>0, <4>1, <4>2, TaskFacts, SMTT(30)
    <3> QED
      BY <2>0, <3>1, <3>2, <3>3, <3>4 DEF AloneInv
  <2>10. DoneInv'
    <3>1. \A p, k : IsSent(p, k) => IsSent(p, k)'
      BY <2>0 DEF IsSent
    <3> QED
      BY <2>0, <3>1, DoneKept
  <2> QED
    BY <2>1, <2>2, <2>3, <2>4, <2>5, <2>6, <2>7, <2>8, <2>9, <2>10
<1>9. ASSUME CheckThreshold PROVE IInv'
  <2>1. TypeOK'
    BY <1>9 DEF CheckThreshold, AfterCheck, TaskInv, Happenings, TypeOK
  <2>2. TaskInv'
    BY <1>9, TaskFacts DEF CheckThreshold, AfterCheck, TaskInv
  <2>3. BufferInv'
    BY <1>9, BufferFacts DEF CheckThreshold, AfterCheck, data, Fresh, TypeOK,
       Buffers, BufferInv
  <2>4. PastInv'
    BY <1>9, TaskFacts, BufferFacts, PcmFacts, SentFacts, SMTT(20) DEF CheckThreshold,
       AfterCheck, Past, Moving, data, BufferInv, TaskInv, Fresh, Decoded, PastInv
  <2>5. NeverRepeats'
    BY <1>9, SentFacts DEF CheckThreshold, AfterCheck, Decoded, Later, NeverRepeats
  <2>6. OrderInv'
    BY <1>9, BufferFacts, PcmFacts, SentFacts DEF CheckThreshold, AfterCheck,
       Moving, Later, data, Decoded, BufferInv, Fresh, OrderInv
  <2>7. FormatInv'
    BY <1>9 DEF CheckThreshold, AfterCheck, Only, TaskInv, FormatInv
  <2>8. FormatPrecedesAudio'
    BY <1>9, SentFacts DEF CheckThreshold, AfterCheck, Only, FormatPrecedesAudio
  <2>9. AloneInv'
    BY <1>9, TaskFacts, BufferFacts, PcmFacts DEF CheckThreshold, AfterCheck, Only,
       Moving, IsPending, IsSent, data, TaskInv, BufferInv, Fresh, AloneInv
  <2>10. DoneInv'
    BY <1>9, DoneKept DEF CheckThreshold, AfterCheck, IsSent, DoneInv
  <2> QED
    BY <2>1, <2>2, <2>3, <2>4, <2>5, <2>6, <2>7, <2>8, <2>9, <2>10
<1>10. ASSUME Flip PROVE IInv'
  <2>1. TypeOK'
    <3>1. pcmBuffer' \in Buffers /\ pcmBuffer'.data = pcmBuffer.data
      BY <1>10 DEF Flip, Flipped, TypeOK, Buffers
    <3> QED
      BY <1>10, <3>1 DEF Flip, locals, TypeOK
  <2>2. TaskInv'
    BY <1>10, TaskFacts DEF Flip, Flipped, locals, TaskInv
  <2>3. BufferInv'
    BY <1>10, BufferFacts DEF Flip, Flipped, locals, data, Fresh, TypeOK, Buffers,
       BufferInv
  <2>4. PastInv'
    BY <1>10, TaskFacts, BufferFacts, PcmFacts, SentFacts, SMTT(20) DEF Flip, Flipped, locals,
       Past, Moving, data, BufferInv, TaskInv, Fresh, Decoded, PastInv
  <2>5. NeverRepeats'
    BY <1>10, SentFacts DEF Flip, Flipped, locals, Decoded, Later, NeverRepeats
  <2>6. OrderInv'
    BY <1>10, BufferFacts, PcmFacts, SentFacts DEF Flip, Flipped, locals, Moving,
       Later, data, Decoded, BufferInv, Fresh, OrderInv
  <2>7. FormatInv'
    BY <1>10 DEF Flip, Flipped, locals, Only, TaskInv, FormatInv
  <2>8. FormatPrecedesAudio'
    BY <1>10, SentFacts DEF Flip, Flipped, locals, Only, FormatPrecedesAudio
  <2>9. AloneInv'
    BY <1>10, TaskFacts, BufferFacts, PcmFacts, SMTT(20) DEF Flip, Flipped, locals, Only,
       Moving, IsPending, IsSent, data, TaskInv, BufferInv, Fresh, AloneInv
  <2>10. DoneInv'
    BY <1>10, DoneKept DEF Flip, Flipped, locals, IsSent, DoneInv
  <2> QED
    BY <2>1, <2>2, <2>3, <2>4, <2>5, <2>6, <2>7, <2>8, <2>9, <2>10
<1>11. ASSUME Allocate PROVE IInv'
  <2>0. /\ pc = "remaining" /\ pc' = "get" /\ pcm' = [i \in 1..Remaining |-> Zero]
        /\ UNCHANGED <<plays, caller, named, socket, pcmBuffer, data, bufferingFinished>>
        /\ UNCHANGED <<tasks, chunk, justStarted, sent, started, happened>>
    BY <1>11 DEF Allocate, fields, data
  <2>a. Remaining \in Nat /\ (pcmBuffer.flipped => Remaining = Len(data))
    BY BufferFacts DEF Remaining, data
  <2>c. /\ pcm' \in Seq(Units) /\ Len(pcm') = Remaining
        /\ \A i \in 1..Remaining : pcm'[i].play = 0
    <3>1. Zero \in Units /\ Zero.play = 0
      BY TaskFacts DEF Zero, Units
    <3> QED
      BY <2>0, <2>a, <3>1
  <2>1. TypeOK'
    BY <2>0, <2>c DEF TypeOK
  <2>2. TaskInv'
    BY <1>11, TaskFacts DEF Allocate, Remaining, Zero, fields, TaskInv
  <2>3. BufferInv'
    BY <1>11, BufferFacts DEF Allocate, Remaining, Zero, fields, data, Fresh,
       TypeOK, Buffers, BufferInv
  <2>4. PastInv'
    BY <1>11, TaskFacts, BufferFacts, PcmFacts, SentFacts, SMTT(20) DEF Allocate, Remaining,
       Zero, fields, Past, Moving, data, BufferInv, TaskInv, Fresh, Decoded, PastInv
  <2>5. NeverRepeats'
    BY <1>11, SentFacts DEF Allocate, Remaining, Zero, fields, Decoded, Later,
       NeverRepeats
  <2>6. OrderInv'
    BY <1>11, BufferFacts, PcmFacts, SentFacts DEF Allocate, Remaining, Zero,
       fields, Moving, Later, data, Decoded, BufferInv, Fresh, OrderInv
  <2>7. FormatInv'
    BY <1>11 DEF Allocate, Remaining, Zero, fields, Only, TaskInv, FormatInv
  <2>8. FormatPrecedesAudio'
    BY <1>11, SentFacts DEF Allocate, Remaining, Zero, fields, Only,
       FormatPrecedesAudio
  <2>9. AloneInv'
    <3>1. \A p, k : IsSent(p, k) => IsSent(p, k)'
      BY <2>0 DEF IsSent
    <3>2. \A p, k : IsPending(p, k) => IsPending(p, k)'
      BY <2>0 DEF IsPending, Moving
    <3> QED
      BY <2>0, <2>a, <2>c, <3>1, <3>2 DEF AloneInv, Only
  <2>10. DoneInv'
    BY <1>11, DoneKept DEF Allocate, Remaining, Zero, fields, IsSent, DoneInv
  <2> QED
    BY <2>1, <2>2, <2>3, <2>4, <2>5, <2>6, <2>7, <2>8, <2>9, <2>10
<1>12. ASSUME Get PROVE IInv'
  <2>0. /\ pc = "get" /\ pc' = "clear"
        /\ UNCHANGED <<plays, caller, named, socket, pcmBuffer, data, bufferingFinished>>
        /\ UNCHANGED <<tasks, chunk, justStarted, sent, started, happened>>
        /\ pcm' = IF pcmBuffer.flipped /\ Len(pcm) <= Len(data)
                  THEN SubSeq(data, 1, Len(pcm)) ELSE pcm
    BY <1>12 DEF Get, fields, data
  <2>a. \/ /\ pcmBuffer.flipped /\ Len(pcm) <= Len(data)
           /\ pcm' \in Seq(Units) /\ Len(pcm') = Len(pcm)
           /\ \A i \in 1..Len(pcm') : i \in 1..Len(data) /\ pcm'[i] = data[i]
        \/ /\ ~(pcmBuffer.flipped /\ Len(pcm) = Len(data))
           /\ pcm' = pcm /\ \A i \in 1..Len(pcm) : pcm[i].play = 0
    <3>1. CASE pcmBuffer.flipped /\ Len(pcm) <= Len(data)
      <4>1. \A i \in 1..Len(pcm) : i \in 1..Len(data) /\ data[i] \in Units
        BY <3>1, BufferFacts, PcmFacts, Elements
      <4>2. pcm' = SubSeq(data, 1, Len(pcm))
        BY <2>0, <3>1
      <4>3. /\ pcm' \in Seq(Units)
            /\ Len(pcm') = IF 1 <= Len(pcm) THEN Len(pcm) - 1 + 1 ELSE 0
            /\ \A i \in 1..Len(pcm) - 1 + 1 : pcm'[i] = data[1 + i - 1]
        BY <4>1, <4>2, PcmFacts, SubSeqProperties
      <4>4. Len(pcm') = Len(pcm) /\ \A i \in 1..Len(pcm) : 1 + i - 1 = i
        BY <4>3, PcmFacts
      <4>5. \A i \in 1..Len(pcm') : pcm'[i] = data[i]
        BY <4>3, <4>4, PcmFacts
      <4> QED
        BY <3>1, <4>1, <4>3, <4>4, <4>5
    <3>2. CASE ~(pcmBuffer.flipped /\ Len(pcm) <= Len(data))
      BY <2>0, <3>2, BufferFacts DEF BufferInv
    <3> QED
      BY <3>1, <3>2
  <2>1. TypeOK'
    <3>1. pcm' \in Seq(Units)
      BY <2>a, PcmFacts
    <3> QED
      BY <2>0, <3>1 DEF TypeOK
  <2>2. TaskInv'
    BY <1>12, TaskFacts DEF Get, fields, TaskInv
  <2>3. BufferInv'
    BY <1>12, BufferFacts DEF Get, fields, data, Fresh, TypeOK, Buffers, BufferInv
  <2>4. PastInv'
    <3>1. \A v : Past(v) => Past(v)'
      BY <2>0 DEF Past
    <3>2. \A i \in 1..Len(pcm') : pcm'[i].play # 0 => Past(pcm'[i])
      BY <2>a DEF PastInv
    <3> QED
      BY <2>0, <3>1, <3>2 DEF PastInv, Moving
  <2>5. NeverRepeats'
    BY <1>12, SentFacts DEF Get, fields, Decoded, Later, NeverRepeats
  <2>6. OrderInv'
    <3>1. \A i, j \in 1..Len(pcm') :
            i < j /\ pcm'[i].play # 0 /\ pcm'[j].play # 0 => Later(pcm'[i], pcm'[j])
      BY <2>a DEF OrderInv
    <3>2. \A i \in 1..Len(sent), j \in 1..Len(pcm') :
            Decoded(sent[i]) /\ pcm'[j].play # 0 => Later(sent[i], pcm'[j])
      BY <2>0, <2>a DEF OrderInv, Moving
    <3> QED
      BY <2>0, <3>1, <3>2 DEF OrderInv, Moving
  <2>7. FormatInv'
    BY <1>12 DEF Get, fields, Only, TaskInv, FormatInv
  <2>8. FormatPrecedesAudio'
    BY <1>12, SentFacts DEF Get, fields, Only, FormatPrecedesAudio
  <2>9. AloneInv'
    <3>1. SUFFICES ASSUME Only({"switch"}) PROVE AloneInv'
      BY <2>0 DEF AloneInv, Only
    <3>2. /\ pcmBuffer.flipped /\ Len(pcm) = Len(data)
          /\ Len(pcm') = Len(data) /\ \A i \in 1..Len(data) : pcm'[i] = data[i]
      BY <2>0, <2>a, <3>1 DEF AloneInv
    <3>3. \A k : IsPending(plays, k) => IsPending(plays, k)'
      BY <2>0, <3>2 DEF IsPending, Moving
    <3>4. \A k : IsSent(plays, k) => IsSent(plays, k)'
      BY <2>0 DEF IsSent
    <3> QED
      BY <2>0, <3>1, <3>3, <3>4 DEF AloneInv
  <2>10. DoneInv'
    BY <1>12, DoneKept DEF Get, fields, IsSent, DoneInv
  <2> QED
    BY <2>1, <2>2, <2>3, <2>4, <2>5, <2>6, <2>7, <2>8, <2>9, <2>10
<1>13. ASSUME Clear PROVE IInv'
  <2>1. TypeOK'
    <3>1. pcmBuffer' \in Buffers /\ Len(pcmBuffer'.data) <= Capacity
      BY <1>13, FreshType DEF Clear, Cleared
    <3> QED
      BY <1>13, <3>1 DEF Clear, locals, TypeOK
  <2>2. TaskInv'
    BY <1>13, TaskFacts DEF Clear, Cleared, locals, TaskInv
  <2>3. BufferInv'
    BY <1>13, BufferFacts DEF Clear, Cleared, locals, data, Fresh, TypeOK, Buffers,
       BufferInv
  <2>4. PastInv'
    BY <1>13, TaskFacts, BufferFacts, PcmFacts, SentFacts, SMTT(20) DEF Clear, Cleared,
       locals, Past, Moving, data, BufferInv, TaskInv, Fresh, Decoded, PastInv
  <2>5. NeverRepeats'
    BY <1>13, SentFacts DEF Clear, Cleared, locals, Decoded, Later, NeverRepeats
  <2>6. OrderInv'
    <3>1. data' = <<>> /\ Moving /\ Moving' /\ UNCHANGED <<sent, pcm>>
      BY <1>13, FreshType DEF Clear, Cleared, locals, data, Moving
    <3>2. Len(data') = 0
      BY <3>1
    <3> QED
      BY <3>1, <3>2 DEF OrderInv
  <2>7. FormatInv'
    BY <1>13 DEF Clear, Cleared, locals, Only, TaskInv, FormatInv
  <2>8. FormatPrecedesAudio'
    BY <1>13, SentFacts DEF Clear, Cleared, locals, Only, FormatPrecedesAudio
  <2>9. AloneInv'
    BY <1>13, TaskFacts, BufferFacts, PcmFacts DEF Clear, Cleared, locals, Only,
       Moving, IsPending, IsSent, data, TaskInv, BufferInv, Fresh, AloneInv
  <2>10. DoneInv'
    BY <1>13, DoneKept DEF Clear, Cleared, locals, IsSent, DoneInv
  <2> QED
    BY <2>1, <2>2, <2>3, <2>4, <2>5, <2>6, <2>7, <2>8, <2>9, <2>10
<1>14. ASSUME WriteAudio PROVE IInv'
  <2> DEFINE items == [i \in 1..Len(pcm) |->
                      [socket |-> socket, format |-> FALSE,
                       play |-> pcm[i].play, chunk |-> pcm[i].chunk]]
  <2>0. /\ pc = "write" /\ pc' \in {"decode", "callback"} /\ Write(items)
        /\ UNCHANGED <<plays, caller, named, socket, pcmBuffer, data, bufferingFinished>>
        /\ UNCHANGED <<tasks, chunk, justStarted, pcm, started, happened>>
    BY <1>14 DEF WriteAudio, fields, locals, data
  <2>a. /\ items \in Seq(Items) /\ Len(items) = Len(pcm)
        /\ \A k \in 1..Len(pcm) :
             /\ ~items[k].format /\ items[k].socket = socket
             /\ items[k].play = pcm[k].play /\ items[k].chunk = pcm[k].chunk
    <3>1. tasks # <<>> /\ 1 \in 1..Len(tasks) /\ tasks[1] \in Plays /\ tasks[1] <= plays
      BY <2>0, TaskFacts DEF TaskInv
    <3>2. socket \in 1..MaxSockets
      BY <3>1, TaskFacts DEF TaskInv, TypeOK
    <3>3. \A i \in 1..Len(pcm) :
            [socket |-> socket, format |-> FALSE,
             play |-> pcm[i].play, chunk |-> pcm[i].chunk] \in Items
      <4>1. pcm \in Seq(Units)
        BY PcmFacts
      <4>2. \A i \in 1..Len(pcm) : pcm[i] \in Units
        BY <4>1, Elements
      <4>3. \A i \in 1..Len(pcm) : pcm[i].play \in 0..Len(Chunks) /\ pcm[i].chunk \in Nat
        BY <4>2 DEF Units
      <4> QED
        BY <3>2, <4>3 DEF Items
    <3> QED
      BY <3>3, PcmFacts
  <2>c. /\ sent' \in Seq(Items) /\ Len(sent') = Len(sent) + Len(pcm)
        /\ Len(sent) \in Nat /\ Len(pcm) \in Nat
        /\ \A i \in 1..Len(sent) : i \in 1..Len(sent') /\ sent'[i] = sent[i]
        /\ \A k \in 1..Len(pcm) :
             Len(sent) + k \in 1..Len(sent') /\ sent'[Len(sent) + k] = items[k]
        /\ \A i \in 1..Len(sent') :
             i \in 1..Len(sent) \/ \E k \in 1..Len(pcm) : i = Len(sent) + k
    <3> HIDE DEF items
    <3> QED
      BY <2>0, <2>a, SentFacts, Written
  <2> HIDE DEF items
  <2>1. TypeOK'
    BY <2>0, <2>c DEF TypeOK
  <2>2. TaskInv'
    BY <2>0 DEF TaskInv
  <2>3. BufferInv'
    BY <2>0, BufferFacts DEF BufferInv
  <2>4. PastInv'
    <3>1. \A v : Past(v) => Past(v)'
      BY <2>0 DEF Past
    <3>2. \A i \in 1..Len(sent') : Decoded(sent'[i]) => Past(sent'[i])
      <4>1. \A k \in 1..Len(pcm) : Decoded(items[k]) => Past(items[k])
        BY <2>0, <2>a DEF PastInv, Past, Moving, Decoded
      <4> QED
        BY <2>c, <4>1 DEF PastInv
    <3>3. ~Moving'
      BY <2>0 DEF Moving
    <3> QED
      BY <2>0, <3>1, <3>2, <3>3 DEF PastInv
  <2>5. NeverRepeats'
    <3>1. \A k, l \in 1..Len(pcm) :
            k < l /\ Decoded(items[k]) /\ Decoded(items[l]) => Later(items[k], items[l])
      BY <2>0, <2>a DEF OrderInv, Moving, Decoded, Later
    <3>2. \A i \in 1..Len(sent), k \in 1..Len(pcm) :
            Decoded(sent[i]) /\ Decoded(items[k]) => Later(sent[i], items[k])
      BY <2>0, <2>a DEF OrderInv, Moving, Decoded, Later
    <3>3. SUFFICES ASSUME NEW i \in 1..Len(sent'), NEW j \in 1..Len(sent'), i < j,
                          Decoded(sent'[i]), Decoded(sent'[j])
                   PROVE  Later(sent'[i], sent'[j])
      BY DEF NeverRepeats, Decoded, Later
    <3>4. CASE j \in 1..Len(sent)
      BY <2>c, <3>3, <3>4 DEF NeverRepeats
    <3>5. ASSUME NEW l \in 1..Len(pcm), j = Len(sent) + l PROVE Later(sent'[i], sent'[j])
      <4>1. CASE i \in 1..Len(sent)
        BY <2>c, <3>2, <3>3, <3>5, <4>1
      <4>2. ASSUME NEW k \in 1..Len(pcm), i = Len(sent) + k PROVE Later(sent'[i], sent'[j])
        BY <2>c, <3>1, <3>3, <3>5, <4>2
      <4> QED
        BY <2>c, <4>1, <4>2
    <3> QED
      BY <2>c, <3>4, <3>5
  <2>6. OrderInv'
    <3>1. data = <<>> /\ ~Moving'
      BY <2>0 DEF BufferInv, Moving
    <3> QED
      BY <2>0, <3>1 DEF OrderInv
  <2>7. FormatInv'
    BY <2>0, <2>c DEF FormatInv, Only
  <2>8. FormatPrecedesAudio'
    <3>1. SUFFICES ASSUME Only({"overlap"}), NEW i \in 1..Len(sent'), ~sent'[i].format
                   PROVE  \E j \in 1..(i - 1) : sent'[j].format /\ sent'[j].socket = sent'[i].socket
      BY <2>0 DEF FormatPrecedesAudio, Only
    <3>2. CASE i \in 1..Len(sent)
      <4>1. PICK j \in 1..(i - 1) : sent[j].format /\ sent[j].socket = sent[i].socket
        BY <2>c, <3>1, <3>2 DEF FormatPrecedesAudio
      <4>2. j \in 1..Len(sent)
        BY <2>c, <3>2, <4>1
      <4> QED
        BY <2>c, <3>2, <4>1, <4>2
    <3>3. ASSUME NEW k \in 1..Len(pcm), i = Len(sent) + k
          PROVE  \E j \in 1..(i - 1) : sent'[j].format /\ sent'[j].socket = sent'[i].socket
      <4>1. PICK j \in 1..Len(sent) : sent[j].format /\ sent[j].socket = socket
        BY <2>0, <3>1 DEF FormatInv
      <4>2. j \in 1..(i - 1)
        BY <2>c, <3>3, <4>1
      <4>3. sent'[i].socket = socket
        BY <2>a, <2>c, <3>3
      <4>4. sent'[j] = sent[j]
        BY <2>c, <4>1
      <4> QED
        BY <4>1, <4>2, <4>3, <4>4
    <3> QED
      BY <2>c, <3>2, <3>3
  <2>9. AloneInv'
    <3>1. SUFFICES ASSUME Only({"switch"}) PROVE AloneInv'
      BY <2>0 DEF AloneInv, Only
    <3>2. tasks # <<>> /\ bufferingFinished /\ data = <<>>
      BY <2>0, <3>1 DEF AloneInv, TaskInv, BufferInv
    <3>3. \A p, k : IsSent(p, k) => IsSent(p, k)'
      <4>1. items \in Seq(Items) /\ sent \in Seq(Items) /\ Write(items)
        BY <2>0, <2>a, SentFacts
      <4> QED
        BY <4>1, StaysSent
    <3>4. \A p, k : IsPending(p, k) => IsSent(p, k)'
      <4>1. ASSUME NEW p, NEW k, NEW i \in 1..Len(pcm), pcm[i].play = p, pcm[i].chunk = k
            PROVE  IsSent(p, k)'
        <5>1. Len(sent) + i \in 1..Len(sent') /\ sent'[Len(sent) + i] = items[i]
          BY <2>c
        <5>2. ~items[i].format /\ items[i].play = p /\ items[i].chunk = k
          BY <2>a, <4>1
        <5> QED
          BY <5>1, <5>2 DEF IsSent
      <4> QED
        BY <2>0, <4>1 DEF IsPending, Moving
    <3> QED
      BY <2>0, <3>1, <3>2, <3>3, <3>4 DEF AloneInv
  <2>10. DoneInv'
    <3>1. \A p, k : IsSent(p, k) => IsSent(p, k)'
      <4>1. items \in Seq(Items) /\ sent \in Seq(Items) /\ Write(items)
        BY <2>0, <2>a, SentFacts
      <4> QED
        BY <4>1, StaysSent
    <3> QED
      BY <2>0, <3>1, DoneKept
  <2> QED
    BY <2>1, <2>2, <2>3, <2>4, <2>5, <2>6, <2>7, <2>8, <2>9, <2>10
<1>15. ASSUME WriteFails PROVE IInv'
  <2>1. TypeOK'
    BY <1>15 DEF WriteFails, fields, locals, TaskInv, Happenings, TypeOK
  <2>2. TaskInv'
    BY <1>15, TaskFacts DEF WriteFails, fields, locals, TaskInv
  <2>3. BufferInv'
    BY <1>15, BufferFacts DEF WriteFails, fields, locals, data, Fresh, TypeOK,
       Buffers, BufferInv
  <2>4. PastInv'
    BY <1>15, TaskFacts, BufferFacts, PcmFacts, SentFacts, SMTT(20) DEF WriteFails, fields,
       locals, Past, Moving, data, BufferInv, TaskInv, Fresh, Decoded, PastInv
  <2>5. NeverRepeats'
    BY <1>15, SentFacts DEF WriteFails, fields, locals, Decoded, Later, NeverRepeats
  <2>6. OrderInv'
    BY <1>15, BufferFacts, PcmFacts, SentFacts DEF WriteFails, fields, locals,
       Moving, Later, data, Decoded, BufferInv, Fresh, OrderInv
  <2>7. FormatInv'
    BY <1>15 DEF WriteFails, fields, locals, Only, TaskInv, FormatInv
  <2>8. FormatPrecedesAudio'
    BY <1>15, SentFacts DEF WriteFails, fields, locals, Only, FormatPrecedesAudio
  <2>9. AloneInv'
    BY <1>15, TaskFacts, BufferFacts, PcmFacts, SMTT(20) DEF WriteFails, fields, locals, Only,
       Moving, IsPending, IsSent, data, TaskInv, BufferInv, Fresh, AloneInv
  <2>10. DoneInv'
    BY <1>15, DoneKept DEF WriteFails, fields, locals, IsSent, DoneInv
  <2> QED
    BY <2>1, <2>2, <2>3, <2>4, <2>5, <2>6, <2>7, <2>8, <2>9, <2>10
<1>16. ASSUME PlaybackStarted PROVE IInv'
  <2>1. TypeOK'
    <3>1. plays \in Plays
      <4>1. 1 \in 1..Len(tasks)
        BY <1>16, TaskFacts DEF PlaybackStarted, TaskInv
      <4>2. tasks[1] \in Plays /\ tasks[1] <= plays
        BY <4>1, TaskFacts DEF TaskInv
      <4> QED
        BY <4>2, TaskFacts
    <3>2. started' \in Seq(Plays)
      BY <1>16, <3>1 DEF PlaybackStarted, TypeOK
    <3> QED
      BY <1>16, <3>2 DEF PlaybackStarted, fields, locals, TypeOK
  <2>2. TaskInv'
    BY <1>16, TaskFacts DEF PlaybackStarted, fields, locals, TaskInv
  <2>3. BufferInv'
    BY <1>16, BufferFacts DEF PlaybackStarted, fields, locals, data, Fresh, TypeOK,
       Buffers, BufferInv
  <2>4. PastInv'
    BY <1>16, TaskFacts, BufferFacts, PcmFacts, SentFacts, SMTT(20) DEF PlaybackStarted,
       fields, locals, Past, Moving, data, BufferInv, TaskInv, Fresh, Decoded,
       PastInv
  <2>5. NeverRepeats'
    BY <1>16, SentFacts DEF PlaybackStarted, fields, locals, Decoded, Later,
       NeverRepeats
  <2>6. OrderInv'
    BY <1>16, BufferFacts, PcmFacts, SentFacts DEF PlaybackStarted, fields, locals,
       Moving, Later, data, Decoded, BufferInv, Fresh, OrderInv
  <2>7. FormatInv'
    BY <1>16 DEF PlaybackStarted, fields, locals, Only, TaskInv, FormatInv
  <2>8. FormatPrecedesAudio'
    BY <1>16, SentFacts DEF PlaybackStarted, fields, locals, Only,
       FormatPrecedesAudio
  <2>9. AloneInv'
    BY <1>16, TaskFacts, BufferFacts, PcmFacts DEF PlaybackStarted, fields, locals,
       Only, Moving, IsPending, IsSent, data, TaskInv, BufferInv, Fresh, AloneInv
  <2>10. DoneInv'
    BY <1>16, DoneKept DEF PlaybackStarted, fields, locals, IsSent, DoneInv
  <2> QED
    BY <2>1, <2>2, <2>3, <2>4, <2>5, <2>6, <2>7, <2>8, <2>9, <2>10
<1>17. ASSUME TaskEnds PROVE IInv'
  <2>0. /\ pc = "decode" /\ pc' = "fetch" /\ chunk' = 0 /\ tasks' = Tail(tasks)
        /\ chunk = Chunks[tasks[1]] /\ tasks # <<>>
        /\ UNCHANGED <<plays, caller, named, socket, pcmBuffer, data, bufferingFinished>>
        /\ UNCHANGED <<justStarted, pcm, sent, started, happened>>
    <3>1. Playing = tasks[1]
      BY DEF Playing
    <3> QED
      BY <1>17, <3>1 DEF TaskEnds, fields, data, TaskInv
  <2>a. /\ tasks' \in Seq(Plays) /\ Len(tasks') = Len(tasks) - 1
        /\ \A i \in 1..Len(tasks') : i + 1 \in 1..Len(tasks) /\ tasks'[i] = tasks[i + 1]
    BY <2>0, TaskFacts, HeadTailProperties
  <2>1. TypeOK'
    BY <2>0, <2>a DEF TypeOK
  <2>2. TaskInv'
    <3>1. \A i, j \in 1..Len(tasks') : i < j => i + 1 < j + 1
      BY <2>a, TaskFacts
    <3> QED
      BY <2>0, <2>a, <3>1 DEF TaskInv
  <2>3. BufferInv'
    BY <1>17, BufferFacts DEF TaskEnds, Playing, fields, data, Fresh, TypeOK,
       Buffers, BufferInv
  <2>4. PastInv'
    <3>1. \A u : Past(u) => Past(u)'
      <4>1. \A i \in 1..Len(tasks') : i + 1 # 1
        BY <2>a, TaskFacts
      <4> QED
        BY <2>0, <2>a, <4>1 DEF Past
    <3> QED
      BY <2>0, <3>1 DEF PastInv, Moving
  <2>5. NeverRepeats'
    BY <1>17, SentFacts DEF TaskEnds, Playing, fields, Decoded, Later, NeverRepeats
  <2>6. OrderInv'
    BY <2>0, OrderKept DEF Moving
  <2>7. FormatInv'
    BY <1>17 DEF TaskEnds, Playing, fields, Only, TaskInv, FormatInv
  <2>8. FormatPrecedesAudio'
    BY <1>17, SentFacts DEF TaskEnds, Playing, fields, Only, FormatPrecedesAudio
  <2>9. AloneInv'
    <3>1. SUFFICES ASSUME Only({"switch"}) PROVE AloneInv'
      BY <2>0 DEF AloneInv, Only
    <3>2. Len(tasks) = 1 /\ caller = "idle"
      BY <2>0, <3>1 DEF AloneInv
    <3>3. tasks' = <<>>
      BY <2>a, <3>2
    <3> QED
      BY <2>0, <3>1, <3>2, <3>3 DEF AloneInv
  <2>10. DoneInv'
    <3>1. SUFFICES ASSUME Only({"switch"}), NEW p \in 1..plays
                   PROVE  Chunks[p] < Threshold \/ \A k \in 1..Chunks[p] : IsSent(p, k)'
      BY <2>0 DEF DoneInv, Only
    <3>2. \A k : IsSent(p, k) => IsSent(p, k)'
      BY <2>0 DEF IsSent
    <3>3. CASE p # plays
      BY <3>1, <3>2, <3>3 DEF DoneInv
    <3>4. CASE p = plays
      <4>1. tasks[1] = plays /\ chunk = Chunks[p]
        BY <2>0, <3>1, <3>4 DEF AloneInv
      <4>2. CASE ~bufferingFinished
        BY <2>0, <3>1, <4>1, <4>2 DEF AloneInv, BufferInv
      <4>3. CASE bufferingFinished
        <5>1. data = <<>> /\ ~Moving
          BY <2>0, <3>1, <4>3 DEF AloneInv, Moving
        <5>2. \A k : ~IsPending(p, k)
          BY <5>1 DEF IsPending
        <5> QED
          BY <2>0, <3>1, <3>2, <3>4, <4>1, <5>2 DEF AloneInv
      <4> QED
        BY <4>2, <4>3
    <3> QED
      BY <3>3, <3>4
  <2> QED
    BY <2>1, <2>2, <2>3, <2>4, <2>5, <2>6, <2>7, <2>8, <2>9, <2>10
<1>18. CASE Finished \/ UNCHANGED vars
  <2>1. UNCHANGED vars
    BY <1>18 DEF Finished
  <2>2. TypeOK' /\ TaskInv' /\ NeverRepeats' /\ FormatPrecedesAudio'
    <3>1. TypeOK'
      BY <2>1 DEF vars, fields, locals, TypeOK
    <3>2. TaskInv'
      BY <2>1 DEF vars, fields, locals, TaskInv
    <3>3. NeverRepeats'
      BY <2>1 DEF vars, NeverRepeats
    <3>4. FormatPrecedesAudio'
      BY <2>1 DEF vars, FormatPrecedesAudio, Only
    <3> QED
      BY <3>1, <3>2, <3>3, <3>4
  <2>3. BufferInv' /\ PastInv' /\ OrderInv' /\ FormatInv' /\ AloneInv' /\ DoneInv'
    BY <2>1 DEF vars, fields, locals, BufferInv, PastInv, OrderInv, FormatInv,
       AloneInv, DoneInv, data, Past, Moving, Only, IsSent, IsPending
  <2> QED
    BY <2>2, <2>3
<1> QED
  BY <1>1, <1>2, <1>3, <1>4, <1>5, <1>6, <1>7, <1>8, <1>9, <1>10, <1>11, <1>12,
     <1>13, <1>14, <1>15, <1>16, <1>17, <1>18 DEF Next, Callback

\* The inductive invariant holds of every behaviour.
LEMMA Invariant == Spec => []IInv
<1> QED
  BY InitInv, StepInv, PTL DEF Spec

\* The variables keep their types: the buffer, which put would overflow, never holds
\* more than its capacity.
THEOREM TypeCorrect == Spec => []TypeOK
<1>1. IInv => TypeOK
  BY DEF IInv
<1> QED
  BY <1>1, Invariant, PTL

\* However many songs overlap, whichever writes fail and wherever playSong replaces
\* the buffer, no decoded chunk is written twice or out of order.
THEOREM NeverRepeatsHolds == Spec => []NeverRepeats
<1>1. IInv => NeverRepeats
  BY DEF IInv
<1> QED
  BY <1>1, Invariant, PTL

\* "The decoded samples must then be sent to the main app using the audio socket": of
\* songs of any length, played one at a time, each that reaches the threshold is
\* written whole.
THEOREM SongIsSentHolds == Spec => []SongIsSent
<1>1. ASSUME IInv, Only({"switch"}), tasks = <<>>, caller = "idle",
             NEW p \in 1..plays, Chunks[p] >= Threshold
      PROVE  \A k \in 1..Chunks[p] : IsSent(p, k)
  <2>1. p \in 1..Len(Chunks)
    BY <1>1, TaskFacts DEF IInv
  <2>2. Chunks[p] \in Nat /\ Threshold \in Nat
    BY <2>1, PlaysAssumption, BufferAssumption, ElementOfSeq
  <2> QED
    BY <1>1, <2>2 DEF IInv, DoneInv
<1>2. IInv => SongIsSent
  BY <1>1 DEF SongIsSent
<1> QED
  BY <1>2, Invariant, PTL

\* While sockets are named between songs and writes succeed, each socket gets a format
\* before audio.
THEOREM FormatPrecedesAudioHolds == Spec => []FormatPrecedesAudio
<1>1. IInv => FormatPrecedesAudio
  BY DEF IInv
<1> QED
  BY <1>1, Invariant, PTL
=============================================================================
