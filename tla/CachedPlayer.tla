----------------------------- MODULE CachedPlayer ------------------------------
(***************************************************************************)
(* CachedPlayer, with SocksoService.setAudioSocketName: the application's  *)
(* binder threads call playSong and setAudioSocketName, and the thread of  *)
(* the serial executor runs the tasks that fetch and decode the songs and  *)
(* hand each decoded chunk to the one callback object cb of the player.    *)
(*                                                                         *)
(* The two sides share the fields pcmBuffer, bufferingFinished and socket  *)
(* with no lock: handlePcmChunk reads the field pcmBuffer anew for every   *)
(* operation on it, so each of them is a step.                             *)
(*                                                                         *)
(* A chunk is one unit of data: the play it belongs to and its number.     *)
(* Zeros are a fresh buffer's bytes.  What the player writes to its socket *)
(* is recorded in sent.                                                    *)
(***************************************************************************)
EXTENDS Integers, Sequences

CONSTANTS Chunks,        \* the chunks a song is decoded into, for each play
          Threshold,     \* bufferThreshold, in chunks
          Capacity,      \* bufferSize, in chunks
          MaxSockets     \* bound: audio sockets named

Plays == DOMAIN Chunks
Zero == [play |-> 0, chunk |-> 0]

ASSUME PlaysAssumption == Chunks \in Seq(Nat)
ASSUME BufferAssumption ==
  Threshold \in Nat \ {0} /\ Capacity \in Nat /\ Threshold <= Capacity
ASSUME PlayerBoundAssumption == MaxSockets \in Nat

VARIABLES
  plays,             \* calls of playSong so far; a play is known by its number
  caller,            \* where the thread in playSong is
  socket,            \* the player's audio socket, by number; 0 is null
  named,             \* audio sockets named so far
  pcmBuffer,         \* what the buffer holds, and whether it was flipped
  bufferingFinished,
  tasks,             \* the plays whose task is on the executor, in order
  pc,                \* where the executor's thread is in the callback
  chunk,             \* the chunks of the running task that were decoded
  justStarted,       \* handlePcmChunk's local variables
  pcm,
  sent,              \* history: what was written, in order
  started,           \* history: the play asked for last, at each onPlaybackStarted
  happened           \* history: what made playing more than a song at a time

fields == <<socket, pcmBuffer, bufferingFinished>>
locals == <<chunk, justStarted, pcm>>
vars == <<plays, caller, named, fields, tasks, pc, locals, sent, started,
          happened>>

\* playSong while a song is under way; a socket named while a song is under way;
\* a write that fails.
Happenings == {"overlap", "switch", "failure"}

Fresh == [data |-> <<>>, flipped |-> FALSE]
Items == [socket: 1..MaxSockets, format: BOOLEAN, play: 0..Len(Chunks), chunk: Nat]

Init ==
  /\ plays = 0 /\ caller = "idle"
  /\ socket = 0 /\ named = 0
  /\ pcmBuffer = Fresh
  /\ bufferingFinished = FALSE
  /\ tasks = <<>>
  /\ pc = "fetch"
  /\ chunk = 0 /\ justStarted = FALSE /\ pcm = <<>>
  /\ sent = <<>>
  /\ started = <<>>
  /\ happened = {}

-----------------------------------------------------------------------------
(* The application's calls. *)

UnderWay(what) ==
  happened' = IF tasks = <<>> THEN happened ELSE happened \cup {what}

\* new AudioClientSocket().connect(name), player.setAudioSocket(socket).  The
\* old socket stays connected and nothing is written to the new one.
SetAudioSocketName ==
  /\ named < MaxSockets
  /\ named' = named + 1
  /\ socket' = named + 1
  /\ UnderWay("switch")
  /\ UNCHANGED <<plays, caller, pcmBuffer, bufferingFinished, tasks, pc, locals,
                 sent, started>>

\* connect throws: the player keeps the socket it has.
ConnectFails ==
  /\ socket # 0
  /\ named < MaxSockets
  /\ named' = named + 1
  /\ UNCHANGED <<plays, caller, fields, tasks, pc, locals, sent, started, happened>>

\* playSong: pcmBuffer = ByteBuffer.allocateDirect(bufferSize);
PlaySong ==
  /\ caller = "idle"
  /\ plays < Len(Chunks)
  /\ socket # 0
  /\ plays' = plays + 1
  /\ UnderWay("overlap")
  /\ pcmBuffer' = Fresh
  /\ caller' = "reset"
  /\ UNCHANGED <<socket, named, bufferingFinished, tasks, pc, locals, sent,
                 started>>

\* Mutant of Reset: the flag keeps the last song's value.
ResetNothing == bufferingFinished

Reset == FALSE

\* bufferingFinished = false;
ResetBuffering ==
  /\ caller = "reset"
  /\ bufferingFinished' = Reset
  /\ caller' = "execute"
  /\ UNCHANGED <<plays, socket, named, pcmBuffer, tasks, pc, locals, sent,
                 started, happened>>

\* task.execute: the task goes behind the ones that run or wait.
Execute ==
  /\ caller = "execute"
  /\ tasks' = Append(tasks, plays)
  /\ caller' = "idle"
  /\ UNCHANGED <<plays, named, fields, pc, locals, sent, started, happened>>

-----------------------------------------------------------------------------
(* The executor's thread: the task, and the callback cb it calls. *)

Playing == Head(tasks)
Write(items) == sent' = sent \o items

\* Mutant of FormatItem: a format is sent once.
FormatOnce ==
  IF sent = <<>>
  THEN <<[socket |-> socket, format |-> TRUE, play |-> Playing, chunk |-> 0]>>
  ELSE <<>>

\* socket.writeFormatData(channels, sampleRate)
FormatItem ==
  <<[socket |-> socket, format |-> TRUE, play |-> Playing, chunk |-> 0]>>

\* setMediaFormat, when the task knows the format.
Format ==
  /\ pc = "fetch"
  /\ tasks # <<>> /\ chunk = 0
  /\ Write(FormatItem)
  /\ pc' = "decode"
  /\ UNCHANGED <<plays, caller, named, fields, tasks, locals, started, happened>>

\* setMediaFormat's write fails: logged.
FormatFails ==
  /\ pc = "fetch"
  /\ tasks # <<>> /\ chunk = 0
  /\ pc' = "decode"
  /\ happened' = happened \cup {"failure"}
  /\ UNCHANGED <<plays, caller, named, fields, tasks, locals, sent, started>>

\* handlePcmChunk: pcmBuffer.put(chunk);
PutChunk ==
  /\ pc = "decode"
  /\ chunk < Chunks[Playing]
  /\ chunk' = chunk + 1
  /\ pcmBuffer' = [pcmBuffer EXCEPT !.data =
                     Append(@, [play |-> Playing, chunk |-> chunk + 1])]
  /\ justStarted' = FALSE
  /\ pc' = "check"
  /\ UNCHANGED <<plays, caller, named, socket, bufferingFinished, tasks, pcm, sent,
                 started, happened>>

AfterCheck(finished) == IF finished THEN "flip" ELSE "decode"

\* if (!bufferingFinished) and the position is at the threshold: started.
CheckThreshold ==
  /\ pc = "check"
  /\ LET starts == ~bufferingFinished /\ Len(pcmBuffer.data) >= Threshold IN
       /\ justStarted' = starts
       /\ bufferingFinished' = (bufferingFinished \/ starts)
       /\ pc' = AfterCheck(bufferingFinished \/ starts)
  /\ UNCHANGED <<plays, caller, named, socket, pcmBuffer, tasks, chunk, pcm, sent,
                 started, happened>>

Flipped == [pcmBuffer EXCEPT !.flipped = TRUE]

\* pcmBuffer.flip();
Flip ==
  /\ pc = "flip"
  /\ pcmBuffer' = Flipped
  /\ pc' = "remaining"
  /\ UNCHANGED <<plays, caller, named, socket, bufferingFinished, tasks, locals,
                 sent, started, happened>>

\* Mutant of Remaining: position() of a flipped buffer.
RemainingNone == IF pcmBuffer.flipped THEN 0 ELSE Capacity

\* remaining(): what a flipped buffer holds, and the room of another one.
Remaining == IF pcmBuffer.flipped THEN Len(pcmBuffer.data) ELSE Capacity

\* byte[] pcm = new byte[pcmBuffer.remaining()];
Allocate ==
  /\ pc = "remaining"
  /\ pcm' = [i \in 1..Remaining |-> Zero]
  /\ pc' = "get"
  /\ UNCHANGED <<plays, caller, named, fields, tasks, chunk, justStarted, sent,
                 started, happened>>

\* pcmBuffer.get(pcm); a fresh buffer gives zeros, and so does the array that
\* BufferUnderflowException leaves as it is.
Get ==
  /\ pc = "get"
  /\ pcm' = IF pcmBuffer.flipped /\ Len(pcm) <= Len(pcmBuffer.data)
            THEN SubSeq(pcmBuffer.data, 1, Len(pcm))
            ELSE pcm
  /\ pc' = "clear"
  /\ UNCHANGED <<plays, caller, named, fields, tasks, chunk, justStarted, sent,
                 started, happened>>

\* Mutant of Cleared: clear() is left out.
NotCleared == [pcmBuffer EXCEPT !.flipped = FALSE]

Cleared == Fresh

\* pcmBuffer.clear();
Clear ==
  /\ pc = "clear"
  /\ pcmBuffer' = Cleared
  /\ pc' = "write"
  /\ UNCHANGED <<plays, caller, named, socket, bufferingFinished, tasks, locals,
                 sent, started, happened>>

\* socket.writeAudioData(pcm, 0, pcm.length);
WriteAudio ==
  /\ pc = "write"
  /\ Write([i \in 1..Len(pcm) |->
              [socket |-> socket, format |-> FALSE,
               play |-> pcm[i].play, chunk |-> pcm[i].chunk]])
  /\ pc' = IF justStarted THEN "callback" ELSE "decode"
  /\ UNCHANGED <<plays, caller, named, fields, tasks, locals, started, happened>>

\* An IOException is logged, and the callback is not called.
WriteFails ==
  /\ pc = "write"
  /\ pc' = "decode"
  /\ happened' = happened \cup {"failure"}
  /\ UNCHANGED <<plays, caller, named, fields, tasks, locals, sent, started>>

\* playerCallback.onPlaybackStarted();
PlaybackStarted ==
  /\ pc = "callback"
  /\ started' = Append(started, plays)
  /\ pc' = "decode"
  /\ UNCHANGED <<plays, caller, named, fields, tasks, locals, sent, happened>>

\* The song is decoded to its end; nothing tells the player.
TaskEnds ==
  /\ pc = "decode"
  /\ chunk = Chunks[Playing]
  /\ tasks' = Tail(tasks)
  /\ chunk' = 0
  /\ pc' = "fetch"
  /\ UNCHANGED <<plays, caller, named, fields, justStarted, pcm, sent, started, happened>>

Finished ==
  /\ plays = Len(Chunks) /\ caller = "idle" /\ tasks = <<>>
  /\ UNCHANGED vars

Callback ==
  \/ PutChunk \/ CheckThreshold \/ Flip \/ Allocate \/ Get \/ Clear
  \/ WriteAudio \/ WriteFails \/ PlaybackStarted

Next ==
  \/ SetAudioSocketName \/ ConnectFails
  \/ PlaySong \/ ResetBuffering \/ Execute
  \/ Format \/ FormatFails \/ TaskEnds
  \/ Callback
  \/ Finished

Spec == Init /\ [][Next]_vars

\* A call of playSong goes on and a song is fetched and decoded to its end.
\* The application need not call.
Fairness ==
  /\ WF_vars(ResetBuffering) /\ WF_vars(Execute)
  /\ WF_vars(Format \/ FormatFails) /\ WF_vars(TaskEnds)
  /\ WF_vars(Callback)

FairSpec == Spec /\ Fairness

-----------------------------------------------------------------------------
Units == [play: 0..Len(Chunks), chunk: Nat]
Buffers == [data: Seq(Units), flipped: BOOLEAN]

TypeOK ==
  /\ plays \in 0..Len(Chunks)
  /\ caller \in {"idle", "reset", "execute"}
  /\ named \in 0..MaxSockets
  /\ socket \in 0..named
  /\ pcmBuffer \in Buffers
  /\ Len(pcmBuffer.data) <= Capacity
  /\ bufferingFinished \in BOOLEAN
  /\ tasks \in Seq(Plays)
  /\ pc \in {"fetch", "decode", "check", "flip", "remaining", "get", "clear",
             "write", "callback"}
  /\ chunk \in Nat
  /\ justStarted \in BOOLEAN
  /\ pcm \in Seq(Units)
  /\ sent \in Seq(Items)
  /\ started \in Seq(Plays)
  /\ happened \subseteq Happenings

Later(i, j) == i.play < j.play \/ (i.play = j.play /\ i.chunk < j.chunk)

\* A decoded chunk was written, not a format nor zeros.
Decoded(item) == ~item.format /\ item.play # 0

\* However playSong, a switch of the socket and failed writes fall between
\* the steps of handlePcmChunk, no chunk is written twice or out of order.
NeverRepeats ==
  \A i, j \in 1..Len(sent) :
    i < j /\ Decoded(sent[i]) /\ Decoded(sent[j]) => Later(sent[i], sent[j])

Only(what) == happened \subseteq what
IsSent(p, k) ==
  \E i \in 1..Len(sent) : ~sent[i].format /\ sent[i].play = p /\ sent[i].chunk = k

\* "The decoded samples must then be sent to the main app using the audio
\* socket": when a song's task has ended all its chunks were written, if they
\* reach the threshold and one song was played at a time.
SongIsSent ==
  Only({"switch"}) /\ tasks = <<>> /\ caller = "idle" =>
    \A p \in 1..plays :
      Chunks[p] >= Threshold => \A k \in 1..Chunks[p] : IsSent(p, k)

\* As long as the socket is named between songs and the writes succeed, a socket
\* gets the format before any audio, also when songs overlap.  (Not more: a
\* socket named while a song plays gets audio first.)
FormatPrecedesAudio ==
  Only({"overlap"}) =>
    \A i \in 1..Len(sent) :
      ~sent[i].format =>
        \E j \in 1..(i - 1) : sent[j].format /\ sent[j].socket = sent[i].socket

\* Every song that reaches the threshold and is played alone is announced.
SongIsAnnounced ==
  \A p \in Plays :
    plays = p /\ Chunks[p] >= Threshold ~>
      ~Only({"switch"}) \/ \E i \in DOMAIN started : started[i] = p
=============================================================================
