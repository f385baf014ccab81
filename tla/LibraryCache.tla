----------------------------- MODULE LibraryCache -----------------------------
(***************************************************************************)
(* CachedSocksoLibraryProvider and ApiRequestTask: the provider's cache of *)
(* the Sockso server's albums, artists and songs.                          *)
(*                                                                         *)
(* Every AIDL call arrives on a binder thread of its own.  It submits an   *)
(* ApiRequestTask and spins until the task's status is FINISHED.  The      *)
(* tasks (and the task that fetches a song to play) run one after the      *)
(* other on AsyncTask's serial executor; their answers are handled one     *)
(* after the other on the main thread, which is where the HashMaps are     *)
(* filled.  Nothing synchronises the binder threads' reads of those maps.  *)
(*                                                                         *)
(* An entity is its id.  A map is the set of its keys and, for the objects *)
(* that other answers change, the contents of the object each key has.  An *)
(* Album object that a put replaces stays in the lists that callers took.  *)
(***************************************************************************)
EXTENDS Integers, Sequences, FiniteSets, SequencesExt

CONSTANTS Callers,      \* binder threads
          Artists,      \* the server's artists,
          Albums,       \* albums
          Songs,        \* and songs, by id
          SongList,     \* the songs in the order in which it lists them
          ArtistOf,     \* the artist of each album
          AlbumOf,      \* the album of each song
          Kinds,        \* the calls that are made
          Limit,        \* the batch size of getSongs
          MaxCalls      \* bound: calls made

NoId == -1

ASSUME LibraryAssumption ==
  /\ Artists \cup Albums \cup Songs \subseteq Nat
  /\ IsFiniteSet(Artists) /\ IsFiniteSet(Albums) /\ IsFiniteSet(Songs)
  /\ SongList \in SetToSeqs(Songs)
  /\ ArtistOf \in [Albums -> Artists]
  /\ AlbumOf \in [Songs -> Albums]
ASSUME KindAssumption ==
  Kinds \subseteq {"albums", "artists", "songs", "album", "artist", "song", "play"}
ASSUME LibraryBoundAssumption == Limit \in Nat \ {0} /\ MaxCalls \in Nat

VARIABLES
  calls,        \* calls made so far
  pc,           \* where each caller is
  call,         \* the call it makes, or made last
  status,       \* the status of the task it waits for
  page,         \* the batch of songs it asks for next
  list,         \* getAlbums, getArtists: the ids in the list it took
  live,         \* the albums of that list that the map still holds
  listSongs,    \* the songs of each Album object of that list
  todo,         \* the ids whose details it has to fetch
  executor,     \* the tasks submitted, in order; the first one runs
  looper,       \* the answers posted to the main thread, in order, each with
                \* the entities left to handle; the first one is handled
  half,         \* whether the first entity's first step has been done
  albums,       \* the keys of the map albums
  albumSongs,   \* the songs of each Album object in it
  artists,      \* the keys of the map artists
  artistAlbums, \* the albums of each Artist object in it
  songs,        \* the keys of the maps songs and songIndices
  bare,         \* history: the albums whose object getAlbum has put
  cut,          \* history: whether an answer was cut short by its bad JSON
  alive         \* the provider's process

callerVars == <<calls, pc, call, status, page, list, todo>>
listVars == <<live, listSongs>>
taskVars == <<executor, looper, half>>
mapVars == <<albums, albumSongs, artists, artistAlbums, songs>>
vars == <<callerVars, listVars, taskVars, mapVars, bare, cut, alive>>

SongsOf(a) == {s \in Songs : AlbumOf[s] = a}
AlbumsOf(r) == {a \in Albums : ArtistOf[a] = r}
Batches == (Cardinality(Songs) + Limit - 1) \div Limit
ServerPage(offset) ==
  SubSeq(SongList, offset + 1,
         IF offset + Limit < Len(SongList) THEN offset + Limit ELSE Len(SongList))

Init ==
  /\ calls = 0
  /\ pc = [c \in Callers |-> "idle"]
  /\ call = [c \in Callers |-> [kind |-> "play", of |-> NoId]]
  /\ status = [c \in Callers |-> "PENDING"]
  /\ page = [c \in Callers |-> 0]
  /\ list = [c \in Callers |-> {}]
  /\ live = [c \in Callers |-> {}]
  /\ listSongs = [c \in Callers |-> [a \in Albums |-> {}]]
  /\ todo = [c \in Callers |-> {}]
  /\ executor = <<>> /\ looper = <<>> /\ half = FALSE
  /\ albums = {} /\ artists = {} /\ songs = {}
  /\ albumSongs = [a \in Albums |-> {}]
  /\ artistAlbums = [r \in Artists |-> {}]
  /\ bare = {} /\ cut = FALSE
  /\ alive = TRUE

-----------------------------------------------------------------------------
(* The binder threads. *)

\* containsKey(ref)
Known(k, id) == \/ k = "album" /\ id \in albums
                \/ k = "artist" /\ id \in artists
                \/ k = "song" /\ id \in songs

\* new ApiRequestTask().execute(...): the status is RUNNING from here on.
Submit(c, k, id) ==
  /\ executor' = Append(executor, [by |-> c, kind |-> k, of |-> id])
  /\ status' = [status EXCEPT ![c] = "RUNNING"]

Begin(c, k, id) ==
  /\ alive
  /\ pc[c] = "idle"
  /\ calls < MaxCalls
  /\ k \in Kinds
  /\ calls' = calls + 1
  /\ call' = [call EXCEPT ![c] = [kind |-> k, of |-> id]]

\* getAlbums, getArtists, and getAlbum, getArtist, getSong of a reference
\* that is not in the map.
Request(c, k, id) ==
  /\ Begin(c, k, id)
  /\ ~Known(k, id)
  /\ Submit(c, k, id)
  /\ pc' = [pc EXCEPT ![c] = "wait"]
  /\ UNCHANGED <<page, list, todo, listVars, looper, half, mapVars, bare, cut, alive>>

\* Mutant of AfterHit: the loop is not inside the if.
SpinAfterHit == "wait"

\* The reference is there: no task, and no wait for one.
AfterHit == "found"

\* getAlbum, getArtist, getSong of a reference that is in the map.
Hit(c, k, id) ==
  /\ Begin(c, k, id)
  /\ Known(k, id)
  /\ pc' = [pc EXCEPT ![c] = AfterHit]
  /\ UNCHANGED <<status, page, list, todo, listVars, taskVars, mapVars, bare, cut, alive>>

\* getSongs(offset, limit): the application reads the library in batches.
RequestPage(c) ==
  /\ Begin(c, "songs", page[c] * Limit)
  /\ Submit(c, "songs", page[c] * Limit)
  /\ page' = [page EXCEPT ![c] = IF @ + 1 < Batches THEN @ + 1 ELSE 0]
  /\ pc' = [pc EXCEPT ![c] = "wait"]
  /\ UNCHANGED <<list, todo, listVars, looper, half, mapVars, bare, cut, alive>>

\* playSong: the task that fetches the song goes to the same executor, and
\* the call returns.
Play(c) ==
  /\ Begin(c, "play", NoId)
  /\ executor' = Append(executor, [by |-> c, kind |-> "play", of |-> NoId])
  /\ UNCHANGED <<pc, status, page, list, todo, listVars, looper, half, mapVars, bare, cut,
                 alive>>

\* Mutant of Awaited: the loop waits for the task to be submitted.
NotPending(c) == status[c] # "PENDING"

\* while (task.getStatus() != AsyncTask.Status.FINISHED);
Awaited(c) == status[c] = "FINISHED"

\* new ArrayList<>(albums.values()): the Album objects the map holds now.
TakeAlbums(c) ==
  /\ alive
  /\ pc[c] = "wait" /\ call[c].kind = "albums"
  /\ Awaited(c)
  /\ list' = [list EXCEPT ![c] = albums]
  /\ todo' = [todo EXCEPT ![c] = albums]
  /\ live' = [live EXCEPT ![c] = albums]
  /\ listSongs' = [listSongs EXCEPT ![c] = albumSongs]
  /\ pc' = [pc EXCEPT ![c] = "details"]
  /\ UNCHANGED <<calls, call, status, page, taskVars, mapVars, bare, cut, alive>>

\* new ArrayList<>(artists.values())
TakeArtists(c) ==
  /\ alive
  /\ pc[c] = "wait" /\ call[c].kind = "artists"
  /\ Awaited(c)
  /\ list' = [list EXCEPT ![c] = artists]
  /\ todo' = [todo EXCEPT ![c] = artists]
  /\ pc' = [pc EXCEPT ![c] = "details"]
  /\ UNCHANGED <<calls, call, status, page, listVars, taskVars, mapVars, bare, cut, alive>>

\* Mutant of DetailKind: the list is requested again.
DetailKindAgain(c) == call[c].kind

\* GetAlbumSongsParams, GetArtistDetailsParams
DetailKind(c) == IF call[c].kind = "albums" THEN "albumSongs" ELSE "artist"

\* The songs of the next album of the list, the details of the next artist.
FetchDetails(c) ==
  /\ alive
  /\ pc[c] = "details"
  /\ Awaited(c)
  /\ \E id \in todo[c] :
       /\ Submit(c, DetailKind(c), id)
       /\ todo' = [todo EXCEPT ![c] = @ \ {id}]
  /\ UNCHANGED <<calls, pc, call, page, list, listVars, looper, half, mapVars, bare, cut,
                 alive>>

Return(c) ==
  /\ alive
  /\ \/ pc[c] = "found"
     \/ pc[c] = "details" /\ todo[c] = {} /\ Awaited(c)
     \/ pc[c] = "wait" /\ call[c].kind \notin {"albums", "artists"} /\ Awaited(c)
  /\ pc' = [pc EXCEPT ![c] = "idle"]
  /\ list' = [list EXCEPT ![c] = {}]
  /\ live' = [live EXCEPT ![c] = {}]
  /\ listSongs' = [listSongs EXCEPT ![c] = [a \in Albums |-> {}]]
  /\ UNCHANGED <<calls, call, status, page, todo, taskVars, mapVars, bare, cut, alive>>

-----------------------------------------------------------------------------
(* The executor's thread. *)

\* The ids in the server's answers; the order is the server's.  limit and
\* offset travel as headers: a server that does not look there answers with
\* every song.
Answers(t) ==
  CASE t.kind = "albums" -> SetToSeqs(Albums)
    [] t.kind = "artists" -> SetToSeqs(Artists)
    [] t.kind = "songs" -> {ServerPage(t.of), SongList}
    [] t.kind = "albumSongs" -> SetToSeqs(SongsOf(t.of))
    [] OTHER -> {<<t.of>>}

\* The end of doInBackground: the first task is done and its answer is posted.
Post(null, ids) ==
  /\ alive
  /\ executor # <<>> /\ Head(executor).kind # "play"
  /\ looper' = Append(looper, [by |-> Head(executor).by, kind |-> Head(executor).kind,
                               null |-> null, ids |-> ids])
  /\ executor' = Tail(executor)
  /\ UNCHANGED <<callerVars, listVars, half, mapVars, bare, cut, alive>>

Answer ==
  /\ executor # <<>>
  /\ \E ids \in Answers(Head(executor)) : Post(FALSE, ids)

\* An exception or a status outside 200..299: doInBackground returns null.
RequestFails == Post(TRUE, <<>>)

\* The task that fetches a song to play ends; its chunks are CachedPlayer's.
PlayEnds ==
  /\ alive
  /\ executor # <<>> /\ Head(executor).kind = "play"
  /\ executor' = Tail(executor)
  /\ UNCHANGED <<callerVars, listVars, looper, half, mapVars, bare, cut, alive>>

-----------------------------------------------------------------------------
(* The main thread. *)

\* handleApiResponse(null): a NullPointerException that nobody catches.
HandleNull ==
  /\ alive
  /\ looper # <<>> /\ Head(looper).null
  /\ alive' = FALSE
  /\ UNCHANGED <<callerVars, listVars, taskVars, mapVars, bare, cut>>

\* The callback that handles the answer to a task.
Handler(k) == CASE k \in {"albums", "album"} -> "albumsCallback"
                [] k \in {"artists", "artist"} -> "artistsCallback"
                [] OTHER -> "getSongsCallback"

\* handleApiResponse has an entity left, and has done its first step or not.
Handles(h, done) ==
  /\ alive
  /\ looper # <<>> /\ ~Head(looper).null /\ Head(looper).ids # <<>>
  /\ Handler(Head(looper).kind) = h
  /\ half = done
  /\ UNCHANGED <<callerVars, executor, cut, alive>>

This == Head(Head(looper).ids)

FirstStep == half' = TRUE /\ UNCHANGED looper

LastStep ==
  /\ looper' = [looper EXCEPT ![1].ids = Tail(@)]
  /\ half' = FALSE

\* albums.put(ref, new Album(ref)): the object the map had, if any, is now
\* only in the callers' lists, and the new one has no songs.
PutAlbum ==
  /\ Handles("albumsCallback", FALSE)
  /\ albums' = albums \cup {This}
  /\ albumSongs' = [albumSongs EXCEPT ![This] = {}]
  /\ live' = [c \in Callers |-> live[c] \ {This}]
  /\ bare' = IF Head(looper).kind = "album" THEN bare \cup {This} ELSE bare \ {This}
  /\ FirstStep
  /\ UNCHANGED <<listSongs, artists, artistAlbums, songs>>

\* artists.get(artistRef).addAlbum(alb.getRef()), if the artist is there.
LinkArtist ==
  /\ Handles("albumsCallback", TRUE)
  /\ artistAlbums' =
       [r \in Artists |-> IF r \in artists /\ ArtistOf[This] = r
                          THEN artistAlbums[r] \cup {This} ELSE artistAlbums[r]]
  /\ LastStep
  /\ UNCHANGED <<albums, albumSongs, artists, songs, listVars, bare>>

\* Mutant of ArtistObjects: the albums in the answer are left out.
BareArtists(k, r) == {{}}

\* art.addAlbum for each album of the answer, if it has them: an artist's details
\* do, and the list of all artists may.
ArtistObjects(k, r) == IF k = "artists" THEN {{}, AlbumsOf(r)} ELSE {AlbumsOf(r)}

\* artists.put(art.getRef(), art)
PutArtist ==
  /\ Handles("artistsCallback", FALSE)
  /\ artists' = artists \cup {This}
  /\ \E as \in ArtistObjects(Head(looper).kind, This) :
       artistAlbums' = [artistAlbums EXCEPT ![This] = as]
  /\ LastStep
  /\ UNCHANGED <<albums, albumSongs, songs, listVars, bare>>

\* Mutant of InAlbum: a song that is in the map is taken for linked.
InAlbumOnce(s, a) == AlbumOf[s] = a /\ a \in albums /\ s \notin songs

\* albums.containsKey(s.getAlbum())
InAlbum(s, a) == AlbumOf[s] = a /\ a \in albums

\* albums.get(s.getAlbum()).addSong(s.getRef()), if the album is there: the
\* object in the map, and so the callers' lists that hold it, get the song.
LinkAlbum ==
  /\ Handles("getSongsCallback", FALSE)
  /\ albumSongs' = [a \in Albums |-> IF InAlbum(This, a) THEN albumSongs[a] \cup {This}
                                     ELSE albumSongs[a]]
  /\ listSongs' = [c \in Callers |-> [a \in Albums |->
                     IF InAlbum(This, a) /\ a \in live[c]
                     THEN listSongs[c][a] \cup {This} ELSE listSongs[c][a]]]
  /\ FirstStep
  /\ UNCHANGED <<albums, artists, artistAlbums, songs, live, bare>>

\* songs.put(ref, s); songIndices.put(id, ref)
PutSong ==
  /\ Handles("getSongsCallback", TRUE)
  /\ songs' = songs \cup {This}
  /\ LastStep
  /\ UNCHANGED <<albums, albumSongs, artists, artistAlbums, listVars, bare>>

\* A JSONException: the rest of the answer is dropped.  The song's fields are
\* all read before it is linked, the album's artist after the album is put.
JsonError ==
  /\ alive
  /\ looper # <<>> /\ ~Head(looper).null /\ Head(looper).ids # <<>>
  /\ Handler(Head(looper).kind) = "getSongsCallback" => ~half
  /\ looper' = [looper EXCEPT ![1].ids = <<>>]
  /\ half' = FALSE
  /\ cut' = TRUE
  /\ UNCHANGED <<callerVars, listVars, executor, mapVars, bare, alive>>

\* onPostExecute has returned: AsyncTask.finish sets the status.
Finish ==
  /\ alive
  /\ looper # <<>> /\ ~Head(looper).null /\ Head(looper).ids = <<>>
  /\ status' = [status EXCEPT ![Head(looper).by] = "FINISHED"]
  /\ looper' = Tail(looper)
  /\ UNCHANGED <<calls, pc, call, page, list, todo, listVars, executor, half,
                 mapVars, bare, cut, alive>>

\* Nothing is under way.
Rest ==
  /\ \A c \in Callers : pc[c] = "idle"
  /\ executor = <<>> /\ looper = <<>>

Finished ==
  /\ ~alive \/ (Rest /\ calls = MaxCalls)
  /\ UNCHANGED vars

-----------------------------------------------------------------------------
CallerNext(c) ==
  \/ \E k \in {"albums", "artists"} : Request(c, k, NoId)
  \/ \E id \in Albums : Request(c, "album", id) \/ Hit(c, "album", id)
  \/ \E id \in Artists : Request(c, "artist", id) \/ Hit(c, "artist", id)
  \/ \E id \in Songs : Request(c, "song", id) \/ Hit(c, "song", id)
  \/ RequestPage(c) \/ Play(c)
  \/ TakeAlbums(c) \/ TakeArtists(c) \/ FetchDetails(c) \/ Return(c)

MainNext ==
  \/ PutAlbum \/ LinkArtist \/ PutArtist \/ LinkAlbum \/ PutSong
  \/ HandleNull \/ JsonError \/ Finish

Next ==
  \/ \E c \in Callers : CallerNext(c)
  \/ Answer \/ RequestFails \/ PlayEnds
  \/ MainNext
  \/ Finished

Spec == Init /\ [][Next]_vars

\* Every thread runs, the server answers or the request fails, and a song is
\* fetched to its end.
Fairness ==
  /\ \A c \in Callers : /\ WF_vars(TakeAlbums(c)) /\ WF_vars(TakeArtists(c))
                        /\ WF_vars(FetchDetails(c)) /\ WF_vars(Return(c))
  /\ WF_vars(Answer \/ RequestFails) /\ WF_vars(PlayEnds)
  /\ WF_vars(MainNext)

FairSpec == Spec /\ Fairness

-----------------------------------------------------------------------------
Calls == [kind: {"albums", "artists", "play"}, of: {NoId}]
         \cup [kind: {"album"}, of: Albums]
         \cup [kind: {"artist"}, of: Artists]
         \cup [kind: {"song"}, of: Songs]
         \cup [kind: {"songs"}, of: Nat]

Tasks == [by: Callers, kind: {"albums", "artists", "play"}, of: {NoId}]
         \cup [by: Callers, kind: {"album", "albumSongs"}, of: Albums]
         \cup [by: Callers, kind: {"artist"}, of: Artists]
         \cup [by: Callers, kind: {"song"}, of: Songs]
         \cup [by: Callers, kind: {"songs"}, of: Nat]

Replies ==
  [by: Callers, kind: {"albums", "album"}, null: BOOLEAN, ids: Seq(Albums)]
  \cup [by: Callers, kind: {"artists", "artist"}, null: BOOLEAN, ids: Seq(Artists)]
  \cup [by: Callers, kind: {"songs", "song", "albumSongs"}, null: BOOLEAN,
        ids: Seq(Songs)]

TypeOK ==
  /\ calls \in 0..MaxCalls
  /\ pc \in [Callers -> {"idle", "wait", "found", "details"}]
  /\ call \in [Callers -> Calls]
  /\ status \in [Callers -> {"PENDING", "RUNNING", "FINISHED"}]
  /\ page \in [Callers -> Nat]
  /\ list \in [Callers -> SUBSET (Albums \cup Artists)]
  /\ live \in [Callers -> SUBSET Albums]
  /\ listSongs \in [Callers -> [Albums -> SUBSET Songs]]
  /\ todo \in [Callers -> SUBSET (Albums \cup Artists)]
  /\ executor \in Seq(Tasks)
  /\ looper \in Seq(Replies) /\ half \in BOOLEAN
  /\ albums \in SUBSET Albums
  /\ albumSongs \in [Albums -> SUBSET Songs]
  /\ artists \in SUBSET Artists
  /\ artistAlbums \in [Artists -> SUBSET Albums]
  /\ songs \in SUBSET Songs
  /\ bare \in SUBSET Albums /\ cut \in BOOLEAN
  /\ alive \in BOOLEAN

Returns(c) == pc[c] # "idle" /\ pc'[c] = "idle"

\* "Returns the list of all albums", with their songs: every album of the
\* server is in the list getAlbums returns, and the ones whose object no other
\* call has replaced meanwhile list all their songs, whatever calls run beside,
\* as long as the answers are the JSON they should be.
ListHasItsSongs ==
  [][\A c \in Callers :
       Returns(c) /\ call[c].kind = "albums" /\ ~cut =>
         /\ list[c] = Albums
         /\ \A a \in live[c] : listSongs[c][a] = SongsOf(a)]_vars

\* getSong, getAlbum, getArtist "must not return null however, unless the
\* reference is invalid": the read that follows the spin finds what the task
\* has put in the map, as long as the answers are the JSON they should be.
NeverNull ==
  [][\A c \in Callers : Returns(c) /\ ~cut =>
       /\ call[c].kind = "album" => call[c].of \in albums
       /\ call[c].kind = "artist" => call[c].of \in artists
       /\ call[c].kind = "song" => call[c].of \in songs]_vars

\* What getSongs(offset, limit) returns: it looks the positions up as ids.
ReturnedPage(offset) ==
  LET end == IF offset + Limit < Cardinality(songs) THEN offset + Limit
             ELSE Cardinality(songs)
  IN [i \in 1..(end - offset) |->
        IF offset + i - 1 \in songs THEN offset + i - 1 ELSE NoId]

\* "A list of all songs available on the provider in the requested
\* [offset, offset+limit] range": the batches the application reads one after
\* the other are the server's, with no song missing and no null among them (as
\* long as the answers are the JSON they should be).
PageIsRange ==
  [][\A c \in Callers :
       Returns(c) /\ call[c].kind = "songs" /\ ~cut =>
         ReturnedPage(call[c].of) = ServerPage(call[c].of)]_vars

\* However the calls' answers interleave, when none is left every album whose
\* object getAlbums has put lists all its songs: who replaced the object last
\* has also fetched the songs after that.  (getAlbum puts an object without
\* songs and fetches none.)
AlbumsCompleteAtRest ==
  Rest /\ ~cut => \A a \in albums \ bare : albumSongs[a] = SongsOf(a)

\* When no answer is left every artist of the map lists all its albums: who put
\* one from a list that leaves them out has fetched its details after that.
ArtistsCompleteAtRest ==
  Rest /\ ~cut => \A r \in artists : artistAlbums[r] = AlbumsOf(r)

\* Every call comes back, unless the process dies.
CallReturns ==
  \A c \in Callers : pc[c] # "idle" ~> (pc[c] = "idle" \/ ~alive)
=============================================================================
