--------------------------- MODULE CallbackRegistry ---------------------------
(***************************************************************************)
(* SocksoService's list of IProviderCallback: registerCallback,            *)
(* unregisterCallback and onDestroy on the application's side, and         *)
(* onPlaybackStarted on the thread that fetches a song.                    *)
(*                                                                         *)
(* The list is a java.util.ArrayList.  Its iterators check modCount, and   *)
(* its add is not atomic: it reads size, writes size, then stores the      *)
(* element.  Every use of the list is inside synchronized (mCallbacks) but *)
(* registerCallback's add.  A callback is known by its identifier, which   *)
(* getIdentifier() asks the application for: the call fails once the       *)
(* application's process is dead.                                          *)
(***************************************************************************)
EXTENDS Integers, FiniteSets

CONSTANTS Binders,       \* the binder threads the application calls on
          Player,        \* the thread that fetches songs
          Ids,           \* the identifiers of callbacks
          Capacity,      \* bound: elements the list is given
          MaxCalls       \* bound: calls and notifications

Null == "null"
NoOne == "nobody"
Threads == Binders \cup {Player}

ASSUME RegistryThreadsAssumption == Player \notin Binders /\ NoOne \notin Threads
ASSUME IdsAssumption == Null \notin Ids
ASSUME RegistryBoundAssumption == Capacity \in Nat /\ MaxCalls \in Nat

VARIABLES
  pc,           \* where each thread is
  cbId,         \* the identifier each binder thread's call is about
  cursor,       \* the next index of each thread's iterator
  expected,     \* the modCount each thread's iterator expects
  index,        \* the size each thread's add has read
  monitor,      \* the thread inside synchronized (mCallbacks)
  elementData,  \* the list's array,
  size,         \* its size
  modCount,     \* and how often it changed
  dead,         \* the callbacks whose process is dead
  destroyed,    \* onDestroy has run
  crashed,      \* an exception nobody catches ended the provider's process
  calls,        \* calls made so far
  wanted,       \* history: the ids registered and not unregistered
  due,          \* history: the wanted ids when the notification began
  called,       \* history: the ids it has called
  raced         \* history: whether a call overlapped a registerCallback

threadVars == <<pc, cbId, cursor, expected, index>>
listVars == <<elementData, size, modCount>>
envVars == <<dead, destroyed, crashed>>
histVars == <<wanted, due, called, raced>>
vars == <<threadVars, monitor, listVars, envVars, calls, histVars>>

Slots == 1..Capacity
Listed == {elementData[i] : i \in 1..size}

Init ==
  /\ pc = [t \in Threads |-> "idle"]
  /\ cbId = [t \in Threads |-> Null]
  /\ cursor = [t \in Threads |-> 0]
  /\ expected = [t \in Threads |-> 0]
  /\ index = [t \in Threads |-> 0]
  /\ monitor = NoOne
  /\ elementData = [i \in Slots |-> Null] /\ size = 0 /\ modCount = 0
  /\ dead = {} /\ destroyed = FALSE /\ crashed = FALSE
  /\ calls = 0
  /\ wanted = {} /\ due = {} /\ called = {} /\ raced = FALSE

Registering(t) == pc[t] \in {"register", "rloop", "read", "size", "store"}

\* A call starts.
Begin(t, next) ==
  /\ pc[t] = "idle"
  /\ ~destroyed \/ t = Player
  /\ ~crashed
  /\ calls < MaxCalls
  /\ raced' = \/ raced \/ \E u \in Threads : Registering(u)
              \/ next = "register" /\ \E u \in Threads : pc[u] # "idle"
  /\ calls' = calls + 1
  /\ pc' = [pc EXCEPT ![t] = next]

\* Mutant of MonitorFree: the notification does not take the monitor.
MonitorForBinders(t) == t = Player \/ monitor = NoOne

\* synchronized (mCallbacks)
MonitorFree(t) == monitor = NoOne

\* A for loop over the list starts.
StartLoop(t) ==
  /\ MonitorFree(t)
  /\ monitor' = IF monitor = NoOne THEN t ELSE monitor
  /\ cursor' = [cursor EXCEPT ![t] = 0]
  /\ expected' = [expected EXCEPT ![t] = modCount]

Unlock(t) == monitor' = IF monitor = t THEN NoOne ELSE monitor

\* Iterator.hasNext, and what next() makes of the list.
AtEnd(t) == cursor[t] = size
Comodified(t) == modCount # expected[t]
Element(t) == elementData[cursor[t] + 1]
Throws(t) == ~AtEnd(t) /\ (Comodified(t) \/ cursor[t] > size \/ Element(t) = Null)
Advance(t) == cursor' = [cursor EXCEPT ![t] = @ + 1]

\* Mutant of Same: callback.equals(cb), and every call brings a new proxy.
SameObject(t) == FALSE

\* callback.getIdentifier() == cbId
Same(t) == Element(t) = cbId[t]

-----------------------------------------------------------------------------
(* registerCallback *)

\* cb.getIdentifier(), outside the monitor.
Register(t, id) ==
  /\ Begin(t, "register")
  /\ id \notin dead
  /\ cbId' = [cbId EXCEPT ![t] = id]
  /\ UNCHANGED <<cursor, expected, index, monitor, listVars, envVars,
                 wanted, due, called>>

RegisterLock(t) ==
  /\ pc[t] = "register"
  /\ StartLoop(t)
  /\ pc' = [pc EXCEPT ![t] = "rloop"]
  /\ UNCHANGED <<cbId, index, listVars, envVars, calls, histVars>>

\* The loop looks at one element, another one.
RegisterNext(t) ==
  /\ pc[t] = "rloop"
  /\ ~AtEnd(t) /\ ~Throws(t)
  /\ Element(t) \notin dead /\ ~Same(t)
  /\ Advance(t)
  /\ UNCHANGED <<pc, cbId, expected, index, monitor, listVars, envVars, calls,
                 histVars>>

\* contains = true
RegisterKnown(t) ==
  /\ pc[t] = "rloop"
  /\ ~AtEnd(t) /\ ~Throws(t)
  /\ Element(t) \notin dead /\ Same(t)
  /\ Unlock(t)
  /\ pc' = [pc EXCEPT ![t] = "idle"]
  /\ wanted' = wanted \cup {cbId[t]}
  /\ UNCHANGED <<cbId, cursor, expected, index, listVars, envVars, calls,
                 due, called, raced>>

\* Any exception is taken for a dead object, and the call returns.
RegisterThrows(t) ==
  /\ pc[t] = "rloop"
  /\ ~AtEnd(t)
  /\ Throws(t) \/ Element(t) \in dead
  /\ Unlock(t)
  /\ pc' = [pc EXCEPT ![t] = "idle"]
  /\ wanted' = wanted \cup {cbId[t]}
  /\ UNCHANGED <<cbId, cursor, expected, index, listVars, envVars, calls,
                 due, called, raced>>

\* Not found: the monitor is left before the add.
RegisterNew(t) ==
  /\ pc[t] = "rloop"
  /\ AtEnd(t)
  /\ Unlock(t)
  /\ pc' = [pc EXCEPT ![t] = "read"]
  /\ UNCHANGED <<cbId, cursor, expected, index, listVars, envVars, calls,
                 histVars>>

\* mCallbacks.add(cb): ++modCount, and size is read;
AddRead(t) ==
  /\ pc[t] = "read"
  /\ size < Capacity
  /\ modCount' = modCount + 1
  /\ index' = [index EXCEPT ![t] = size]
  /\ pc' = [pc EXCEPT ![t] = "size"]
  /\ UNCHANGED <<cbId, cursor, expected, monitor, elementData, size, envVars,
                 calls, histVars>>

\* size is written;
AddSize(t) ==
  /\ pc[t] = "size"
  /\ size' = index[t] + 1
  /\ pc' = [pc EXCEPT ![t] = "store"]
  /\ UNCHANGED <<cbId, cursor, expected, index, monitor, elementData, modCount,
                 envVars, calls, histVars>>

\* the element is stored.
AddStore(t) ==
  /\ pc[t] = "store"
  /\ elementData' = [elementData EXCEPT ![index[t] + 1] = cbId[t]]
  /\ pc' = [pc EXCEPT ![t] = "idle"]
  /\ wanted' = wanted \cup {cbId[t]}
  /\ UNCHANGED <<cbId, cursor, expected, index, monitor, size, modCount, envVars,
                 calls, due, called, raced>>

-----------------------------------------------------------------------------
(* unregisterCallback *)

Unregister(t, id) ==
  /\ Begin(t, "unregister")
  /\ id \notin dead
  /\ cbId' = [cbId EXCEPT ![t] = id]
  /\ UNCHANGED <<cursor, expected, index, monitor, listVars, envVars,
                 wanted, due, called>>

\* The monitor, then cb.getIdentifier().
UnregisterLock(t) ==
  /\ pc[t] = "unregister"
  /\ StartLoop(t)
  /\ pc' = [pc EXCEPT ![t] = "uloop"]
  /\ UNCHANGED <<cbId, index, listVars, envVars, calls, histVars>>

UnregisterNext(t) ==
  /\ pc[t] = "uloop"
  /\ ~AtEnd(t) /\ ~Throws(t)
  /\ Element(t) \notin dead /\ ~Same(t)
  /\ Advance(t)
  /\ UNCHANGED <<pc, cbId, expected, index, monitor, listVars, envVars, calls,
                 histVars>>

\* The array without the element at i.
Without(i) ==
  [k \in Slots |-> IF k < i THEN elementData[k]
                   ELSE IF k < size THEN elementData[k + 1] ELSE Null]

\* mCallbacks.remove(callback); return
UnregisterFound(t) ==
  /\ pc[t] = "uloop"
  /\ ~AtEnd(t) /\ ~Throws(t)
  /\ Element(t) \notin dead /\ Same(t)
  /\ elementData' = Without(cursor[t] + 1)
  /\ size' = size - 1
  /\ modCount' = modCount + 1
  /\ Unlock(t)
  /\ pc' = [pc EXCEPT ![t] = "idle"]
  /\ wanted' = wanted \ {cbId[t]}
  /\ UNCHANGED <<cbId, cursor, expected, index, envVars, calls, due, called, raced>>

\* "Can't find callback", a dead callback on the way, or an exception of the
\* iterator: nothing is removed.
UnregisterMisses(t) ==
  /\ pc[t] = "uloop"
  /\ AtEnd(t) \/ Throws(t) \/ Element(t) \in dead
  /\ Unlock(t)
  /\ pc' = [pc EXCEPT ![t] = "idle"]
  /\ wanted' = wanted \ {cbId[t]}
  /\ UNCHANGED <<cbId, cursor, expected, index, listVars, envVars, calls,
                 due, called, raced>>

-----------------------------------------------------------------------------
(* onPlaybackStarted *)

PlaybackStarted ==
  /\ Begin(Player, "notify")
  /\ UNCHANGED <<cbId, cursor, expected, index, monitor, listVars, envVars,
                 wanted, due, called>>

NotifyLock ==
  /\ pc[Player] = "notify"
  /\ StartLoop(Player)
  /\ pc' = [pc EXCEPT ![Player] = "nloop"]
  /\ due' = wanted
  /\ called' = {}
  /\ UNCHANGED <<cbId, index, listVars, envVars, calls, wanted, raced>>

\* c.onSongPlaying(mIdentifier); a dead callback is logged and passed over.
NotifyNext ==
  /\ pc[Player] = "nloop"
  /\ ~AtEnd(Player) /\ ~Throws(Player)
  /\ Advance(Player)
  /\ called' = called \cup {Element(Player)}
  /\ UNCHANGED <<pc, cbId, expected, index, monitor, listVars, envVars, calls,
                 wanted, due, raced>>

NotifyEnds ==
  /\ pc[Player] = "nloop"
  /\ AtEnd(Player)
  /\ Unlock(Player)
  /\ pc' = [pc EXCEPT ![Player] = "idle"]
  /\ UNCHANGED <<cbId, cursor, expected, index, listVars, envVars, calls,
                 histVars>>

\* An exception of the iterator, or of a null: handlePcmChunk catches only
\* IOException, and the thread's exception ends the process.
NotifyThrows ==
  /\ pc[Player] = "nloop"
  /\ Throws(Player)
  /\ Unlock(Player)
  /\ pc' = [pc EXCEPT ![Player] = "idle"]
  /\ crashed' = TRUE
  /\ UNCHANGED <<cbId, cursor, expected, index, listVars, dead, destroyed, calls,
                 histVars>>

-----------------------------------------------------------------------------
\* mCallbacks.clear() of onDestroy; a notification may come later.
Destroy ==
  /\ ~destroyed
  /\ \A t \in Binders : pc[t] = "idle"
  /\ MonitorFree(NoOne)
  /\ destroyed' = TRUE
  /\ size' = 0
  /\ elementData' = [i \in Slots |-> Null]
  /\ modCount' = modCount + 1
  /\ wanted' = {}
  /\ UNCHANGED <<threadVars, monitor, dead, crashed, calls, due, called, raced>>

Die(id) ==
  /\ id \notin dead
  /\ dead' = dead \cup {id}
  /\ UNCHANGED <<threadVars, monitor, listVars, destroyed, crashed, calls,
                 histVars>>

Finished ==
  /\ crashed \/ destroyed \/ calls = MaxCalls
  /\ crashed \/ \A t \in Threads : pc[t] = "idle"
  /\ UNCHANGED vars

BinderNext(t) ==
  \/ \E id \in Ids : Register(t, id) \/ Unregister(t, id)
  \/ RegisterLock(t) \/ RegisterNext(t) \/ RegisterKnown(t) \/ RegisterThrows(t)
  \/ RegisterNew(t) \/ AddRead(t) \/ AddSize(t) \/ AddStore(t)
  \/ UnregisterLock(t) \/ UnregisterNext(t) \/ UnregisterFound(t)
  \/ UnregisterMisses(t)

Next ==
  \/ \E t \in Binders : BinderNext(t)
  \/ PlaybackStarted \/ NotifyLock \/ NotifyNext \/ NotifyEnds \/ NotifyThrows
  \/ Destroy
  \/ \E id \in Ids : Die(id)
  \/ Finished

Spec == Init /\ [][Next]_vars

-----------------------------------------------------------------------------
TypeOK ==
  /\ pc \in [Threads -> {"idle", "register", "rloop", "read", "size", "store",
                         "unregister", "uloop", "notify", "nloop"}]
  /\ cbId \in [Threads -> Ids \cup {Null}]
  /\ cursor \in [Threads -> 0..Capacity]
  /\ expected \in [Threads -> Nat]
  /\ index \in [Threads -> 0..Capacity]
  /\ monitor \in Threads \cup {NoOne}
  /\ \A t \in Threads : pc[t] \in {"rloop", "uloop", "nloop"} <=> monitor = t
  /\ elementData \in [Slots -> Ids \cup {Null}]
  /\ size \in 0..Capacity
  /\ modCount \in Nat
  /\ dead \in SUBSET Ids
  /\ destroyed \in BOOLEAN /\ crashed \in BOOLEAN
  /\ calls \in 0..MaxCalls
  /\ wanted \in SUBSET Ids /\ due \in SUBSET Ids
  /\ called \in SUBSET (Ids \cup {Null})
  /\ raced \in BOOLEAN

AtRest == \A t \in Threads : pc[t] = "idle"
HoldsWanted == Listed \ dead = wanted \ dead /\ Cardinality(Listed) = size

\* As long as no call overlaps a registerCallback and no callback's process
\* dies, between calls the list holds every callback that was registered and
\* not unregistered, once, and no other.
ListIsWanted == ~raced /\ dead = {} /\ AtRest => HoldsWanted

\* "App can register one or more callbacks to the provider, so it must
\* register them all locally": the same when calls overlap.
RegistersAll == dead = {} /\ AtRest => HoldsWanted

\* "When calling a callback method, it must be done on all registered
\* callbacks": a notification that ends has called every callback that was
\* registered when it began, under the same conditions.
NotifiesAll ==
  [][pc[Player] = "nloop" /\ pc'[Player] = "idle" /\ ~raced /\ dead = {} =>
       due \subseteq called]_vars

\* "Removes a registered callback": once unregisterCallback has returned, and
\* until it is registered again, the callback is not called.
UnregisteredIsSilent ==
  [][~raced /\ dead = {} =>
       \A id \in called' \ called :
         id \in wanted \/ \E t \in Binders : pc[t] # "idle" /\ cbId[t] = id]_vars

\* No exception of the list ends the thread that fetches the song, and with it
\* the process, as long as nothing overlaps a registerCallback, whichever
\* callbacks' processes are dead.
NoCrash == ~raced => ~crashed
=============================================================================
