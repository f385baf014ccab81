------------------------ MODULE CallbackRegistryProofs ------------------------
(***************************************************************************)
(* For any binder threads, identifiers and bounds: the types, and that the *)
(* list does its work as long as no call overlaps a registerCallback: it   *)
(* is the set of callbacks registered, its iterators throw nothing, a      *)
(* notification reaches all of them and none that was unregistered.        *)
(*                                                                         *)
(* The argument: who loops over the list is inside the monitor, and what   *)
(* changes the list is either inside it too or belongs to a                *)
(* registerCallback that is alone.  So an iterator sees the list it was    *)
(* made for, a loop that comes to the end has looked at every element, and *)
(* registerCallback adds only an identifier that is not there.             *)
(***************************************************************************)
EXTENDS CallbackRegistry, TLAPS, FiniteSetTheorems, FunctionTheorems

Looping(t) == pc[t] \in {"rloop", "uloop", "nloop"}
Adding(t) == pc[t] \in {"read", "size", "store"}

\* The player's thread only notifies, the array has room for the element under way,
\* and a call is about a callback.
RoomInv ==
  /\ pc[Player] \in {"idle", "notify", "nloop"}
  /\ \A t \in Threads : pc[t] \in {"size", "store"} => index[t] < Capacity
  /\ \A t \in Threads : pc[t] \notin {"idle", "notify", "nloop"} => cbId[t] \in Ids

\* A registerCallback is alone.
AloneInv ==
  ~raced => \A t, u \in Threads : Registering(t) /\ u # t => pc[u] = "idle"

\* The elements of the list, without the one whose store is still to come.
Held(i) ==
  /\ i \in 1..size
  /\ \A t \in Threads : pc[t] = "store" => i <= index[t]

\* The list has no hole and nothing twice.
ListInv ==
  ~raced =>
    /\ \A t \in Threads : pc[t] = "size" => index[t] = size
    /\ \A t \in Threads : pc[t] = "store" => size = index[t] + 1
    /\ \A i \in Slots : Held(i) => elementData[i] \in Ids
    /\ \A i, j \in Slots : Held(i) /\ Held(j) /\ i # j =>
         elementData[i] # elementData[j]

\* An iterator is inside the list it was made for.
IteratorInv ==
  ~raced => \A t \in Threads : Looping(t) =>
              expected[t] = modCount /\ cursor[t] <= size

\* What a loop has passed is not the callback it looks for, nor is any element
\* once registerCallback is to add it.
SearchInv ==
  ~raced =>
    \A t \in Threads, i \in Slots :
      /\ pc[t] \in {"rloop", "uloop"} /\ i <= cursor[t] => elementData[i] # cbId[t]
      /\ Adding(t) /\ Held(i) => elementData[i] # cbId[t]

\* The list is the set of the wanted callbacks.
WantedInv ==
  ~raced /\ dead = {} =>
    \A id \in Ids : id \in wanted <=> \E i \in Slots : Held(i) /\ elementData[i] = id

\* A notification has called what its loop has passed, and nothing is registered or
\* unregistered meanwhile.
NotifyInv ==
  ~raced /\ dead = {} /\ pc[Player] = "nloop" =>
    /\ due = wanted
    /\ \A i \in Slots : i <= cursor[Player] => elementData[i] \in called

IInv == /\ TypeOK /\ RoomInv /\ AloneInv /\ ListInv /\ IteratorInv /\ SearchInv
        /\ WantedInv /\ NotifyInv /\ NoCrash

-----------------------------------------------------------------------------
\* An iterator that is not at its end stands before an element, and gives it.
LEMMA LoopIsInside ==
  ASSUME TypeOK, AloneInv, ListInv, IteratorInv, ~raced,
         NEW t \in Threads, Looping(t), ~AtEnd(t)
  PROVE  /\ cursor[t] + 1 \in Slots /\ Held(cursor[t] + 1)
         /\ ~Throws(t) /\ Element(t) \in Ids
<1>1. cursor[t] < size /\ cursor[t] \in Nat /\ size \in 0..Capacity
      /\ expected[t] = modCount
  BY DEF IteratorInv, AtEnd, TypeOK
<1>2. \A u \in Threads : pc[u] # "store"
  BY DEF AloneInv, Registering, Looping
<1>3. cursor[t] + 1 \in Slots /\ Held(cursor[t] + 1)
  BY <1>1, <1>2, RegistryBoundAssumption DEF Held, Slots
<1>4. Element(t) \in Ids
  BY <1>3 DEF ListInv, Element
<1> QED
  BY <1>1, <1>3, <1>4, IdsAssumption DEF Throws, Comodified

\* The initial states satisfy the inductive invariant.
LEMMA InitInv == Init => IInv
<1> SUFFICES ASSUME Init PROVE IInv
  OBVIOUS
<1> USE RegistryThreadsAssumption, RegistryBoundAssumption DEF Init, Threads
<1>1. TypeOK
  <2>1. destroyed \in BOOLEAN /\ crashed \in BOOLEAN /\ raced \in BOOLEAN
    OBVIOUS
  <2>2. \A t \in Threads : pc[t] \in {"rloop", "uloop", "nloop"} <=> monitor = t
    OBVIOUS
  <2> QED
    BY <2>1, <2>2 DEF TypeOK, Slots
<1>2. RoomInv /\ AloneInv /\ IteratorInv /\ NotifyInv /\ NoCrash
  BY DEF RoomInv, AloneInv, IteratorInv, NotifyInv, NoCrash, Registering, Looping
<1>3. ListInv /\ SearchInv /\ WantedInv
  BY DEF ListInv, SearchInv, WantedInv, Held, Adding
<1> QED
  BY <1>1, <1>2, <1>3 DEF IInv

\* Every step of the specification keeps it.
LEMMA StepInv == IInv /\ [Next]_vars => IInv'
<1> SUFFICES ASSUME IInv, [Next]_vars PROVE IInv'
  OBVIOUS
<1> USE RegistryThreadsAssumption, IdsAssumption, RegistryBoundAssumption
        DEF IInv, Threads, Slots
<1>1. ASSUME NEW t \in Binders, NEW id \in Ids, Register(t, id) PROVE IInv'
  <2>1. TypeOK'
    BY <1>1 DEF Register, Begin, listVars, envVars, RoomInv, TypeOK
  <2>2. RoomInv'
    BY <1>1 DEF Register, Begin, listVars, envVars, TypeOK, RoomInv
  <2>3. AloneInv'
    BY <1>1 DEF Register, Begin, listVars, envVars, Registering, TypeOK, AloneInv
  <2>4. ListInv'
    BY <1>1 DEF Register, Begin, listVars, envVars, Held, AloneInv, Registering,
       TypeOK, ListInv
  <2>5. IteratorInv'
    BY <1>1 DEF Register, Begin, listVars, envVars, Looping, AloneInv, Registering,
       TypeOK, IteratorInv
  <2>6. SearchInv'
    BY <1>1 DEF Register, Begin, listVars, envVars, Looping, Adding, Held, AloneInv,
       Registering, TypeOK, SearchInv
  <2>7. WantedInv'
    BY <1>1 DEF Register, Begin, listVars, envVars, Held, TypeOK, WantedInv
  <2>8. NotifyInv'
    BY <1>1 DEF Register, Begin, listVars, envVars, AloneInv, Registering, TypeOK,
       NotifyInv
  <2>9. NoCrash'
    BY <1>1 DEF Register, Begin, listVars, envVars, NoCrash
  <2> QED
    BY <2>1, <2>2, <2>3, <2>4, <2>5, <2>6, <2>7, <2>8, <2>9
<1>2. ASSUME NEW t \in Binders, RegisterLock(t) PROVE IInv'
  <2>1. TypeOK'
    BY <1>2 DEF RegisterLock, StartLoop, MonitorFree, listVars, envVars, histVars,
       RoomInv, TypeOK
  <2>2. RoomInv'
    BY <1>2 DEF RegisterLock, StartLoop, MonitorFree, listVars, envVars, histVars,
       TypeOK, RoomInv
  <2>3. AloneInv'
    BY <1>2 DEF RegisterLock, StartLoop, MonitorFree, listVars, envVars, histVars,
       Registering, TypeOK, AloneInv
  <2>4. ListInv'
    BY <1>2 DEF RegisterLock, StartLoop, MonitorFree, listVars, envVars, histVars,
       Held, AloneInv, Registering, TypeOK, ListInv
  <2>5. IteratorInv'
    BY <1>2 DEF RegisterLock, StartLoop, MonitorFree, listVars, envVars, histVars,
       Looping, AloneInv, Registering, TypeOK, IteratorInv
  <2>6. SearchInv'
    BY <1>2 DEF RegisterLock, StartLoop, MonitorFree, listVars, envVars, histVars,
       Looping, Adding, Held, AloneInv, Registering, TypeOK, SearchInv
  <2>7. WantedInv'
    BY <1>2 DEF RegisterLock, StartLoop, MonitorFree, listVars, envVars, histVars,
       Held, TypeOK, WantedInv
  <2>8. NotifyInv'
    BY <1>2 DEF RegisterLock, StartLoop, MonitorFree, listVars, envVars, histVars,
       AloneInv, Registering, TypeOK, NotifyInv
  <2>9. NoCrash'
    BY <1>2 DEF RegisterLock, StartLoop, MonitorFree, listVars, envVars, histVars,
       NoCrash
  <2> QED
    BY <2>1, <2>2, <2>3, <2>4, <2>5, <2>6, <2>7, <2>8, <2>9
<1>3. ASSUME NEW t \in Binders, RegisterNext(t) PROVE IInv'
  <2>1. TypeOK'
    BY <1>3 DEF RegisterNext, Advance, AtEnd, Throws, Comodified, Element, Same,
       listVars, envVars, histVars, RoomInv, TypeOK
  <2>2. RoomInv'
    BY <1>3 DEF RegisterNext, Advance, AtEnd, Throws, Comodified, Element, Same,
       listVars, envVars, histVars, TypeOK, RoomInv
  <2>3. AloneInv'
    BY <1>3 DEF RegisterNext, Advance, AtEnd, Throws, Comodified, Element, Same,
       listVars, envVars, histVars, Registering, TypeOK, AloneInv
  <2>4. ListInv'
    BY <1>3 DEF RegisterNext, Advance, AtEnd, Throws, Comodified, Element, Same,
       listVars, envVars, histVars, Held, AloneInv, Registering, TypeOK, ListInv
  <2>5. IteratorInv'
    BY <1>3 DEF RegisterNext, Advance, AtEnd, Throws, Comodified, Element, Same,
       listVars, envVars, histVars, Looping, AloneInv, Registering, TypeOK,
       IteratorInv
  <2>6. SearchInv'
    BY <1>3 DEF RegisterNext, Advance, AtEnd, Throws, Comodified, Element, Same,
       listVars, envVars, histVars, Looping, Adding, Held, AloneInv, Registering,
       TypeOK, SearchInv
  <2>7. WantedInv'
    BY <1>3 DEF RegisterNext, Advance, AtEnd, Throws, Comodified, Element, Same,
       listVars, envVars, histVars, Held, TypeOK, WantedInv
  <2>8. NotifyInv'
    BY <1>3 DEF RegisterNext, Advance, AtEnd, Throws, Comodified, Element, Same,
       listVars, envVars, histVars, AloneInv, Registering, TypeOK, NotifyInv
  <2>9. NoCrash'
    BY <1>3 DEF RegisterNext, Advance, AtEnd, Throws, Comodified, Element, Same,
       listVars, envVars, histVars, NoCrash
  <2> QED
    BY <2>1, <2>2, <2>3, <2>4, <2>5, <2>6, <2>7, <2>8, <2>9
<1>4. ASSUME NEW t \in Binders, RegisterKnown(t) PROVE IInv'
  <2>0. ~raced /\ ~AtEnd(t) => cursor[t] + 1 \in Slots /\ Held(cursor[t] + 1)
    BY <1>4, LoopIsInside DEF RegisterKnown, Looping
  <2>1. TypeOK'
    BY <1>4 DEF RegisterKnown, Unlock, AtEnd, Throws, Comodified, Element, Same,
       listVars, envVars, RoomInv, TypeOK
  <2>2. RoomInv'
    BY <1>4 DEF RegisterKnown, Unlock, AtEnd, Throws, Comodified, Element, Same,
       listVars, envVars, TypeOK, RoomInv
  <2>3. AloneInv'
    BY <1>4 DEF RegisterKnown, Unlock, AtEnd, Throws, Comodified, Element, Same,
       listVars, envVars, Registering, TypeOK, AloneInv
  <2>4. ListInv'
    BY <1>4 DEF RegisterKnown, Unlock, AtEnd, Throws, Comodified, Element, Same,
       listVars, envVars, Held, AloneInv, Registering, TypeOK, ListInv
  <2>5. IteratorInv'
    BY <1>4 DEF RegisterKnown, Unlock, AtEnd, Throws, Comodified, Element, Same,
       listVars, envVars, Looping, AloneInv, Registering, TypeOK, IteratorInv
  <2>6. SearchInv'
    BY <1>4 DEF RegisterKnown, Unlock, AtEnd, Throws, Comodified, Element, Same,
       listVars, envVars, Looping, Adding, Held, AloneInv, Registering, TypeOK,
       SearchInv
  <2>7. WantedInv'
    BY <1>4, <2>0 DEF RegisterKnown, Unlock, AtEnd, Throws, Comodified, Element,
       Same, listVars, envVars, Held, TypeOK, WantedInv
  <2>8. NotifyInv'
    BY <1>4 DEF RegisterKnown, Unlock, AtEnd, Throws, Comodified, Element, Same,
       listVars, envVars, AloneInv, Registering, TypeOK, NotifyInv
  <2>9. NoCrash'
    BY <1>4 DEF RegisterKnown, Unlock, AtEnd, Throws, Comodified, Element, Same,
       listVars, envVars, NoCrash
  <2> QED
    BY <2>1, <2>2, <2>3, <2>4, <2>5, <2>6, <2>7, <2>8, <2>9
<1>5. ASSUME NEW t \in Binders, RegisterThrows(t) PROVE IInv'
  <2>0. ~raced /\ ~AtEnd(t) => ~Throws(t) /\ Element(t) \in Ids
    BY <1>5, LoopIsInside DEF RegisterThrows, Looping
  <2>1. TypeOK'
    BY <1>5, ZenonT(40) DEF RegisterThrows, Unlock, AtEnd, Throws, Comodified, Element,
       listVars, envVars, RoomInv, TypeOK
  <2>2. RoomInv'
    BY <1>5 DEF RegisterThrows, Unlock, AtEnd, Throws, Comodified, Element,
       listVars, envVars, TypeOK, RoomInv
  <2>3. AloneInv'
    BY <1>5 DEF RegisterThrows, Unlock, AtEnd, Throws, Comodified, Element,
       listVars, envVars, Registering, TypeOK, AloneInv
  <2>4. ListInv'
    BY <1>5 DEF RegisterThrows, Unlock, AtEnd, Throws, Comodified, Element,
       listVars, envVars, Held, AloneInv, Registering, TypeOK, ListInv
  <2>5. IteratorInv'
    BY <1>5 DEF RegisterThrows, Unlock, AtEnd, Throws, Comodified, Element,
       listVars, envVars, Looping, AloneInv, Registering, TypeOK, IteratorInv
  <2>6. SearchInv'
    BY <1>5 DEF RegisterThrows, Unlock, AtEnd, Throws, Comodified, Element,
       listVars, envVars, Looping, Adding, Held, AloneInv, Registering, TypeOK,
       SearchInv
  <2>7. WantedInv'
    <3>1. ~raced' /\ dead' = {} => FALSE
      BY <1>5, <2>0 DEF RegisterThrows, envVars
    <3> QED
      BY <3>1 DEF WantedInv
  <2>8. NotifyInv'
    BY <1>5 DEF RegisterThrows, Unlock, AtEnd, Throws, Comodified, Element,
       listVars, envVars, AloneInv, Registering, TypeOK, NotifyInv
  <2>9. NoCrash'
    BY <1>5 DEF RegisterThrows, Unlock, AtEnd, Throws, Comodified, Element,
       listVars, envVars, NoCrash
  <2> QED
    BY <2>1, <2>2, <2>3, <2>4, <2>5, <2>6, <2>7, <2>8, <2>9
<1>6. ASSUME NEW t \in Binders, RegisterNew(t) PROVE IInv'
  <2>1. TypeOK'
    BY <1>6 DEF RegisterNew, Unlock, AtEnd, listVars, envVars, histVars, RoomInv,
       TypeOK
  <2>2. RoomInv'
    BY <1>6 DEF RegisterNew, Unlock, AtEnd, listVars, envVars, histVars, TypeOK,
       RoomInv
  <2>3. AloneInv'
    BY <1>6 DEF RegisterNew, Unlock, AtEnd, listVars, envVars, histVars,
       Registering, TypeOK, AloneInv
  <2>4. ListInv'
    BY <1>6 DEF RegisterNew, Unlock, AtEnd, listVars, envVars, histVars, Held,
       AloneInv, Registering, TypeOK, ListInv
  <2>5. IteratorInv'
    BY <1>6 DEF RegisterNew, Unlock, AtEnd, listVars, envVars, histVars, Looping,
       AloneInv, Registering, TypeOK, IteratorInv
  <2>6. SearchInv'
    BY <1>6 DEF RegisterNew, Unlock, AtEnd, listVars, envVars, histVars, Looping,
       Adding, Held, AloneInv, Registering, TypeOK, SearchInv
  <2>7. WantedInv'
    BY <1>6 DEF RegisterNew, Unlock, AtEnd, listVars, envVars, histVars, Held,
       TypeOK, WantedInv
  <2>8. NotifyInv'
    BY <1>6 DEF RegisterNew, Unlock, AtEnd, listVars, envVars, histVars, AloneInv,
       Registering, TypeOK, NotifyInv
  <2>9. NoCrash'
    BY <1>6 DEF RegisterNew, Unlock, AtEnd, listVars, envVars, histVars, NoCrash
  <2> QED
    BY <2>1, <2>2, <2>3, <2>4, <2>5, <2>6, <2>7, <2>8, <2>9
<1>7. ASSUME NEW t \in Binders, AddRead(t) PROVE IInv'
  <2>1. TypeOK'
    BY <1>7 DEF AddRead, envVars, histVars, RoomInv, TypeOK
  <2>2. RoomInv'
    BY <1>7 DEF AddRead, envVars, histVars, TypeOK, RoomInv
  <2>3. AloneInv'
    BY <1>7 DEF AddRead, envVars, histVars, Registering, TypeOK, AloneInv
  <2>4. ListInv'
    BY <1>7 DEF AddRead, envVars, histVars, Held, AloneInv, Registering, TypeOK,
       ListInv
  <2>5. IteratorInv'
    BY <1>7 DEF AddRead, envVars, histVars, Looping, AloneInv, Registering, TypeOK,
       IteratorInv
  <2>6. SearchInv'
    BY <1>7 DEF AddRead, envVars, histVars, Looping, Adding, Held, AloneInv,
       Registering, TypeOK, SearchInv
  <2>7. WantedInv'
    BY <1>7 DEF AddRead, envVars, histVars, Held, TypeOK, WantedInv
  <2>8. NotifyInv'
    BY <1>7 DEF AddRead, envVars, histVars, AloneInv, Registering, TypeOK, NotifyInv
  <2>9. NoCrash'
    BY <1>7 DEF AddRead, envVars, histVars, NoCrash
  <2> QED
    BY <2>1, <2>2, <2>3, <2>4, <2>5, <2>6, <2>7, <2>8, <2>9
<1>8. ASSUME NEW t \in Binders, AddSize(t) PROVE IInv'
  <2>0. ~raced => \A i \in Slots : Held(i)' <=> Held(i)
    BY <1>8, SMTT(30) DEF AddSize, Held, ListInv, AloneInv, Registering, TypeOK
  <2>1. TypeOK'
    BY <1>8, SMTT(30) DEF AddSize, envVars, histVars, RoomInv, TypeOK
  <2>2. RoomInv'
    BY <1>8 DEF AddSize, envVars, histVars, TypeOK, RoomInv
  <2>3. AloneInv'
    BY <1>8 DEF AddSize, envVars, histVars, Registering, TypeOK, AloneInv
  <2>4. ListInv'
    BY <1>8, <2>0 DEF AddSize, envVars, histVars, Held, AloneInv, Registering,
       TypeOK, ListInv
  <2>5. IteratorInv'
    BY <1>8 DEF AddSize, envVars, histVars, Looping, AloneInv, Registering, TypeOK,
       IteratorInv
  <2>6. SearchInv'
    BY <1>8, <2>0 DEF AddSize, histVars, Looping, Adding, TypeOK, SearchInv
  <2>7. WantedInv'
    BY <1>8, <2>0 DEF AddSize, envVars, histVars, WantedInv
  <2>8. NotifyInv'
    BY <1>8 DEF AddSize, envVars, histVars, AloneInv, Registering, TypeOK, NotifyInv
  <2>9. NoCrash'
    BY <1>8 DEF AddSize, envVars, histVars, NoCrash
  <2> QED
    BY <2>1, <2>2, <2>3, <2>4, <2>5, <2>6, <2>7, <2>8, <2>9
<1>9. ASSUME NEW t \in Binders, AddStore(t) PROVE IInv'
  <2>0. ~raced =>
          /\ index[t] + 1 \in Slots /\ ~Held(index[t] + 1)
          /\ \A i \in Slots : Held(i)' <=> Held(i) \/ i = index[t] + 1
    BY <1>9, SMTT(30) DEF AddStore, Held, ListInv, AloneInv, Registering, RoomInv, TypeOK
  <2>a. ~raced => \A i \in Slots : Held(i) => elementData[i] # cbId[t]
    BY <1>9 DEF AddStore, Adding, SearchInv
  <2>b. elementData' = [elementData EXCEPT ![index[t] + 1] = cbId[t]] /\ cbId[t] \in Ids
    BY <1>9 DEF AddStore, RoomInv
  <2>1. TypeOK'
    <3>1. index[t] + 1 \in Slots
      BY <1>9 DEF AddStore, RoomInv, TypeOK
    <3>2. elementData' \in [Slots -> Ids \cup {Null}]
      BY <2>b, <3>1 DEF TypeOK
    <3>3. wanted' \in SUBSET Ids
      BY <1>9, <2>b DEF AddStore, TypeOK
    <3>4. pc' = [pc EXCEPT ![t] = "idle"] /\ pc[t] = "store"
      BY <1>9 DEF AddStore
    <3>5. \A u \in Threads : pc'[u] \in {"rloop", "uloop", "nloop"} <=> monitor = u
      BY <3>4 DEF TypeOK
    <3>6. pc' \in [Threads -> {"idle", "register", "rloop", "read", "size", "store",
                                "unregister", "uloop", "notify", "nloop"}]
      BY <3>4 DEF TypeOK
    <3> QED
      BY <1>9, <3>2, <3>3, <3>5, <3>6 DEF AddStore, envVars, TypeOK
  <2>2. RoomInv'
    BY <1>9 DEF AddStore, envVars, TypeOK, RoomInv
  <2>3. AloneInv'
    BY <1>9 DEF AddStore, envVars, Registering, TypeOK, AloneInv
  <2>4. ListInv'
    <3>1. SUFFICES ASSUME ~raced, raced' = raced PROVE ListInv'
      BY <1>9 DEF AddStore, ListInv
    <3>2. \A u \in Threads : pc'[u] \notin {"size", "store"}
      BY <1>9, <3>1 DEF AddStore, AloneInv, Registering, TypeOK
    <3>3. \A i \in Slots : Held(i)' => elementData'[i] \in Ids
      BY <2>0, <2>b, <3>1 DEF ListInv, TypeOK
    <3>4. \A i, j \in Slots : Held(i)' /\ Held(j)' /\ i # j => elementData'[i] # elementData'[j]
      BY <2>0, <2>a, <2>b, <3>1 DEF ListInv, TypeOK
    <3> QED
      BY <3>2, <3>3, <3>4 DEF ListInv
  <2>5. IteratorInv'
    BY <1>9 DEF AddStore, envVars, Looping, AloneInv, Registering, TypeOK,
       IteratorInv
  <2>6. SearchInv'
    BY <1>9 DEF AddStore, envVars, Looping, Adding, Held, AloneInv, Registering,
       TypeOK, SearchInv
  <2>7. WantedInv'
    <3>1. SUFFICES ASSUME ~raced, dead = {}, UNCHANGED <<raced, dead>> PROVE WantedInv'
      BY <1>9 DEF AddStore, envVars, WantedInv
    <3>2. \A i \in Slots : elementData'[i] = IF i = index[t] + 1 THEN cbId[t] ELSE elementData[i]
      BY <2>b DEF TypeOK
    <3>3. wanted' = wanted \cup {cbId[t]}
      BY <1>9 DEF AddStore
    <3> QED
      BY <2>0, <3>1, <3>2, <3>3 DEF WantedInv
  <2>8. NotifyInv'
    BY <1>9 DEF AddStore, envVars, AloneInv, Registering, TypeOK, NotifyInv
  <2>9. NoCrash'
    BY <1>9 DEF AddStore, envVars, NoCrash
  <2> QED
    BY <2>1, <2>2, <2>3, <2>4, <2>5, <2>6, <2>7, <2>8, <2>9
<1>10. ASSUME NEW t \in Binders, NEW id \in Ids, Unregister(t, id) PROVE IInv'
  <2>1. TypeOK'
    BY <1>10 DEF Unregister, Begin, listVars, envVars, RoomInv, TypeOK
  <2>2. RoomInv'
    BY <1>10 DEF Unregister, Begin, listVars, envVars, TypeOK, RoomInv
  <2>3. AloneInv'
    BY <1>10 DEF Unregister, Begin, listVars, envVars, Registering, TypeOK, AloneInv
  <2>4. ListInv'
    BY <1>10 DEF Unregister, Begin, listVars, envVars, Held, AloneInv, Registering,
       TypeOK, ListInv
  <2>5. IteratorInv'
    BY <1>10 DEF Unregister, Begin, listVars, envVars, Looping, AloneInv,
       Registering, TypeOK, IteratorInv
  <2>6. SearchInv'
    BY <1>10 DEF Unregister, Begin, listVars, envVars, Looping, Adding, Held,
       AloneInv, Registering, TypeOK, SearchInv
  <2>7. WantedInv'
    BY <1>10 DEF Unregister, Begin, listVars, envVars, Held, TypeOK, WantedInv
  <2>8. NotifyInv'
    BY <1>10 DEF Unregister, Begin, listVars, envVars, AloneInv, Registering,
       TypeOK, NotifyInv
  <2>9. NoCrash'
    BY <1>10 DEF Unregister, Begin, listVars, envVars, NoCrash
  <2> QED
    BY <2>1, <2>2, <2>3, <2>4, <2>5, <2>6, <2>7, <2>8, <2>9
<1>11. ASSUME NEW t \in Binders, UnregisterLock(t) PROVE IInv'
  <2>1. TypeOK'
    BY <1>11 DEF UnregisterLock, StartLoop, MonitorFree, listVars, envVars,
       histVars, RoomInv, TypeOK
  <2>2. RoomInv'
    BY <1>11 DEF UnregisterLock, StartLoop, MonitorFree, listVars, envVars,
       histVars, TypeOK, RoomInv
  <2>3. AloneInv'
    BY <1>11 DEF UnregisterLock, StartLoop, MonitorFree, listVars, envVars,
       histVars, Registering, TypeOK, AloneInv
  <2>4. ListInv'
    BY <1>11 DEF UnregisterLock, StartLoop, MonitorFree, listVars, envVars,
       histVars, Held, AloneInv, Registering, TypeOK, ListInv
  <2>5. IteratorInv'
    BY <1>11 DEF UnregisterLock, StartLoop, MonitorFree, listVars, envVars,
       histVars, Looping, AloneInv, Registering, TypeOK, IteratorInv
  <2>6. SearchInv'
    BY <1>11 DEF UnregisterLock, StartLoop, MonitorFree, listVars, envVars,
       histVars, Looping, Adding, Held, AloneInv, Registering, TypeOK, SearchInv
  <2>7. WantedInv'
    BY <1>11 DEF UnregisterLock, StartLoop, MonitorFree, listVars, envVars,
       histVars, Held, TypeOK, WantedInv
  <2>8. NotifyInv'
    BY <1>11 DEF UnregisterLock, StartLoop, MonitorFree, listVars, envVars,
       histVars, AloneInv, Registering, TypeOK, NotifyInv
  <2>9. NoCrash'
    BY <1>11 DEF UnregisterLock, StartLoop, MonitorFree, listVars, envVars,
       histVars, NoCrash
  <2> QED
    BY <2>1, <2>2, <2>3, <2>4, <2>5, <2>6, <2>7, <2>8, <2>9
<1>12. ASSUME NEW t \in Binders, UnregisterNext(t) PROVE IInv'
  <2>1. TypeOK'
    BY <1>12 DEF UnregisterNext, Advance, AtEnd, Throws, Comodified, Element, Same,
       listVars, envVars, histVars, RoomInv, TypeOK
  <2>2. RoomInv'
    BY <1>12 DEF UnregisterNext, Advance, AtEnd, Throws, Comodified, Element, Same,
       listVars, envVars, histVars, TypeOK, RoomInv
  <2>3. AloneInv'
    BY <1>12 DEF UnregisterNext, Advance, AtEnd, Throws, Comodified, Element, Same,
       listVars, envVars, histVars, Registering, TypeOK, AloneInv
  <2>4. ListInv'
    BY <1>12 DEF UnregisterNext, Advance, AtEnd, Throws, Comodified, Element, Same,
       listVars, envVars, histVars, Held, AloneInv, Registering, TypeOK, ListInv
  <2>5. IteratorInv'
    BY <1>12 DEF UnregisterNext, Advance, AtEnd, Throws, Comodified, Element, Same,
       listVars, envVars, histVars, Looping, AloneInv, Registering, TypeOK,
       IteratorInv
  <2>6. SearchInv'
    BY <1>12 DEF UnregisterNext, Advance, AtEnd, Throws, Comodified, Element, Same,
       listVars, envVars, histVars, Looping, Adding, Held, AloneInv, Registering,
       TypeOK, SearchInv
  <2>7. WantedInv'
    BY <1>12 DEF UnregisterNext, Advance, AtEnd, Throws, Comodified, Element, Same,
       listVars, envVars, histVars, Held, TypeOK, WantedInv
  <2>8. NotifyInv'
    BY <1>12 DEF UnregisterNext, Advance, AtEnd, Throws, Comodified, Element, Same,
       listVars, envVars, histVars, AloneInv, Registering, TypeOK, NotifyInv
  <2>9. NoCrash'
    BY <1>12 DEF UnregisterNext, Advance, AtEnd, Throws, Comodified, Element, Same,
       listVars, envVars, histVars, NoCrash
  <2> QED
    BY <2>1, <2>2, <2>3, <2>4, <2>5, <2>6, <2>7, <2>8, <2>9
<1>13. ASSUME NEW t \in Binders, UnregisterFound(t) PROVE IInv'
  <2>0. ~raced =>
          /\ cursor[t] + 1 \in Slots /\ Held(cursor[t] + 1)
          /\ elementData[cursor[t] + 1] = cbId[t]
          /\ \A i \in Slots : Held(i) <=> i \in 1..size
          /\ \A i \in Slots : Held(i)' <=> i \in 1..(size - 1)
    <3>1. ~raced => cursor[t] + 1 \in Slots /\ Held(cursor[t] + 1)
      BY <1>13, LoopIsInside DEF UnregisterFound, Looping
    <3>2. ~raced => \A u \in Threads : pc[u] # "store" /\ pc'[u] # "store"
      BY <1>13 DEF UnregisterFound, AloneInv, Registering, TypeOK
    <3> QED
      BY <1>13, <3>1, <3>2 DEF UnregisterFound, Held, Same, Element
  <2>a. ~raced => \A i \in 1..(size - 1) :
          elementData'[i] = IF i < cursor[t] + 1 THEN elementData[i] ELSE elementData[i + 1]
    BY <1>13 DEF UnregisterFound, Without, TypeOK
  <2>1. TypeOK'
    BY <1>13 DEF UnregisterFound, Unlock, AtEnd, Throws, Comodified, Element, Same,
       Without, envVars, RoomInv, TypeOK
  <2>2. RoomInv'
    BY <1>13 DEF UnregisterFound, Unlock, AtEnd, Throws, Comodified, Element, Same,
       Without, envVars, TypeOK, RoomInv
  <2>3. AloneInv'
    BY <1>13 DEF UnregisterFound, Unlock, AtEnd, Throws, Comodified, Element, Same,
       Without, envVars, Registering, TypeOK, AloneInv
  <2>4. ListInv'
    <3>1. SUFFICES ASSUME ~raced, raced' = raced PROVE ListInv'
      BY <1>13 DEF UnregisterFound, ListInv
    <3>2. \A u \in Threads : pc'[u] \notin {"size", "store"}
      BY <1>13, <3>1 DEF UnregisterFound, AloneInv, Registering, TypeOK
    <3>3. size \in 0..Capacity /\ cursor[t] \in Nat
      BY DEF TypeOK
    <3>4. \A i \in Slots : Held(i)' => elementData'[i] \in Ids
      BY <2>0, <2>a, <3>1, <3>3 DEF ListInv
    <3>5. \A i, j \in Slots : Held(i)' /\ Held(j)' /\ i # j => elementData'[i] # elementData'[j]
      BY <2>0, <2>a, <3>1, <3>3 DEF ListInv
    <3> QED
      BY <3>2, <3>4, <3>5 DEF ListInv
  <2>5. IteratorInv'
    BY <1>13 DEF UnregisterFound, Unlock, AtEnd, Throws, Comodified, Element, Same,
       Without, envVars, Looping, AloneInv, Registering, TypeOK, IteratorInv
  <2>6. SearchInv'
    BY <1>13, SMTT(30) DEF UnregisterFound, Unlock, AtEnd, Throws, Comodified, Element, Same,
       Without, envVars, Looping, Adding, Held, AloneInv, Registering, TypeOK,
       SearchInv
  <2>7. WantedInv'
    <3> DEFINE c == cursor[t] + 1
    <3>1. SUFFICES ASSUME ~raced, dead = {}, UNCHANGED <<raced, dead>> PROVE WantedInv'
      BY <1>13 DEF UnregisterFound, envVars, WantedInv
    <3>2. size \in 0..Capacity /\ cursor[t] \in Nat
      BY DEF TypeOK
    <3>3. wanted' = wanted \ {cbId[t]}
      BY <1>13 DEF UnregisterFound
    <3>4. ASSUME NEW id \in Ids, id \in wanted'
          PROVE  \E i \in Slots : Held(i)' /\ elementData'[i] = id
      <4>1. PICK j \in Slots : Held(j) /\ elementData[j] = id
        BY <3>1, <3>3, <3>4 DEF WantedInv
      <4>2. j # c
        BY <2>0, <3>1, <3>3, <3>4, <4>1
      <4>3. CASE j < c
        BY <2>0, <2>a, <3>1, <3>2, <4>1, <4>3
      <4>4. CASE j > c
        <5>1. j - 1 \in 1..(size - 1) /\ j - 1 \in Slots /\ ~(j - 1 < c)
          BY <2>0, <3>1, <3>2, <4>1, <4>4
        <5>2. elementData'[j - 1] = elementData[(j - 1) + 1]
          BY <2>a, <3>1, <5>1
        <5> QED
          BY <2>0, <3>1, <3>2, <4>1, <5>1, <5>2
      <4> QED
        BY <3>2, <4>2, <4>3, <4>4
    <3>5. ASSUME NEW i \in Slots, Held(i)' PROVE elementData'[i] \in wanted'
      <4>1. i \in 1..(size - 1)
        BY <2>0, <3>1, <3>5
      <4>2. PICK j \in Slots : Held(j) /\ j # c /\ elementData'[i] = elementData[j]
        <5>1. CASE i < c
          BY <2>0, <2>a, <3>1, <3>2, <4>1, <5>1
        <5>2. CASE ~(i < c)
          <6>1. i + 1 \in Slots /\ i + 1 # c /\ i + 1 \in 1..size
            BY <3>2, <4>1, <5>2
          <6> QED
            BY <2>0, <2>a, <3>1, <4>1, <5>2, <6>1
        <5> QED
          BY <5>1, <5>2
      <4>3. elementData[j] # cbId[t] /\ elementData[j] \in Ids
        BY <2>0, <3>1, <4>2 DEF ListInv
      <4> QED
        BY <3>1, <3>3, <4>2, <4>3 DEF WantedInv
    <3> QED
      BY <3>4, <3>5 DEF WantedInv
  <2>8. NotifyInv'
    BY <1>13 DEF UnregisterFound, Unlock, AtEnd, Throws, Comodified, Element, Same,
       Without, envVars, AloneInv, Registering, TypeOK, NotifyInv
  <2>9. NoCrash'
    BY <1>13 DEF UnregisterFound, Unlock, AtEnd, Throws, Comodified, Element, Same,
       Without, envVars, NoCrash
  <2> QED
    BY <2>1, <2>2, <2>3, <2>4, <2>5, <2>6, <2>7, <2>8, <2>9
<1>14. ASSUME NEW t \in Binders, UnregisterMisses(t) PROVE IInv'
  <2>0. ~raced /\ ~AtEnd(t) => ~Throws(t) /\ Element(t) \in Ids
    BY <1>14, LoopIsInside DEF UnregisterMisses, Looping
  <2>1. TypeOK'
    BY <1>14 DEF UnregisterMisses, Unlock, AtEnd, Throws, Comodified, Element,
       listVars, envVars, RoomInv, TypeOK
  <2>2. RoomInv'
    BY <1>14 DEF UnregisterMisses, Unlock, AtEnd, Throws, Comodified, Element,
       listVars, envVars, TypeOK, RoomInv
  <2>3. AloneInv'
    BY <1>14 DEF UnregisterMisses, Unlock, AtEnd, Throws, Comodified, Element,
       listVars, envVars, Registering, TypeOK, AloneInv
  <2>4. ListInv'
    BY <1>14 DEF UnregisterMisses, Unlock, AtEnd, Throws, Comodified, Element,
       listVars, envVars, Held, AloneInv, Registering, TypeOK, ListInv
  <2>5. IteratorInv'
    BY <1>14 DEF UnregisterMisses, Unlock, AtEnd, Throws, Comodified, Element,
       listVars, envVars, Looping, AloneInv, Registering, TypeOK, IteratorInv
  <2>6. SearchInv'
    BY <1>14 DEF UnregisterMisses, Unlock, AtEnd, Throws, Comodified, Element,
       listVars, envVars, Looping, Adding, Held, AloneInv, Registering, TypeOK,
       SearchInv
  <2>7. WantedInv'
    <3>1. SUFFICES ASSUME ~raced, dead = {}, UNCHANGED <<raced, dead>> PROVE WantedInv'
      BY <1>14 DEF UnregisterMisses, envVars, WantedInv
    <3>2. AtEnd(t)
      BY <1>14, <2>0, <3>1 DEF UnregisterMisses
    <3>3. \A i \in Slots : Held(i) => elementData[i] # cbId[t]
      BY <1>14, <3>1, <3>2 DEF UnregisterMisses, AtEnd, Held, SearchInv
    <3>4. \A i \in Slots : Held(i)' <=> Held(i)
      BY <1>14 DEF UnregisterMisses, listVars, Held, TypeOK
    <3> QED
      BY <1>14, <3>1, <3>3, <3>4 DEF UnregisterMisses, listVars, envVars, WantedInv
  <2>8. NotifyInv'
    BY <1>14 DEF UnregisterMisses, Unlock, AtEnd, Throws, Comodified, Element,
       listVars, envVars, AloneInv, Registering, TypeOK, NotifyInv
  <2>9. NoCrash'
    BY <1>14 DEF UnregisterMisses, Unlock, AtEnd, Throws, Comodified, Element,
       listVars, envVars, NoCrash
  <2> QED
    BY <2>1, <2>2, <2>3, <2>4, <2>5, <2>6, <2>7, <2>8, <2>9
<1>15. ASSUME PlaybackStarted PROVE IInv'
  <2>1. TypeOK'
    BY <1>15 DEF PlaybackStarted, Begin, listVars, envVars, RoomInv, TypeOK
  <2>2. RoomInv'
    BY <1>15 DEF PlaybackStarted, Begin, listVars, envVars, TypeOK, RoomInv
  <2>3. AloneInv'
    BY <1>15 DEF PlaybackStarted, Begin, listVars, envVars, Registering, TypeOK,
       AloneInv
  <2>4. ListInv'
    BY <1>15 DEF PlaybackStarted, Begin, listVars, envVars, Held, AloneInv,
       Registering, TypeOK, ListInv
  <2>5. IteratorInv'
    BY <1>15 DEF PlaybackStarted, Begin, listVars, envVars, Looping, AloneInv,
       Registering, TypeOK, IteratorInv
  <2>6. SearchInv'
    BY <1>15 DEF PlaybackStarted, Begin, listVars, envVars, Looping, Adding, Held,
       AloneInv, Registering, TypeOK, SearchInv
  <2>7. WantedInv'
    BY <1>15 DEF PlaybackStarted, Begin, listVars, envVars, Held, TypeOK, WantedInv
  <2>8. NotifyInv'
    BY <1>15 DEF PlaybackStarted, Begin, listVars, envVars, AloneInv, Registering,
       TypeOK, NotifyInv
  <2>9. NoCrash'
    BY <1>15 DEF PlaybackStarted, Begin, listVars, envVars, NoCrash
  <2> QED
    BY <2>1, <2>2, <2>3, <2>4, <2>5, <2>6, <2>7, <2>8, <2>9
<1>16. ASSUME NotifyLock PROVE IInv'
  <2>1. TypeOK'
    BY <1>16 DEF NotifyLock, StartLoop, MonitorFree, listVars, envVars, RoomInv,
       TypeOK
  <2>2. RoomInv'
    BY <1>16 DEF NotifyLock, StartLoop, MonitorFree, listVars, envVars, TypeOK,
       RoomInv
  <2>3. AloneInv'
    BY <1>16 DEF NotifyLock, StartLoop, MonitorFree, listVars, envVars, Registering,
       TypeOK, AloneInv
  <2>4. ListInv'
    BY <1>16 DEF NotifyLock, StartLoop, MonitorFree, listVars, envVars, Held,
       AloneInv, Registering, TypeOK, ListInv
  <2>5. IteratorInv'
    BY <1>16 DEF NotifyLock, StartLoop, MonitorFree, listVars, envVars, Looping,
       AloneInv, Registering, TypeOK, IteratorInv
  <2>6. SearchInv'
    BY <1>16 DEF NotifyLock, StartLoop, MonitorFree, listVars, envVars, Looping,
       Adding, Held, AloneInv, Registering, TypeOK, SearchInv
  <2>7. WantedInv'
    BY <1>16 DEF NotifyLock, StartLoop, MonitorFree, listVars, envVars, Held,
       TypeOK, WantedInv
  <2>8. NotifyInv'
    BY <1>16 DEF NotifyLock, StartLoop, MonitorFree, listVars, envVars, AloneInv,
       Registering, TypeOK, NotifyInv
  <2>9. NoCrash'
    BY <1>16 DEF NotifyLock, StartLoop, MonitorFree, listVars, envVars, NoCrash
  <2> QED
    BY <2>1, <2>2, <2>3, <2>4, <2>5, <2>6, <2>7, <2>8, <2>9
<1>17. ASSUME NotifyNext PROVE IInv'
  <2>1. TypeOK'
    BY <1>17 DEF NotifyNext, Advance, AtEnd, Throws, Comodified, Element, listVars,
       envVars, RoomInv, TypeOK
  <2>2. RoomInv'
    BY <1>17 DEF NotifyNext, Advance, AtEnd, Throws, Comodified, Element, listVars,
       envVars, TypeOK, RoomInv
  <2>3. AloneInv'
    BY <1>17 DEF NotifyNext, Advance, AtEnd, Throws, Comodified, Element, listVars,
       envVars, Registering, TypeOK, AloneInv
  <2>4. ListInv'
    BY <1>17 DEF NotifyNext, Advance, AtEnd, Throws, Comodified, Element, listVars,
       envVars, Held, AloneInv, Registering, TypeOK, ListInv
  <2>5. IteratorInv'
    BY <1>17 DEF NotifyNext, Advance, AtEnd, Throws, Comodified, Element, listVars,
       envVars, Looping, AloneInv, Registering, TypeOK, IteratorInv
  <2>6. SearchInv'
    BY <1>17 DEF NotifyNext, Advance, AtEnd, Throws, Comodified, Element, listVars,
       envVars, Looping, Adding, Held, AloneInv, Registering, TypeOK, SearchInv
  <2>7. WantedInv'
    BY <1>17 DEF NotifyNext, Advance, AtEnd, Throws, Comodified, Element, listVars,
       envVars, Held, TypeOK, WantedInv
  <2>8. NotifyInv'
    BY <1>17 DEF NotifyNext, Advance, AtEnd, Throws, Comodified, Element, listVars,
       envVars, AloneInv, Registering, TypeOK, NotifyInv
  <2>9. NoCrash'
    BY <1>17 DEF NotifyNext, Advance, AtEnd, Throws, Comodified, Element, listVars,
       envVars, NoCrash
  <2> QED
    BY <2>1, <2>2, <2>3, <2>4, <2>5, <2>6, <2>7, <2>8, <2>9
<1>18. ASSUME NotifyEnds PROVE IInv'
  <2>1. TypeOK'
    BY <1>18 DEF NotifyEnds, Unlock, AtEnd, listVars, envVars, histVars, RoomInv,
       TypeOK
  <2>2. RoomInv'
    BY <1>18 DEF NotifyEnds, Unlock, AtEnd, listVars, envVars, histVars, TypeOK,
       RoomInv
  <2>3. AloneInv'
    BY <1>18 DEF NotifyEnds, Unlock, AtEnd, listVars, envVars, histVars,
       Registering, TypeOK, AloneInv
  <2>4. ListInv'
    BY <1>18 DEF NotifyEnds, Unlock, AtEnd, listVars, envVars, histVars, Held,
       AloneInv, Registering, TypeOK, ListInv
  <2>5. IteratorInv'
    BY <1>18 DEF NotifyEnds, Unlock, AtEnd, listVars, envVars, histVars, Looping,
       AloneInv, Registering, TypeOK, IteratorInv
  <2>6. SearchInv'
    BY <1>18 DEF NotifyEnds, Unlock, AtEnd, listVars, envVars, histVars, Looping,
       Adding, Held, AloneInv, Registering, TypeOK, SearchInv
  <2>7. WantedInv'
    BY <1>18 DEF NotifyEnds, Unlock, AtEnd, listVars, envVars, histVars, Held,
       TypeOK, WantedInv
  <2>8. NotifyInv'
    BY <1>18 DEF NotifyEnds, Unlock, AtEnd, listVars, envVars, histVars, AloneInv,
       Registering, TypeOK, NotifyInv
  <2>9. NoCrash'
    BY <1>18 DEF NotifyEnds, Unlock, AtEnd, listVars, envVars, histVars, NoCrash
  <2> QED
    BY <2>1, <2>2, <2>3, <2>4, <2>5, <2>6, <2>7, <2>8, <2>9
<1>19. ASSUME NotifyThrows PROVE IInv'
  <2>1. TypeOK'
    BY <1>19 DEF NotifyThrows, Unlock, AtEnd, Throws, Comodified, Element, listVars,
       histVars, RoomInv, TypeOK
  <2>2. RoomInv'
    BY <1>19 DEF NotifyThrows, Unlock, AtEnd, Throws, Comodified, Element, listVars,
       histVars, TypeOK, RoomInv
  <2>3. AloneInv'
    BY <1>19 DEF NotifyThrows, Unlock, AtEnd, Throws, Comodified, Element, listVars,
       histVars, Registering, TypeOK, AloneInv
  <2>4. ListInv'
    BY <1>19 DEF NotifyThrows, Unlock, AtEnd, Throws, Comodified, Element, listVars,
       histVars, Held, AloneInv, Registering, TypeOK, ListInv
  <2>5. IteratorInv'
    BY <1>19 DEF NotifyThrows, Unlock, AtEnd, Throws, Comodified, Element, listVars,
       histVars, Looping, AloneInv, Registering, TypeOK, IteratorInv
  <2>6. SearchInv'
    BY <1>19 DEF NotifyThrows, Unlock, AtEnd, Throws, Comodified, Element, listVars,
       histVars, Looping, Adding, Held, AloneInv, Registering, TypeOK, SearchInv
  <2>7. WantedInv'
    BY <1>19 DEF NotifyThrows, Unlock, AtEnd, Throws, Comodified, Element, listVars,
       histVars, Held, TypeOK, WantedInv
  <2>8. NotifyInv'
    BY <1>19 DEF NotifyThrows, Unlock, AtEnd, Throws, Comodified, Element, listVars,
       histVars, AloneInv, Registering, TypeOK, NotifyInv
  <2>9. NoCrash'
    <3>1. ~AtEnd(Player) => ~Throws(Player) \/ raced
      BY <1>19, LoopIsInside DEF NotifyThrows, Looping
    <3>2. raced
      BY <1>19, <3>1 DEF NotifyThrows, Throws
    <3> QED
      BY <1>19, <3>2 DEF NotifyThrows, histVars, NoCrash
  <2> QED
    BY <2>1, <2>2, <2>3, <2>4, <2>5, <2>6, <2>7, <2>8, <2>9
<1>20. ASSUME Destroy PROVE IInv'
  <2>1. TypeOK'
    BY <1>20 DEF Destroy, MonitorFree, threadVars, RoomInv, TypeOK
  <2>2. RoomInv'
    BY <1>20 DEF Destroy, MonitorFree, threadVars, TypeOK, RoomInv
  <2>3. AloneInv'
    BY <1>20 DEF Destroy, MonitorFree, threadVars, Registering, TypeOK, AloneInv
  <2>4. ListInv'
    <3>1. \A u \in Threads : pc'[u] \notin {"size", "store"}
      BY <1>20 DEF Destroy, threadVars, RoomInv
    <3>2. \A i \in Slots : ~Held(i)'
      BY <1>20 DEF Destroy, Held
    <3> QED
      BY <3>1, <3>2 DEF ListInv
  <2>5. IteratorInv'
    BY <1>20 DEF Destroy, MonitorFree, threadVars, Looping, AloneInv, Registering,
       TypeOK, IteratorInv
  <2>6. SearchInv'
    BY <1>20 DEF Destroy, MonitorFree, threadVars, Looping, Adding, Held, AloneInv,
       Registering, TypeOK, SearchInv
  <2>7. WantedInv'
    BY <1>20 DEF Destroy, MonitorFree, threadVars, Held, TypeOK, WantedInv
  <2>8. NotifyInv'
    BY <1>20 DEF Destroy, MonitorFree, threadVars, AloneInv, Registering, TypeOK,
       NotifyInv
  <2>9. NoCrash'
    BY <1>20 DEF Destroy, MonitorFree, threadVars, NoCrash
  <2> QED
    BY <2>1, <2>2, <2>3, <2>4, <2>5, <2>6, <2>7, <2>8, <2>9
<1>21. ASSUME NEW id \in Ids, Die(id) PROVE IInv'
  <2>1. TypeOK'
    BY <1>21 DEF Die, threadVars, listVars, histVars, RoomInv, TypeOK
  <2>2. RoomInv'
    BY <1>21 DEF Die, threadVars, listVars, histVars, TypeOK, RoomInv
  <2>3. AloneInv'
    BY <1>21 DEF Die, threadVars, listVars, histVars, Registering, TypeOK, AloneInv
  <2>4. ListInv'
    BY <1>21 DEF Die, threadVars, listVars, histVars, Held, AloneInv, Registering,
       TypeOK, ListInv
  <2>5. IteratorInv'
    BY <1>21 DEF Die, threadVars, listVars, histVars, Looping, AloneInv,
       Registering, TypeOK, IteratorInv
  <2>6. SearchInv'
    BY <1>21 DEF Die, threadVars, listVars, histVars, Looping, Adding, Held,
       AloneInv, Registering, TypeOK, SearchInv
  <2>7. WantedInv'
    BY <1>21 DEF Die, threadVars, listVars, histVars, Held, TypeOK, WantedInv
  <2>8. NotifyInv'
    BY <1>21 DEF Die, threadVars, listVars, histVars, AloneInv, Registering, TypeOK,
       NotifyInv
  <2>9. NoCrash'
    BY <1>21 DEF Die, threadVars, listVars, histVars, NoCrash
  <2> QED
    BY <2>1, <2>2, <2>3, <2>4, <2>5, <2>6, <2>7, <2>8, <2>9
<1>22. CASE Finished \/ UNCHANGED vars
  <2>1. UNCHANGED <<threadVars, monitor, listVars, envVars, calls, histVars>>
    BY <1>22 DEF Finished, vars
  <2>2. TypeOK' /\ RoomInv' /\ AloneInv' /\ IteratorInv' /\ NoCrash'
    BY <2>1 DEF threadVars, listVars, envVars, histVars, TypeOK, RoomInv, AloneInv,
       IteratorInv, NoCrash, Registering, Looping
  <2>3. ListInv' /\ SearchInv' /\ WantedInv' /\ NotifyInv'
    BY <2>1 DEF threadVars, listVars, envVars, histVars, ListInv, SearchInv,
       WantedInv, NotifyInv, Held, Adding
  <2> QED
    BY <2>2, <2>3
<1> QED
  BY <1>1, <1>2, <1>3, <1>4, <1>5, <1>6, <1>7, <1>8, <1>9, <1>10, <1>11, <1>12,
     <1>13, <1>14, <1>15, <1>16, <1>17, <1>18, <1>19, <1>20, <1>21, <1>22 DEF Next,
     BinderNext

\* The inductive invariant holds of every behaviour.
LEMMA Invariant == Spec => []IInv
<1> QED
  BY InitInv, StepInv, PTL DEF Spec

\* The variables keep their types: an iterator never leaves the array, and the monitor
\* is held by the one thread that loops.
THEOREM TypeCorrect == Spec => []TypeOK
<1>1. IInv => TypeOK
  BY DEF IInv
<1> QED
  BY <1>1, Invariant, PTL

\* No exception of the list ends the process as long as nothing overlaps a
\* registerCallback, however many threads call and whichever processes die.
THEOREM NoCrashHolds == Spec => []NoCrash
<1>1. IInv => NoCrash
  BY DEF IInv
<1> QED
  BY <1>1, Invariant, PTL

\* Between calls the list is the set of the callbacks registered and not
\* unregistered, each in it once, if no call overlapped a registerCallback.
THEOREM ListIsWantedHolds == Spec => []ListIsWanted
<1>1. ASSUME IInv, ~raced, dead = {}, AtRest PROVE HoldsWanted
  <2>1. \A i \in Slots : Held(i) <=> i \in 1..size
    BY <1>1 DEF AtRest, Held
  <2>2. size \in Nat /\ size <= Capacity /\ 1..size \subseteq Slots
    BY <1>1, RegistryBoundAssumption DEF IInv, TypeOK, Slots
  <2>3. Listed = wanted
    <3>1. \A i \in 1..size : elementData[i] \in Ids
      BY <1>1, <2>1, <2>2 DEF IInv, ListInv
    <3> QED
      BY <1>1, <2>1, <2>2, <3>1 DEF IInv, WantedInv, Listed, TypeOK
  <2>4. ExistsBijection(1..size, Listed)
    <3> DEFINE f == [i \in 1..size |-> elementData[i]]
    <3>1. f \in Bijection(1..size, Listed)
      <4>1. \A i, j \in 1..size : elementData[i] = elementData[j] => i = j
        BY <1>1, <2>1, <2>2 DEF IInv, ListInv
      <4>2. f \in Injection(1..size, Listed)
        BY <4>1 DEF Injection, IsInjective, Listed
      <4>3. f \in Surjection(1..size, Listed)
        BY DEF Surjection, Listed
      <4> QED
        BY <4>2, <4>3 DEF Bijection
    <3> QED
      BY <3>1 DEF ExistsBijection
  <2>5. Cardinality(Listed) = size
    BY <2>2, <2>4, FS_CountingElements
  <2> QED
    BY <2>3, <2>5 DEF HoldsWanted
<1>2. IInv => ListIsWanted
  BY <1>1 DEF ListIsWanted
<1> QED
  BY <1>2, Invariant, PTL

\* "When calling a callback method, it must be done on all registered callbacks":
\* for any number of them, a notification that ends has called every one that was
\* registered when it began.
THEOREM NotifiesAllHolds == Spec => NotifiesAll
<1>1. IInv /\ [Next]_vars =>
        [pc[Player] = "nloop" /\ pc'[Player] = "idle" /\ ~raced /\ dead = {} =>
           due \subseteq called]_vars
  <2> SUFFICES ASSUME IInv, Next, ~raced, dead = {},
                      pc[Player] = "nloop", pc'[Player] = "idle"
               PROVE  due \subseteq called
    BY DEF vars
  <2>1. pc = [t \in Threads |-> pc[t]] /\ Player \in Threads /\ Player \notin Binders
    BY RegistryThreadsAssumption DEF IInv, TypeOK, Threads
  <2>2. ~NotifyThrows
    BY <2>1, LoopIsInside DEF IInv, NotifyThrows, Looping, Throws
  <2>3. ASSUME NEW t \in Binders, BinderNext(t) PROVE pc'[Player] = pc[Player]
    BY <2>1, <2>3 DEF BinderNext, Begin, Register, Unregister, RegisterLock,
       RegisterNext, RegisterKnown, RegisterThrows, RegisterNew, AddRead, AddSize,
       AddStore, UnregisterLock, UnregisterNext, UnregisterFound, UnregisterMisses
  <2>4. NotifyEnds
    BY <2>2, <2>3 DEF Next, PlaybackStarted, Begin, NotifyLock, NotifyNext, Destroy,
       Die, Finished, threadVars, vars
  <2>5. cursor[Player] = size
    BY <2>4 DEF NotifyEnds, AtEnd
  <2>6. ASSUME NEW id \in due PROVE id \in called
    <3>1. id \in wanted /\ id \in Ids
      BY DEF IInv, NotifyInv, TypeOK
    <3>2. PICK i \in Slots : Held(i) /\ elementData[i] = id
      BY <3>1 DEF IInv, WantedInv
    <3>3. i <= cursor[Player]
      BY <2>5, <3>2 DEF Held, IInv, TypeOK
    <3> QED
      BY <3>2, <3>3 DEF IInv, NotifyInv
  <2> QED
    BY <2>6
<1> QED
  BY <1>1, Invariant, PTL DEF Spec, NotifiesAll

\* "Removes a registered callback": a notification calls no callback that is not
\* registered, unless a call about it is under way.
THEOREM UnregisteredIsSilentHolds == Spec => UnregisteredIsSilent
<1>1. IInv /\ [Next]_vars =>
        [~raced /\ dead = {} =>
           \A id \in called' \ called :
             id \in wanted \/ \E t \in Binders : pc[t] # "idle" /\ cbId[t] = id]_vars
  <2> SUFFICES ASSUME IInv, Next, ~raced, dead = {}, NEW id \in called' \ called
               PROVE  id \in wanted
    BY DEF vars
  <2>1. NotifyNext
    <3>1. ASSUME NEW t \in Binders, BinderNext(t) PROVE called' = called
      BY <3>1 DEF BinderNext, Register, Unregister, RegisterLock, RegisterNext,
         RegisterKnown, RegisterThrows, RegisterNew, AddRead, AddSize, AddStore,
         UnregisterLock, UnregisterNext, UnregisterFound, UnregisterMisses, histVars
    <3>2. ~NotifyLock
      BY DEF NotifyLock
    <3> QED
      BY <3>1, <3>2 DEF Next, PlaybackStarted, NotifyEnds, NotifyThrows, Destroy,
         Die, Finished, histVars, vars
  <2>2. id = elementData[cursor[Player] + 1]
    BY <2>1 DEF NotifyNext, Element
  <2>3. cursor[Player] + 1 \in Slots /\ Held(cursor[Player] + 1) /\ id \in Ids
    BY <2>1, <2>2, LoopIsInside DEF NotifyNext, IInv, Looping, Element, Threads
  <2> QED
    BY <2>2, <2>3 DEF IInv, WantedInv
<1> QED
  BY <1>1, Invariant, PTL DEF Spec, UnregisteredIsSilent
=============================================================================
