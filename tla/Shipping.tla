------------------------------ MODULE Shipping ------------------------------
(***************************************************************************)
(* The last stage of the chocolate factory: carton boxes leave the filling *)
(* queues, wait in the storage area and are loaded onto trucks.            *)
(*                                                                         *)
(*   - the filling threads (one per chocolate type) put finished boxes on  *)
(*     the filling queue of their type; they suspend themselves while      *)
(*     storage_area_box_count is above the thresholds;                     *)
(*   - the porters (threads running insertToStorageArea) carry boxes from  *)
(*     the filling queues to the storage queues;                           *)
(*   - the loaders (threads running insertToTrucks) carry boxes from the   *)
(*     storage queues onto the truck whose turn it is.                     *)
(*                                                                         *)
(* Every access to a variable the threads share without a lock is a step   *)
(* of its own, so that x++ is a load and a store, as in the -O0 build.     *)
(* What happens under a mutex that protects everything it touches is one   *)
(* step.  The mutex of a truck does not: loaders come to hold the mutex of *)
(* another truck than the one they work on, so that two of them may be in  *)
(* the enqueue of one truck, whose beginning and end are steps.            *)
(* The per-type and per-truck globals of the code (..._Truck_A,            *)
(* ..._Truck_B, ...) are functions over Types and Trucks here.             *)
(*                                                                         *)
(* A message to the GUI is sent at the beginning of the step that is named *)
(* to tell the GUI.  While the GUI's window is open it reads its queue;    *)
(* when the window is closed the queue fills up and every send blocks for  *)
(* good, with the mutexes its thread holds: the thread takes no step any   *)
(* more.  Spec allows that at any point; only FairSpec assumes the window. *)
(*                                                                         *)
(* Left out: sleeping times, a malloc that fails, and what nothing reads:  *)
(* G_round and the number of boxes on each truck.                          *)
(***************************************************************************)
EXTENDS Integers, Sequences, FiniteSets

CONSTANTS
  NumTypes,      \* chocolate types (A, B, C in the code)
  NumTrucks,     \* trucks, loaded in turn (3 in the code)
  Porters,       \* threads running insertToStorageArea (2 in the code)
  Loaders,       \* threads running insertToTrucks (2 in the code)
  Quota,         \* boxes of each type a truck can hold per trip
  MinThreshold,  \* storage area: resume at or below
  MaxThreshold,  \* storage area: suspend above
  MaxBoxes,      \* BOUND on the boxes filled per type
  MaxDelivered,  \* BOUND at which the delivered counters saturate
  None           \* no thread

Types  == 1..NumTypes
Trucks == 1..NumTrucks
Carriers == Porters \cup Loaders

ASSUME CountsAssumption == NumTypes \in Nat \ {0} /\ NumTrucks \in Nat \ {0}
ASSUME ThreadsAssumption ==
  Porters \cap Loaders = {} /\ None \notin Porters \cup Loaders
ASSUME InputAssumption ==
  /\ Quota \in [Types -> Nat \ {0}]
  /\ MinThreshold \in Nat /\ MaxThreshold \in Nat
ASSUME BoundAssumption == MaxBoxes \in [Types -> Nat] /\ MaxDelivered \in Nat

\* The n-th box of type t is <<t, n>>.  NoBox is the zeroed payload that a
\* dequeue from an empty queue returns, and an empty hand.
Boxes == Types \X (Nat \ {0})
NoBox == <<0, 0>>

VARIABLES
  made,                    \* boxes the filler of each type has finished
  filler,                  \* where the filling thread of each type is
  fillQ, fillMutex,        \* filling queues and the holders of their mutexes
  storageQ, storageMutex,  \* storage area queues and the holders
  truckQ, truckMutex,      \* what was put on each truck, and the holders
  storage_area_box_count,
  truckCount,              \* G_numberOfChocolateBoxs_Truck_A/B/C
  G_Trucks_Order,          \* truck being loaded
  switched,                \* history: the order of the trucks was changed
  torn,                    \* trucks with a list two loaders changed at a time
  delivered,               \* G_DELIVERED_A/B/C_BOXES, saturating
  pc,                      \* where each porter and loader is
  kind,                    \* the type it is working on
  reg,                     \* the register of its load / store pair
  hand,                    \* local chocolate: the box it carries
  save                     \* loaders: save_index_mutex + 1

fillVars    == <<made, filler>>
queueVars   == <<fillQ, fillMutex, storageQ, storageMutex>>
turnVars    == <<G_Trucks_Order, switched>>
truckVars   == <<truckQ, truckMutex, truckCount, turnVars, torn, delivered>>
localVars   == <<pc, kind, reg, hand, save>>
vars == <<fillVars, queueVars, truckVars, storage_area_box_count, localVars>>

Init ==
  /\ made = [t \in Types |-> 0]
  /\ filler = [t \in Types |-> "test"]
  /\ fillQ = [t \in Types |-> <<>>] /\ fillMutex = [t \in Types |-> None]
  /\ storageQ = [t \in Types |-> <<>>] /\ storageMutex = [t \in Types |-> None]
  /\ truckQ = [k \in Trucks |-> <<>>] /\ truckMutex = [k \in Trucks |-> None]
  /\ storage_area_box_count = 0
  /\ truckCount = [t \in Types |-> 0]
  /\ G_Trucks_Order = 1 /\ switched = FALSE /\ torn = {}
  /\ delivered = [t \in Types |-> 0]
  /\ pc = [c \in Carriers |-> IF c \in Porters THEN "enter" ELSE "order"]
  /\ kind = [c \in Carriers |-> 1]
  /\ reg = [c \in Carriers |-> 0]
  /\ hand = [c \in Carriers |-> NoBox]
  /\ save = [l \in Loaders |-> 1]

Goto(c, label) == pc' = [pc EXCEPT ![c] = label]

\* A local that will be assigned before it is read again gets its first value,
\* so that states do not differ in it.
Forget(c) == reg' = [reg EXCEPT ![c] = 0]

-----------------------------------------------------------------------------
(* Filling threads: the test at the top of the loop and the final enqueue. *)
(* What they take from the containers is not part of this module.          *)

\* The outer test: above the maximum the thread starts to spin.
FillerTest(t) ==
  /\ filler[t] = "test"
  /\ filler' = [filler EXCEPT ![t] =
                  IF storage_area_box_count > MaxThreshold THEN "suspended" ELSE "pack"]
  /\ UNCHANGED <<made, queueVars, truckVars, storage_area_box_count, localVars>>

\* The inner loop spins until the count is no longer above the minimum.
FillerResume(t) ==
  /\ filler[t] = "suspended"
  /\ storage_area_box_count <= MinThreshold
  /\ filler' = [filler EXCEPT ![t] = "pack"]
  /\ UNCHANGED <<made, queueVars, truckVars, storage_area_box_count, localVars>>

\* A carton box is ready: enqueue it under the filling queue's mutex.
FillerPack(t) ==
  /\ filler[t] = "pack"
  /\ made[t] < MaxBoxes[t]
  /\ fillMutex[t] = None
  /\ made' = [made EXCEPT ![t] = @ + 1]
  /\ fillQ' = [fillQ EXCEPT ![t] = Append(@, <<t, made[t] + 1>>)]
  /\ filler' = [filler EXCEPT ![t] = "test"]
  /\ UNCHANGED <<fillMutex, storageQ, storageMutex, truckVars,
                 storage_area_box_count, localVars>>

FillerStep(t) == FillerTest(t) \/ FillerResume(t) \/ FillerPack(t)

-----------------------------------------------------------------------------
(* Porters: insertToStorageArea.                                           *)

\* MUTANT of NextKind: the round over the types does not start again.
NextKindNoWrap(t) == t + 1

NextKind(t) == IF t = NumTypes THEN 1 ELSE t + 1

\* MUTANT of PorterEnter: the filling mutex is not kept while a box is carried.
PorterEnterUnlocked(p) ==
  /\ pc[p] = "enter"
  /\ fillMutex[kind[p]] = None
  /\ fillQ[kind[p]] # <<>>
  /\ Goto(p, "load")
  /\ UNCHANGED <<fillVars, queueVars, truckVars, storage_area_box_count,
                 kind, reg, hand, save>>

\* MUTANT of PorterEnter: the box is counted before the queue is looked at.
PorterEnterCounting(p) ==
  LET t == kind[p] IN
  /\ pc[p] = "enter"
  /\ fillMutex[t] = None
  /\ \/ /\ fillQ[t] = <<>>
        /\ kind' = [kind EXCEPT ![p] = NextKind(t)]
        /\ storage_area_box_count' = storage_area_box_count + 1
        /\ UNCHANGED <<fillMutex, pc>>
     \/ /\ fillQ[t] # <<>>
        /\ fillMutex' = [fillMutex EXCEPT ![t] = p]
        /\ Goto(p, "load")
        /\ UNCHANGED <<kind, storage_area_box_count>>
  /\ UNCHANGED <<fillVars, fillQ, storageQ, storageMutex, truckVars, reg, hand, save>>

\* Lock the filling queue; when it is empty unlock it at once and go on.
PorterEnter(p) ==
  LET t == kind[p] IN
  /\ pc[p] = "enter"
  /\ fillMutex[t] = None
  /\ \/ /\ fillQ[t] = <<>>
        /\ kind' = [kind EXCEPT ![p] = NextKind(t)]
        /\ UNCHANGED <<fillMutex, pc>>
     \/ /\ fillQ[t] # <<>>
        /\ fillMutex' = [fillMutex EXCEPT ![t] = p]
        /\ Goto(p, "load")
        /\ UNCHANGED kind
  /\ UNCHANGED <<fillVars, fillQ, storageQ, storageMutex, truckVars,
                 storage_area_box_count, reg, hand, save>>

\* storage_area_box_count++ is not protected: the other porter may hold the
\* mutex of another type, and loaders write it too.
PorterLoadCount(p) ==
  /\ pc[p] = "load"
  /\ reg' = [reg EXCEPT ![p] = storage_area_box_count]
  /\ Goto(p, "store")
  /\ UNCHANGED <<fillVars, queueVars, truckVars, storage_area_box_count,
                 kind, hand, save>>

PorterStoreCount(p) ==
  /\ pc[p] = "store"
  /\ storage_area_box_count' = reg[p] + 1
  /\ Forget(p)
  /\ Goto(p, "pick")
  /\ UNCHANGED <<fillVars, queueVars, truckVars, kind, hand, save>>

\* Dequeue under the filling mutex, which the porter holds.
PorterPick(p) ==
  LET t == kind[p] IN
  /\ pc[p] = "pick"
  /\ \/ /\ fillQ[t] = <<>>
        /\ hand' = [hand EXCEPT ![p] = NoBox]
        /\ UNCHANGED fillQ
     \/ /\ fillQ[t] # <<>>
        /\ hand' = [hand EXCEPT ![p] = Head(fillQ[t])]
        /\ fillQ' = [fillQ EXCEPT ![t] = Tail(fillQ[t])]
  /\ Goto(p, "put")
  /\ UNCHANGED <<fillVars, fillMutex, storageQ, storageMutex, truckVars,
                 storage_area_box_count, kind, reg, save>>

\* MUTANT of PorterPut: the filling queue is not released.
PorterPutLocked(p) ==
  LET t == kind[p] IN
  /\ pc[p] = "put"
  /\ storageMutex[t] = None
  /\ storageQ' = [storageQ EXCEPT ![t] = Append(@, hand[p])]
  /\ hand' = [hand EXCEPT ![p] = NoBox]
  /\ kind' = [kind EXCEPT ![p] = NextKind(t)]
  /\ Goto(p, "enter")
  /\ UNCHANGED <<fillVars, fillQ, fillMutex, storageMutex, truckVars,
                 storage_area_box_count, reg, save>>

\* Tell the GUI, enqueue under the storage mutex, then release the filling queue.
PorterPut(p) ==
  LET t == kind[p] IN
  /\ pc[p] = "put"
  /\ storageMutex[t] = None
  /\ storageQ' = [storageQ EXCEPT ![t] = Append(@, hand[p])]
  /\ hand' = [hand EXCEPT ![p] = NoBox]
  /\ fillMutex' = [fillMutex EXCEPT ![t] = None]
  /\ kind' = [kind EXCEPT ![p] = NextKind(t)]
  /\ Goto(p, "enter")
  /\ UNCHANGED <<fillVars, fillQ, storageMutex, truckVars,
                 storage_area_box_count, reg, save>>

PorterStep(p) ==
  \/ PorterEnter(p) \/ PorterLoadCount(p) \/ PorterStoreCount(p)
  \/ PorterPick(p) \/ PorterPut(p)

-----------------------------------------------------------------------------
(* Loaders: insertToTrucks.                                                *)

\* After the last type comes `after`, else the next type at the same place.
NextType(l, again, after) ==
  /\ kind' = [kind EXCEPT ![l] = NextKind(@)]
  /\ Goto(l, IF kind[l] = NumTypes THEN after ELSE again)

\* Top of the loop: the types are examined from the first one, the truck is
\* not known yet.
Restart(l) ==
  /\ Goto(l, "order")
  /\ kind' = [kind EXCEPT ![l] = 1]
  /\ save' = [save EXCEPT ![l] = 1]

\* pthread_mutex_lock(&G_mutexs_on_Trucks_Queues[G_Trucks_Order - 1]) picks
\* the mutex first and then waits for it.
LoaderReadOrder(l) ==
  /\ pc[l] = "order"
  /\ reg' = [reg EXCEPT ![l] = G_Trucks_Order]
  /\ Goto(l, "lock")
  /\ UNCHANGED <<fillVars, queueVars, truckVars, storage_area_box_count,
                 kind, hand, save>>

\* MUTANT of LoaderLock: a trylock whose result is ignored.
LoaderTryLock(l) ==
  /\ pc[l] = "lock"
  /\ Goto(l, "save")
  /\ UNCHANGED <<fillVars, queueVars, truckVars, storage_area_box_count,
                 kind, reg, hand, save>>

LoaderLock(l) ==
  /\ pc[l] = "lock"
  /\ truckMutex[reg[l]] = None
  /\ truckMutex' = [truckMutex EXCEPT ![reg[l]] = l]
  /\ Goto(l, "save")
  /\ UNCHANGED <<fillVars, queueVars, truckQ, truckCount, turnVars, torn,
                 delivered, storage_area_box_count, kind, reg, hand, save>>

\* The truck is read again, after the lock: it may not be the locked one.
LoaderSave(l) ==
  /\ pc[l] = "save"
  /\ save' = [save EXCEPT ![l] = G_Trucks_Order]
  /\ Forget(l)
  /\ Goto(l, "check")
  /\ UNCHANGED <<fillVars, queueVars, truckVars, storage_area_box_count, kind, hand>>

\* Is there room for this type on the truck?
LoaderCheck(l) ==
  /\ pc[l] = "check"
  /\ Goto(l, IF truckCount[kind[l]] < Quota[kind[l]] THEN "stock" ELSE "ship")
  /\ UNCHANGED <<fillVars, queueVars, truckVars, storage_area_box_count,
                 kind, reg, hand, save>>

\* Is a box of this type in the storage area?  (read without its mutex)
LoaderStock(l) ==
  /\ pc[l] = "stock"
  /\ \/ storageQ[kind[l]] # <<>> /\ Goto(l, "take") /\ UNCHANGED kind
     \/ storageQ[kind[l]] = <<>> /\ NextType(l, "check", "compare")
  /\ UNCHANGED <<fillVars, queueVars, truckVars, storage_area_box_count,
                 reg, hand, save>>

\* MUTANT of LoaderTake: the front of the queue is read and not removed.
LoaderPeek(l) ==
  /\ pc[l] = "take"
  /\ storageMutex[kind[l]] = None
  /\ storageQ[kind[l]] # <<>>
  /\ hand' = [hand EXCEPT ![l] = Head(storageQ[kind[l]])]
  /\ Goto(l, "release")
  /\ UNCHANGED <<fillVars, queueVars, truckVars, storage_area_box_count,
                 kind, reg, save>>

\* Dequeue under the storage mutex.  On an empty queue the function returns
\* a zeroed payload and does not unlock.
LoaderTake(l) ==
  LET t == kind[l] IN
  /\ pc[l] = "take"
  /\ storageMutex[t] = None
  /\ \/ /\ storageQ[t] = <<>>
        /\ storageMutex' = [storageMutex EXCEPT ![t] = l]
        /\ UNCHANGED <<storageQ, hand>>
     \/ /\ storageQ[t] # <<>>
        /\ hand' = [hand EXCEPT ![l] = Head(storageQ[t])]
        /\ storageQ' = [storageQ EXCEPT ![t] = Tail(storageQ[t])]
        /\ UNCHANGED storageMutex
  /\ Goto(l, "release")
  /\ UNCHANGED <<fillVars, fillQ, fillMutex, truckVars, storage_area_box_count,
                 kind, reg, save>>

\* pthread_mutex_unlock of the saved truck, whoever holds it.
LoaderRelease(l) ==
  /\ pc[l] = "release"
  /\ truckMutex' = [truckMutex EXCEPT ![save[l]] = None]
  /\ Goto(l, "stow")
  /\ UNCHANGED <<fillVars, queueVars, truckQ, truckCount, turnVars, torn,
                 delivered, storage_area_box_count, kind, reg, hand, save>>

\* MUTANT of LoaderEnqueue: the box is put down only while it is the truck's turn.
LoaderEnqueueInTurn(l) ==
  LET k == save[l] IN
  /\ pc[l] = "stow"
  /\ k = G_Trucks_Order /\ truckMutex[k] = None
  /\ truckMutex' = [truckMutex EXCEPT ![k] = l]
  /\ torn' = IF \E m \in Loaders : pc[m] = "append" /\ save[m] = k
                THEN torn \cup {k} ELSE torn
  /\ Goto(l, "append")
  /\ UNCHANGED <<fillVars, queueVars, truckQ, truckCount, turnVars,
                 delivered, storage_area_box_count, kind, reg, hand, save>>

\* Tell the GUI, and enter enqueueToQueue for the saved truck: lock its mutex.
\* Another loader may be inside: its mutex was unlocked by one that worked on
\* this truck with the mutex of another.
LoaderEnqueue(l) ==
  LET k == save[l] IN
  /\ pc[l] = "stow"
  /\ truckMutex[k] = None
  /\ truckMutex' = [truckMutex EXCEPT ![k] = l]
  /\ torn' = IF \E m \in Loaders : pc[m] = "append" /\ save[m] = k
                THEN torn \cup {k} ELSE torn
  /\ Goto(l, "append")
  /\ UNCHANGED <<fillVars, queueVars, truckQ, truckCount, turnVars,
                 delivered, storage_area_box_count, kind, reg, hand, save>>

\* The list of truck k after box b was linked.  When two loaders are at it at a
\* time, one may link its box to a node that is the last no more, or end the list
\* at one: boxes behind that node are lost.  Rear may be left outside of the list,
\* and later boxes are lost with it.  (A null Rear ends the process.)
Linked(k, b) ==
  IF k \in torn
    THEN UNION {{SubSeq(truckQ[k], 1, n), Append(SubSeq(truckQ[k], 1, n), b)}
                  : n \in 0..Len(truckQ[k])}
    ELSE {Append(truckQ[k], b)}

\* Link the box, and unlock the mutex.
LoaderAppend(l) ==
  LET k == save[l] IN
  /\ pc[l] = "append"
  /\ \E q \in Linked(k, hand[l]) : truckQ' = [truckQ EXCEPT ![k] = q]
  /\ truckMutex' = [truckMutex EXCEPT ![k] = None]
  /\ hand' = [hand EXCEPT ![l] = NoBox]
  /\ Goto(l, "load")
  /\ UNCHANGED <<fillVars, queueVars, truckCount, turnVars, torn,
                 delivered, storage_area_box_count, kind, reg, save>>

\* G_numberOfChocolateBoxs_Truck_X++ outside every mutex, then break.
LoaderLoadCount(l) ==
  /\ pc[l] = "load"
  /\ reg' = [reg EXCEPT ![l] = truckCount[kind[l]]]
  /\ Goto(l, "store")
  /\ UNCHANGED <<fillVars, queueVars, truckVars, storage_area_box_count,
                 kind, hand, save>>

LoaderStoreCount(l) ==
  /\ pc[l] = "store"
  /\ truckCount' = [truckCount EXCEPT ![kind[l]] = reg[l] + 1]
  /\ Restart(l)
  /\ Forget(l)
  /\ UNCHANGED <<fillVars, queueVars, truckQ, truckMutex, turnVars, torn,
                 delivered, storage_area_box_count, hand>>

Saturated(n) == IF n < MaxDelivered THEN n ELSE MaxDelivered

\* The share of this type is full: the count of the storage area is zeroed and
\* a whole quota is counted as delivered, each time the loop comes by.  Tell the
\* GUI, with the truck's mutex locked.
LoaderShip(l) ==
  LET t == kind[l] IN
  /\ pc[l] = "ship"
  /\ storage_area_box_count' = 0
  /\ delivered' = [delivered EXCEPT ![t] = Saturated(delivered[t] + Quota[t])]
  /\ NextType(l, "check", "compare")
  /\ UNCHANGED <<fillVars, queueVars, truckQ, truckMutex, truckCount,
                 turnVars, torn, reg, hand, save>>

\* MUTANT of LoaderCompare: one full type is enough.
LoaderCompareAny(l) ==
  /\ pc[l] = "compare"
  /\ \/ truckCount[kind[l]] = Quota[kind[l]] /\ Goto(l, "turn") /\ kind' = [kind EXCEPT ![l] = 1]
     \/ truckCount[kind[l]] # Quota[kind[l]] /\ NextType(l, "compare", "leave")
  /\ Forget(l)
  /\ UNCHANGED <<fillVars, queueVars, truckVars, storage_area_box_count, hand, save>>

\* A == quota && B == quota && C == quota, read one by one; the candidate
\* below starts with the first truck.
LoaderCompare(l) ==
  /\ pc[l] = "compare"
  /\ \/ truckCount[kind[l]] = Quota[kind[l]] /\ NextType(l, "compare", "turn")
     \/ truckCount[kind[l]] # Quota[kind[l]] /\ Goto(l, "leave") /\ UNCHANGED kind
  /\ Forget(l)
  /\ UNCHANGED <<fillVars, queueVars, truckVars, storage_area_box_count, hand, save>>

\* if (G_Trucks_Order == 1) ... else if (== 2) ... : reg + 1 is the candidate.
LoaderTurn(l) ==
  /\ pc[l] = "turn"
  /\ \/ /\ G_Trucks_Order = reg[l] + 1
        /\ Goto(l, "advance") /\ UNCHANGED reg
     \/ /\ G_Trucks_Order # reg[l] + 1 /\ reg[l] + 1 = NumTrucks
        /\ Goto(l, "reset") /\ Forget(l)
     \/ /\ G_Trucks_Order # reg[l] + 1 /\ reg[l] + 1 # NumTrucks
        /\ reg' = [reg EXCEPT ![l] = reg[l] + 1] /\ UNCHANGED pc
  /\ UNCHANGED <<fillVars, queueVars, truckVars, storage_area_box_count,
                 kind, hand, save>>

\* The candidate's successor, 1 after the last truck.
LoaderAdvance(l) ==
  /\ pc[l] = "advance"
  /\ G_Trucks_Order' = IF reg[l] + 1 = NumTrucks THEN 1 ELSE reg[l] + 2
  /\ switched' = TRUE
  /\ Goto(l, "reset")
  /\ Forget(l)
  /\ UNCHANGED <<fillVars, queueVars, truckQ, truckMutex, truckCount, torn,
                 delivered, storage_area_box_count, kind, hand, save>>

LoaderReset(l) ==
  /\ pc[l] = "reset"
  /\ truckCount' = [truckCount EXCEPT ![kind[l]] = 0]
  /\ NextType(l, "reset", "leave")
  /\ UNCHANGED <<fillVars, queueVars, truckQ, truckMutex, turnVars, torn,
                 delivered, storage_area_box_count, reg, hand, save>>

LoaderLeave(l) ==
  /\ pc[l] = "leave"
  /\ truckMutex' = [truckMutex EXCEPT ![save[l]] = None]
  /\ Restart(l)
  /\ UNCHANGED <<fillVars, queueVars, truckQ, truckCount, turnVars, torn,
                 delivered, storage_area_box_count, reg, hand>>

LoaderStep(l) ==
  \/ LoaderReadOrder(l) \/ LoaderLock(l) \/ LoaderSave(l) \/ LoaderCheck(l)
  \/ LoaderStock(l) \/ LoaderTake(l) \/ LoaderRelease(l) \/ LoaderEnqueue(l)
  \/ LoaderAppend(l) \/ LoaderLoadCount(l) \/ LoaderStoreCount(l) \/ LoaderShip(l)
  \/ LoaderCompare(l) \/ LoaderTurn(l) \/ LoaderAdvance(l) \/ LoaderReset(l)
  \/ LoaderLeave(l)

-----------------------------------------------------------------------------
Next ==
  \/ \E t \in Types : FillerStep(t)
  \/ \E p \in Porters : PorterStep(p)
  \/ \E l \in Loaders : LoaderStep(l)

Spec == Init /\ [][Next]_vars

\* Under the assumption that the window stays open: then the GUI makes room for every
\* message, no send blocks for good, and the kernel runs every thread.  The mutex of
\* a truck is free again and again while loaders come and go (each sleeps 50 ms after
\* unlocking it), so a loader that waits for it gets it.
ThreadFairness ==
  /\ \A t \in Types : WF_vars(FillerStep(t))
  /\ \A p \in Porters : WF_vars(PorterStep(p))
  /\ \A l \in Loaders : /\ WF_vars(LoaderStep(l))
                        /\ SF_vars(LoaderLock(l)) /\ SF_vars(LoaderEnqueue(l))

FairSpec == Spec /\ ThreadFairness

-----------------------------------------------------------------------------
(* Type invariant                                                          *)

PorterLabels == {"enter", "load", "store", "pick", "put"}
SectionLabels == {"save", "check", "stock", "take", "release", "ship",
                  "compare", "turn", "advance", "reset", "leave"}
LoaderLabels == SectionLabels \cup {"order", "lock", "stow", "append", "load", "store"}

QueuesTyped ==
  /\ made \in [Types -> Nat]
  /\ filler \in [Types -> {"test", "suspended", "pack"}]
  /\ fillQ \in [Types -> Seq(Boxes)]
  /\ fillMutex \in [Types -> Porters \cup {None}]
  /\ storageQ \in [Types -> Seq(Boxes \cup {NoBox})]
  /\ storageMutex \in [Types -> Loaders \cup {None}]
  /\ storage_area_box_count \in Nat

TrucksTyped ==
  /\ truckQ \in [Trucks -> Seq(Boxes \cup {NoBox})]
  /\ truckMutex \in [Trucks -> Loaders \cup {None}]
  /\ truckCount \in [Types -> Nat]
  /\ G_Trucks_Order \in Trucks /\ switched \in BOOLEAN /\ torn \subseteq Trucks
  /\ delivered \in [Types -> Nat]

PcTyped ==
  /\ pc \in [Carriers -> PorterLabels \cup LoaderLabels]
  /\ \A p \in Porters : pc[p] \in PorterLabels
  /\ \A l \in Loaders : pc[l] \in LoaderLabels

LocalsTyped ==
  /\ kind \in [Carriers -> Types]
  /\ reg \in [Carriers -> Nat]
  /\ \A l \in Loaders : /\ pc[l] = "lock" => reg[l] \in Trucks
                        /\ pc[l] \in {"turn", "advance"} => reg[l] + 1 \in Trucks
  /\ hand \in [Carriers -> Boxes \cup {NoBox}]
  /\ save \in [Loaders -> Trucks]

\* Every variable stays in the range its C type and its use give it; threads
\* are only ever at the labels of their own function.
TypeOK == QueuesTyped /\ TrucksTyped /\ PcTyped /\ LocalsTyped

-----------------------------------------------------------------------------
(* Where the boxes are                                                     *)

At(q, b) == {i \in DOMAIN q : q[i] = b}

\* Every place that holds box b, one element per copy.
Places(b) ==
  ({"filling"} \X At(fillQ[b[1]], b))
    \cup ({"storage"} \X At(storageQ[b[1]], b))
    \cup ({"hand"} \X {c \in Carriers : hand[c] = b})
    \cup UNION {{"truck"} \X ({k} \X At(truckQ[k], b)) : k \in Trucks}

\* A box that was filled is never doubled on its way through two mutex-protected
\* queues and the hands of four threads, also while loaders race for the last box
\* of a queue; and it is lost on a truck at most, of which two loaders changed the
\* list at a time.
BoxInOnePlace ==
  \A t \in Types : \A n \in 1..made[t] :
    \/ Cardinality(Places(<<t, n>>)) = 1
    \/ Places(<<t, n>>) = {} /\ torn # {}

InHand(t) == {p \in Porters : hand[p][1] = t}

\* The pipeline of a type from the newest box back to the oldest in storage.
Increasing(q) == \A i, j \in DOMAIN q : i < j => q[i][2] < q[j][2]
HandOrder(t) ==
  \A p \in InHand(t) :
    /\ \A i \in DOMAIN storageQ[t] : storageQ[t][i][2] < hand[p][2]
    /\ \A j \in DOMAIN fillQ[t] : hand[p][2] < fillQ[t][j][2]
PipelineOrder(t) ==
  \A i \in DOMAIN storageQ[t], j \in DOMAIN fillQ[t] :
    storageQ[t][i][2] < fillQ[t][j][2]

\* Two porters carry boxes of one type, yet the storage area receives them in
\* the order they were filled: a porter keeps the filling mutex from before it
\* picks a box until the box is in storage.
InOrder ==
  \A t \in Types : /\ Increasing(fillQ[t]) /\ Increasing(storageQ[t])
                   /\ HandOrder(t) /\ PipelineOrder(t)

\* What makes InOrder inductive: the mutex of a filling queue is held by the one
\* porter at work on that type, ...
PorterInside(p, t) == pc[p] \in {"load", "store", "pick", "put"} /\ kind[p] = t
FillMutexHeld ==
  \A p \in Porters, t \in Types : fillMutex[t] = p <=> PorterInside(p, t)

\* ... who found a box there and carries a box only at the end, ...
PorterCarries ==
  \A p \in Porters :
    /\ pc[p] \in {"load", "store", "pick"} => fillQ[kind[p]] # <<>>
    /\ pc[p] = "put" => hand[p] \in Boxes /\ hand[p][1] = kind[p]
    /\ pc[p] # "put" => hand[p] = NoBox

\* ... and every box before the trucks has a number that was given out.
Numbered ==
  \A t \in Types :
    /\ \A i \in DOMAIN fillQ[t] : fillQ[t][i][1] = t /\ fillQ[t][i][2] <= made[t]
    /\ \A i \in DOMAIN storageQ[t] : storageQ[t][i] \in Boxes
    /\ \A i \in DOMAIN storageQ[t] : storageQ[t][i][2] <= made[t]
    /\ \A p \in InHand(t) : hand[p][2] <= made[t]

OrderInv == FillMutexHeld /\ PorterCarries /\ Numbered /\ InOrder

\* Shipping implements BoxFifo: the boxes a type has in the storage area, in the
\* hand of a porter and in the filling queue are one queue, which grows when a box
\* is filled and shrinks when a loader takes one.  Nothing else is seen of the
\* porters: no box is lost, doubled or overtaken on the way.
Carried(t) == {hand[p] : p \in InHand(t)}
AsQueue(B) == IF B = {} THEN <<>> ELSE <<CHOOSE b \in B : TRUE>>
Pipeline(t) == storageQ[t] \o (AsQueue(Carried(t)) \o fillQ[t])
Fifo == INSTANCE BoxFifo WITH waiting <- [t \in Types |-> Pipeline(t)]
PipelineIsFifo == Fifo!Spec

-----------------------------------------------------------------------------
(* Trucks                                                                  *)

\* Between the lock and the unlock of a truck's mutex, in insertToTrucks or in
\* enqueueToQueue.
InSection(l) == pc[l] \in SectionLabels
Inside(l) == InSection(l) \/ pc[l] = "append"
FirstTruck == ~switched

\* Until the order of the trucks has changed once, all loaders use the mutex of
\* truck 1: one at a time decides what to load or puts it down, and no dequeue
\* finds the storage area empty behind its back (which would lock that type for
\* good).
FirstTruckExclusive ==
  FirstTruck => /\ \A l, m \in Loaders : Inside(l) /\ Inside(m) => l = m
                /\ \A t \in Types : storageMutex[t] = None
                /\ torn = {}

\* What makes it inductive: every loader waits for and holds the mutex of truck
\* 1, and only the one that holds it can empty a storage queue.
FirstTruckInv ==
  FirstTruck =>
    /\ G_Trucks_Order = 1
    /\ \A l \in Loaders :
         /\ pc[l] = "lock" => reg[l] = 1
         /\ Inside(l) => truckMutex[1] = l
         /\ save[l] = 1
         /\ pc[l] = "take" => storageQ[kind[l]] # <<>>
    /\ \A t \in Types : storageMutex[t] = None
    /\ torn = {}

Loaded(k, t) == Cardinality({i \in DOMAIN truckQ[k] : truckQ[k][i][1] = t})

\* The first truck goes with its quota of every type, though two loaders count what
\* they put on it without a mutex: they may lose counts, and so overfill it, but
\* never count a box that is not there yet.
FirstTruckLeavesFull ==
  [][switched' # switched => \A t \in Types : Loaded(1, t) >= Quota[t]]_vars

\* What makes it inductive.  A count, and what a loader has read of it, leave room
\* for the boxes on the truck that are not counted, ...
Uncounted(t) == {l \in Loaders : pc[l] \in {"load", "store"} /\ kind[l] = t}
CountedIsLoaded(t) ==
  /\ truckCount[t] + Cardinality(Uncounted(t)) <= Loaded(1, t)
  /\ \A l \in Loaders :
       pc[l] = "store" /\ kind[l] = t =>
         reg[l] + Cardinality(Uncounted(t)) <= Loaded(1, t)

\* ... a loader carries a box of the type it is at, and found the counts of the types
\* before equal to the quotas.
CarriesItsType(l) ==
  pc[l] \in {"release", "stow", "append"} => hand[l] \in Boxes /\ hand[l][1] = kind[l]
FoundFull(l, t) ==
  \/ pc[l] \in {"turn", "advance"}
  \/ pc[l] = "compare" /\ t < kind[l]
FirstLoadInv ==
  FirstTruck =>
    /\ \A t \in Types : CountedIsLoaded(t)
    /\ \A l \in Loaders :
         /\ CarriesItsType(l)
         /\ \A t \in Types : FoundFull(l, t) => Loaded(1, t) >= Quota[t]
         /\ pc[l] = "turn" => reg[l] = 0
         /\ pc[l] # "reset"

\* "Mutex on Trucks queues // index 0:1, 1:2, 2:3": one loader at a time is in
\* enqueueToQueue for a truck.
TruckQueueProtected ==
  \A l, m \in Loaders :
    pc[l] = "append" /\ pc[m] = "append" /\ save[l] = save[m] => l = m

-----------------------------------------------------------------------------
(* The storage area and the suspension of the lines                        *)

\* The boxes that porters have taken from the filling queues, the first ones of each
\* type, and the porters about to take one.
CarriedOff == UNION {{t} \X (1..made[t] - Len(fillQ[t])) : t \in Types}
AboutToPick == {p \in Porters : pc[p] = "pick"}

\* Two porters count boxes under different mutexes, and a loader sets the count
\* back: an increment or a reset may be lost, but the count is never above the
\* number of boxes that were carried off or are the next to be, so that nobody is
\* suspended for boxes that never were.
CountIsOfBoxes ==
  storage_area_box_count <= Cardinality(CarriedOff) + Cardinality(AboutToPick)

InStorage[n \in 0..NumTypes] ==
  IF n = 0 THEN 0 ELSE InStorage[n - 1] + Len(storageQ[n])
Stored == InStorage[NumTypes]

\* A line is suspended "until the storage area capacity goes below a minimum
\* threshold value": when the storage area has drained the line resumes, if the window
\* is open.
DrainedStorageResumes ==
  \A t \in Types : (filler[t] = "suspended" /\ Stored < MinThreshold)
                     ~> (filler[t] # "suspended")

-----------------------------------------------------------------------------
(* Progress                                                                *)

InSeq(b, q) == \E i \in DOMAIN q : q[i] = b
StillFilling(b) == InSeq(b, fillQ[b[1]]) \/ \E p \in Porters : hand[p] = b

\* The porters carry every box that is filled into the storage area while the window
\* is open, unless a loader has locked the storage queue of the type for good.
PackedBoxIsStored ==
  \A t \in Types : \A n \in 1..MaxBoxes[t] :
    made[t] >= n ~> (~StillFilling(<<t, n>>) \/ storageMutex[t] # None)

\* A truck's mutex belongs to a loader that thinks it has another one.
TruckMutexStrayed ==
  \E k \in Trucks, l \in Loaders :
    truckMutex[k] = l /\ ~(Inside(l) /\ (save[l] = k \/ pc[l] = "save"))

\* A loader that took a box from the storage area puts it on its truck while the
\* window is open, however often the other loader gets the mutex of that truck first,
\* unless the mutex was left locked by a loader that thought it had another.
TakenBoxIsStowed ==
  \A l \in Loaders :
    hand[l] # NoBox ~> (hand[l] = NoBox \/ TruckMutexStrayed)

\* "2 threads that will keep move chocolate from storage area To Trucks": a truck
\* whose quotas are reached leaves, and the next one is filled, if the window is open.
FullTruckLeaves ==
  (\A t \in Types : truckCount[t] >= Quota[t])
    ~> (\E t \in Types : truckCount[t] < Quota[t])
=============================================================================
