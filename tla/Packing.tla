------------------------------- MODULE Packing -------------------------------
(***************************************************************************)
(* From printed patches to carton boxes.                                   *)
(*                                                                         *)
(*   - the printer thread puts patches of all types on the printing queue; *)
(*   - the movers (threads running insertToContainers) carry them to the   *)
(*     container of their type, holding the mutex of the printing queue    *)
(*     while they wait for the mutex of the container;                     *)
(*   - the filling thread of each type makes a carton box of two patches   *)
(*     and puts it on the filling queue of its type.                       *)
(*                                                                         *)
(* The p-th patch of type t put on the printing queue is <<t, p>>; a box is *)
(* the pair of the patches in it.  An enqueue or a dequeue holds its mutex  *)
(* in one step; a dequeue from an empty queue leaves it locked.             *)
(*                                                                         *)
(* A message to the GUI is sent at the beginning of the step that is named *)
(* to tell the GUI.  When the GUI's window is closed its queue fills up    *)
(* and the send blocks for good, with the mutexes the thread holds: the    *)
(* thread takes no step any more, which Spec allows at any point.          *)
(*                                                                         *)
(* Left out: what the GUI does with its messages, times, and a malloc that  *)
(* fails.                                                                  *)
(***************************************************************************)
EXTENDS Integers, Sequences, FiniteSets

CONSTANTS
  NumTypes,    \* chocolate types (3 in the code)
  Movers,      \* threads running insertToContainers (3 in the code)
  MaxPatches,  \* BOUND on the patches printed of each type
  Levels,      \* BOUND on the levels of the storage area, see `level`
  None         \* no thread

Types == 1..NumTypes
\* The filling thread of type t, as the holder of a mutex.
Filler(t) == <<"filler", t>>
Fillers == {Filler(t) : t \in Types}

ASSUME SizeAssumption ==
  /\ NumTypes \in Nat \ {0} /\ MaxPatches \in [Types -> Nat]
  /\ Levels \subseteq {"low", "between", "full", "high"}
ASSUME ThreadsAssumption == None \notin Movers \cup Fillers

VARIABLES
  printed,         \* patches of each type that were printed
  printingQ, printingMutex,
  containerQ,      \* FrontContainerTypeAQueue ... and the counts with it
  containerMutex,  \* G_mutexs_for_Container_Queues
  fillQ,           \* FrontFillingTheCartonBoxesTypeAQueue ...
  mover,           \* [at |-> ..., has |-> patch] of each mover
  filler,          \* [at |-> ..., box |-> patches taken] of each type
  level            \* the range storage_area_box_count is in: "low" up to the
                   \* minimum threshold, "between", "full" equal to the
                   \* maximum, "high" above it.  Other threads change it.

vars == <<printed, printingQ, printingMutex, containerQ, containerMutex, fillQ,
          mover, filler, level>>

Patches == Types \X (Nat \ {0})
\* The zeroed payload, and an empty hand.
NoPatch == <<0, 0>>

Init ==
  /\ printed = [t \in Types |-> 0]
  /\ printingQ = <<>> /\ printingMutex = None
  /\ containerQ = [t \in Types |-> <<>>]
  /\ containerMutex = [t \in Types |-> None]
  /\ fillQ = [t \in Types |-> <<>>]
  /\ mover = [m \in Movers |-> [at |-> "top", has |-> NoPatch]]
  /\ filler = [t \in Types |-> [at |-> "top", box |-> <<>>]]
  /\ level \in Levels

StorageChanges ==
  /\ level' \in Levels
  /\ UNCHANGED <<printed, printingQ, printingMutex, containerQ, containerMutex,
                 fillQ, mover, filler>>

\* MUTANT of PrinterPut: the type of the patch is not filled in.
PrinterPutUntyped(t) ==
  /\ printed[t] < MaxPatches[t]
  /\ printingMutex = None
  /\ printed' = [printed EXCEPT ![t] = @ + 1]
  /\ printingQ' = Append(printingQ, <<0, printed[t] + 1>>)
  /\ UNCHANGED <<printingMutex, containerQ, containerMutex, fillQ, mover, filler, level>>

\* printer_routine: enqueue a patch under the mutex of the printing queue.
PrinterPut(t) ==
  /\ printed[t] < MaxPatches[t]
  /\ printingMutex = None
  /\ printed' = [printed EXCEPT ![t] = @ + 1]
  /\ printingQ' = Append(printingQ, <<t, printed[t] + 1>>)
  /\ UNCHANGED <<printingMutex, containerQ, containerMutex, fillQ, mover, filler, level>>

-----------------------------------------------------------------------------
(* insertToContainers                                                      *)

MoverAt(m, label) == mover' = [mover EXCEPT ![m].at = label]

\* Movers already stop at the maximum threshold itself.
MoverTop(m) ==
  /\ \/ mover[m].at = "top" /\ level \in {"full", "high"} /\ MoverAt(m, "spin")
     \/ mover[m].at = "top" /\ level \in {"low", "between"} /\ MoverAt(m, "enter")
     \/ mover[m].at = "spin" /\ level = "low" /\ MoverAt(m, "enter")
  /\ UNCHANGED <<printed, printingQ, printingMutex, containerQ, containerMutex,
                 fillQ, filler, level>>

\* Lock the printing queue; when it is empty unlock it at once.
MoverEnter(m) ==
  /\ mover[m].at = "enter"
  /\ printingMutex = None
  /\ \/ printingQ = <<>> /\ MoverAt(m, "top") /\ UNCHANGED printingMutex
     \/ printingQ # <<>> /\ MoverAt(m, "pick") /\ printingMutex' = m
  /\ UNCHANGED <<printed, printingQ, containerQ, containerMutex, fillQ, filler, level>>

\* MUTANT of MoverPick: the printing queue is unlocked as soon as a patch is out.
MoverPickUnlock(m) ==
  /\ mover[m].at = "pick"
  /\ printingQ # <<>>
  /\ mover' = [mover EXCEPT ![m] = [at |-> "put", has |-> Head(printingQ)]]
  /\ printingQ' = Tail(printingQ)
  /\ printingMutex' = None
  /\ UNCHANGED <<printed, containerQ, containerMutex, fillQ, filler, level>>

\* dequeueNodeFromQueueNoInternalMutex
MoverPick(m) ==
  /\ mover[m].at = "pick"
  /\ \/ /\ printingQ = <<>>
        /\ mover' = [mover EXCEPT ![m] = [at |-> "put", has |-> NoPatch]]
        /\ UNCHANGED printingQ
     \/ /\ printingQ # <<>>
        /\ mover' = [mover EXCEPT ![m] = [at |-> "put", has |-> Head(printingQ)]]
        /\ printingQ' = Tail(printingQ)
  /\ UNCHANGED <<printed, printingMutex, containerQ, containerMutex, fillQ, filler, level>>

\* MUTANT of MoverPut: the printing queue is unlocked before the GUI is told.
MoverPutUnlock(m) ==
  LET t == mover[m].has[1] IN
  /\ mover[m].at = "put"
  /\ mover[m].has # NoPatch
  /\ containerMutex[t] = None
  /\ containerQ' = [containerQ EXCEPT ![t] = Append(@, mover[m].has)]
  /\ printingMutex' = None
  /\ MoverAt(m, "leave")
  /\ UNCHANGED <<printed, printingQ, containerMutex, fillQ, filler, level>>

\* Enqueue on the container of the patch's type, under the container's mutex.  A
\* payload without a type would end the process.
MoverPut(m) ==
  LET t == mover[m].has[1] IN
  /\ mover[m].at = "put"
  /\ mover[m].has # NoPatch
  /\ containerMutex[t] = None
  /\ containerQ' = [containerQ EXCEPT ![t] = Append(@, mover[m].has)]
  /\ MoverAt(m, "leave")
  /\ UNCHANGED <<printed, printingQ, printingMutex, containerMutex, fillQ, filler, level>>

\* MUTANT of MoverLeave: the printing queue stays locked.
MoverLeaveLocked(m) ==
  /\ mover[m].at = "leave"
  /\ mover' = [mover EXCEPT ![m] = [at |-> "top", has |-> NoPatch]]
  /\ UNCHANGED <<printed, printingQ, printingMutex, containerQ, containerMutex,
                 fillQ, filler, level>>

\* Tell the GUI that the patch has moved, under the mutex, and unlock the printing queue.
MoverLeave(m) ==
  /\ mover[m].at = "leave"
  /\ printingMutex' = None
  /\ mover' = [mover EXCEPT ![m] = [at |-> "top", has |-> NoPatch]]
  /\ UNCHANGED <<printed, printingQ, containerQ, containerMutex, fillQ, filler, level>>

MoverStep(m) ==
  MoverTop(m) \/ MoverEnter(m) \/ MoverPick(m) \/ MoverPut(m) \/ MoverLeave(m)

-----------------------------------------------------------------------------
(* fillingTheCartonBoxesA, B, C                                            *)

FillerAt(t, label) == filler' = [filler EXCEPT ![t].at = label]

FillerTop(t) ==
  /\ \/ filler[t].at = "top" /\ level = "high" /\ FillerAt(t, "spin")
     \/ filler[t].at = "top" /\ level # "high" /\ FillerAt(t, "count")
     \/ filler[t].at = "spin" /\ level = "low" /\ FillerAt(t, "count")
  /\ UNCHANGED <<printed, printingQ, printingMutex, containerQ, containerMutex,
                 fillQ, mover, level>>

\* MUTANT of FillerCount: one patch is enough to begin a box.
FillerCountOne(t) ==
  /\ filler[t].at = "count"
  /\ \/ Len(containerQ[t]) >= 1 /\ FillerAt(t, "take")
     \/ Len(containerQ[t]) < 1 /\ FillerAt(t, "top")
  /\ UNCHANGED <<printed, printingQ, printingMutex, containerQ, containerMutex,
                 fillQ, mover, level>>

\* Are there two patches?  The count is read without the mutex.
FillerCount(t) ==
  /\ filler[t].at = "count"
  /\ \/ Len(containerQ[t]) >= 2 /\ FillerAt(t, "take")
     \/ Len(containerQ[t]) < 2 /\ FillerAt(t, "top")
  /\ UNCHANGED <<printed, printingQ, printingMutex, containerQ, containerMutex,
                 fillQ, mover, level>>

\* chocolate1 and chocolate2: one dequeueNodeFromQueueWithInternalMutex after the
\* other.
FillerTake(t) ==
  LET after(b) == [at |-> IF Len(b) = 2 THEN "pack" ELSE "take", box |-> b] IN
  /\ filler[t].at = "take"
  /\ containerMutex[t] = None
  /\ \/ /\ containerQ[t] = <<>>
        /\ containerMutex' = [containerMutex EXCEPT ![t] = Filler(t)]
        /\ filler' = [filler EXCEPT ![t] = after(Append(@.box, NoPatch))]
        /\ UNCHANGED containerQ
     \/ /\ containerQ[t] # <<>>
        /\ filler' = [filler EXCEPT ![t] = after(Append(@.box, Head(containerQ[t])))]
        /\ containerQ' = [containerQ EXCEPT ![t] = Tail(containerQ[t])]
        /\ UNCHANGED containerMutex
  /\ UNCHANGED <<printed, printingQ, printingMutex, fillQ, mover, level>>

\* Tell the GUI, and enqueue the box on the filling queue, under the filling mutex.
\* Porters take it away (Shipping).
FillerPack(t) ==
  /\ filler[t].at = "pack"
  /\ fillQ' = [fillQ EXCEPT ![t] = Append(@, filler[t].box)]
  /\ filler' = [filler EXCEPT ![t] = [at |-> "top", box |-> <<>>]]
  /\ UNCHANGED <<printed, printingQ, printingMutex, containerQ, containerMutex,
                 mover, level>>

\* A porter holds the filling mutex, and the filler waits.
FillerWait(t) ==
  /\ filler[t].at = "pack"
  /\ FillerAt(t, "wait")
  /\ UNCHANGED <<printed, printingQ, printingMutex, containerQ, containerMutex,
                 fillQ, mover, level>>

\* The porter releases it.  It keeps it for as long as it waits for the mutex of the
\* storage area, or for the GUI.
PorterReleases(t) ==
  /\ filler[t].at = "wait"
  /\ FillerAt(t, "pack")
  /\ UNCHANGED <<printed, printingQ, printingMutex, containerQ, containerMutex,
                 fillQ, mover, level>>

FillerStep(t) == FillerTop(t) \/ FillerCount(t) \/ FillerTake(t) \/ FillerPack(t)

-----------------------------------------------------------------------------
Next ==
  \/ StorageChanges
  \/ \E t \in Types : PrinterPut(t) \/ FillerStep(t)
  \/ \E t \in Types : FillerWait(t) \/ PorterReleases(t)
  \/ \E m \in Movers : MoverStep(m)

Spec == Init /\ [][Next]_vars

\* Under the assumption that the GUI's window stays open, so that no send blocks for
\* good.  A filler that comes to wait again and again gets the filling mutex in the
\* end: porters sleep for a second after each release.
FairSpec ==
  /\ Spec
  /\ \A m \in Movers : WF_vars(MoverStep(m))
  /\ \A t \in Types : WF_vars(FillerStep(t)) /\ SF_vars(FillerPack(t))

-----------------------------------------------------------------------------
(* Type invariant                                                          *)

MoverLabels == {"top", "spin", "enter", "pick", "put", "leave"}
FillerLabels == {"top", "spin", "count", "take", "pack", "wait"}

TypeOK ==
  /\ printed \in [Types -> Nat]
  /\ printingQ \in Seq(Patches)
  /\ printingMutex \in Movers \cup {None}
  /\ containerQ \in [Types -> Seq(Patches)]
  /\ containerMutex \in [Types -> Fillers \cup {None}]
  /\ fillQ \in [Types -> Seq(Seq(Patches \cup {NoPatch}))]
  /\ mover \in [Movers -> [at : MoverLabels, has : Patches \cup {NoPatch}]]
  /\ filler \in [Types -> [at : FillerLabels, box : Seq(Patches \cup {NoPatch})]]
  /\ level \in Levels

-----------------------------------------------------------------------------
(* Boxes                                                                   *)

\* Three movers carry patches of all types, and a filler looks at its container
\* without the mutex; still the n-th box of a type is made of the patches printed
\* as number 2n - 1 and 2n: none lost, none of another type, none overtaken.
BoxOfTwoPatches ==
  \A t \in Types : \A n \in DOMAIN fillQ[t] :
    fillQ[t][n] = <<<<t, 2 * n - 1>>, <<t, 2 * n>>>>

\* Nobody ever dequeues from an empty queue: no mover carries a payload without a
\* type to the exit(7) of insertToContainers, no container stays locked for good.
NoUnderflow ==
  /\ \A t \in Types : containerMutex[t] = None
  /\ \A m \in Movers : mover[m].at = "put" => mover[m].has # NoPatch

\* What makes both inductive.  How many patches of a type the filler has taken,
\* and how many have come to its container.
Taken(t) == 2 * Len(fillQ[t]) + Len(filler[t].box)
Contained(t) == Taken(t) + Len(containerQ[t])

\* The filler finds what it counted, and takes the patches in their order.
FillerHolds(t) ==
  /\ filler[t].at = "take" => /\ Len(filler[t].box) < 2
                             /\ Len(filler[t].box) + Len(containerQ[t]) >= 2
  /\ filler[t].at \in {"pack", "wait"} => Len(filler[t].box) = 2
  /\ filler[t].at \notin {"take", "pack", "wait"} => filler[t].box = <<>>
  /\ \A i \in DOMAIN filler[t].box : filler[t].box[i] = <<t, 2 * Len(fillQ[t]) + i>>
  /\ \A i \in DOMAIN containerQ[t] : containerQ[t][i] = <<t, Taken(t) + i>>
  /\ containerMutex[t] = None
FillingInv == BoxOfTwoPatches /\ \A t \in Types : FillerHolds(t)

\* The printing queue belongs to one mover at a time, who carries the next patch
\* of its type ...
MoverInside(m) == mover[m].at \in {"pick", "put", "leave"}
MoverHolds(m) ==
  /\ printingMutex = m <=> MoverInside(m)
  /\ mover[m].at = "pick" => printingQ # <<>>
  /\ mover[m].at \notin {"put", "leave"} => mover[m].has = NoPatch
  /\ mover[m].at = "put" => /\ mover[m].has \in Patches
                           /\ mover[m].has[2] = Contained(mover[m].has[1]) + 1
                           /\ mover[m].has[2] <= printed[mover[m].has[1]]
  /\ mover[m].at = "leave" => /\ mover[m].has \in Patches
                             /\ mover[m].has[2] = Contained(mover[m].has[1])

\* ... while the others of the type wait in the order they were printed.
Carried(t, k) == \E m \in Movers : mover[m].at = "put" /\ mover[m].has = <<t, k>>
Waiting(t, k) == \E i \in DOMAIN printingQ : printingQ[i] = <<t, k>>
InPrintingOrder(t) ==
  /\ Contained(t) <= printed[t]
  /\ \A i \in DOMAIN printingQ :
       printingQ[i][1] = t => /\ Contained(t) < printingQ[i][2]
                              /\ printingQ[i][2] <= printed[t]
                              /\ ~Carried(t, printingQ[i][2])
  /\ \A k \in (Contained(t) + 1)..printed[t] : Carried(t, k) \/ Waiting(t, k)
  /\ \A i, j \in DOMAIN printingQ :
       i < j /\ printingQ[i][1] = t /\ printingQ[j][1] = t
         => printingQ[i][2] < printingQ[j][2]
PrintingInv ==
  (\A m \in Movers : MoverHolds(m)) /\ \A t \in Types : InPrintingOrder(t)

PackingInv == FillingInv /\ PrintingInv

\* A mover tells the GUI of a patch after putting it into the container, when a box
\* of it may have been announced already and the GUI knows the patch no more.  Only
\* the patch that came to the containers last can be late like this: all before it
\* were told in the order they came.
OnlyLastMoveIsLate ==
  \A m \in Movers :
    mover[m].at = "leave" => mover[m].has[2] = Contained(mover[m].has[1])

\* Packing implements Batches: of each type the n-th box is packed once, in its
\* turn, of the patches printed as number 2n - 1 and 2n, when they were printed.
PatchesForBox(n) == 2 * n
BoxOf(t, n) == <<<<t, 2 * n - 1>>, <<t, 2 * n>>>>
Boxes == INSTANCE Batches WITH
  in <- printed, out <- fillQ, Need <- PatchesForBox, Batch <- BoxOf
BoxesInTurn == Boxes!Spec

\* Two patches of a type become a box in the end, whichever movers carried them,
\* when the window is open, the storage area stays below its thresholds and no porter
\* keeps a filling mutex for ever (as it does behind a storage mutex that a loader
\* left locked).
FillingMutexesReturn == \A t \in Types : []<>(filler[t].at # "wait")
PairIsPacked ==
  <>[](level = "low") /\ FillingMutexesReturn =>
    \A t \in Types : \A n \in 1..MaxPatches[t] \div 2 :
      printed[t] >= 2 * n ~> Len(fillQ[t]) >= n
=============================================================================
