-------------------------- MODULE ManufacturingLine --------------------------
(***************************************************************************)
(* The manufacturing lines of one chocolate type.  Every line has a pile of *)
(* products; the generator thread keeps the piles full, and each employee  *)
(* thread of a line does one step on one product after the other.  Who has *)
(* done the last open step sends the product to the patcher.               *)
(*                                                                         *)
(* A slot of a pile has a mutex: the generator waits for it, an employee   *)
(* only tries it and goes on to another slot.  The reads that look for a   *)
(* product (find_product) are made without the mutex, one at a time.       *)
(*                                                                         *)
(* Steps are numbered from 0 as in the code.  Ready states the order they  *)
(* have to happen in with two parameters:                                  *)
(*     type A: 8 steps, Hub = 3, After = 3    (steps 4..7 in any order)    *)
(*     type B: 6 steps, After = 6             (in order)                   *)
(*     type C: 5 steps, Hub = 3, After = 2    (in order, see README)       *)
(*                                                                         *)
(* Left out: sleeping times, what the UI does with its messages.           *)
(***************************************************************************)
EXTENDS Integers, Sequences, FiniteSets

CONSTANTS
  NumLines,   \* lines of this type (3, 2, 2 in the code)
  NumSteps,   \* employees of a line (8, 6, 5)
  Hub, After, \* see above
  PileSize,   \* PILESIZE
  NumIds,     \* BOUND on the ids in use at the same time
  QueueCap,   \* messages the patcher's queue holds before msgsnd blocks
  Levels,     \* BOUND on the levels of the storage area, see `level`
  Generator   \* the generator, as the holder of a mutex

Lines == 0..NumLines - 1
Steps == 0..NumSteps - 1
\* The generator fills slots 0..PILESIZE; employees look at those below PILESIZE.
Slots == 0..PileSize
Cells == Lines \X Slots
Employees == Lines \X Steps
Ids == 1..NumIds
\* The mutexes of all lines lie one after the other: the one of slot PILESIZE is
\* the one of slot 0 of the next line (and lies behind the array for the last).
Mutexes == 0..NumLines * PileSize
MutexOf(c) == c[1] * PileSize + c[2]
None == <<>>

ASSUME SizeAssumption ==
  /\ NumLines \in Nat \ {0} /\ NumSteps \in Nat \ {0} /\ PileSize \in Nat \ {0}
  /\ NumIds \in Nat /\ QueueCap \in Nat \ {0}
  /\ Levels \subseteq {"low", "between", "high"}
ASSUME OrderAssumption == Hub \in Nat /\ After \in Nat /\ After + 1 >= Hub
ASSUME GeneratorAssumption == Generator \notin Employees \cup {None}

VARIABLES
  id,        \* id of the product in each cell, 0 when there is none
  progress,  \* its progress string: a function from steps to characters
  mutex,     \* holder of each slot mutex
  gen,       \* the generator: [at |-> ..., cell |-> ...]
  pc, slot,  \* where each employee is and the slot index i it looks at
  patcherQ,  \* message queue to the patcher
  told,      \* what the UI was told about each product, in order
  level      \* the range storage_area_box_count is in: "low" up to the minimum
             \* threshold, "between", "high" above the maximum.  Other threads
             \* change it.

vars == <<id, progress, mutex, gen, pc, slot, patcherQ, told, level>>

Blank == [i \in Steps |-> "0"]
Done == [i \in Steps |-> "1"]

Init ==
  /\ id = [c \in Cells |-> 0]
  /\ progress = [c \in Cells |-> [i \in Steps |-> "unset"]]
  /\ mutex = [m \in Mutexes |-> None]
  /\ gen = [at |-> "top", cell |-> <<0, 0>>]
  /\ pc = [e \in Employees |-> "top"]
  /\ slot = [e \in Employees |-> 0]
  /\ patcherQ = <<>>
  /\ told = [n \in Ids \cup {0} |-> <<>>]
  /\ level \in Levels

Cell(e) == <<e[1], slot[e]>>
Goto(e, label) == pc' = [pc EXCEPT ![e] = label]

StorageChanges ==
  /\ level' \in Levels
  /\ UNCHANGED <<id, progress, mutex, gen, pc, slot, patcherQ, told>>

-----------------------------------------------------------------------------
(* generator_routine                                                       *)

GenGoto(label) == gen' = [gen EXCEPT !.at = label]

\* Above the maximum threshold the generator spins until the minimum is reached.
GenTop ==
  /\ \/ gen.at = "top" /\ level = "high" /\ GenGoto("spin")
     \/ gen.at = "top" /\ level # "high" /\ GenGoto("lock")
     \/ gen.at = "spin" /\ level = "low" /\ GenGoto("lock")
  /\ UNCHANGED <<id, progress, mutex, pc, slot, patcherQ, told, level>>

GenLock ==
  /\ gen.at = "lock"
  /\ mutex[MutexOf(gen.cell)] = None
  /\ mutex' = [mutex EXCEPT ![MutexOf(gen.cell)] = Generator]
  /\ GenGoto("fill")
  /\ UNCHANGED <<id, progress, pc, slot, patcherQ, told, level>>

InUse == {id[c] : c \in Cells} \cup {patcherQ[i] : i \in DOMAIN patcherQ}

\* generate_uniq_id: no product in use has the id.
Fresh(n) == n \in Ids \ InUse /\ \A m \in Ids \ InUse : n <= m

\* generate_product(k, type, line)
Generate(c) ==
  \E n \in Ids :
    /\ Fresh(n)
    /\ id' = [id EXCEPT ![c] = n]
    /\ progress' = [progress EXCEPT ![c] = Blank]
    /\ told' = [told EXCEPT ![n] = <<>>]

\* The next slot for k <= PILESIZE, then the next line, then the outer loop.
NextCell(c) ==
  IF c[2] < PileSize THEN <<c[1], c[2] + 1>> ELSE <<(c[1] + 1) % NumLines, 0>>

\* MUTANT of GenFill: a slot is filled whether or not it is empty.
GenFillAlways ==
  LET c == gen.cell IN
  /\ gen.at = "fill"
  /\ Generate(c)
  /\ mutex' = [mutex EXCEPT ![MutexOf(c)] = None]
  /\ gen' = [at |-> IF NextCell(c) = <<0, 0>> THEN "top" ELSE "lock", cell |-> NextCell(c)]
  /\ UNCHANGED <<pc, slot, patcherQ, level>>

\* Fill the slot if it is empty, unlock it and go on.
GenFill ==
  LET c == gen.cell IN
  /\ gen.at = "fill"
  /\ \/ id[c] = 0 /\ Generate(c)
     \/ id[c] # 0 /\ UNCHANGED <<id, progress, told>>
  /\ mutex' = [mutex EXCEPT ![MutexOf(c)] = None]
  /\ gen' = [at |-> IF NextCell(c) = <<0, 0>> THEN "top" ELSE "lock", cell |-> NextCell(c)]
  /\ UNCHANGED <<pc, slot, patcherQ, level>>

GeneratorStep == GenTop \/ GenLock \/ GenFill

-----------------------------------------------------------------------------
(* manufacturing_line_employee                                             *)

EmpTop(e) ==
  /\ \/ pc[e] = "top" /\ level = "high" /\ Goto(e, "spin")
     \/ pc[e] = "top" /\ level # "high" /\ Goto(e, "find")
     \/ pc[e] = "spin" /\ level = "low" /\ Goto(e, "find")
  /\ UNCHANGED <<id, progress, mutex, gen, slot, patcherQ, told, level>>

\* i = (i + 1) % PILESIZE at the end of the loop.
Advance(e) ==
  /\ slot' = [slot EXCEPT ![e] = (slot[e] + 1) % PileSize]
  /\ Goto(e, "top")

\* MUTANT of EmpFind: the result of find_product is not compared with PILESIZE.
EmpFindPastEnd(e) ==
  /\ pc[e] = "find"
  /\ \/ slot[e] < PileSize /\ id[Cell(e)] = 0
        /\ slot' = [slot EXCEPT ![e] = slot[e] + 1] /\ UNCHANGED pc
     \/ /\ slot[e] = PileSize \/ id[Cell(e)] # 0
        /\ Goto(e, "try") /\ UNCHANGED slot
  /\ UNCHANGED <<id, progress, mutex, gen, patcherQ, told, level>>

\* find_product from slot i on: one slot is read, without its mutex.
EmpFind(e) ==
  /\ pc[e] = "find"
  /\ \/ slot[e] = PileSize /\ Advance(e)
     \/ slot[e] < PileSize /\ id[Cell(e)] = 0
        /\ slot' = [slot EXCEPT ![e] = slot[e] + 1] /\ UNCHANGED pc
     \/ slot[e] < PileSize /\ id[Cell(e)] # 0
        /\ Goto(e, "try") /\ UNCHANGED slot
  /\ UNCHANGED <<id, progress, mutex, gen, patcherQ, told, level>>

\* MUTANT of EmpTry: the result of pthread_mutex_trylock is not tested.
EmpTryIgnored(e) ==
  /\ pc[e] = "try"
  /\ Goto(e, "check")
  /\ UNCHANGED <<id, progress, mutex, gen, slot, patcherQ, told, level>>

\* pthread_mutex_trylock
EmpTry(e) ==
  /\ pc[e] = "try"
  /\ \/ mutex[MutexOf(Cell(e))] # None /\ Advance(e) /\ UNCHANGED mutex
     \/ mutex[MutexOf(Cell(e))] = None
        /\ mutex' = [mutex EXCEPT ![MutexOf(Cell(e))] = e]
        /\ Goto(e, "check") /\ UNCHANGED slot
  /\ UNCHANGED <<id, progress, gen, patcherQ, told, level>>

\* MUTANT of Ready: the steps before are not looked at.
ReadyUnordered(p, i) == p[i] = "0"

\* May step i be done on a product with progress p?
Ready(p, i) ==
  p[i] = "0" /\ (i = 0 \/ (i > 0 /\ p[i - 1] = "1") \/ (i > After /\ p[Hub] = "1"))

\* send_product_msg_to_ui: created at the first step, moved at the others.
Tell(e) ==
  LET m == IF e[2] = 0 THEN "OBJECT_CREATED" ELSE "OBJECT_MOVED" IN
  told' = [told EXCEPT ![id[Cell(e)]] = Append(@, [type |-> m, step |-> e[2]])]

EmpCheck(e) ==
  /\ pc[e] = "check"
  /\ \/ /\ Ready(progress[Cell(e)], e[2])
        /\ Tell(e)
        /\ Goto(e, "mark")
        /\ UNCHANGED <<mutex, slot>>
     \/ /\ ~Ready(progress[Cell(e)], e[2])
        /\ mutex' = [mutex EXCEPT ![MutexOf(Cell(e))] = None]
        /\ Advance(e)
        /\ UNCHANGED told
  /\ UNCHANGED <<id, progress, gen, patcherQ, level>>

\* progress[index] = '1', and the step takes its time.
EmpMark(e) ==
  /\ pc[e] = "mark"
  /\ progress' = [progress EXCEPT ![Cell(e)][e[2]] = "1"]
  /\ Goto(e, "done")
  /\ UNCHANGED <<id, mutex, gen, slot, patcherQ, told, level>>

\* pthread_mutex_unlock and the end of the loop.
UnlockAndAdvance(e) ==
  /\ mutex' = [mutex EXCEPT ![MutexOf(Cell(e))] = None]
  /\ Advance(e)

\* MUTANT of EmpDone: the employee of the last step sends the product.
EmpDoneLast(e) ==
  /\ pc[e] = "done"
  /\ \/ e[2] # NumSteps - 1 /\ UnlockAndAdvance(e) /\ UNCHANGED patcherQ
     \/ /\ e[2] = NumSteps - 1
        /\ Len(patcherQ) < QueueCap
        /\ patcherQ' = Append(patcherQ, id[Cell(e)])
        /\ Goto(e, "clear")
        /\ UNCHANGED <<mutex, slot>>
  /\ UNCHANGED <<id, progress, gen, told, level>>

\* Every step done: send the product to the patcher (msgsnd waits for room).
EmpDone(e) ==
  /\ pc[e] = "done"
  /\ \/ progress[Cell(e)] # Done /\ UnlockAndAdvance(e) /\ UNCHANGED patcherQ
     \/ /\ progress[Cell(e)] = Done
        /\ Len(patcherQ) < QueueCap
        /\ patcherQ' = Append(patcherQ, id[Cell(e)])
        /\ Goto(e, "clear")
        /\ UNCHANGED <<mutex, slot>>
  /\ UNCHANGED <<id, progress, gen, told, level>>

\* ... tell the UI, which shows the product after the last step, and clear the
\* slot.
EmpClear(e) ==
  /\ pc[e] = "clear"
  /\ told' = [told EXCEPT ![id[Cell(e)]] =
                Append(@, [type |-> "OBJECT_MOVED", step |-> NumSteps])]
  /\ id' = [id EXCEPT ![Cell(e)] = 0]
  /\ UnlockAndAdvance(e)
  /\ UNCHANGED <<progress, gen, patcherQ, level>>

EmployeeStep(e) ==
  \/ EmpTop(e) \/ EmpFind(e) \/ EmpTry(e) \/ EmpCheck(e)
  \/ EmpMark(e) \/ EmpDone(e) \/ EmpClear(e)

\* The patcher receives a message (Patching models the rest of its routine).
PatcherReceive ==
  /\ patcherQ # <<>>
  /\ patcherQ' = Tail(patcherQ)
  /\ UNCHANGED <<id, progress, mutex, gen, pc, slot, told, level>>

-----------------------------------------------------------------------------
Next ==
  \/ StorageChanges
  \/ GeneratorStep
  \/ \E e \in Employees : EmployeeStep(e)
  \/ PatcherReceive

Spec == Init /\ [][Next]_vars

-----------------------------------------------------------------------------
(* Type invariant                                                          *)

Labels == {"top", "spin", "find", "try", "check", "mark", "done", "clear"}

TypeOK ==
  /\ id \in [Cells -> Ids \cup {0}]
  /\ progress \in [Cells -> [Steps -> {"unset", "0", "1"}]]
  /\ mutex \in [Mutexes -> Employees \cup {Generator, None}]
  /\ gen \in [at : {"top", "spin", "lock", "fill"}, cell : Cells]
  /\ pc \in [Employees -> Labels]
  /\ slot \in [Employees -> Slots]
  /\ \A e \in Employees : pc[e] \notin {"top", "spin", "find"} => slot[e] < PileSize
  /\ patcherQ \in Seq(Ids) /\ Len(patcherQ) <= QueueCap
  /\ told \in [Ids \cup {0} ->
               Seq([type : {"OBJECT_CREATED", "OBJECT_MOVED"}, step : 0..NumSteps])]
  /\ level \in Levels

-----------------------------------------------------------------------------
(* What happens to a product                                               *)

\* Every step was reported once.
Complete(n) ==
  \A i \in Steps : Cardinality({k \in DOMAIN told[n] : told[n][k].step = i}) = 1

\* "Steps 1 to 4 have to happen in order": no employee works ahead on a product,
\* and none works on it twice, however the threads meet at its slot and whatever
\* product was there before.  Steps after the hub come in any order after it.
StepsInOrder ==
  \A n \in Ids : \A i, j \in DOMAIN told[n] :
    i < j => \/ told[n][i].step < told[n][j].step
             \/ /\ told[n][i].step # told[n][j].step
                /\ told[n][i].step > Hub /\ told[n][j].step > Hub

\* A product reaches the patcher once, when all steps were done, and nobody works
\* on it any more.
SentOnceComplete ==
  /\ \A i, j \in DOMAIN patcherQ : patcherQ[i] = patcherQ[j] => i = j
  /\ \A i \in DOMAIN patcherQ :
       /\ Complete(patcherQ[i])
       /\ \A e \in Employees :
            pc[e] \in {"mark", "done"} => id[Cell(e)] # patcherQ[i]

\* The product of a slot is not replaced or taken away while an employee is busy
\* with it, though nobody else checks who works there.
ProductStays ==
  [][\A e \in Employees :
       pc[e] \in {"mark", "done"} => id'[Cell(e)] = id[Cell(e)]]_vars

\* A product leaves its slot only when it is complete: the generator never
\* overwrites one, and no slot is cleared twice.
LeavesComplete ==
  [][\A c \in Cells : id[c] # 0 /\ id'[c] # id[c] => Complete(id[c])]_vars
=============================================================================
