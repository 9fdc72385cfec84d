----------------------- MODULE ManufacturingLineProofs -----------------------
(***************************************************************************)
(* Proofs about ManufacturingLine, for any number of lines, steps, slots    *)
(* and product ids: the steps on a product happen in order, a product is    *)
(* sent once and complete, and no slot is emptied or overwritten under an   *)
(* employee.                                                               *)
(***************************************************************************)
EXTENDS ManufacturingLine, FiniteSetTheorems, TLAPS

Messages == [type : {"OBJECT_CREATED", "OBJECT_MOVED"}, step : 0..NumSteps]

-----------------------------------------------------------------------------
(* Sequences of messages                                                   *)

\* Step s was told once, or not at all, in the sequence of messages t.
Once(t, s) ==
  \E k \in DOMAIN t : t[k].step = s /\ \A l \in DOMAIN t : t[l].step = s => l = k
Never(t, s) == \A k \in DOMAIN t : t[k].step # s

\* The steps told in t are in an order that is allowed.
InOrder(t) ==
  \A i, j \in DOMAIN t :
    i < j => \/ t[i].step < t[j].step
             \/ /\ t[i].step # t[j].step
                /\ t[i].step > Hub /\ t[j].step > Hub

\* The length and the elements of a sequence with one element more.
LEMMA AppendFacts ==
  ASSUME NEW S, NEW t \in Seq(S), NEW m \in S
  PROVE  /\ Append(t, m) \in Seq(S) /\ Len(t) \in Nat
         /\ Len(Append(t, m)) = Len(t) + 1
         /\ DOMAIN Append(t, m) = 1..(Len(t) + 1) /\ DOMAIN t = 1..Len(t)
         /\ Append(t, m)[Len(t) + 1] = m
         /\ \A k \in 1..Len(t) : Append(t, m)[k] = t[k]
OBVIOUS

\* A message about a step that was never told is the only one about it.
LEMMA AppendOnce ==
  ASSUME NEW S, NEW t \in Seq(S), NEW m \in S, Never(t, m.step)
  PROVE  Once(Append(t, m), m.step)
BY AppendFacts DEF Once, Never

\* A message about one step says nothing about the others.
LEMMA AppendOther ==
  ASSUME NEW S, NEW t \in Seq(S), NEW m \in S, NEW s, s # m.step
  PROVE  /\ Once(t, s) => Once(Append(t, m), s)
         /\ Never(t, s) => Never(Append(t, m), s)
<1>1. ASSUME Once(t, s) PROVE Once(Append(t, m), s)
  <2>1. PICK k \in DOMAIN t : t[k].step = s /\ \A l \in DOMAIN t : t[l].step = s => l = k
    BY <1>1 DEF Once
  <2>2. k \in DOMAIN Append(t, m) /\ Append(t, m)[k].step = s
    BY <2>1, AppendFacts
  <2>3. ASSUME NEW l \in DOMAIN Append(t, m), Append(t, m)[l].step = s PROVE l = k
    BY <2>1, <2>3, AppendFacts
  <2>4. QED
    BY <2>2, <2>3 DEF Once
<1>2. ASSUME Never(t, s) PROVE Never(Append(t, m), s)
  BY <1>2, AppendFacts DEF Never
<1>3. QED
  BY <1>1, <1>2

\* A message may follow when it is in order with every message before it.
LEMMA AppendInOrder ==
  ASSUME NEW S, NEW t \in Seq(S), NEW m \in S, InOrder(t),
         \A k \in DOMAIN t : \/ t[k].step < m.step
                             \/ t[k].step # m.step /\ t[k].step > Hub /\ m.step > Hub
  PROVE  InOrder(Append(t, m))
<1> SUFFICES ASSUME NEW i \in DOMAIN Append(t, m), NEW j \in DOMAIN Append(t, m), i < j
             PROVE  \/ Append(t, m)[i].step < Append(t, m)[j].step
                    \/ /\ Append(t, m)[i].step # Append(t, m)[j].step
                       /\ Append(t, m)[i].step > Hub /\ Append(t, m)[j].step > Hub
  BY DEF InOrder
<1>1. CASE j \in DOMAIN t
  <2>1. i \in DOMAIN t /\ Append(t, m)[i] = t[i] /\ Append(t, m)[j] = t[j]
    BY <1>1, AppendFacts
  <2>2. QED
    BY <1>1, <2>1 DEF InOrder
<1>2. CASE j \notin DOMAIN t
  <2>1. i \in DOMAIN t /\ Append(t, m)[i] = t[i] /\ Append(t, m)[j] = m
    BY <1>2, AppendFacts
  <2>2. QED
    BY <2>1
<1>3. QED
  BY <1>1, <1>2

\* A step told once makes a set of one position.
LEMMA OnceIsOne ==
  ASSUME NEW t, NEW s, Once(t, s)
  PROVE  Cardinality({k \in DOMAIN t : t[k].step = s}) = 1
<1>1. PICK k \in DOMAIN t : t[k].step = s /\ \A l \in DOMAIN t : t[l].step = s => l = k
  BY DEF Once
<1>2. {l \in DOMAIN t : t[l].step = s} = {k}
  BY <1>1
<1>3. QED
  BY <1>2, FS_Singleton

-----------------------------------------------------------------------------
(* Cells and mutexes                                                       *)

\* The mutex of a slot exists, also that of the slot after the last one.
LEMMA MutexExists ==
  ASSUME NEW c \in Cells
  PROVE  MutexOf(c) \in Mutexes
<1>1. PICK n \in Nat \ {0} : n = NumLines
  BY SizeAssumption
<1>2. PICK p \in Nat \ {0} : p = PileSize
  BY SizeAssumption
<1>3. PICK a \in 0..n - 1 : a = c[1]
  BY <1>1 DEF Cells, Lines
<1>4. PICK b \in 0..p : b = c[2]
  BY <1>2 DEF Cells, Slots
<1>5. a * p \in Nat /\ n * p = a * p + (n - a) * p /\ (n - a) * p >= p
  <2>1. n - a >= 1 /\ n - a \in Nat
    BY <1>3
  <2>2. PICK d \in Nat : d = n - a - 1
    BY <2>1
  <2>3. n = a + d + 1
    BY <2>2
  <2>4. d * p \in Nat /\ a * p \in Nat /\ (a + d + 1) * p = a * p + d * p + p
    OBVIOUS
  <2>5. (d + 1) * p = d * p + p
    OBVIOUS
  <2>6. n - a = d + 1
    BY <2>2
  <2>7. QED
    BY <2>3, <2>4, <2>5, <2>6
<1>6. a * p + b \in 0..n * p
  BY <1>5
<1>7. QED
  BY <1>1, <1>2, <1>3, <1>4, <1>6 DEF MutexOf, Mutexes

\* Where an employee looks.
LEMMA CellFacts ==
  ASSUME TypeOK, NEW e \in Employees
  PROVE  /\ Cell(e) \in Cells /\ Cell(e)[1] = e[1] /\ Cell(e)[2] = slot[e]
         /\ MutexOf(Cell(e)) \in Mutexes /\ e[2] \in Steps /\ e[1] \in Lines
<1>1. Cell(e) \in Cells /\ e[2] \in Steps /\ e[1] \in Lines
  BY DEF TypeOK, Cell, Cells, Employees
<1>2. QED
  BY <1>1, MutexExists DEF Cell

\* The next slot of the generator.
LEMMA NextCellFacts ==
  ASSUME NEW c \in Cells
  PROVE  NextCell(c) \in Cells
<1>1. (c[1] + 1) % NumLines \in Lines
  BY SizeAssumption DEF Cells, Lines
<1>2. QED
  BY <1>1, SizeAssumption DEF NextCell, Cells, Slots

-----------------------------------------------------------------------------
(* Type correctness                                                        *)

\* At the start the piles are empty and every thread is at its top.
LEMMA InitTypeOK == Init => TypeOK
<1> SUFFICES ASSUME Init PROVE TypeOK
  OBVIOUS
<1>1. <<0, 0>> \in Cells
  BY SizeAssumption DEF Cells, Lines, Slots
<1>2. QED
  BY <1>1, SizeAssumption DEF Init, TypeOK, Labels, Slots

\* Where Advance leads.
LEMMA AdvanceFacts ==
  ASSUME TypeOK, NEW e \in Employees, Advance(e)
  PROVE  /\ slot' \in [Employees -> Slots] /\ pc' \in [Employees -> Labels]
         /\ pc'[e] = "top"
         /\ \A f \in Employees \ {e} : pc'[f] = pc[f] /\ slot'[f] = slot[f]
<1>1. (slot[e] + 1) % PileSize \in Slots
  BY SizeAssumption DEF TypeOK, Slots
<1>2. QED
  BY <1>1 DEF Advance, Goto, TypeOK, Labels

\* Where Goto leads.
LEMMA GotoFacts ==
  ASSUME TypeOK, NEW e \in Employees, NEW l \in Labels, Goto(e, l)
  PROVE  /\ pc' \in [Employees -> Labels] /\ pc'[e] = l
         /\ \A f \in Employees \ {e} : pc'[f] = pc[f]
BY DEF Goto, TypeOK

\* The generator keeps every variable in its type.
LEMMA GeneratorStepTypeOK ==
  ASSUME TypeOK, GeneratorStep
  PROVE  TypeOK'
<1>1. CASE GenTop
  BY <1>1 DEF TypeOK, GenTop, GenGoto
<1>2. CASE GenLock
  BY <1>2 DEF TypeOK, GenLock, GenGoto
<1>3. CASE GenFill
  <2>1. PICK c \in Cells : c = gen.cell
    BY DEF TypeOK
  <2>2. MutexOf(c) \in Mutexes /\ NextCell(c) \in Cells
    BY MutexExists, NextCellFacts
  <2>3. mutex' \in [Mutexes -> Employees \cup {Generator, None}]
    BY <1>3, <2>1, <2>2 DEF TypeOK, GenFill
  <2>4. gen' \in [at : {"top", "spin", "lock", "fill"}, cell : Cells]
    BY <1>3, <2>1, <2>2 DEF TypeOK, GenFill
  <2>5. /\ id' \in [Cells -> Ids \cup {0}]
        /\ progress' \in [Cells -> [Steps -> {"unset", "0", "1"}]]
        /\ told' \in [Ids \cup {0} -> Seq(Messages)]
    <3>1. CASE UNCHANGED <<id, progress, told>>
      BY <3>1 DEF TypeOK, Messages
    <3>2. CASE Generate(c)
      <4>1. Blank \in [Steps -> {"unset", "0", "1"}]
        BY DEF Blank
      <4>2. PICK n \in Ids : /\ id' = [id EXCEPT ![c] = n]
                             /\ progress' = [progress EXCEPT ![c] = Blank]
                             /\ told' = [told EXCEPT ![n] = <<>>]
        BY <3>2 DEF Generate
      <4>3. id' \in [Cells -> Ids \cup {0}]
        BY <4>2 DEF TypeOK
      <4>4. progress' \in [Cells -> [Steps -> {"unset", "0", "1"}]]
        BY <4>1, <4>2 DEF TypeOK
      <4>5. told' \in [Ids \cup {0} -> Seq(Messages)]
        <5>1. told \in [Ids \cup {0} -> Seq(Messages)]
          BY DEF TypeOK, Messages
        <5>2. <<>> \in Seq(Messages)
          OBVIOUS
        <5>3. QED
          BY <4>2, <5>1, <5>2
      <4>6. QED
        BY <4>3, <4>4, <4>5
    <3>3. QED
      BY <1>3, <2>1, <3>1, <3>2 DEF GenFill
  <2>6. QED
    BY <1>3, <2>3, <2>4, <2>5 DEF TypeOK, GenFill, Messages
<1>4. QED
  BY <1>1, <1>2, <1>3 DEF GeneratorStep

\* A message to the UI about the product of a cell.
LEMMA TellFacts ==
  ASSUME TypeOK, NEW c \in Cells, NEW m \in Messages,
         told' = [told EXCEPT ![id[c]] = Append(@, m)]
  PROVE  /\ told' \in [Ids \cup {0} -> Seq(Messages)]
         /\ told'[id[c]] = Append(told[id[c]], m) /\ told[id[c]] \in Seq(Messages)
         /\ \A n \in Ids \cup {0} : n # id[c] => told'[n] = told[n]
<1>1. told \in [Ids \cup {0} -> Seq(Messages)] /\ id[c] \in Ids \cup {0}
  BY DEF TypeOK, Messages
<1>2. Append(told[id[c]], m) \in Seq(Messages)
  BY <1>1, AppendFacts
<1>3. QED
  BY <1>1, <1>2

\* What Tell appends.
LEMMA TellIsMessage ==
  ASSUME NEW e \in Employees
  PROVE  /\ [type |-> IF e[2] = 0 THEN "OBJECT_CREATED" ELSE "OBJECT_MOVED",
             step |-> e[2]] \in Messages
         /\ [type |-> "OBJECT_MOVED", step |-> NumSteps] \in Messages
BY SizeAssumption DEF Employees, Steps, Messages

\* An employee keeps every variable in its type; the one who sends a product has
\* to have one.
LEMMA EmployeeStepTypeOK ==
  ASSUME TypeOK, NEW e \in Employees, EmployeeStep(e),
         pc[e] = "done" => id[Cell(e)] # 0
  PROVE  TypeOK'
<1>c. Cell(e) \in Cells /\ MutexOf(Cell(e)) \in Mutexes /\ e[2] \in Steps
  BY CellFacts
<1>1. CASE EmpTop(e)
  <2>1. PICK l \in {"spin", "find"} : Goto(e, l)
    BY <1>1 DEF EmpTop
  <2>2. QED
    BY <1>1, <2>1, GotoFacts DEF TypeOK, EmpTop, Labels
<1>2. CASE EmpFind(e)
  <2>1. CASE Advance(e)
    BY <1>2, <2>1, AdvanceFacts DEF TypeOK, EmpFind
  <2>2. CASE slot[e] < PileSize /\ slot' = [slot EXCEPT ![e] = slot[e] + 1] /\ UNCHANGED pc
    <3>1. slot[e] + 1 \in Slots
      BY <2>2, SizeAssumption DEF TypeOK, Slots
    <3>2. QED
      BY <1>2, <2>2, <3>1 DEF TypeOK, EmpFind
  <2>3. CASE slot[e] < PileSize /\ Goto(e, "try") /\ UNCHANGED slot
    BY <1>2, <2>3, GotoFacts DEF TypeOK, EmpFind, Labels
  <2>4. QED
    BY <1>2, <2>1, <2>2, <2>3 DEF EmpFind
<1>3. CASE EmpTry(e)
  <2>1. CASE Advance(e) /\ UNCHANGED mutex
    BY <1>3, <2>1, AdvanceFacts DEF TypeOK, EmpTry
  <2>2. CASE Goto(e, "check") /\ UNCHANGED slot
             /\ mutex' = [mutex EXCEPT ![MutexOf(Cell(e))] = e]
    BY <1>3, <2>2, GotoFacts DEF TypeOK, EmpTry, Labels
  <2>3. QED
    BY <1>3, <2>1, <2>2 DEF EmpTry
<1>4. CASE EmpCheck(e)
  <2>1. CASE Tell(e) /\ Goto(e, "mark") /\ UNCHANGED <<mutex, slot>>
    <3>1. told' \in [Ids \cup {0} -> Seq(Messages)]
      BY <1>c, <2>1, TellIsMessage, TellFacts DEF Tell
    <3>2. QED
      BY <1>4, <2>1, <3>1, GotoFacts DEF TypeOK, EmpCheck, Labels, Messages
  <2>2. CASE Advance(e) /\ UNCHANGED told
             /\ mutex' = [mutex EXCEPT ![MutexOf(Cell(e))] = None]
    BY <1>4, <2>2, AdvanceFacts DEF TypeOK, EmpCheck
  <2>3. QED
    BY <1>4, <2>1, <2>2 DEF EmpCheck
<1>5. CASE EmpMark(e)
  <2>1. progress' \in [Cells -> [Steps -> {"unset", "0", "1"}]]
    BY <1>c, <1>5 DEF TypeOK, EmpMark
  <2>2. QED
    BY <1>5, <2>1, GotoFacts DEF TypeOK, EmpMark, Labels
<1>6. CASE EmpDone(e)
  <2>1. CASE UnlockAndAdvance(e) /\ UNCHANGED patcherQ
    BY <1>6, <2>1, AdvanceFacts DEF TypeOK, EmpDone, UnlockAndAdvance
  <2>2. CASE /\ Len(patcherQ) < QueueCap /\ Goto(e, "clear") /\ UNCHANGED <<mutex, slot>>
             /\ patcherQ' = Append(patcherQ, id[Cell(e)]) /\ progress[Cell(e)] = Done
    <3>1. id[Cell(e)] \in Ids
      BY <1>c, <1>6 DEF TypeOK, EmpDone
    <3>2. patcherQ' \in Seq(Ids) /\ Len(patcherQ') <= QueueCap
      BY <2>2, <3>1, AppendFacts, SizeAssumption DEF TypeOK
    <3>3. QED
      BY <1>6, <2>2, <3>2, GotoFacts DEF TypeOK, EmpDone, Labels
  <2>3. QED
    BY <1>6, <2>1, <2>2 DEF EmpDone
<1>7. CASE EmpClear(e)
  BY <1>7, <1>c, AdvanceFacts, TellIsMessage, TellFacts DEF TypeOK, EmpClear, UnlockAndAdvance, Messages
<1>8. QED
  BY <1>1, <1>2, <1>3, <1>4, <1>5, <1>6, <1>7 DEF EmployeeStep

-----------------------------------------------------------------------------
(* Mutexes                                                                 *)

\* Who is past trylock, or filling a slot, holds the mutex of the slot.
Holding == {"check", "mark", "done", "clear"}
LockInv ==
  /\ \A e \in Employees : pc[e] \in Holding => mutex[MutexOf(Cell(e))] = e
  /\ gen.at = "fill" => mutex[MutexOf(gen.cell)] = Generator

\* Nobody else is at work on the slot of an employee.
LEMMA Exclusive ==
  ASSUME LockInv, NEW e \in Employees, pc[e] \in Holding
  PROVE  /\ \A f \in Employees : pc[f] \in Holding /\ Cell(f) = Cell(e) => f = e
         /\ gen.at = "fill" => gen.cell # Cell(e)
<1>1. mutex[MutexOf(Cell(e))] = e /\ e # Generator
  BY GeneratorAssumption DEF LockInv
<1>2. QED
  BY <1>1 DEF LockInv

\* The generator keeps the mutex of a slot until it has filled it, and waits for
\* one that is taken.
LEMMA GeneratorStepLocks ==
  ASSUME TypeOK, LockInv, GeneratorStep
  PROVE  LockInv'
<1>1. \A e \in Employees : Cell(e)' = Cell(e) /\ pc'[e] = pc[e]
  BY DEF GeneratorStep, GenTop, GenLock, GenFill, Cell
<1>2. gen.cell \in Cells /\ MutexOf(gen.cell) \in Mutexes
  BY MutexExists DEF TypeOK
<1>3. CASE GenTop
  BY <1>1, <1>3 DEF GenTop, GenGoto, LockInv, TypeOK
<1>4. CASE GenLock
  <2>1. \A e \in Employees : e # None
    BY DEF Employees, None
  <2>2. ASSUME NEW e \in Employees, pc[e] \in Holding
        PROVE  mutex'[MutexOf(Cell(e))] = e
    BY <1>2, <1>4, <2>1, <2>2, CellFacts DEF GenLock, LockInv, TypeOK
  <2>3. gen'.cell = gen.cell /\ mutex'[MutexOf(gen.cell)] = Generator
    BY <1>2, <1>4 DEF GenLock, GenGoto, TypeOK
  <2>4. QED
    BY <1>1, <2>2, <2>3 DEF LockInv
<1>5. CASE GenFill
  <2>1. ASSUME NEW e \in Employees, pc[e] \in Holding
        PROVE  mutex'[MutexOf(Cell(e))] = e
    <3>1. mutex[MutexOf(Cell(e))] = e /\ mutex[MutexOf(gen.cell)] = Generator
      BY <1>5, <2>1 DEF LockInv, GenFill
    <3>2. MutexOf(Cell(e)) # MutexOf(gen.cell)
      BY <3>1, GeneratorAssumption
    <3>3. QED
      BY <1>2, <1>5, <3>1, <3>2, CellFacts DEF GenFill, TypeOK
  <2>2. gen'.at # "fill"
    BY <1>5 DEF GenFill
  <2>3. QED
    BY <1>1, <2>1, <2>2 DEF LockInv
<1>6. QED
  BY <1>3, <1>4, <1>5 DEF GeneratorStep

\* What an employee may do to a mutex: take that of its slot when it is free, or
\* give it back.
LEMMA EmployeeStepLocks ==
  ASSUME TypeOK, LockInv, NEW e \in Employees, EmployeeStep(e)
  PROVE  LockInv'
<1>1. /\ gen' = gen /\ \A f \in Employees \ {e} : pc'[f] = pc[f] /\ slot'[f] = slot[f]
      /\ \/ pc'[e] \notin Holding
         \/ slot'[e] = slot[e] /\ mutex'[MutexOf(Cell(e))] = e
      /\ \/ mutex' = mutex
         \/ /\ mutex[MutexOf(Cell(e))] \in {e, None}
            /\ \A m \in Mutexes : m # MutexOf(Cell(e)) => mutex'[m] = mutex[m]
  <2>c. MutexOf(Cell(e)) \in Mutexes
    BY CellFacts
  <2>1. CASE EmpTop(e)
    BY <2>1 DEF EmpTop, Goto, TypeOK, Holding
  <2>2. CASE EmpFind(e)
    BY <2>2 DEF EmpFind, Advance, Goto, TypeOK, Holding
  <2>3. CASE EmpTry(e)
    BY <2>c, <2>3 DEF EmpTry, Advance, Goto, TypeOK, Holding
  <2>4. CASE EmpCheck(e)
    BY <2>c, <2>4 DEF EmpCheck, Advance, Goto, TypeOK, Holding, LockInv
  <2>5. CASE EmpMark(e)
    BY <2>5 DEF EmpMark, Goto, TypeOK, Holding, LockInv
  <2>6. CASE EmpDone(e)
    BY <2>c, <2>6 DEF EmpDone, UnlockAndAdvance, Advance, Goto, TypeOK, Holding, LockInv
  <2>7. CASE EmpClear(e)
    BY <2>c, <2>7 DEF EmpClear, UnlockAndAdvance, Advance, Goto, TypeOK, Holding, LockInv
  <2>8. QED
    BY <2>1, <2>2, <2>3, <2>4, <2>5, <2>6, <2>7 DEF EmployeeStep
<1>2. \A f \in Employees \ {e} : Cell(f)' = Cell(f)
  BY <1>1 DEF Cell
<1>3. slot'[e] = slot[e] => Cell(e)' = Cell(e)
  BY DEF Cell
<1>4. \A f \in Employees : f # None /\ f # Generator
  BY GeneratorAssumption DEF Employees, None
<1>5. ASSUME NEW f \in Employees, f # e, pc[f] \in Holding
      PROVE  mutex'[MutexOf(Cell(f))] = f
  BY <1>1, <1>4, <1>5, CellFacts DEF LockInv
<1>6. gen.at = "fill" => mutex'[MutexOf(gen.cell)] = Generator
  BY <1>1, <1>4, MutexExists, GeneratorAssumption DEF LockInv, TypeOK
<1>7. QED
  BY <1>1, <1>2, <1>3, <1>5, <1>6 DEF LockInv

-----------------------------------------------------------------------------
(* Products                                                                *)

\* The products in the piles have different ids.
IdsInv == \A c, d \in Cells : id[c] # 0 /\ id[c] = id[d] => c = d

\* A product is in the queue once, and is only in a pile as well while the
\* employee who sent it clears the slot.
SentInv ==
  /\ \A i, j \in DOMAIN patcherQ : patcherQ[i] = patcherQ[j] => i = j
  /\ \A i \in DOMAIN patcherQ : \A c \in Cells :
       id[c] = patcherQ[i] => \E e \in Employees : pc[e] = "clear" /\ Cell(e) = c

\* The steps up to the hub are done in order.
Closed(p) ==
  \A j \in Steps : p[j] = "1" => \A i \in Steps : i < j /\ i <= Hub => p[i] = "1"

\* The progress of a product is that of an ordered prefix of its steps; what is
\* left in an empty slot offers no step to do.
ProgressInv ==
  \A c \in Cells :
    /\ id[c] = 0 => \A i \in Steps : progress[c][i] # "0"
    /\ id[c] # 0 => (\A i \in Steps : progress[c][i] \in {"0", "1"}) /\ Closed(progress[c])

\* What an employee knows of the product it holds.
WorkInv ==
  \A e \in Employees :
    /\ pc[e] = "mark" => id[Cell(e)] # 0 /\ Ready(progress[Cell(e)], e[2])
    /\ pc[e] = "done" => id[Cell(e)] # 0
    /\ pc[e] = "clear" => id[Cell(e)] # 0 /\ \A i \in Steps : progress[Cell(e)][i] = "1"

\* A step is marked, or its employee has told the UI and is about to mark it.
Marked(c, i) ==
  \/ progress[c][i] = "1"
  \/ \E e \in Employees : pc[e] = "mark" /\ Cell(e) = c /\ e[2] = i

\* The UI was told of exactly the marked steps of a product, and once.
ToldInv ==
  \A c \in Cells : id[c] # 0 =>
    /\ \A k \in DOMAIN told[id[c]] : told[id[c]][k].step \in Steps
    /\ \A i \in Steps : /\ Marked(c, i) => Once(told[id[c]], i)
                        /\ ~Marked(c, i) => Never(told[id[c]], i)

\* StepsInOrder, by product.
OrderInv == \A n \in Ids : InOrder(told[n])

\* Of a product that was sent every step was told once.
CompleteInv == \A i \in DOMAIN patcherQ : \A s \in Steps : Once(told[patcherQ[i]], s)

ProductInv ==
  IdsInv /\ SentInv /\ ProgressInv /\ WorkInv /\ ToldInv /\ OrderInv /\ CompleteInv

\* At the start there is no product.
LEMMA InitProducts == Init => LockInv /\ ProductInv
<1> SUFFICES ASSUME Init PROVE LockInv /\ ProductInv
  OBVIOUS
<1>1. \A c \in Cells : id[c] = 0 /\ progress[c] = [i \in Steps |-> "unset"]
  BY DEF Init
<1>2. LockInv /\ WorkInv
  BY DEF Init, LockInv, WorkInv, Holding
<1>3. IdsInv /\ ProgressInv /\ ToldInv
  BY <1>1 DEF IdsInv, ProgressInv, ToldInv
<1>4. OrderInv
  BY DEF Init, OrderInv, InOrder
<1>5. SentInv /\ CompleteInv
  BY DEF Init, SentInv, CompleteInv
<1>6. QED
  BY <1>2, <1>3, <1>4, <1>5 DEF ProductInv

-----------------------------------------------------------------------------
(* Steps that change no product                                            *)

products == <<id, progress, told, patcherQ>>

\* A step of another thread that leaves the piles alone.
LEMMA FrameProducts ==
  ASSUME ProductInv, UNCHANGED <<products, pc, slot>>
  PROVE  ProductInv'
<1>1. \A e \in Employees : Cell(e)' = Cell(e)
  BY DEF Cell
<1>2. \A c \in Cells, i \in Steps : Marked(c, i)' <=> Marked(c, i)
  BY <1>1 DEF Marked, products
<1>3. IdsInv' /\ ProgressInv' /\ OrderInv' /\ CompleteInv'
  BY DEF ProductInv, IdsInv, ProgressInv, OrderInv, CompleteInv, products
<1>4. SentInv' /\ WorkInv'
  BY <1>1 DEF ProductInv, SentInv, WorkInv, products
<1>5. ToldInv'
  BY <1>2 DEF ProductInv, ToldInv, products
<1>6. QED
  BY <1>3, <1>4, <1>5 DEF ProductInv

\* An employee who neither starts nor ends work on a product.
Moves(e) ==
  /\ pc[e] \notin {"mark", "clear"} /\ pc'[e] \notin {"mark", "done", "clear"}
  /\ \A f \in Employees \ {e} : pc'[f] = pc[f] /\ slot'[f] = slot[f]
  /\ UNCHANGED products

LEMMA MovesProducts ==
  ASSUME ProductInv, NEW e \in Employees, Moves(e)
  PROVE  ProductInv'
<1>1. \A f \in Employees \ {e} : Cell(f)' = Cell(f) /\ pc'[f] = pc[f]
  BY DEF Moves, Cell
<1>2. \A c \in Cells, i \in Steps : Marked(c, i)' <=> Marked(c, i)
  BY <1>1 DEF Marked, products, Moves
<1>3. IdsInv' /\ ProgressInv' /\ OrderInv' /\ CompleteInv'
  BY DEF ProductInv, IdsInv, ProgressInv, OrderInv, CompleteInv, products, Moves
<1>4. SentInv'
  <2>1. \A c \in Cells : (\E f \in Employees : pc[f] = "clear" /\ Cell(f) = c)
                         => \E f \in Employees : pc'[f] = "clear" /\ Cell(f)' = c
    BY <1>1 DEF Moves
  <2>2. QED
    BY <2>1 DEF ProductInv, SentInv, products, Moves
<1>5. WorkInv'
  BY <1>1 DEF ProductInv, WorkInv, products, Moves
<1>6. ToldInv'
  BY <1>2 DEF ProductInv, ToldInv, products, Moves
<1>7. QED
  BY <1>3, <1>4, <1>5, <1>6 DEF ProductInv

-----------------------------------------------------------------------------
(* Steps that change a product                                             *)

\* The generator puts a new product into an empty slot.
LEMMA FillProducts ==
  ASSUME TypeOK, LockInv, ProductInv, GenFill, id[gen.cell] = 0
  PROVE  ProductInv'
<1>1. PICK c \in Cells : c = gen.cell /\ id[c] = 0 /\ Generate(c)
  BY DEF TypeOK, GenFill
<1>2. PICK n \in Ids : /\ n \notin InUse
                       /\ id' = [id EXCEPT ![c] = n]
                       /\ progress' = [progress EXCEPT ![c] = Blank]
                       /\ told' = [told EXCEPT ![n] = <<>>]
  BY <1>1 DEF Generate, Fresh
<1>3. /\ n # 0 /\ \A d \in Cells : id[d] # n
      /\ \A i \in DOMAIN patcherQ : patcherQ[i] # n
  BY <1>2 DEF InUse, Ids
<1>4. /\ id'[c] = n /\ progress'[c] = Blank /\ told'[n] = <<>>
      /\ \A d \in Cells \ {c} : id'[d] = id[d] /\ progress'[d] = progress[d]
      /\ \A m \in Ids \cup {0} : m # n => told'[m] = told[m]
  BY <1>2 DEF TypeOK
<1>5. pc' = pc /\ slot' = slot /\ patcherQ' = patcherQ
  BY DEF GenFill
<1>6. \A e \in Employees : Cell(e)' = Cell(e)
  BY <1>5 DEF Cell
<1>7. \A e \in Employees : pc[e] \in {"mark", "done", "clear"} => Cell(e) # c
  BY <1>1 DEF ProductInv, WorkInv
<1>8. \A i \in Steps : Blank[i] = "0"
  BY DEF Blank
<1>9. IdsInv'
  BY <1>3, <1>4 DEF ProductInv, IdsInv
<1>10. SentInv'
  BY <1>3, <1>4, <1>5, <1>6 DEF ProductInv, SentInv
<1>11. ProgressInv'
  <2>1. Closed(Blank)
    BY <1>8 DEF Closed
  <2>2. QED
    BY <1>3, <1>4, <1>8, <2>1 DEF ProductInv, ProgressInv
<1>12. WorkInv'
  BY <1>4, <1>5, <1>6, <1>7, CellFacts DEF ProductInv, WorkInv
<1>13. ToldInv'
  <2>1. ASSUME NEW d \in Cells, d # c, id'[d] # 0
        PROVE  /\ \A k \in DOMAIN told'[id'[d]] : told'[id'[d]][k].step \in Steps
               /\ \A i \in Steps : /\ Marked(d, i)' => Once(told'[id'[d]], i)
                                   /\ ~Marked(d, i)' => Never(told'[id'[d]], i)
    <3>1. id'[d] = id[d] /\ progress'[d] = progress[d] /\ id[d] \in Ids \cup {0}
      BY <1>4, <2>1 DEF TypeOK
    <3>2. told'[id'[d]] = told[id[d]]
      BY <1>3, <1>4, <3>1
    <3>3. \A i \in Steps : Marked(d, i)' <=> Marked(d, i)
      BY <1>5, <1>6, <3>1 DEF Marked
    <3>4. QED
      BY <2>1, <3>1, <3>2, <3>3 DEF ProductInv, ToldInv
  <2>2. \A i \in Steps : ~Marked(c, i)'
    BY <1>4, <1>5, <1>6, <1>7, <1>8 DEF Marked
  <2>3. DOMAIN told'[id'[c]] = {}
    BY <1>4
  <2>4. /\ \A k \in DOMAIN told'[id'[c]] : told'[id'[c]][k].step \in Steps
        /\ \A i \in Steps : Never(told'[id'[c]], i)
    BY <2>3 DEF Never
  <2>5. QED
    BY <2>1, <2>2, <2>4 DEF ToldInv
<1>14. OrderInv'
  BY <1>4 DEF ProductInv, OrderInv, InOrder
<1>15. CompleteInv'
  <2>1. \A i \in DOMAIN patcherQ : patcherQ[i] \in Ids
    BY DEF TypeOK
  <2>2. QED
    BY <1>3, <1>4, <1>5, <2>1 DEF ProductInv, CompleteInv
<1>16. QED
  BY <1>9, <1>10, <1>11, <1>12, <1>13, <1>14, <1>15 DEF ProductInv

\* The generator changes nothing else.
LEMMA GeneratorStepProducts ==
  ASSUME TypeOK, LockInv, ProductInv, GeneratorStep
  PROVE  ProductInv'
<1>1. CASE GenTop
  BY <1>1, FrameProducts DEF GenTop, products
<1>2. CASE GenLock
  BY <1>2, FrameProducts DEF GenLock, products
<1>3. CASE GenFill /\ id[gen.cell] # 0
  BY <1>3, FrameProducts DEF GenFill, products
<1>4. CASE GenFill /\ id[gen.cell] = 0
  BY <1>4, FillProducts
<1>5. QED
  BY <1>1, <1>2, <1>3, <1>4 DEF GeneratorStep

\* The patcher takes a product away.
LEMMA ReceiveProducts ==
  ASSUME TypeOK, ProductInv, PatcherReceive
  PROVE  ProductInv'
<1>1. /\ Len(patcherQ) \in Nat \ {0} /\ DOMAIN patcherQ = 1..Len(patcherQ)
      /\ DOMAIN patcherQ' = 1..(Len(patcherQ) - 1)
      /\ \A i \in DOMAIN patcherQ' : patcherQ'[i] = patcherQ[i + 1]
  BY DEF TypeOK, PatcherReceive
<1>2. \A i \in DOMAIN patcherQ' : i + 1 \in DOMAIN patcherQ
  BY <1>1
<1>3. UNCHANGED <<id, progress, pc, slot, told>>
  BY DEF PatcherReceive
<1>4. \A e \in Employees : Cell(e)' = Cell(e)
  BY <1>3 DEF Cell
<1>5. \A c \in Cells, i \in Steps : Marked(c, i)' <=> Marked(c, i)
  BY <1>3, <1>4 DEF Marked
<1>6. IdsInv' /\ ProgressInv' /\ OrderInv' /\ WorkInv'
  BY <1>3, <1>4 DEF ProductInv, IdsInv, ProgressInv, OrderInv, WorkInv
<1>7. ToldInv'
  BY <1>3, <1>5 DEF ProductInv, ToldInv
<1>8. SentInv'
  BY <1>1, <1>2, <1>3, <1>4 DEF ProductInv, SentInv
<1>9. CompleteInv'
  BY <1>1, <1>2, <1>3 DEF ProductInv, CompleteInv
<1>10. QED
  BY <1>6, <1>7, <1>8, <1>9 DEF ProductInv

\* What the invariants say of the slot of an employee who holds its mutex.
LEMMA HeldSlot ==
  ASSUME TypeOK, LockInv, ProductInv, NEW e \in Employees,
         pc[e] \in {"check", "mark", "done"}
  PROVE  /\ \A f \in Employees : pc[f] \in {"mark", "clear"} /\ Cell(f) = Cell(e) => f = e
         /\ \A i \in DOMAIN patcherQ : patcherQ[i] # id[Cell(e)]
<1>1. \A f \in Employees : pc[f] \in Holding /\ Cell(f) = Cell(e) => f = e
  BY Exclusive DEF Holding
<1>2. ASSUME NEW i \in DOMAIN patcherQ, id[Cell(e)] = patcherQ[i] PROVE FALSE
  <2>1. PICK f \in Employees : pc[f] = "clear" /\ Cell(f) = Cell(e)
    BY <1>2, CellFacts DEF ProductInv, SentInv
  <2>2. QED
    BY <1>1, <2>1 DEF Holding
<1>3. QED
  BY <1>1, <1>2 DEF Holding

\* A step that may be done follows the steps that were done.
LEMMA ReadyFollows ==
  ASSUME NEW p, \A i \in Steps : p[i] \in {"0", "1"}, Closed(p),
         NEW s \in Steps, Ready(p, s), NEW j \in Steps, p[j] = "1"
  PROVE  j < s \/ (j # s /\ j > Hub /\ s > Hub)
<1>1. p[s] = "0" /\ j # s
  BY DEF Ready
<1>2. CASE j > s
  <2>1. ~(s <= Hub)
    BY <1>1, <1>2 DEF Closed
  <2>2. QED
    BY <1>2, <2>1, OrderAssumption DEF Steps
<1>3. QED
  BY <1>1, <1>2 DEF Steps

\* Marking a step that may be done leaves the marked steps a prefix.
LEMMA ReadyClosed ==
  ASSUME NEW p, \A i \in Steps : p[i] \in {"0", "1"}, Closed(p),
         NEW s \in Steps, Ready(p, s),
         NEW q, q[s] = "1", \A i \in Steps \ {s} : q[i] = p[i]
  PROVE  Closed(q)
<1> SUFFICES ASSUME NEW j \in Steps, q[j] = "1", NEW i \in Steps, i < j, i <= Hub
             PROVE  q[i] = "1"
  BY DEF Closed
<1>1. CASE j # s
  BY <1>1 DEF Closed
<1>2. CASE j = s /\ s > 0 /\ p[s - 1] = "1"
  <2>1. s - 1 \in Steps /\ (i = s - 1 \/ i < s - 1)
    BY <1>2, SizeAssumption DEF Steps
  <2>2. p[i] = "1"
    BY <1>2, <2>1 DEF Closed
  <2>3. QED
    BY <1>2, <2>2
<1>3. CASE j = s /\ s > After /\ p[Hub] = "1"
  <2>1. Hub \in Steps /\ (i = Hub \/ i < Hub)
    BY <1>3, SizeAssumption, OrderAssumption DEF Steps
  <2>2. p[i] = "1"
    BY <1>3, <2>1 DEF Closed
  <2>3. QED
    BY <1>3, <2>2
<1>4. CASE j = s /\ s = 0
  BY <1>4 DEF Steps
<1>5. QED
  BY <1>1, <1>2, <1>3, <1>4 DEF Ready

\* An employee finds its step open and tells the UI.
LEMMA CheckProducts ==
  ASSUME TypeOK, LockInv, ProductInv, NEW e \in Employees, EmpCheck(e),
         Ready(progress[Cell(e)], e[2])
  PROVE  ProductInv'
<1>1. PICK c \in Cells : c = Cell(e)
  BY CellFacts
<1>2. PICK s \in Steps : s = e[2]
  BY CellFacts
<1>3. PICK m \in Messages :
        /\ m.step = s
        /\ told' = [told EXCEPT ![id[c]] = Append(@, m)]
  BY <1>1, <1>2, TellIsMessage DEF EmpCheck, Tell
<1>4. /\ pc[e] = "check" /\ pc'[e] = "mark" /\ slot' = slot
      /\ \A f \in Employees \ {e} : pc'[f] = pc[f]
      /\ UNCHANGED <<id, progress, patcherQ>>
  BY DEF EmpCheck, Goto, TypeOK
<1>5. \A f \in Employees : Cell(f)' = Cell(f)
  BY <1>4 DEF Cell
<1>6. Ready(progress[c], s) /\ progress[c][s] = "0" /\ id[c] # 0
  BY <1>1, <1>2 DEF Ready, ProductInv, ProgressInv
<1>7. /\ \A f \in Employees : pc[f] \in {"mark", "clear"} => Cell(f) # c
      /\ \A i \in DOMAIN patcherQ : patcherQ[i] # id[c]
  BY <1>1, <1>4, HeldSlot
<1>8. /\ told'[id[c]] = Append(told[id[c]], m) /\ told[id[c]] \in Seq(Messages)
      /\ \A n \in Ids \cup {0} : n # id[c] => told'[n] = told[n]
  BY <1>3, TellFacts
<1>9. /\ \A i \in Steps : Marked(c, i) <=> progress[c][i] = "1"
      /\ \A i \in Steps : Marked(c, i)' <=> progress[c][i] = "1" \/ i = s
      /\ \A d \in Cells \ {c}, i \in Steps : Marked(d, i)' <=> Marked(d, i)
  BY <1>1, <1>2, <1>4, <1>5, <1>7 DEF Marked
<1>10. IdsInv' /\ ProgressInv'
  BY <1>4 DEF ProductInv, IdsInv, ProgressInv
<1>11. SentInv'
  BY <1>4, <1>5 DEF ProductInv, SentInv
<1>12. WorkInv'
  BY <1>1, <1>2, <1>4, <1>5, <1>6 DEF ProductInv, WorkInv
<1>13. ToldInv'
  <2>1. ASSUME NEW d \in Cells \ {c}, id[d] # 0
        PROVE  told'[id[d]] = told[id[d]]
    BY <1>6, <1>8, <2>1 DEF ProductInv, IdsInv, TypeOK
  <2>2. ASSUME NEW d \in Cells \ {c}, id[d] # 0
        PROVE  /\ \A k \in DOMAIN told'[id[d]] : told'[id[d]][k].step \in Steps
               /\ \A i \in Steps : /\ Marked(d, i)' => Once(told'[id[d]], i)
                                   /\ ~Marked(d, i)' => Never(told'[id[d]], i)
    BY <1>9, <2>1, <2>2 DEF ProductInv, ToldInv
  <2>3. \A k \in DOMAIN told'[id[c]] : told'[id[c]][k].step \in Steps
    <3>1. \A k \in DOMAIN told[id[c]] : told[id[c]][k].step \in Steps
      BY <1>6 DEF ProductInv, ToldInv
    <3>2. QED
      BY <1>3, <1>8, <3>1, AppendFacts
  <2>4. ASSUME NEW i \in Steps
        PROVE  /\ Marked(c, i)' => Once(told'[id[c]], i)
               /\ ~Marked(c, i)' => Never(told'[id[c]], i)
    <3>1. /\ Marked(c, i) => Once(told[id[c]], i)
          /\ ~Marked(c, i) => Never(told[id[c]], i)
      BY <1>6 DEF ProductInv, ToldInv
    <3>2. CASE i = s
      BY <1>3, <1>6, <1>8, <1>9, <3>1, <3>2, AppendOnce
    <3>3. CASE i # s
      BY <1>3, <1>8, <1>9, <3>1, <3>3, AppendOther
    <3>4. QED
      BY <3>2, <3>3
  <2>5. QED
    BY <1>4, <2>2, <2>3, <2>4 DEF ToldInv
<1>14. OrderInv'
  <2>1. ASSUME NEW k \in DOMAIN told[id[c]]
        PROVE  \/ told[id[c]][k].step < s
               \/ told[id[c]][k].step # s /\ told[id[c]][k].step > Hub /\ s > Hub
    <3>1. PICK j \in Steps : j = told[id[c]][k].step
      BY <1>6 DEF ProductInv, ToldInv
    <3>2. progress[c][j] = "1"
      BY <1>6, <1>9, <3>1 DEF ProductInv, ToldInv, Never
    <3>3. QED
      BY <1>6, <3>1, <3>2, ReadyFollows DEF ProductInv, ProgressInv
  <2>2. InOrder(told[id[c]])
    BY <1>6 DEF TypeOK, ProductInv, OrderInv
  <2>3. InOrder(Append(told[id[c]], m))
    BY <1>3, <1>8, <2>1, <2>2, AppendInOrder
  <2>4. QED
    BY <1>8, <2>3 DEF ProductInv, OrderInv
<1>15. CompleteInv'
  <2>1. \A i \in DOMAIN patcherQ : patcherQ[i] \in Ids
    BY DEF TypeOK
  <2>2. QED
    BY <1>4, <1>7, <1>8, <2>1 DEF ProductInv, CompleteInv
<1>16. QED
  BY <1>10, <1>11, <1>12, <1>13, <1>14, <1>15 DEF ProductInv

\* An employee marks its step.
LEMMA MarkProducts ==
  ASSUME TypeOK, LockInv, ProductInv, NEW e \in Employees, EmpMark(e)
  PROVE  ProductInv'
<1>1. PICK c \in Cells : c = Cell(e)
  BY CellFacts
<1>2. PICK s \in Steps : s = e[2]
  BY CellFacts
<1>3. /\ pc[e] = "mark" /\ pc'[e] = "done" /\ slot' = slot
      /\ \A f \in Employees \ {e} : pc'[f] = pc[f]
      /\ UNCHANGED <<id, told, patcherQ>>
  BY DEF EmpMark, Goto, TypeOK
<1>4. /\ progress'[c][s] = "1"
      /\ \A i \in Steps \ {s} : progress'[c][i] = progress[c][i]
      /\ \A d \in Cells \ {c} : progress'[d] = progress[d]
  BY <1>1, <1>2 DEF EmpMark, TypeOK
<1>5. \A f \in Employees : Cell(f)' = Cell(f)
  BY <1>3 DEF Cell
<1>6. id[c] # 0 /\ Ready(progress[c], s)
  BY <1>1, <1>2, <1>3 DEF ProductInv, WorkInv
<1>7. \A f \in Employees \ {e} : pc[f] \in {"mark", "clear"} => Cell(f) # c
  BY <1>1, <1>3, HeldSlot
<1>8. \A d \in Cells, i \in Steps : Marked(d, i)' <=> Marked(d, i)
  <2>1. ASSUME NEW d \in Cells \ {c}, NEW i \in Steps PROVE Marked(d, i)' <=> Marked(d, i)
    BY <1>1, <1>3, <1>4, <1>5 DEF Marked
  <2>2. \A i \in Steps \ {s} : Marked(c, i)' <=> Marked(c, i)
    BY <1>1, <1>2, <1>3, <1>4, <1>5 DEF Marked
  <2>3. Marked(c, s)' /\ Marked(c, s)
    BY <1>1, <1>2, <1>3, <1>4 DEF Marked
  <2>4. QED
    BY <2>1, <2>2, <2>3
<1>9. IdsInv' /\ OrderInv' /\ CompleteInv'
  BY <1>3 DEF ProductInv, IdsInv, OrderInv, CompleteInv
<1>10. SentInv'
  BY <1>3, <1>5 DEF ProductInv, SentInv
<1>11. ProgressInv'
  <2>1. (\A i \in Steps : progress[c][i] \in {"0", "1"}) /\ Closed(progress[c])
    BY <1>6 DEF ProductInv, ProgressInv
  <2>2. Closed(progress'[c])
    BY <1>4, <1>6, <2>1, ReadyClosed
  <2>3. \A i \in Steps : progress'[c][i] \in {"0", "1"}
    BY <1>4, <2>1
  <2>4. QED
    BY <1>3, <1>4, <1>6, <2>2, <2>3 DEF ProductInv, ProgressInv
<1>12. WorkInv'
  BY <1>1, <1>3, <1>4, <1>5, <1>6, <1>7, CellFacts DEF ProductInv, WorkInv
<1>13. ToldInv'
  BY <1>3, <1>8 DEF ProductInv, ToldInv
<1>14. QED
  BY <1>9, <1>10, <1>11, <1>12, <1>13 DEF ProductInv

\* An employee sends a product of which every step is done.
LEMMA SendProducts ==
  ASSUME TypeOK, LockInv, ProductInv, NEW e \in Employees, EmpDone(e),
         progress[Cell(e)] = Done
  PROVE  ProductInv'
<1>1. PICK c \in Cells : c = Cell(e)
  BY CellFacts
<1>2. /\ pc[e] = "done" /\ pc'[e] = "clear" /\ slot' = slot
      /\ \A f \in Employees \ {e} : pc'[f] = pc[f]
      /\ UNCHANGED <<id, told, progress>>
      /\ patcherQ' = Append(patcherQ, id[c])
  BY <1>1 DEF EmpDone, Goto, TypeOK
<1>3. \A f \in Employees : Cell(f)' = Cell(f)
  BY <1>2 DEF Cell
<1>4. id[c] \in Ids /\ \A i \in Steps : progress[c][i] = "1"
  BY <1>1, <1>2 DEF ProductInv, WorkInv, TypeOK, Done
<1>5. \A i \in DOMAIN patcherQ : patcherQ[i] # id[c]
  BY <1>1, <1>2, HeldSlot
<1>6. /\ DOMAIN patcherQ' = 1..(Len(patcherQ) + 1) /\ DOMAIN patcherQ = 1..Len(patcherQ)
      /\ patcherQ'[Len(patcherQ) + 1] = id[c] /\ Len(patcherQ) \in Nat
      /\ \A i \in 1..Len(patcherQ) : patcherQ'[i] = patcherQ[i]
  BY <1>2, <1>4, AppendFacts DEF TypeOK
<1>7. \A d \in Cells, i \in Steps : Marked(d, i)' <=> Marked(d, i)
  BY <1>2, <1>3 DEF Marked
<1>8. IdsInv' /\ OrderInv' /\ ProgressInv'
  BY <1>2 DEF ProductInv, IdsInv, OrderInv, ProgressInv
<1>9. SentInv'
  <2>1. \A i, j \in DOMAIN patcherQ' : patcherQ'[i] = patcherQ'[j] => i = j
    BY <1>5, <1>6 DEF ProductInv, SentInv
  <2>2. ASSUME NEW i \in DOMAIN patcherQ', NEW d \in Cells, id[d] = patcherQ'[i]
        PROVE  \E f \in Employees : pc'[f] = "clear" /\ Cell(f)' = d
    <3>1. CASE i \in DOMAIN patcherQ
      <4>1. PICK f \in Employees : pc[f] = "clear" /\ Cell(f) = d
        BY <1>6, <2>2, <3>1 DEF ProductInv, SentInv
      <4>2. QED
        BY <1>2, <1>3, <4>1
    <3>2. CASE i \notin DOMAIN patcherQ
      <4>1. id[d] = id[c]
        BY <1>6, <2>2, <3>2
      <4>2. d = c
        BY <1>4, <4>1 DEF ProductInv, IdsInv, Ids
      <4>3. QED
        BY <1>1, <1>2, <1>3, <4>2
    <3>3. QED
      BY <3>1, <3>2
  <2>3. QED
    BY <1>2, <2>1, <2>2 DEF SentInv
<1>10. WorkInv'
  BY <1>1, <1>2, <1>3, <1>4 DEF ProductInv, WorkInv, Ids
<1>11. ToldInv'
  BY <1>2, <1>7 DEF ProductInv, ToldInv
<1>12. CompleteInv'
  <2>1. \A i \in Steps : Once(told[id[c]], i)
    BY <1>4 DEF ProductInv, ToldInv, Marked, Ids
  <2>2. QED
    BY <1>2, <1>6, <2>1 DEF ProductInv, CompleteInv
<1>13. QED
  BY <1>8, <1>9, <1>10, <1>11, <1>12 DEF ProductInv

\* The employee tells the UI that the product is done and clears the slot.
LEMMA ClearProducts ==
  ASSUME TypeOK, LockInv, ProductInv, NEW e \in Employees, EmpClear(e)
  PROVE  ProductInv'
<1>1. PICK c \in Cells : c = Cell(e)
  BY CellFacts
<1>2. PICK m \in Messages :
        /\ m.step = NumSteps
        /\ told' = [told EXCEPT ![id[c]] = Append(@, m)]
  BY <1>1, TellIsMessage DEF EmpClear
<1>3. /\ pc[e] = "clear" /\ pc'[e] = "top"
      /\ \A f \in Employees \ {e} : pc'[f] = pc[f] /\ slot'[f] = slot[f]
      /\ UNCHANGED <<progress, patcherQ>>
  BY AdvanceFacts DEF EmpClear, UnlockAndAdvance
<1>4. id'[c] = 0 /\ \A d \in Cells \ {c} : id'[d] = id[d]
  BY <1>1 DEF EmpClear, TypeOK
<1>5. \A f \in Employees \ {e} : Cell(f)' = Cell(f)
  BY <1>3 DEF Cell
<1>6. \A f \in Employees \ {e} : pc[f] \in Holding => Cell(f) # c
  BY <1>1, <1>3, Exclusive DEF Holding
<1>7. id[c] # 0 /\ \A i \in Steps : progress[c][i] = "1"
  BY <1>1, <1>3 DEF ProductInv, WorkInv
<1>8. /\ told'[id[c]] = Append(told[id[c]], m) /\ told[id[c]] \in Seq(Messages)
      /\ \A n \in Ids \cup {0} : n # id[c] => told'[n] = told[n]
  BY <1>2, TellFacts
<1>9. NumSteps \notin Steps /\ \A i \in Steps : i < NumSteps
  BY SizeAssumption DEF Steps
<1>10. \A d \in Cells, i \in Steps : Marked(d, i)' <=> Marked(d, i)
  BY <1>3, <1>5 DEF Marked
<1>11. IdsInv'
  BY <1>4 DEF ProductInv, IdsInv
<1>12. SentInv'
  <2>1. \A i \in DOMAIN patcherQ : patcherQ[i] # 0
    <3>1. \A i \in DOMAIN patcherQ : patcherQ[i] \in Ids
      BY DEF TypeOK
    <3>2. QED
      BY <3>1 DEF Ids
  <2>2. ASSUME NEW i \in DOMAIN patcherQ, NEW d \in Cells, id'[d] = patcherQ[i]
        PROVE  \E f \in Employees : pc'[f] = "clear" /\ Cell(f)' = d
    <3>1. d # c /\ id[d] = patcherQ[i]
      BY <1>4, <2>1, <2>2
    <3>2. PICK f \in Employees : pc[f] = "clear" /\ Cell(f) = d
      BY <2>2, <3>1 DEF ProductInv, SentInv
    <3>3. QED
      BY <1>1, <1>3, <1>5, <3>1, <3>2
  <2>3. QED
    BY <1>3, <2>2 DEF ProductInv, SentInv
<1>13. ProgressInv'
  BY <1>3, <1>4, <1>7 DEF ProductInv, ProgressInv
<1>14. WorkInv'
  BY <1>3, <1>4, <1>5, <1>6, CellFacts DEF ProductInv, WorkInv, Holding
<1>15. ToldInv'
  <2>1. ASSUME NEW d \in Cells, id'[d] # 0
        PROVE  d # c /\ id'[d] = id[d] /\ told'[id[d]] = told[id[d]]
    BY <1>4, <1>7, <1>8, <2>1 DEF ProductInv, IdsInv, TypeOK
  <2>2. QED
    BY <1>10, <2>1 DEF ProductInv, ToldInv
<1>16. OrderInv'
  <2>1. \A k \in DOMAIN told[id[c]] : told[id[c]][k].step < m.step
    BY <1>2, <1>7, <1>9 DEF ProductInv, ToldInv
  <2>2. InOrder(told[id[c]])
    BY <1>7 DEF TypeOK, ProductInv, OrderInv
  <2>3. InOrder(Append(told[id[c]], m))
    BY <1>8, <2>1, <2>2, AppendInOrder
  <2>4. QED
    BY <1>8, <2>3 DEF ProductInv, OrderInv
<1>17. CompleteInv'
  <2>1. ASSUME NEW i \in DOMAIN patcherQ, NEW s \in Steps
        PROVE  Once(told'[patcherQ[i]], s)
    <3>1. patcherQ[i] \in Ids /\ Once(told[patcherQ[i]], s)
      BY DEF TypeOK, ProductInv, CompleteInv
    <3>2. CASE patcherQ[i] = id[c]
      BY <1>2, <1>8, <1>9, <3>1, <3>2, AppendOther
    <3>3. CASE patcherQ[i] # id[c]
      BY <1>8, <3>1, <3>3
    <3>4. QED
      BY <3>2, <3>3
  <2>2. QED
    BY <1>3, <2>1 DEF CompleteInv
<1>18. QED
  BY <1>11, <1>12, <1>13, <1>14, <1>15, <1>16, <1>17 DEF ProductInv

\* An employee leaves the products as the invariants say.
LEMMA EmployeeStepProducts ==
  ASSUME TypeOK, LockInv, ProductInv, NEW e \in Employees, EmployeeStep(e)
  PROVE  ProductInv'
<1>1. CASE EmpTop(e)
  BY <1>1, MovesProducts DEF EmpTop, Goto, TypeOK, Moves, products
<1>2. CASE EmpFind(e)
  BY <1>2, MovesProducts DEF EmpFind, Advance, Goto, TypeOK, Moves, products
<1>3. CASE EmpTry(e)
  BY <1>3, MovesProducts DEF EmpTry, Advance, Goto, TypeOK, Moves, products
<1>4. CASE EmpCheck(e) /\ Ready(progress[Cell(e)], e[2])
  BY <1>4, CheckProducts
<1>5. CASE EmpCheck(e) /\ ~Ready(progress[Cell(e)], e[2])
  BY <1>5, MovesProducts DEF EmpCheck, Advance, Goto, TypeOK, Moves, products
<1>6. CASE EmpMark(e)
  BY <1>6, MarkProducts
<1>7. CASE EmpDone(e) /\ progress[Cell(e)] = Done
  BY <1>7, SendProducts
<1>8. CASE EmpDone(e) /\ progress[Cell(e)] # Done
  BY <1>8, MovesProducts DEF EmpDone, UnlockAndAdvance, Advance, Goto, TypeOK, Moves, products
<1>9. CASE EmpClear(e)
  BY <1>9, ClearProducts
<1>10. QED
  BY <1>1, <1>2, <1>3, <1>4, <1>5, <1>6, <1>7, <1>8, <1>9 DEF EmployeeStep

-----------------------------------------------------------------------------
(* The theorems                                                            *)

IndInv == TypeOK /\ LockInv /\ ProductInv

\* The inductive invariant holds at the start and is preserved by every step.
LEMMA InitIndInv == Init => IndInv
BY InitTypeOK, InitProducts DEF IndInv

LEMMA NextIndInv == IndInv /\ [Next]_vars => IndInv'
<1> SUFFICES ASSUME IndInv, [Next]_vars PROVE IndInv'
  OBVIOUS
<1>i. TypeOK /\ LockInv /\ ProductInv
  BY DEF IndInv
<1>1. CASE StorageChanges \/ UNCHANGED vars
  <2>1. UNCHANGED <<id, progress, mutex, gen, pc, slot, patcherQ, told>> /\ level' \in Levels
    BY <1>i, <1>1 DEF StorageChanges, vars, TypeOK
  <2>2. TypeOK'
    BY <1>i, <2>1 DEF TypeOK
  <2>3. LockInv'
    BY <1>i, <2>1 DEF LockInv, Cell
  <2>4. QED
    BY <1>i, <2>1, <2>2, <2>3, FrameProducts DEF IndInv, products
<1>2. CASE GeneratorStep
  BY <1>i, <1>2, GeneratorStepTypeOK, GeneratorStepLocks, GeneratorStepProducts DEF IndInv
<1>3. ASSUME NEW e \in Employees, EmployeeStep(e) PROVE IndInv'
  <2>1. pc[e] = "done" => id[Cell(e)] # 0
    BY <1>i DEF ProductInv, WorkInv
  <2>2. QED
    BY <1>i, <1>3, <2>1, EmployeeStepTypeOK, EmployeeStepLocks, EmployeeStepProducts DEF IndInv
<1>4. CASE PatcherReceive
  <2>1. UNCHANGED <<id, progress, mutex, gen, pc, slot, told, level>>
    BY <1>4 DEF PatcherReceive
  <2>2. patcherQ' \in Seq(Ids) /\ Len(patcherQ') <= QueueCap
    BY <1>i, <1>4, SizeAssumption DEF TypeOK, PatcherReceive
  <2>3. TypeOK'
    BY <1>i, <2>1, <2>2 DEF TypeOK
  <2>4. LockInv'
    BY <1>i, <2>1 DEF LockInv, Cell
  <2>5. QED
    BY <1>i, <1>4, <2>3, <2>4, ReceiveProducts DEF IndInv
<1>5. QED
  BY <1>1, <1>2, <1>3, <1>4 DEF Next

\* Every variable keeps its type: the generator and the employees stay on slots
\* that have a mutex, and what is sent to the patcher is a product.
THEOREM TypeCorrect == Spec => []TypeOK
BY InitIndInv, NextIndInv, PTL DEF Spec, IndInv

\* The steps on a product happen in the order of its type, however the employees
\* of its line meet at its slot.
THEOREM StepsAlwaysInOrder == Spec => []StepsInOrder
<1>1. IndInv => StepsInOrder
  BY DEF IndInv, ProductInv, OrderInv, InOrder, StepsInOrder
<1>2. QED
  BY <1>1, InitIndInv, NextIndInv, PTL DEF Spec

\* A product is sent to the patcher once, complete, and without anybody at work
\* on it.
THEOREM AlwaysSentOnceComplete == Spec => []SentOnceComplete
<1>1. IndInv => SentOnceComplete
  <2> SUFFICES ASSUME IndInv PROVE SentOnceComplete
    OBVIOUS
  <2>i. TypeOK /\ LockInv /\ ProductInv
    BY DEF IndInv
  <2>1. ASSUME NEW i \in DOMAIN patcherQ PROVE Complete(patcherQ[i])
    BY <2>i, OnceIsOne DEF ProductInv, CompleteInv, Complete
  <2>2. \A i \in DOMAIN patcherQ : \A e \in Employees :
          pc[e] \in {"mark", "done"} => id[Cell(e)] # patcherQ[i]
    BY <2>i, HeldSlot
  <2>3. QED
    BY <2>i, <2>1, <2>2 DEF SentOnceComplete, ProductInv, SentInv
<1>2. QED
  BY <1>1, InitIndInv, NextIndInv, PTL DEF Spec

\* A step that changes the product of a cell fills an empty slot, or clears the
\* slot of the employee who takes it.
LEMMA SlotChanges ==
  ASSUME IndInv, [Next]_vars, NEW c \in Cells, id'[c] # id[c], id[c] # 0
  PROVE  \E e \in Employees : pc[e] = "clear" /\ Cell(e) = c
<1>i. TypeOK /\ LockInv /\ ProductInv
  BY DEF IndInv
<1>1. CASE StorageChanges \/ UNCHANGED vars \/ PatcherReceive
  BY <1>1 DEF StorageChanges, vars, PatcherReceive
<1>2. CASE GeneratorStep
  <2>1. CASE GenTop \/ GenLock
    BY <2>1 DEF GenTop, GenLock
  <2>2. CASE GenFill
    <3>1. id[gen.cell] = 0 => \E n \in Ids : id' = [id EXCEPT ![gen.cell] = n]
      BY <2>2 DEF GenFill, Generate
    <3>2. id[gen.cell] # 0 => id' = id
      BY <2>2 DEF GenFill
    <3>3. QED
      BY <1>i, <3>1, <3>2 DEF TypeOK
  <2>3. QED
    BY <1>2, <2>1, <2>2 DEF GeneratorStep
<1>3. ASSUME NEW e \in Employees, EmployeeStep(e) PROVE pc[e] = "clear" /\ Cell(e) = c
  <2>1. EmpClear(e)
    BY <1>3 DEF EmployeeStep, EmpTop, EmpFind, EmpTry, EmpCheck, EmpMark, EmpDone
  <2>2. QED
    BY <1>i, <2>1 DEF EmpClear, TypeOK
<1>4. QED
  BY <1>1, <1>2, <1>3 DEF Next

\* No slot is emptied or filled under an employee at work on its product.
THEOREM ProductAlwaysStays == Spec => ProductStays
<1>1. IndInv /\ [Next]_vars =>
        [\A e \in Employees :
           pc[e] \in {"mark", "done"} => id'[Cell(e)] = id[Cell(e)]]_vars
  <2> SUFFICES ASSUME IndInv, [Next]_vars,
                      NEW e \in Employees, pc[e] \in {"mark", "done"}, id'[Cell(e)] # id[Cell(e)]
               PROVE  FALSE
    OBVIOUS
  <2>i. TypeOK /\ LockInv /\ ProductInv
    BY DEF IndInv
  <2>1. Cell(e) \in Cells /\ id[Cell(e)] # 0
    BY <2>i, CellFacts DEF ProductInv, WorkInv
  <2>2. PICK f \in Employees : pc[f] = "clear" /\ Cell(f) = Cell(e)
    BY <2>1, SlotChanges
  <2>3. QED
    BY <2>i, <2>2, HeldSlot
<1>2. QED
  BY <1>1, InitIndInv, NextIndInv, PTL DEF Spec, ProductStays

\* A product leaves its slot only when every step was told: none is lost half
\* done, and none is overwritten by the generator.
THEOREM AlwaysLeavesComplete == Spec => LeavesComplete
<1>1. IndInv /\ [Next]_vars =>
        [\A c \in Cells : id[c] # 0 /\ id'[c] # id[c] => Complete(id[c])]_vars
  <2> SUFFICES ASSUME IndInv, [Next]_vars, NEW c \in Cells, id[c] # 0, id'[c] # id[c]
               PROVE  Complete(id[c])
    OBVIOUS
  <2>i. TypeOK /\ LockInv /\ ProductInv
    BY DEF IndInv
  <2>1. PICK f \in Employees : pc[f] = "clear" /\ Cell(f) = c
    BY SlotChanges
  <2>2. \A i \in Steps : Marked(c, i)
    BY <2>i, <2>1 DEF ProductInv, WorkInv, Marked
  <2>3. \A i \in Steps : Once(told[id[c]], i)
    BY <2>i, <2>2 DEF ProductInv, ToldInv
  <2>4. QED
    BY <2>3, OnceIsOne DEF Complete
<1>2. QED
  BY <1>1, InitIndInv, NextIndInv, PTL DEF Spec, LeavesComplete
=============================================================================
