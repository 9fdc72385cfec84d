--------------------------- MODULE PackingProofs ---------------------------
(***************************************************************************)
(* Proofs about Packing, for any number of types, movers and patches: no    *)
(* dequeue finds an empty queue, and each box is made of the next two       *)
(* patches of its type.                                                     *)
(***************************************************************************)
EXTENDS Packing, TLAPS

(* Sequences and records                                                   *)

\* The length and the elements of a queue with one element more.
LEMMA AppendFacts ==
  ASSUME NEW S, NEW q \in Seq(S), NEW x \in S
  PROVE  /\ Append(q, x) \in Seq(S) /\ Len(Append(q, x)) = Len(q) + 1
         /\ DOMAIN Append(q, x) = 1..(Len(q) + 1) /\ DOMAIN q = 1..Len(q)
         /\ Append(q, x)[Len(q) + 1] = x
         /\ \A i \in 1..Len(q) : Append(q, x)[i] = q[i]
OBVIOUS

\* The length and the elements of a queue without its first element.
LEMMA TailFacts ==
  ASSUME NEW S, NEW q \in Seq(S), q # <<>>
  PROVE  /\ Tail(q) \in Seq(S) /\ Len(Tail(q)) = Len(q) - 1 /\ Len(q) \in Nat \ {0}
         /\ DOMAIN Tail(q) = 1..(Len(q) - 1) /\ DOMAIN q = 1..Len(q)
         /\ Head(q) = q[1] /\ Head(q) \in S
         /\ \A i \in 1..(Len(q) - 1) : Tail(q)[i] = q[i + 1]
OBVIOUS

\* A sequence of length two is the pair of its elements.
LEMMA PairFacts ==
  ASSUME NEW S, NEW q \in Seq(S), Len(q) = 2
  PROVE  q = <<q[1], q[2]>>
OBVIOUS

\* What MoverAt does: it moves one mover and changes no hand.
LEMMA MoverAtFacts ==
  ASSUME TypeOK, NEW m \in Movers, NEW label \in MoverLabels, MoverAt(m, label)
  PROVE  /\ mover' \in [Movers -> [at : MoverLabels, has : Patches \cup {NoPatch}]]
         /\ mover'[m].at = label /\ mover'[m].has = mover[m].has
         /\ \A n \in Movers \ {m} : mover'[n] = mover[n]
BY DEF TypeOK, MoverAt

\* What FillerAt does: it moves one filler and changes no box.
LEMMA FillerAtFacts ==
  ASSUME TypeOK, NEW t \in Types, NEW label \in FillerLabels, FillerAt(t, label)
  PROVE  /\ filler' \in [Types -> [at : FillerLabels, box : Seq(Patches \cup {NoPatch})]]
         /\ filler'[t].at = label /\ filler'[t].box = filler[t].box
         /\ \A s \in Types \ {t} : filler'[s] = filler[s]
BY DEF TypeOK, FillerAt

-----------------------------------------------------------------------------
(* Type correctness                                                        *)

\* At the start nothing is printed and nobody carries anything.
LEMMA InitTypeOK == Init => TypeOK
BY DEF Init, TypeOK, MoverLabels, FillerLabels

\* A mover keeps every variable in its type.
LEMMA MoverStepTypeOK ==
  ASSUME TypeOK, NEW m \in Movers, MoverStep(m)
  PROVE  TypeOK'
<1>1. CASE MoverTop(m)
  <2>1. PICK label \in MoverLabels : MoverAt(m, label)
    BY <1>1 DEF MoverTop, MoverLabels
  <2>2. QED
    BY <1>1, <2>1, MoverAtFacts DEF TypeOK, MoverTop
<1>2. CASE MoverEnter(m)
  <2>1. PICK label \in MoverLabels : MoverAt(m, label)
    BY <1>2 DEF MoverEnter, MoverLabels
  <2>2. printingMutex' \in Movers \cup {None}
    BY <1>2 DEF TypeOK, MoverEnter
  <2>3. QED
    BY <1>2, <2>1, <2>2, MoverAtFacts DEF TypeOK, MoverEnter
<1>3. CASE MoverPick(m)
  <2>1. PICK h \in Patches \cup {NoPatch} :
          /\ mover' = [mover EXCEPT ![m] = [at |-> "put", has |-> h]]
          /\ printingQ' \in Seq(Patches)
    <3>1. CASE printingQ = <<>>
      BY <1>3, <3>1 DEF TypeOK, MoverPick
    <3>2. CASE printingQ # <<>>
      <4>1. Head(printingQ) \in Patches /\ Tail(printingQ) \in Seq(Patches)
        BY <3>2, TailFacts DEF TypeOK
      <4>2. QED
        BY <1>3, <3>2, <4>1 DEF MoverPick
    <3>3. QED
      BY <3>1, <3>2
  <2>2. QED
    BY <1>3, <2>1 DEF TypeOK, MoverPick, MoverLabels
<1>4. CASE MoverPut(m)
  <2>1. PICK t \in Types : t = mover[m].has[1] /\ mover[m].has \in Patches
    BY <1>4 DEF TypeOK, MoverPut, Patches
  <2>2. containerQ' = [containerQ EXCEPT ![t] = Append(containerQ[t], mover[m].has)]
    BY <1>4, <2>1 DEF MoverPut
  <2>3. containerQ' \in [Types -> Seq(Patches)]
    BY <2>1, <2>2, AppendFacts DEF TypeOK
  <2>4. mover' \in [Movers -> [at : MoverLabels, has : Patches \cup {NoPatch}]]
    BY <1>4, MoverAtFacts DEF MoverPut, MoverLabels
  <2>5. QED
    BY <1>4, <2>3, <2>4 DEF TypeOK, MoverPut
<1>5. CASE MoverLeave(m)
  BY <1>5 DEF TypeOK, MoverLeave, MoverLabels
<1>6. QED
  BY <1>1, <1>2, <1>3, <1>4, <1>5 DEF MoverStep

\* What a dequeue of a filler changes, in terms of the queue it finds.
LEMMA TakeFacts ==
  ASSUME TypeOK, NEW t \in Types, FillerTake(t)
  PROVE  /\ filler[t].at = "take" /\ containerMutex[t] = None
         /\ \E x \in Patches \cup {NoPatch} :
              /\ filler'[t].box = Append(filler[t].box, x)
              /\ filler'[t].at = IF Len(filler[t].box) + 1 = 2 THEN "pack" ELSE "take"
              /\ containerQ[t] # <<>> =>
                   /\ x = Head(containerQ[t]) /\ containerMutex' = containerMutex
                   /\ containerQ' = [containerQ EXCEPT ![t] = Tail(containerQ[t])]
         /\ filler' \in [Types -> [at : FillerLabels, box : Seq(Patches \cup {NoPatch})]]
         /\ containerQ' \in [Types -> Seq(Patches)]
         /\ containerMutex' \in [Types -> Fillers \cup {None}]
         /\ \A s \in Types \ {t} : filler'[s] = filler[s]
         /\ UNCHANGED <<printed, printingQ, printingMutex, fillQ, mover, level>>
<1> USE DEF TypeOK, FillerTake
<1>1. ASSUME NEW x \in Patches \cup {NoPatch},
             filler' = [filler EXCEPT ![t] =
               [at |-> IF Len(Append(filler[t].box, x)) = 2 THEN "pack" ELSE "take",
                box |-> Append(filler[t].box, x)]]
      PROVE  /\ filler'[t].box = Append(filler[t].box, x)
             /\ filler'[t].at = IF Len(filler[t].box) + 1 = 2 THEN "pack" ELSE "take"
             /\ filler' \in [Types -> [at : FillerLabels, box : Seq(Patches \cup {NoPatch})]]
             /\ \A s \in Types \ {t} : filler'[s] = filler[s]
  <2>1. filler[t].box \in Seq(Patches \cup {NoPatch})
    OBVIOUS
  <2>2. /\ Append(filler[t].box, x) \in Seq(Patches \cup {NoPatch})
        /\ Len(Append(filler[t].box, x)) = Len(filler[t].box) + 1
    BY <2>1, AppendFacts
  <2>3. QED
    BY <1>1, <2>2 DEF FillerLabels
<1>2. CASE containerQ[t] = <<>>
  <2>1. /\ filler' = [filler EXCEPT ![t] =
             [at |-> IF Len(Append(filler[t].box, NoPatch)) = 2 THEN "pack" ELSE "take",
              box |-> Append(filler[t].box, NoPatch)]]
        /\ filler[t].at = "take" /\ containerMutex[t] = None
        /\ UNCHANGED <<printed, printingQ, printingMutex, fillQ, mover, level, containerQ>>
        /\ containerMutex' = [containerMutex EXCEPT ![t] = Filler(t)]
    BY <1>2
  <2>2. containerMutex' \in [Types -> Fillers \cup {None}]
    BY <2>1 DEF Fillers
  <2>3. QED
    BY <1>1, <1>2, <2>1, <2>2
<1>3. CASE containerQ[t] # <<>>
  <2>1. Head(containerQ[t]) \in Patches /\ Tail(containerQ[t]) \in Seq(Patches)
    BY <1>3, TailFacts
  <2>2. QED
    BY <1>1, <1>3, <2>1
<1>4. QED
  BY <1>2, <1>3

\* A filler keeps every variable in its type.
LEMMA FillerStepTypeOK ==
  ASSUME TypeOK, NEW t \in Types, FillerStep(t)
  PROVE  TypeOK'
<1>1. CASE FillerTop(t)
  <2>1. PICK label \in FillerLabels : FillerAt(t, label)
    BY <1>1 DEF FillerTop, FillerLabels
  <2>2. QED
    BY <1>1, <2>1, FillerAtFacts DEF TypeOK, FillerTop
<1>2. CASE FillerCount(t)
  <2>1. PICK label \in FillerLabels : FillerAt(t, label)
    BY <1>2 DEF FillerCount, FillerLabels
  <2>2. QED
    BY <1>2, <2>1, FillerAtFacts DEF TypeOK, FillerCount
<1>3. CASE FillerTake(t)
  BY <1>3, TakeFacts DEF TypeOK
<1>4. CASE FillerPack(t)
  <2>1. fillQ' = [fillQ EXCEPT ![t] = Append(fillQ[t], filler[t].box)]
        /\ filler[t].box \in Seq(Patches \cup {NoPatch})
    BY <1>4 DEF TypeOK, FillerPack
  <2>2. fillQ' \in [Types -> Seq(Seq(Patches \cup {NoPatch}))]
    BY <2>1, AppendFacts DEF TypeOK
  <2>3. filler' \in [Types -> [at : FillerLabels, box : Seq(Patches \cup {NoPatch})]]
    BY <1>4 DEF TypeOK, FillerPack, FillerLabels
  <2>4. QED
    BY <1>4, <2>2, <2>3 DEF TypeOK, FillerPack
<1>5. QED
  BY <1>1, <1>2, <1>3, <1>4 DEF FillerStep

\* Waiting for a porter keeps every variable in its type.
LEMMA FillerWaitTypeOK ==
  ASSUME TypeOK, NEW t \in Types, FillerWait(t) \/ PorterReleases(t)
  PROVE  TypeOK'
<1>1. PICK label \in FillerLabels : FillerAt(t, label)
  BY DEF FillerWait, PorterReleases, FillerLabels
<1>2. QED
  BY <1>1, FillerAtFacts DEF TypeOK, FillerWait, PorterReleases

\* TypeOK is inductive.
LEMMA NextTypeOK == TypeOK /\ [Next]_vars => TypeOK'
<1> SUFFICES ASSUME TypeOK, [Next]_vars PROVE TypeOK'
  OBVIOUS
<1>1. CASE StorageChanges
  BY <1>1 DEF TypeOK, StorageChanges
<1>2. ASSUME NEW t \in Types, PrinterPut(t) PROVE TypeOK'
  <2>1. printed[t] \in Nat /\ <<t, printed[t] + 1>> \in Patches
    BY DEF TypeOK, Patches
  <2>2. printingQ' \in Seq(Patches)
    BY <1>2, <2>1, AppendFacts DEF TypeOK, PrinterPut
  <2>3. QED
    BY <1>2, <2>1, <2>2 DEF TypeOK, PrinterPut
<1>3. CASE UNCHANGED vars
  BY <1>3 DEF TypeOK, vars
<1>4. QED
  BY <1>1, <1>2, <1>3, MoverStepTypeOK, FillerStepTypeOK, FillerWaitTypeOK DEF Next

\* No thread ever takes a variable out of its type.
THEOREM TypeCorrect == Spec => []TypeOK
BY InitTypeOK, NextTypeOK, PTL DEF Spec

-----------------------------------------------------------------------------
(* What each action leaves alone                                           *)

\* Sums of counts are counts.
LEMMA SumFacts == \A a, b \in Nat : a + b \in Nat /\ 2 * a + b \in Nat
OBVIOUS

\* The counts of patches are numbers.
LEMMA CountsAreNumbers ==
  ASSUME TypeOK, NEW t \in Types
  PROVE  /\ Taken(t) \in Nat /\ Contained(t) \in Nat /\ printed[t] \in Nat
         /\ Len(fillQ[t]) \in Nat /\ Len(filler[t].box) \in Nat /\ Len(containerQ[t]) \in Nat
         /\ Taken(t) = 2 * Len(fillQ[t]) + Len(filler[t].box)
         /\ Contained(t) = Taken(t) + Len(containerQ[t])
<1>1. /\ fillQ[t] \in Seq(Seq(Patches \cup {NoPatch}))
      /\ filler[t].box \in Seq(Patches \cup {NoPatch})
      /\ containerQ[t] \in Seq(Patches)
  BY DEF TypeOK
<1>2. printed[t] \in Nat
  BY DEF TypeOK
<1>3. Len(fillQ[t]) \in Nat /\ Len(filler[t].box) \in Nat /\ Len(containerQ[t]) \in Nat
  BY <1>1
<1>4. Taken(t) \in Nat /\ Taken(t) = 2 * Len(fillQ[t]) + Len(filler[t].box)
  BY <1>3, SumFacts, Zenon DEF Taken
<1>5. Contained(t) \in Nat /\ Contained(t) = Taken(t) + Len(containerQ[t])
  BY <1>3, <1>4, SumFacts, Zenon DEF Contained
<1>6. QED
  BY <1>2, <1>3, <1>4, <1>5

\* Who does not touch the boxes, the containers and the fillers keeps FillingInv.
LEMMA FillingFrame ==
  ASSUME FillingInv, UNCHANGED <<fillQ, filler, containerQ, containerMutex>>
  PROVE  FillingInv' /\ \A t \in Types : Contained(t)' = Contained(t)
BY DEF FillingInv, BoxOfTwoPatches, FillerHolds, Taken, Contained

\* Who touches neither the printing queue nor the movers, and moves no patch out of
\* or into what a filler has before it, keeps PrintingInv.
LEMMA PrintingFrame ==
  ASSUME PrintingInv, UNCHANGED <<printed, printingQ, printingMutex, mover>>,
         TypeOK, \A t \in Types : Contained(t)' = Contained(t)
  PROVE  PrintingInv'
<1>1. ASSUME NEW m \in Movers PROVE MoverHolds(m)'
  <2>1. MoverHolds(m)
    BY DEF PrintingInv
  <2>2. mover[m].has \in Patches => mover[m].has[1] \in Types
    BY DEF Patches
  <2>3. QED
    BY <2>1, <2>2 DEF MoverHolds, MoverInside
<1>2. ASSUME NEW t \in Types PROVE InPrintingOrder(t)'
  BY DEF PrintingInv, InPrintingOrder, Carried, Waiting
<1>3. QED
  BY <1>1, <1>2 DEF PrintingInv

-----------------------------------------------------------------------------
(* Fillers                                                                 *)

\* Going round, and counting, keeps the invariant: nobody else takes patches from
\* the container that the filler counted.
LEMMA FillerMovesKeepInv ==
  ASSUME TypeOK, FillingInv, NEW t \in Types, FillerTop(t) \/ FillerCount(t)
  PROVE  FillingInv' /\ \A s \in Types : Contained(s)' = Contained(s)
<1>1. PICK label \in FillerLabels :
        /\ FillerAt(t, label) /\ label \notin {"pack", "wait"}
        /\ filler[t].at \notin {"take", "pack", "wait"}
        /\ label = "take" => Len(containerQ[t]) >= 2
  BY DEF FillerTop, FillerCount, FillerLabels
<1>2. /\ filler'[t].at = label /\ filler'[t].box = filler[t].box
      /\ \A s \in Types \ {t} : filler'[s] = filler[s]
      /\ UNCHANGED <<fillQ, containerQ, containerMutex>>
  BY <1>1, FillerAtFacts DEF FillerTop, FillerCount
<1>3. \A s \in Types : filler'[s].box = filler[s].box
  BY <1>2
<1>4. \A s \in Types : Taken(s)' = Taken(s) /\ Contained(s)' = Contained(s)
  BY <1>2, <1>3 DEF Taken, Contained
<1>5. BoxOfTwoPatches'
  BY <1>2 DEF FillingInv, BoxOfTwoPatches
<1>6. ASSUME NEW s \in Types PROVE FillerHolds(s)'
  <2>1. FillerHolds(s) /\ FillerHolds(t)
    BY DEF FillingInv
  <2>2. CASE s # t
    BY <1>2, <1>4, <2>1, <2>2 DEF FillerHolds
  <2>3. CASE s = t
    <3>1. filler[t].box = <<>> /\ Len(filler[t].box) = 0 /\ Len(containerQ[t]) \in Nat
      BY <1>1, <2>1, CountsAreNumbers DEF FillerHolds
    <3>2. QED
      <4>1. filler'[t].box = <<>> /\ Len(filler'[t].box) = 0
        BY <1>2, <3>1
      <4>2. /\ filler'[t].at = "take" => Len(containerQ[t]) >= 2
            /\ filler'[t].at \notin {"pack", "wait"}
        BY <1>1, <1>2
      <4>3. /\ \A i \in DOMAIN containerQ[t] : containerQ[t][i] = <<t, Taken(t) + i>>
            /\ containerMutex[t] = None
        BY <2>1 DEF FillerHolds
      <4>4. 0 + Len(containerQ[t]) = Len(containerQ[t])
        BY <3>1
      <4>5. DOMAIN filler'[t].box = {}
        BY <4>1
      <4>6. /\ filler'[t].at = "take" => /\ Len(filler'[t].box) < 2
                                        /\ Len(filler'[t].box) + Len(containerQ'[t]) >= 2
            /\ containerQ' = containerQ /\ containerMutex' = containerMutex
        BY <1>2, <4>1, <4>2, <4>4
      <4>7. /\ \A i \in DOMAIN containerQ'[t] : containerQ'[t][i] = <<t, Taken(t)' + i>>
            /\ containerMutex'[t] = None
        BY <1>4, <4>3, <4>6
      <4>8. QED
        BY <2>3, <4>1, <4>2, <4>5, <4>6, <4>7 DEF FillerHolds
  <2>4. QED
    BY <2>2, <2>3
<1>7. QED
  BY <1>4, <1>5, <1>6 DEF FillingInv

\* Waiting for a porter keeps the invariant: the filler has its two patches.
LEMMA FillerWaitKeepsInv ==
  ASSUME TypeOK, FillingInv, NEW t \in Types, FillerWait(t) \/ PorterReleases(t)
  PROVE  FillingInv' /\ \A s \in Types : Contained(s)' = Contained(s)
<1>1. PICK label \in FillerLabels :
        FillerAt(t, label) /\ label \in {"pack", "wait"} /\ filler[t].at \in {"pack", "wait"}
  BY DEF FillerWait, PorterReleases, FillerLabels
<1>2. /\ filler'[t].at = label /\ filler'[t].box = filler[t].box
      /\ \A s \in Types \ {t} : filler'[s] = filler[s]
      /\ UNCHANGED <<fillQ, containerQ, containerMutex>>
  BY <1>1, FillerAtFacts DEF FillerWait, PorterReleases
<1>3. \A s \in Types : filler'[s].box = filler[s].box
  BY <1>2
<1>4. \A s \in Types : Taken(s)' = Taken(s) /\ Contained(s)' = Contained(s)
  BY <1>2, <1>3 DEF Taken, Contained
<1>5. BoxOfTwoPatches'
  BY <1>2 DEF FillingInv, BoxOfTwoPatches
<1>6. ASSUME NEW s \in Types PROVE FillerHolds(s)'
  <2>1. /\ filler[s].at = "take" <=> filler'[s].at = "take"
        /\ filler[s].at \in {"pack", "wait"} <=> filler'[s].at \in {"pack", "wait"}
    BY <1>1, <1>2
  <2>2. FillerHolds(s)
    BY DEF FillingInv
  <2>3. QED
    BY <1>2, <1>3, <1>4, <2>1, <2>2 DEF FillerHolds
<1>7. QED
  BY <1>4, <1>5, <1>6 DEF FillingInv

\* The filler takes the patches in their order, and finds each one it counted.
LEMMA FillerTakeKeepsInv ==
  ASSUME TypeOK, FillingInv, NEW t \in Types, FillerTake(t)
  PROVE  FillingInv' /\ \A s \in Types : Contained(s)' = Contained(s)
<1>1. FillerHolds(t) /\ filler[t].at = "take"
  BY TakeFacts DEF FillingInv
<1>2. /\ containerQ[t] \in Seq(Patches) /\ filler[t].box \in Seq(Patches \cup {NoPatch})
      /\ containerQ \in [Types -> Seq(Patches)]
  BY DEF TypeOK
<1>3. containerQ[t] # <<>>
  BY <1>1, <1>2 DEF FillerHolds
<1> DEFINE q == containerQ[t]
           b == filler[t].box
<1>4. PICK x \in Patches \cup {NoPatch} :
        /\ filler'[t].box = Append(b, x)
        /\ filler'[t].at = IF Len(b) + 1 = 2 THEN "pack" ELSE "take"
        /\ x = Head(q) /\ containerMutex' = containerMutex
        /\ containerQ' = [containerQ EXCEPT ![t] = Tail(q)]
        /\ fillQ' = fillQ
        /\ \A s \in Types \ {t} : filler'[s] = filler[s]
  BY <1>3, TakeFacts
<1>5. /\ containerQ'[t] = Tail(q)
      /\ \A s \in Types \ {t} : containerQ'[s] = containerQ[s]
  BY <1>2, <1>4
<1>6. /\ Len(Tail(q)) = Len(q) - 1 /\ Len(q) \in Nat \ {0}
      /\ DOMAIN Tail(q) = 1..(Len(q) - 1) /\ DOMAIN q = 1..Len(q)
      /\ Head(q) = q[1]
      /\ \A i \in 1..(Len(q) - 1) : Tail(q)[i] = q[i + 1]
  BY <1>2, <1>3, TailFacts
<1>7. /\ Len(Append(b, x)) = Len(b) + 1 /\ Len(b) \in Nat
      /\ DOMAIN Append(b, x) = 1..(Len(b) + 1) /\ DOMAIN b = 1..Len(b)
      /\ Append(b, x)[Len(b) + 1] = x
      /\ \A i \in 1..Len(b) : Append(b, x)[i] = b[i]
  BY <1>2, AppendFacts, CountsAreNumbers
<1>8. /\ Taken(t)' = Taken(t) + 1 /\ Contained(t)' = Contained(t)
      /\ Taken(t) \in Nat /\ Taken(t) = 2 * Len(fillQ[t]) + Len(b) /\ Len(fillQ[t]) \in Nat
      /\ \A s \in Types \ {t} : Taken(s)' = Taken(s) /\ Contained(s)' = Contained(s)
  <2>1. /\ Len(fillQ'[t]) = Len(fillQ[t]) /\ Len(filler'[t].box) = Len(b) + 1
        /\ Len(containerQ'[t]) = Len(q) - 1
    BY <1>4, <1>5, <1>6, <1>7
  <2>2. /\ Taken(t)' = 2 * Len(fillQ'[t]) + Len(filler'[t].box)
        /\ Contained(t)' = Taken(t)' + Len(containerQ'[t])
    BY DEF Taken, Contained
  <2>3. /\ Taken(t) \in Nat /\ Len(fillQ[t]) \in Nat /\ Len(b) \in Nat /\ Len(q) \in Nat
        /\ Taken(t) = 2 * Len(fillQ[t]) + Len(b) /\ Contained(t) = Taken(t) + Len(q)
    BY CountsAreNumbers
  <2>4. \A s \in Types \ {t} : Taken(s)' = Taken(s) /\ Contained(s)' = Contained(s)
    BY <1>4, <1>5 DEF Taken, Contained
  <2>5. PICK f \in Nat, n \in Nat, l \in Nat : f = Len(fillQ[t]) /\ n = Len(b) /\ l = Len(q)
    BY <2>3
  <2>6. /\ Taken(t) = 2 * f + n /\ Contained(t) = Taken(t) + l
        /\ Taken(t)' = 2 * f + (n + 1) /\ Contained(t)' = Taken(t)' + (l - 1)
    BY <2>1, <2>2, <2>3, <2>5, Zenon
  <2>7. Taken(t)' = Taken(t) + 1 /\ Contained(t)' = Contained(t)
    BY <2>6
  <2>8. QED
    BY <2>3, <2>4, <2>7
<1>9. x = <<t, Taken(t) + 1>>
  BY <1>1, <1>4, <1>6 DEF FillerHolds
<1>10. FillerHolds(t)'
  <2>1. \A i \in DOMAIN Append(b, x) : Append(b, x)[i] = <<t, 2 * Len(fillQ[t]) + i>>
    <3>1. SUFFICES ASSUME NEW i \in 1..(Len(b) + 1)
                   PROVE  Append(b, x)[i] = <<t, 2 * Len(fillQ[t]) + i>>
      BY <1>7
    <3>2. CASE i = Len(b) + 1
      <4>1. Append(b, x)[i] = <<t, Taken(t) + 1>>
        BY <1>7, <1>9, <3>2
      <4>2. Taken(t) + 1 = 2 * Len(fillQ[t]) + i
        <5>1. PICK f \in Nat, n \in Nat : f = Len(fillQ[t]) /\ n = Len(b)
          BY <1>7, <1>8
        <5>2. Taken(t) + 1 = 2 * f + n + 1 /\ i = n + 1
          BY <1>8, <3>2, <5>1, Zenon
        <5>3. Taken(t) + 1 = 2 * f + i
          BY <5>2
        <5>4. QED
          BY <5>1, <5>3, Zenon
      <4>3. QED
        BY <4>1, <4>2
    <3>3. CASE i # Len(b) + 1
      <4>1. i \in 1..Len(b) /\ i \in DOMAIN b
        BY <1>7, <3>3
      <4>2. Append(b, x)[i] = b[i]
        BY <1>7, <4>1
      <4>3. QED
        BY <1>1, <4>1, <4>2 DEF FillerHolds
    <3>4. QED
      BY <3>2, <3>3
  <2>2. \A i \in DOMAIN Tail(q) : Tail(q)[i] = <<t, Taken(t) + 1 + i>>
    <3>1. SUFFICES ASSUME NEW i \in 1..(Len(q) - 1) PROVE Tail(q)[i] = <<t, Taken(t) + 1 + i>>
      BY <1>6
    <3>2. i + 1 \in DOMAIN q /\ Tail(q)[i] = q[i + 1]
      BY <1>6
    <3>3. q[i + 1] = <<t, Taken(t) + (i + 1)>>
      BY <1>1, <3>2 DEF FillerHolds
    <3>4. Taken(t) + (i + 1) = Taken(t) + 1 + i
      <4>1. PICK l \in Nat, k \in Nat : l = Len(q) /\ k = Taken(t)
        BY <1>6, <1>8
      <4>2. i \in 1..(l - 1)
        BY <4>1, Zenon
      <4>3. k + (i + 1) = k + 1 + i
        BY <4>2
      <4>4. QED
        BY <4>1, <4>3, Zenon
    <3>5. QED
      BY <3>2, <3>3, <3>4
  <2>3. Len(b) < 2 /\ Len(b) + Len(q) >= 2
    BY <1>1 DEF FillerHolds
  <2>4. /\ filler'[t].at \in {"take", "pack"} /\ containerMutex'[t] = None
        /\ filler'[t].at = "take" => Len(Append(b, x)) < 2
        /\ filler'[t].at = "take" => Len(Append(b, x)) + Len(Tail(q)) >= 2
        /\ filler'[t].at = "pack" => Len(Append(b, x)) = 2
    <3>1. containerMutex'[t] = None
      BY <1>1, <1>4 DEF FillerHolds
    <3>2. filler'[t].at = IF Len(b) + 1 = 2 THEN "pack" ELSE "take"
      BY <1>4
    <3>3. Len(Append(b, x)) = Len(b) + 1 /\ Len(Tail(q)) = Len(q) - 1
          /\ Len(b) \in Nat /\ Len(q) \in Nat
      BY <1>6, <1>7
    <3>4. PICK n \in Nat, l \in Nat : n = Len(b) /\ l = Len(q)
      BY <3>3
    <3>5. /\ n < 2 /\ n + l >= 2
          /\ filler'[t].at = IF n + 1 = 2 THEN "pack" ELSE "take"
          /\ Len(Append(b, x)) = n + 1 /\ Len(Tail(q)) = l - 1
      BY <2>3, <3>2, <3>3, <3>4, Zenon
    <3>6. /\ filler'[t].at = "take" => n + 1 < 2 /\ (n + 1) + (l - 1) >= 2
          /\ filler'[t].at = "pack" => n + 1 = 2
          /\ filler'[t].at \in {"take", "pack"}
      BY <3>5
    <3>7. QED
      BY <3>1, <3>5, <3>6, Zenon
  <2>5. /\ filler'[t].box = Append(b, x) /\ containerQ'[t] = Tail(q) /\ fillQ' = fillQ
        /\ Taken(t)' = Taken(t) + 1
    BY <1>4, <1>5, <1>8
  <2>6. QED
    BY <2>1, <2>2, <2>4, <2>5 DEF FillerHolds
<1>11. ASSUME NEW s \in Types \ {t} PROVE FillerHolds(s)'
  <2>1. FillerHolds(s)
    BY DEF FillingInv
  <2>2. /\ filler'[s] = filler[s] /\ containerQ'[s] = containerQ[s] /\ Taken(s)' = Taken(s)
        /\ fillQ'[s] = fillQ[s] /\ containerMutex'[s] = containerMutex[s]
    BY <1>4, <1>5, <1>8
  <2>3. QED
    BY <2>1, <2>2 DEF FillerHolds
<1>12. BoxOfTwoPatches'
  BY <1>4 DEF FillingInv, BoxOfTwoPatches
<1>13. QED
  BY <1>8, <1>10, <1>11, <1>12 DEF FillingInv

\* A packed box holds the two patches after those of the box before.
LEMMA FillerPackKeepsInv ==
  ASSUME TypeOK, FillingInv, NEW t \in Types, FillerPack(t)
  PROVE  FillingInv' /\ \A s \in Types : Contained(s)' = Contained(s)
<1> DEFINE q == fillQ[t]
           b == filler[t].box
<1>1. FillerHolds(t) /\ BoxOfTwoPatches
  BY DEF FillingInv
<1>2. /\ fillQ' = [fillQ EXCEPT ![t] = Append(q, b)]
      /\ filler' = [filler EXCEPT ![t] = [at |-> "top", box |-> <<>>]]
      /\ UNCHANGED <<containerQ, containerMutex>> /\ filler[t].at = "pack"
  BY DEF FillerPack
<1>3. /\ fillQ'[t] = Append(q, b) /\ filler'[t].at = "top" /\ filler'[t].box = <<>>
      /\ \A s \in Types \ {t} : fillQ'[s] = fillQ[s] /\ filler'[s] = filler[s]
  BY <1>2 DEF TypeOK
<1>4. q \in Seq(Seq(Patches \cup {NoPatch})) /\ b \in Seq(Patches \cup {NoPatch})
  BY DEF TypeOK
<1>5. /\ Len(Append(q, b)) = Len(q) + 1 /\ Len(q) \in Nat
      /\ DOMAIN Append(q, b) = 1..(Len(q) + 1) /\ DOMAIN q = 1..Len(q)
      /\ Append(q, b)[Len(q) + 1] = b
      /\ \A i \in 1..Len(q) : Append(q, b)[i] = q[i]
  BY <1>4, AppendFacts, CountsAreNumbers
<1>6. Len(b) = 2 /\ DOMAIN b = 1..2
  BY <1>1, <1>2, <1>4 DEF FillerHolds
<1>7. b = <<<<t, 2 * (Len(q) + 1) - 1>>, <<t, 2 * (Len(q) + 1)>>>>
  <2>1. b[1] = <<t, 2 * Len(q) + 1>> /\ b[2] = <<t, 2 * Len(q) + 2>>
    BY <1>1, <1>6 DEF FillerHolds
  <2>2. 2 * Len(q) + 1 = 2 * (Len(q) + 1) - 1 /\ 2 * Len(q) + 2 = 2 * (Len(q) + 1)
    BY <1>5
  <2>3. b = <<b[1], b[2]>>
    BY <1>4, <1>6, PairFacts
  <2>4. QED
    BY <2>1, <2>2, <2>3
<1>8. BoxOfTwoPatches'
  <2>1. SUFFICES ASSUME NEW s \in Types, NEW n \in DOMAIN fillQ'[s]
                 PROVE  fillQ'[s][n] = <<<<s, 2 * n - 1>>, <<s, 2 * n>>>>
    BY DEF BoxOfTwoPatches
  <2>2. CASE s # t
    BY <1>1, <1>3, <2>2 DEF BoxOfTwoPatches
  <2>3. CASE s = t /\ n = Len(q) + 1
    BY <1>3, <1>5, <1>7, <2>3
  <2>4. CASE s = t /\ n # Len(q) + 1
    <3>1. n \in 1..Len(q) /\ fillQ'[s][n] = q[n]
      BY <1>3, <1>5, <2>4
    <3>2. QED
      BY <1>1, <1>5, <2>4, <3>1 DEF BoxOfTwoPatches
  <2>5. QED
    BY <2>2, <2>3, <2>4
<1>9. /\ Taken(t)' = Taken(t) /\ Contained(t)' = Contained(t)
      /\ \A s \in Types \ {t} : Taken(s)' = Taken(s) /\ Contained(s)' = Contained(s)
  <2>1. /\ Len(fillQ'[t]) = Len(q) + 1 /\ Len(filler'[t].box) = 0 /\ Len(b) = 2
        /\ Len(containerQ'[t]) = Len(containerQ[t])
    BY <1>2, <1>3, <1>5, <1>6
  <2>2. /\ Taken(t)' = 2 * Len(fillQ'[t]) + Len(filler'[t].box)
        /\ Contained(t)' = Taken(t)' + Len(containerQ'[t])
    BY DEF Taken, Contained
  <2>3. /\ Taken(t) \in Nat /\ Len(q) \in Nat /\ Len(containerQ[t]) \in Nat
        /\ Taken(t) = 2 * Len(q) + Len(b) /\ Contained(t) = Taken(t) + Len(containerQ[t])
    BY CountsAreNumbers
  <2>4. \A s \in Types \ {t} : Taken(s)' = Taken(s) /\ Contained(s)' = Contained(s)
    BY <1>2, <1>3 DEF Taken, Contained
  <2>5. PICK n \in Nat, l \in Nat : n = Len(q) /\ l = Len(containerQ[t])
    BY <2>3
  <2>6. /\ Taken(t) = 2 * n + 2 /\ Contained(t) = Taken(t) + l
        /\ Taken(t)' = 2 * (n + 1) + 0 /\ Contained(t)' = Taken(t)' + l
    BY <2>1, <2>2, <2>3, <2>5, Zenon
  <2>7. Taken(t)' = Taken(t) /\ Contained(t)' = Contained(t)
    BY <2>6
  <2>8. QED
    BY <2>4, <2>7
<1>10. FillerHolds(t)'
  <2>1. /\ filler'[t].at = "top" /\ filler'[t].box = <<>> /\ Taken(t)' = Taken(t)
        /\ containerQ'[t] = containerQ[t] /\ containerMutex'[t] = containerMutex[t]
    BY <1>2, <1>3, <1>9
  <2>2. DOMAIN filler'[t].box = {}
    BY <2>1
  <2>3. QED
    BY <1>1, <2>1, <2>2 DEF FillerHolds
<1>11. ASSUME NEW s \in Types \ {t} PROVE FillerHolds(s)'
  <2>1. FillerHolds(s)
    BY DEF FillingInv
  <2>2. /\ filler'[s] = filler[s] /\ containerQ'[s] = containerQ[s] /\ Taken(s)' = Taken(s)
        /\ fillQ'[s] = fillQ[s] /\ containerMutex'[s] = containerMutex[s]
    BY <1>2, <1>3, <1>9
  <2>3. QED
    BY <2>1, <2>2 DEF FillerHolds
<1>12. QED
  BY <1>8, <1>9, <1>10, <1>11 DEF FillingInv

-----------------------------------------------------------------------------
(* The printer and the movers                                              *)

\* A patch in a hand is the one whose number a mover at "put" has.
LEMMA CarriedFacts ==
  ASSUME PrintingInv, NEW t \in Types, NEW k \in Nat, Carried(t, k)
  PROVE  k = Contained(t) + 1 /\ k <= printed[t] /\ \E m \in Movers : mover[m].at = "put"
<1>1. PICK m \in Movers : mover[m].at = "put" /\ mover[m].has = <<t, k>>
  BY DEF Carried
<1>2. mover[m].has[1] = t /\ mover[m].has[2] = k
  BY <1>1
<1>3. MoverHolds(m)
  BY DEF PrintingInv
<1>4. QED
  BY <1>1, <1>2, <1>3 DEF MoverHolds

\* A printed patch has the largest number of its type, behind all others.
LEMMA PrinterKeepsInv ==
  ASSUME TypeOK, PrintingInv, NEW t \in Types, PrinterPut(t)
  PROVE  PrintingInv'
<1> DEFINE q == printingQ
<1>1. PICK n \in Nat : n = printed[t]
  BY DEF TypeOK
<1> DEFINE x == <<t, n + 1>>
<1>2. /\ printed' = [printed EXCEPT ![t] = n + 1]
      /\ printingQ' = Append(q, x) /\ printingMutex = None
      /\ UNCHANGED <<printingMutex, mover, containerQ, fillQ, filler>>
  BY <1>1 DEF PrinterPut
<1>3. x \in Patches /\ q \in Seq(Patches)
  BY <1>1 DEF TypeOK, Patches
<1>4. PICK l \in Nat :
        /\ DOMAIN Append(q, x) = 1..(l + 1) /\ DOMAIN q = 1..l
        /\ Append(q, x)[l + 1] = x
        /\ \A i \in 1..l : Append(q, x)[i] = q[i]
  <2>1. Len(q) \in Nat
    BY <1>3
  <2>2. QED
    BY <1>3, <2>1, AppendFacts
<1>5. /\ printed'[t] = n + 1 /\ printed[t] = n
      /\ \A s \in Types \ {t} : printed'[s] = printed[s]
  BY <1>1, <1>2 DEF TypeOK
<1>6. \A s \in Types : Contained(s)' = Contained(s) /\ Contained(s) \in Nat /\ printed[s] \in Nat
  BY <1>2, CountsAreNumbers DEF Contained, Taken
<1>7. \A s \in Types : \A k \in Nat : Carried(s, k)' <=> Carried(s, k)
  BY <1>2 DEF Carried
<1>8. \A s \in Types : \A k \in Nat :
        Waiting(s, k)' <=> (Waiting(s, k) \/ (s = t /\ k = n + 1))
  <2>1. SUFFICES ASSUME NEW s \in Types, NEW k \in Nat
                 PROVE  Waiting(s, k)' <=> (Waiting(s, k) \/ (s = t /\ k = n + 1))
    OBVIOUS
  <2>2. Waiting(s, k)' <=> \E i \in 1..(l + 1) : Append(q, x)[i] = <<s, k>>
    BY <1>2, <1>4 DEF Waiting
  <2>3. Waiting(s, k) <=> \E i \in 1..l : Append(q, x)[i] = <<s, k>>
    BY <1>4 DEF Waiting
  <2>4. x = <<s, k>> <=> s = t /\ k = n + 1
    OBVIOUS
  <2>5. \A i \in 1..(l + 1) : i \in 1..l \/ i = l + 1
    OBVIOUS
  <2>6. l + 1 \in 1..(l + 1) /\ 1..l \subseteq 1..(l + 1)
    OBVIOUS
  <2>7. QED
    BY <1>4, <2>2, <2>3, <2>4, <2>5, <2>6, Zenon
<1>9. ASSUME NEW m \in Movers PROVE MoverHolds(m)'
  <2>1. MoverHolds(m)
    BY DEF PrintingInv
  <2>2. printingQ' # <<>>
    BY <1>2, <1>4
  <2>3. mover[m].has \in Patches =>
          /\ Contained(mover[m].has[1])' = Contained(mover[m].has[1])
          /\ mover[m].has[2] <= printed[mover[m].has[1]]
               => mover[m].has[2] <= printed'[mover[m].has[1]]
    <3>1. ASSUME NEW s \in Types, NEW k \in Nat, k <= printed[s] PROVE k <= printed'[s]
      <4>1. CASE s = t
        BY <1>5, <1>6, <3>1, <4>1
      <4>2. CASE s # t
        BY <1>5, <1>6, <3>1, <4>2
      <4>3. QED
        BY <4>1, <4>2
    <3>2. mover[m].has \in Patches => mover[m].has[1] \in Types /\ mover[m].has[2] \in Nat
      BY DEF Patches
    <3>3. QED
      BY <1>2, <1>6, <3>1, <3>2
  <2>4. QED
    BY <1>2, <2>1, <2>2, <2>3 DEF MoverHolds, MoverInside
<1>10. ASSUME NEW s \in Types PROVE InPrintingOrder(s)'
  <2>1. InPrintingOrder(s) /\ InPrintingOrder(t)
    BY DEF PrintingInv
  <2>2. PICK c \in Nat : c = Contained(s) /\ c = Contained(s)'
    BY <1>6
  <2>3. \A i \in DOMAIN q : q[i][1] \in Types /\ q[i][2] \in Nat
    BY <1>3 DEF Patches
  <2>4. Contained(s)' <= printed'[s]
    BY <1>5, <1>6, <2>1 DEF InPrintingOrder
  <2>5. ASSUME NEW i \in DOMAIN printingQ', printingQ'[i][1] = s
        PROVE  /\ Contained(s)' < printingQ'[i][2] /\ printingQ'[i][2] <= printed'[s]
               /\ ~Carried(s, printingQ[i][2])'
    <3>1. CASE i = l + 1
      <4>1. s = t /\ printingQ'[i][2] = n + 1
        BY <1>2, <1>4, <2>5, <3>1
      <4>2. ~Carried(t, n + 1)
        BY <1>5, <1>6, CarriedFacts
      <4>3. c <= n
        BY <1>5, <2>1, <2>2, <4>1 DEF InPrintingOrder
      <4>4. ~Carried(s, printingQ[i][2])'
        BY <1>2, <4>1, <4>2 DEF Carried
      <4>5. QED
        BY <1>5, <2>2, <4>1, <4>3, <4>4
    <3>2. CASE i # l + 1
      <4>1. i \in DOMAIN q /\ printingQ'[i] = q[i]
        BY <1>2, <1>4, <3>2
      <4>2. PICK k \in Nat : k = q[i][2]
        BY <2>3, <4>1
      <4>3. c < k /\ k <= printed[s] /\ ~Carried(s, k)
        BY <2>1, <2>2, <2>5, <4>1, <4>2 DEF InPrintingOrder
      <4>4. k <= printed'[s]
        BY <1>5, <1>6, <4>3
      <4>5. ~Carried(s, printingQ[i][2])'
        BY <1>2, <4>1, <4>2, <4>3 DEF Carried
      <4>6. QED
        BY <2>2, <4>1, <4>2, <4>3, <4>4, <4>5
    <3>3. QED
      BY <3>1, <3>2
  <2>6. ASSUME NEW k \in (Contained(s)' + 1)..printed'[s]
        PROVE  Carried(s, k)' \/ Waiting(s, k)'
    <3>1. k \in Nat /\ c + 1 <= k /\ k <= printed'[s]
      BY <1>5, <1>6, <2>2
    <3>2. CASE s = t /\ k = n + 1
      BY <1>8, <3>1, <3>2
    <3>3. CASE ~(s = t /\ k = n + 1)
      <4>1. k \in (c + 1)..printed[s]
        BY <1>5, <1>6, <3>1, <3>3
      <4>2. QED
        BY <1>7, <1>8, <2>1, <2>2, <3>1, <4>1 DEF InPrintingOrder
    <3>4. QED
      BY <3>2, <3>3
  <2>7. ASSUME NEW i \in DOMAIN printingQ', NEW j \in DOMAIN printingQ', i < j,
               printingQ'[i][1] = s, printingQ'[j][1] = s
        PROVE  printingQ'[i][2] < printingQ'[j][2]
    <3>1. i \in 1..l /\ i \in DOMAIN q /\ printingQ'[i] = q[i]
      BY <1>2, <1>4, <2>7
    <3>2. PICK k \in Nat : k = q[i][2]
      BY <2>3, <3>1
    <3>3. CASE j = l + 1
      <4>1. s = t /\ printingQ'[j][2] = n + 1
        BY <1>2, <1>4, <2>7, <3>3
      <4>2. k <= n
        BY <1>5, <2>1, <2>7, <3>1, <3>2, <4>1 DEF InPrintingOrder
      <4>3. QED
        BY <3>1, <3>2, <4>1, <4>2
    <3>4. CASE j # l + 1
      <4>1. j \in DOMAIN q /\ printingQ'[j] = q[j]
        BY <1>2, <1>4, <3>4
      <4>2. QED
        BY <2>1, <2>7, <3>1, <4>1 DEF InPrintingOrder
    <3>5. QED
      BY <3>3, <3>4
  <2>8. QED
    BY <2>4, <2>5, <2>6, <2>7 DEF InPrintingOrder
<1>11. QED
  BY <1>9, <1>10 DEF PrintingInv

\* While nobody carries a patch, the first patch of the queue is the next of its
\* type: the next one waits, and none of the type waits in front of it.
LEMMA HeadIsNext ==
  ASSUME TypeOK, PrintingInv, printingQ # <<>>, \A m \in Movers : mover[m].at # "put"
  PROVE  /\ printingQ[1][1] \in Types
         /\ printingQ[1] = <<printingQ[1][1], Contained(printingQ[1][1]) + 1>>
         /\ Contained(printingQ[1][1]) + 1 <= printed[printingQ[1][1]]
<1>1. /\ printingQ \in Seq(Patches) /\ 1 \in DOMAIN printingQ /\ DOMAIN printingQ \subseteq Nat \ {0}
      /\ printingQ[1] \in Patches
  BY TailFacts DEF TypeOK
<1>2. PICK t \in Types, k \in Nat : printingQ[1] = <<t, k>>
  BY <1>1 DEF Patches
<1>3. PICK c \in Nat : c = Contained(t)
  BY CountsAreNumbers
<1>4. InPrintingOrder(t) /\ printed[t] \in Nat
  BY CountsAreNumbers DEF PrintingInv
<1>5. c < k /\ k <= printed[t]
  BY <1>1, <1>2, <1>3, <1>4 DEF InPrintingOrder
<1>6. c + 1 \in (Contained(t) + 1)..printed[t]
  BY <1>3, <1>4, <1>5
<1>7. PICK i \in DOMAIN printingQ : printingQ[i] = <<t, c + 1>>
  BY <1>4, <1>6, CarriedFacts DEF InPrintingOrder, Waiting
<1>8. CASE i = 1
  BY <1>2, <1>3, <1>5, <1>7, <1>8
<1>9. CASE i # 1
  <2>1. 1 < i
    BY <1>1, <1>9
  <2>2. k < c + 1
    BY <1>1, <1>2, <1>4, <1>7, <2>1 DEF InPrintingOrder
  <2>3. QED
    BY <1>5, <2>2
<1>10. QED
  BY <1>8, <1>9

\* Only one mover is inside.
LEMMA OneMoverInside ==
  ASSUME PrintingInv, NEW m \in Movers, NEW n \in Movers, MoverInside(m), MoverInside(n)
  PROVE  m = n
BY DEF PrintingInv, MoverHolds

\* Going round, entering and leaving keep the invariant: a mover inside keeps the
\* others out.
LEMMA MoverMovesKeepInv ==
  ASSUME TypeOK, PrintingInv, NEW m \in Movers, MoverTop(m) \/ MoverEnter(m) \/ MoverLeave(m)
  PROVE  PrintingInv'
<1>1. PICK label \in MoverLabels \ {"put", "leave"} :
        /\ mover'[m].at = label /\ mover[m].at \notin {"put", "pick"}
        /\ mover[m].at = "leave" => mover'[m].has = NoPatch
        /\ mover[m].at # "leave" => mover'[m].has = mover[m].has
        /\ \A n \in Movers \ {m} : mover'[n] = mover[n]
        /\ label = "pick" => printingMutex = None /\ printingMutex' = m /\ printingQ # <<>>
        /\ label # "pick" /\ mover[m].at = "leave" => printingMutex' = None
        /\ label # "pick" /\ mover[m].at # "leave" => UNCHANGED printingMutex
  <2>1. CASE MoverLeave(m)
    BY <2>1 DEF MoverLeave, MoverLabels, TypeOK
  <2>2. CASE MoverTop(m) \/ MoverEnter(m)
    <3>1. PICK label \in MoverLabels \ {"put", "leave"} :
            /\ MoverAt(m, label) /\ mover[m].at \notin {"put", "pick", "leave"}
            /\ label = "pick" => printingMutex = None /\ printingMutex' = m /\ printingQ # <<>>
            /\ label # "pick" => UNCHANGED printingMutex
      BY <2>2 DEF MoverTop, MoverEnter, MoverLabels
    <3>2. QED
      BY <3>1, MoverAtFacts
  <2>3. QED
    BY <2>1, <2>2
<1>3. UNCHANGED <<printed, printingQ, containerQ, fillQ, filler>>
  BY DEF MoverTop, MoverEnter, MoverLeave
<1>4. \A s \in Types : Contained(s)' = Contained(s)
  BY <1>3 DEF Contained, Taken
<1>5. ASSUME NEW n \in Movers PROVE MoverHolds(n)'
  <2>1. MoverHolds(n) /\ MoverHolds(m)
    BY DEF PrintingInv
  <2>2. mover[n].has \in Patches => mover[n].has[1] \in Types
    BY DEF Patches
  <2>3. (printingMutex = n <=> MoverInside(n))'
    <3>1. n # None /\ m # None
      BY ThreadsAssumption
    <3>2. CASE n = m
      BY <1>1, <2>1, <3>1, <3>2 DEF MoverHolds, MoverInside, MoverLabels
    <3>3. CASE n # m
      BY <1>1, <2>1, <3>1, <3>3 DEF MoverHolds, MoverInside
    <3>4. QED
      BY <3>2, <3>3
  <2>4. CASE n = m
    BY <1>1, <1>3, <2>1, <2>3, <2>4 DEF MoverHolds
  <2>5. CASE n # m
    BY <1>1, <1>3, <1>4, <2>1, <2>2, <2>3, <2>5 DEF MoverHolds
  <2>6. QED
    BY <2>4, <2>5
<1>6. ASSUME NEW s \in Types PROVE InPrintingOrder(s)'
  <2>1. \A n \in Movers \ {m} : mover'[n] = mover[n]
    BY <1>1
  <2>2. QED
    <3>1. \A k : Carried(s, k)' <=> Carried(s, k)
      BY <1>1, <2>1 DEF Carried
    <3>2. \A k : Waiting(s, k)' <=> Waiting(s, k)
      BY <1>3 DEF Waiting
    <3>3. InPrintingOrder(s) /\ Contained(s)' = Contained(s)
      BY <1>4 DEF PrintingInv
    <3>4. QED
      BY <1>3, <3>1, <3>2, <3>3 DEF InPrintingOrder
<1>7. QED
  BY <1>5, <1>6 DEF PrintingInv

\* The mover that picks the first patch of the queue carries the next of its type.
LEMMA MoverPickKeepsInv ==
  ASSUME TypeOK, PrintingInv, NEW m \in Movers, MoverPick(m)
  PROVE  PrintingInv'
<1> DEFINE q == printingQ
<1>1. /\ mover[m].at = "pick" /\ MoverHolds(m) /\ MoverInside(m) /\ q # <<>>
      /\ printingMutex = m /\ mover[m].has = NoPatch
  BY DEF MoverPick, PrintingInv, MoverHolds, MoverInside
<1>2. \A n \in Movers \ {m} : ~MoverInside(n) /\ mover[n].at \notin {"pick", "put"}
  BY <1>1, OneMoverInside DEF MoverInside
<1>3. \A n \in Movers : mover[n].at # "put"
  BY <1>1, <1>2
<1>4. q \in Seq(Patches)
  BY DEF TypeOK
<1>5. PICK l \in Nat :
        /\ DOMAIN Tail(q) = 1..l /\ DOMAIN q = 1..(l + 1) /\ Head(q) = q[1]
        /\ \A i \in 1..l : Tail(q)[i] = q[i + 1]
  <2>1. Len(q) - 1 \in Nat /\ Len(q) = (Len(q) - 1) + 1
    BY <1>1, <1>4, TailFacts
  <2>2. QED
    BY <1>1, <1>4, <2>1, TailFacts
<1>6. PICK t \in Types, c \in Nat :
        q[1] = <<t, c + 1>> /\ c = Contained(t) /\ c + 1 <= printed[t]
  <2>1. /\ q[1][1] \in Types /\ q[1] = <<q[1][1], Contained(q[1][1]) + 1>>
        /\ Contained(q[1][1]) + 1 <= printed[q[1][1]]
    BY <1>1, <1>3, HeadIsNext
  <2>2. Contained(q[1][1]) \in Nat
    BY <2>1, CountsAreNumbers
  <2>3. QED
    BY <2>1, <2>2
<1>7. /\ mover' = [mover EXCEPT ![m] = [at |-> "put", has |-> q[1]]] /\ printingQ' = Tail(q)
      /\ UNCHANGED <<printed, printingMutex, containerQ, fillQ, filler>>
  BY <1>1, <1>5 DEF MoverPick
<1>8. /\ mover'[m].at = "put" /\ mover'[m].has = <<t, c + 1>>
      /\ \A n \in Movers \ {m} : mover'[n] = mover[n]
  BY <1>6, <1>7 DEF TypeOK
<1>9. \A s \in Types : Contained(s)' = Contained(s)
  BY <1>7 DEF Contained, Taken
<1>10. \A s \in Types : \A k : Carried(s, k)' <=> (Carried(s, k) \/ <<s, k>> = <<t, c + 1>>)
  <2>1. \A s \in Types : \A k : mover[m].has # <<s, k>>
    BY <1>1 DEF NoPatch, Types
  <2>2. QED
    BY <1>8, <2>1 DEF Carried
<1>11. ASSUME NEW n \in Movers PROVE MoverHolds(n)'
  <2>1. MoverHolds(n)
    BY DEF PrintingInv
  <2>2. CASE n = m
    <3>1. MoverInside(n)' /\ printingMutex' = n
      BY <1>1, <1>7, <1>8, <2>2 DEF MoverInside
    <3>2. /\ mover'[n].at = "put" /\ mover'[n].has = <<t, c + 1>> /\ <<t, c + 1>> \in Patches
          /\ mover'[n].has[1] = t /\ mover'[n].has[2] = c + 1
      BY <1>8, <2>2 DEF Patches
    <3>3. /\ Contained(mover[n].has[1])' + 1 = c + 1
          /\ c + 1 <= printed'[mover'[n].has[1]]
      BY <1>6, <1>7, <1>9, <3>2
    <3>4. QED
      BY <3>1, <3>2, <3>3 DEF MoverHolds
  <2>3. CASE n # m
    <3>1. (printingMutex = n <=> MoverInside(n))'
      BY <1>7, <1>8, <2>1, <2>3 DEF MoverHolds, MoverInside
    <3>2. mover'[n].at \notin {"pick", "put", "leave"} /\ mover'[n].has = NoPatch
      BY <1>2, <1>8, <2>1, <2>3 DEF MoverHolds, MoverInside
    <3>3. QED
      BY <3>1, <3>2 DEF MoverHolds
  <2>4. QED
    BY <2>2, <2>3
<1>12. ASSUME NEW s \in Types PROVE InPrintingOrder(s)'
  <2>1. InPrintingOrder(s)
    BY DEF PrintingInv
  <2>2. \A i \in 1..l : /\ i + 1 \in DOMAIN q /\ printingQ'[i] = q[i + 1] /\ 1 < i + 1
                       /\ 1 \in DOMAIN q
    BY <1>5, <1>7
  <2>3. DOMAIN printingQ' = 1..l
    BY <1>5, <1>7
  <2>4. PICK d \in Nat : d = Contained(s) /\ d = Contained(s)' /\ d <= printed[s]
    BY <1>9, <2>1, CountsAreNumbers DEF InPrintingOrder
  <2>5. ASSUME NEW i \in DOMAIN printingQ', printingQ'[i][1] = s
        PROVE  /\ Contained(s)' < printingQ'[i][2] /\ printingQ'[i][2] <= printed'[s]
               /\ ~Carried(s, printingQ[i][2])'
    <3>1. i + 1 \in DOMAIN q /\ printingQ'[i] = q[i + 1] /\ 1 < i + 1 /\ 1 \in DOMAIN q
      BY <2>2, <2>3
    <3>2. PICK k : k = q[i + 1][2]
      OBVIOUS
    <3>3. d < k /\ k <= printed[s] /\ ~Carried(s, k)
      BY <2>1, <2>4, <2>5, <3>1, <3>2 DEF InPrintingOrder
    <3>4. <<s, k>> # <<t, c + 1>>
      <4>1. SUFFICES ASSUME s = t, k = c + 1 PROVE FALSE
        OBVIOUS
      <4>2. q[1][1] = s /\ q[1][2] = c + 1
        BY <1>6, <4>1
      <4>3. c + 1 < k
        BY <2>1, <2>5, <3>1, <3>2, <4>2 DEF InPrintingOrder
      <4>4. QED
        BY <4>1, <4>3
    <3>5. ~Carried(s, k)'
      BY <1>10, <3>3, <3>4
    <3>6. ~Carried(s, printingQ[i][2])'
      BY <3>1, <3>2, <3>5 DEF Carried
    <3>7. QED
      BY <1>7, <2>4, <3>1, <3>2, <3>3, <3>6
  <2>6. ASSUME NEW k \in (Contained(s)' + 1)..printed'[s]
        PROVE  Carried(s, k)' \/ Waiting(s, k)'
    <3>1. Carried(s, k) \/ Waiting(s, k)
      BY <1>7, <2>1, <2>4 DEF InPrintingOrder
    <3>2. ASSUME NEW i \in DOMAIN q, q[i] = <<s, k>> PROVE Carried(s, k)' \/ Waiting(s, k)'
      <4>1. CASE i = 1
        BY <1>6, <1>10, <3>2, <4>1
      <4>2. CASE i # 1
        <5>1. PICK j \in 1..l : i = j + 1
          <6>1. i - 1 \in 1..l /\ i = (i - 1) + 1
            BY <1>5, <4>2
          <6>2. QED
            BY <6>1
        <5>2. printingQ'[j] = <<s, k>>
          BY <2>2, <3>2, <5>1
        <5>3. QED
          BY <2>3, <5>2 DEF Waiting
      <4>3. QED
        BY <4>1, <4>2
    <3>3. QED
      BY <1>10, <3>1, <3>2 DEF Waiting
  <2>7. ASSUME NEW i \in DOMAIN printingQ', NEW j \in DOMAIN printingQ', i < j,
               printingQ'[i][1] = s, printingQ'[j][1] = s
        PROVE  printingQ'[i][2] < printingQ'[j][2]
    <3>1. i + 1 < j + 1
      BY <2>3, <2>7
    <3>2. QED
      BY <2>1, <2>2, <2>3, <2>7, <3>1 DEF InPrintingOrder
  <2>8. Contained(s)' <= printed'[s]
    BY <1>7, <2>4
  <2>9. QED
    BY <2>5, <2>6, <2>7, <2>8 DEF InPrintingOrder
<1>13. QED
  BY <1>11, <1>12 DEF PrintingInv

\* The mover that puts its patch down makes it the last one of its container.
LEMMA MoverPutKeepsInv ==
  ASSUME TypeOK, FillingInv, PrintingInv, NEW m \in Movers, MoverPut(m)
  PROVE  FillingInv' /\ PrintingInv'
<1>1. /\ mover[m].at = "put" /\ MoverHolds(m) /\ MoverInside(m) /\ printingMutex = m
  BY DEF MoverPut, PrintingInv, MoverHolds, MoverInside
<1>2. \A n \in Movers \ {m} : ~MoverInside(n) /\ mover[n].at \notin {"pick", "put"}
  BY <1>1, OneMoverInside DEF MoverInside
<1>3. PICK t \in Types, c \in Nat :
        mover[m].has = <<t, c + 1>> /\ c = Contained(t) /\ c + 1 <= printed[t]
  <2>1. /\ mover[m].has \in Patches /\ mover[m].has[2] = Contained(mover[m].has[1]) + 1
        /\ mover[m].has[2] <= printed[mover[m].has[1]]
    BY <1>1 DEF MoverHolds
  <2>2. PICK s \in Types, k \in Nat : mover[m].has = <<s, k>>
    BY <2>1 DEF Patches
  <2>3. k = Contained(s) + 1 /\ k <= printed[s] /\ Contained(s) \in Nat
    <3>1. mover[m].has[1] = s /\ mover[m].has[2] = k
      BY <2>2
    <3>2. Contained(s) \in Nat
      BY CountsAreNumbers
    <3>3. QED
      BY <2>1, <3>1, <3>2
  <2>4. QED
    BY <2>2, <2>3
<1> DEFINE q == containerQ[t]
           x == <<t, c + 1>>
<1>4. /\ containerQ' = [containerQ EXCEPT ![t] = Append(q, x)]
      /\ MoverAt(m, "leave")
      /\ UNCHANGED <<printed, printingQ, printingMutex, containerMutex, fillQ, filler>>
  BY <1>3 DEF MoverPut
<1>5. /\ containerQ'[t] = Append(q, x) /\ mover'[m].at = "leave" /\ mover'[m].has = x
      /\ \A s \in Types \ {t} : containerQ'[s] = containerQ[s]
      /\ \A n \in Movers \ {m} : mover'[n] = mover[n]
  <2>1. /\ containerQ'[t] = Append(q, x)
        /\ \A s \in Types \ {t} : containerQ'[s] = containerQ[s]
    BY <1>4 DEF TypeOK
  <2>2. QED
    BY <1>3, <1>4, <2>1, MoverAtFacts DEF MoverLabels
<1>6. q \in Seq(Patches) /\ x \in Patches
  BY DEF TypeOK, Patches
<1>7. PICK l \in Nat :
        /\ l = Len(q) /\ Len(Append(q, x)) = l + 1
        /\ DOMAIN Append(q, x) = 1..(l + 1) /\ DOMAIN q = 1..l
        /\ Append(q, x)[l + 1] = x
        /\ \A i \in 1..l : Append(q, x)[i] = q[i]
  <2>1. Len(q) \in Nat
    BY <1>6
  <2>2. QED
    BY <1>6, <2>1, AppendFacts
<1>8. \A s \in Types : Taken(s)' = Taken(s) /\ Taken(s) \in Nat
  BY <1>4, CountsAreNumbers DEF Taken
<1>9. /\ c = Taken(t) + l /\ Contained(t)' = c + 1
      /\ \A s \in Types \ {t} : Contained(s)' = Contained(s)
  <2>1. PICK k \in Nat : k = Taken(t) /\ k = Taken(t)'
    BY <1>8
  <2>2. c = k + l
    BY <1>3, <1>7, <2>1, CountsAreNumbers, Zenon
  <2>3. Contained(t)' = k + (l + 1)
    BY <1>5, <1>7, <2>1, Zenon DEF Contained
  <2>4. Contained(t)' = c + 1
    BY <2>2, <2>3
  <2>5. QED
    BY <1>5, <1>8, <2>1, <2>2, <2>4 DEF Contained
<1>10. FillingInv'
  <2>1. BoxOfTwoPatches'
    BY <1>4 DEF FillingInv, BoxOfTwoPatches
  <2>2. ASSUME NEW s \in Types \ {t} PROVE FillerHolds(s)'
    <3>1. FillerHolds(s)
      BY DEF FillingInv
    <3>2. /\ filler'[s] = filler[s] /\ containerQ'[s] = containerQ[s] /\ Taken(s)' = Taken(s)
          /\ fillQ'[s] = fillQ[s] /\ containerMutex'[s] = containerMutex[s]
      BY <1>4, <1>5, <1>8
    <3>3. QED
      BY <3>1, <3>2 DEF FillerHolds
  <2>3. FillerHolds(t)'
    <3>1. FillerHolds(t)
      BY DEF FillingInv
    <3>2. PICK k \in Nat : k = Taken(t) /\ k = Taken(t)'
      BY <1>8
    <3>3. ASSUME NEW i \in 1..(l + 1) PROVE Append(q, x)[i] = <<t, k + i>>
      <4>1. CASE i = l + 1
        <5>1. c + 1 = k + i
          BY <1>9, <3>2, <4>1
        <5>2. QED
          BY <1>7, <4>1, <5>1
      <4>2. CASE i # l + 1
        <5>1. i \in 1..l /\ i \in DOMAIN q
          BY <1>7, <4>2
        <5>2. QED
          BY <1>7, <3>1, <3>2, <5>1 DEF FillerHolds
      <4>3. QED
        BY <4>1, <4>2
    <3>4. filler[t].at = "take" => Len(filler[t].box) + Len(containerQ'[t]) >= 2
      <4>1. PICK n \in Nat : n = Len(filler[t].box)
        BY CountsAreNumbers
      <4>2. filler[t].at = "take" => n + l >= 2
        BY <1>7, <3>1, <4>1, Zenon DEF FillerHolds
      <4>3. filler[t].at = "take" => n + (l + 1) >= 2
        BY <4>2
      <4>4. QED
        BY <1>5, <1>7, <4>1, <4>3, Zenon
    <3>5. \A i \in DOMAIN containerQ'[t] : containerQ'[t][i] = <<t, Taken(t)' + i>>
      BY <1>5, <1>7, <3>2, <3>3
    <3>6. QED
      BY <1>4, <3>1, <3>4, <3>5 DEF FillerHolds
  <2>4. QED
    BY <2>1, <2>2, <2>3 DEF FillingInv
<1>11. ASSUME NEW n \in Movers PROVE MoverHolds(n)'
  <2>1. MoverHolds(n)
    BY DEF PrintingInv
  <2>2. (printingMutex = n <=> MoverInside(n))'
    BY <1>1, <1>4, <1>5, <2>1 DEF MoverHolds, MoverInside
  <2>3. CASE n = m
    <3>1. /\ mover'[n].at = "leave" /\ mover'[n].has = x /\ x \in Patches
          /\ x[1] = t /\ x[2] = c + 1
      BY <1>5, <1>6, <2>3
    <3>2. Contained(mover[n].has[1])' = c + 1
      BY <1>9, <3>1
    <3>3. QED
      BY <2>2, <3>1, <3>2 DEF MoverHolds
  <2>4. CASE n # m
    <3>1. mover'[n].at \notin {"pick", "put", "leave"} /\ mover'[n].has = NoPatch
      BY <1>2, <1>5, <2>1, <2>4 DEF MoverHolds, MoverInside
    <3>2. QED
      BY <2>2, <3>1 DEF MoverHolds
  <2>5. QED
    BY <2>3, <2>4
<1>12. \A s \in Types : \A k : Carried(s, k)' <=> (Carried(s, k) /\ <<s, k>> # <<t, c + 1>>)
  <2>1. SUFFICES ASSUME NEW s \in Types, NEW k
                 PROVE  Carried(s, k)' <=> (Carried(s, k) /\ <<s, k>> # <<t, c + 1>>)
    OBVIOUS
  <2>2. \A n \in Movers : mover'[n].at # "put"
    BY <1>2, <1>5
  <2>3. ~Carried(s, k)'
    BY <2>2 DEF Carried
  <2>4. Carried(s, k) => <<s, k>> = <<t, c + 1>>
    BY <1>2, <1>3 DEF Carried
  <2>5. QED
    BY <2>3, <2>4
<1>13. ASSUME NEW s \in Types PROVE InPrintingOrder(s)'
  <2>1. InPrintingOrder(s)
    BY DEF PrintingInv
  <2>2. \A k : Waiting(s, k)' <=> Waiting(s, k)
    BY <1>4 DEF Waiting
  <2>3. \A i \in DOMAIN printingQ : printingQ[i][2] \in Nat
    BY DEF TypeOK, Patches
  <2>4. CASE s # t
    <3>1. \A k : Carried(s, k)' <=> Carried(s, k)
      BY <1>12, <2>4
    <3>2. Contained(s)' = Contained(s)
      BY <1>9, <2>4
    <3>3. QED
      BY <1>4, <2>1, <2>2, <3>1, <3>2 DEF InPrintingOrder
  <2>5. CASE s = t
    <3>1. Carried(t, c + 1)
      BY <1>1, <1>3 DEF Carried
    <3>2. printed[t] \in Nat
      BY CountsAreNumbers
    <3>3. ASSUME NEW i \in DOMAIN printingQ, printingQ[i][1] = t
          PROVE  /\ c + 1 < printingQ[i][2] /\ printingQ[i][2] <= printed[t]
                 /\ ~Carried(t, printingQ[i][2])'
      <4>1. PICK k \in Nat : k = printingQ[i][2]
        BY <2>3
      <4>2. c < k /\ k <= printed[t] /\ ~Carried(t, k)
        BY <1>3, <2>1, <2>5, <3>3, <4>1 DEF InPrintingOrder
      <4>3. k # c + 1
        BY <3>1, <4>2
      <4>4. ~Carried(t, printingQ[i][2])'
        BY <1>4, <1>12, <4>1, <4>2 DEF Carried
      <4>5. QED
        BY <4>1, <4>2, <4>3, <4>4
    <3>4. ASSUME NEW k \in ((c + 1) + 1)..printed[t] PROVE Waiting(t, k)
      <4>1. k \in (c + 1)..printed[t] /\ k \in Nat /\ k # c + 1
        BY <3>2
      <4>2. Carried(t, k) \/ Waiting(t, k)
        BY <1>3, <2>1, <2>5, <4>1 DEF InPrintingOrder
      <4>3. ~Carried(t, k)
        BY <1>3, <4>1, CarriedFacts
      <4>4. QED
        BY <4>2, <4>3
    <3>5. QED
      BY <1>3, <1>4, <1>9, <2>1, <2>2, <2>5, <3>3, <3>4 DEF InPrintingOrder
  <2>6. QED
    BY <2>4, <2>5
<1>14. QED
  BY <1>10, <1>11, <1>13 DEF PrintingInv

-----------------------------------------------------------------------------
(* The theorems                                                            *)

\* At the start nothing is printed, taken or carried.
LEMMA InitPackingInv == Init => PackingInv
<1> SUFFICES ASSUME Init PROVE PackingInv
  OBVIOUS
<1>1. ASSUME NEW t \in Types
      PROVE  /\ Len(fillQ[t]) = 0 /\ Len(filler[t].box) = 0 /\ Len(containerQ[t]) = 0
             /\ DOMAIN fillQ[t] = {} /\ DOMAIN filler[t].box = {} /\ DOMAIN containerQ[t] = {}
             /\ filler[t].at = "top" /\ filler[t].box = <<>> /\ printed[t] = 0
             /\ containerMutex[t] = None
  BY DEF Init
<1>2. ASSUME NEW t \in Types PROVE Contained(t) = 0
  <2>1. Contained(t) = 2 * 0 + 0 + 0
    BY <1>1, <1>2, Zenon DEF Contained, Taken
  <2>2. QED
    BY <2>1
<1>3. FillingInv
  BY <1>1 DEF FillingInv, BoxOfTwoPatches, FillerHolds
<1>4. ASSUME NEW m \in Movers PROVE MoverHolds(m)
  BY ThreadsAssumption DEF Init, MoverHolds, MoverInside
<1>5. ASSUME NEW t \in Types PROVE InPrintingOrder(t)
  BY <1>1, <1>2 DEF Init, InPrintingOrder
<1>6. QED
  BY <1>3, <1>4, <1>5 DEF PackingInv, PrintingInv

\* PackingInv is inductive, given TypeOK.
LEMMA NextPackingInv == TypeOK /\ PackingInv /\ [Next]_vars => PackingInv'
<1> SUFFICES ASSUME TypeOK, FillingInv, PrintingInv, [Next]_vars
             PROVE  FillingInv' /\ PrintingInv'
  BY DEF PackingInv
<1>1. CASE StorageChanges \/ UNCHANGED vars
  <2>1. UNCHANGED <<printed, printingQ, printingMutex, containerQ, containerMutex, fillQ,
                    mover, filler>>
    BY <1>1 DEF StorageChanges, vars
  <2>2. QED
    BY <2>1, FillingFrame, PrintingFrame
<1>2. ASSUME NEW t \in Types, PrinterPut(t) PROVE FillingInv' /\ PrintingInv'
  <2>1. UNCHANGED <<fillQ, filler, containerQ, containerMutex>>
    BY <1>2 DEF PrinterPut
  <2>2. QED
    BY <1>2, <2>1, FillingFrame, PrinterKeepsInv
<1>3. ASSUME NEW t \in Types, FillerStep(t) PROVE FillingInv' /\ PrintingInv'
  <2>1. UNCHANGED <<printed, printingQ, printingMutex, mover>>
    BY <1>3 DEF FillerStep, FillerTop, FillerCount, FillerTake, FillerPack
  <2>2. FillingInv' /\ \A s \in Types : Contained(s)' = Contained(s)
    BY <1>3, FillerMovesKeepInv, FillerTakeKeepsInv, FillerPackKeepsInv DEF FillerStep
  <2>3. QED
    BY <2>1, <2>2, PrintingFrame
<1>4. ASSUME NEW m \in Movers, MoverStep(m) PROVE FillingInv' /\ PrintingInv'
  <2>1. CASE MoverPut(m)
    BY <2>1, MoverPutKeepsInv
  <2>2. CASE MoverTop(m) \/ MoverEnter(m) \/ MoverPick(m) \/ MoverLeave(m)
    <3>1. UNCHANGED <<fillQ, filler, containerQ, containerMutex>>
      BY <2>2 DEF MoverTop, MoverEnter, MoverPick, MoverLeave
    <3>2. QED
      BY <2>2, <3>1, FillingFrame, MoverMovesKeepInv, MoverPickKeepsInv
  <2>3. QED
    BY <1>4, <2>1, <2>2 DEF MoverStep
<1>5. ASSUME NEW t \in Types, FillerWait(t) \/ PorterReleases(t)
      PROVE  FillingInv' /\ PrintingInv'
  BY <1>5, FillerWaitKeepsInv, PrintingFrame DEF FillerWait, PorterReleases
<1>6. QED
  BY <1>1, <1>2, <1>3, <1>4, <1>5 DEF Next

\* The strengthening holds in every behaviour.
LEMMA PackingInvHolds == Spec => []PackingInv
<1>1. TypeOK /\ PackingInv /\ [Next]_vars => PackingInv'
  BY NextPackingInv
<1>2. QED
  BY <1>1, InitPackingInv, TypeCorrect, PTL DEF Spec

\* However many movers there are: each box of a type is made of the next two patches
\* that were printed of it.
THEOREM BoxesOfTwo == Spec => []BoxOfTwoPatches
<1>1. PackingInv => BoxOfTwoPatches
  BY DEF PackingInv, FillingInv
<1>2. QED
  BY <1>1, PackingInvHolds, PTL

\* No dequeue of a mover or a filler finds an empty queue, though the filler counts
\* without the mutex: nobody else dequeues from what it counted.
THEOREM NeverEmpty == Spec => []NoUnderflow
<1>1. PackingInv => NoUnderflow
  <2>1. PackingInv => \A t \in Types : containerMutex[t] = None
    BY DEF PackingInv, FillingInv, FillerHolds
  <2>2. PackingInv => \A m \in Movers : mover[m].at = "put" => mover[m].has \in Patches
    BY DEF PackingInv, PrintingInv, MoverHolds
  <2>3. NoPatch \notin Patches
    BY DEF NoPatch, Patches
  <2>4. QED
    BY <2>1, <2>2, <2>3 DEF NoUnderflow
<1>2. QED
  BY <1>1, PackingInvHolds, PTL

\* Of the patches that movers have put down only the last one of its type can be one
\* that the GUI was not told of.
THEOREM LastMoveIsLate == Spec => []OnlyLastMoveIsLate
<1>1. PackingInv => OnlyLastMoveIsLate
  BY DEF PackingInv, PrintingInv, MoverHolds, OnlyLastMoveIsLate
<1>2. QED
  BY <1>1, PackingInvHolds, PTL

-----------------------------------------------------------------------------
(* Packing implements Batches                                              *)

\* At the start nothing has come in and nothing has gone out.
LEMMA InitRefines == Init => Boxes!Init
BY DEF Init, Boxes!Init

\* A filler packs the next box of its type, of patches that were printed.
LEMMA FillerPackRefines ==
  ASSUME TypeOK, PackingInv, PackingInv', NEW t \in Types, FillerPack(t)
  PROVE  Boxes!GoesOut(t)
<1>1. /\ fillQ' = [fillQ EXCEPT ![t] = Append(fillQ[t], filler[t].box)]
      /\ filler[t].at = "pack" /\ UNCHANGED printed
  BY DEF FillerPack
<1>2. /\ fillQ[t] \in Seq(Seq(Patches \cup {NoPatch}))
      /\ filler[t].box \in Seq(Patches \cup {NoPatch})
  BY DEF TypeOK
<1>3. PICK n \in Nat, l \in Nat, k \in Nat, p \in Nat :
        /\ n = Len(fillQ[t]) /\ l = Len(containerQ[t]) /\ k = Taken(t) /\ p = printed[t]
        /\ Taken(t) = 2 * Len(fillQ[t]) + Len(filler[t].box)
        /\ Contained(t) = Taken(t) + Len(containerQ[t])
  BY CountsAreNumbers
<1>4. Len(filler[t].box) = 2 /\ Contained(t) <= printed[t]
  BY <1>1 DEF PackingInv, FillingInv, FillerHolds, PrintingInv, InPrintingOrder
<1>5. k = 2 * n + 2 /\ k + l <= p
  BY <1>3, <1>4, Zenon
<1>6. p >= 2 * (n + 1)
  BY <1>5
<1>7. filler[t].box = BoxOf(t, n + 1)
  <2>1. fillQ'[t] = Append(fillQ[t], filler[t].box)
    BY <1>1 DEF TypeOK
  <2>2. n + 1 \in DOMAIN fillQ'[t] /\ fillQ'[t][n + 1] = filler[t].box
    BY <1>2, <1>3, <2>1, AppendFacts
  <2>3. \A i \in DOMAIN fillQ'[t] : fillQ'[t][i] = BoxOf(t, i)
    BY DEF PackingInv, FillingInv, BoxOfTwoPatches, BoxOf
  <2>4. QED
    BY <2>2, <2>3
<1>8. QED
  BY <1>1, <1>3, <1>6, <1>7 DEF Boxes!GoesOut, PatchesForBox

\* Every step makes a step of Batches, or none that it sees.
LEMMA NextRefines ==
  TypeOK /\ PackingInv /\ PackingInv' /\ [Next]_vars => [Boxes!Next]_<<printed, fillQ>>
<1> SUFFICES ASSUME TypeOK, PackingInv, PackingInv', [Next]_vars
             PROVE  Boxes!Next \/ UNCHANGED <<printed, fillQ>>
  OBVIOUS
<1>1. CASE StorageChanges \/ UNCHANGED vars
  BY <1>1 DEF StorageChanges, vars
<1>2. ASSUME NEW t \in Types, PrinterPut(t) PROVE Boxes!Next
  BY <1>2 DEF PrinterPut, Boxes!Next, Boxes!ComesIn
<1>3. ASSUME NEW t \in Types, FillerPack(t) PROVE Boxes!Next
  BY <1>3, FillerPackRefines DEF Boxes!Next
<1>4. ASSUME NEW t \in Types, FillerTop(t) \/ FillerCount(t) \/ FillerTake(t)
      PROVE  UNCHANGED <<printed, fillQ>>
  BY <1>4 DEF FillerTop, FillerCount, FillerTake
<1>5. ASSUME NEW m \in Movers, MoverStep(m) PROVE UNCHANGED <<printed, fillQ>>
  BY <1>5 DEF MoverStep, MoverTop, MoverEnter, MoverPick, MoverPut, MoverLeave
<1>6. ASSUME NEW t \in Types, FillerWait(t) \/ PorterReleases(t)
      PROVE  UNCHANGED <<printed, fillQ>>
  BY <1>6 DEF FillerWait, PorterReleases
<1>7. QED
  BY <1>1, <1>2, <1>3, <1>4, <1>5, <1>6 DEF Next, FillerStep

\* Packing implements Batches, for any numbers of types, movers and patches.
THEOREM PackingImplementsBatches == Spec => BoxesInTurn
<1>1. TypeOK /\ PackingInv /\ PackingInv' /\ [Next]_vars => [Boxes!Next]_<<printed, fillQ>>
  BY NextRefines
<1>2. QED
  BY <1>1, InitRefines, TypeCorrect, PackingInvHolds, PTL DEF Spec, BoxesInTurn, Boxes!Spec
=============================================================================
