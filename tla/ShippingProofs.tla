--------------------------- MODULE ShippingProofs ---------------------------
(* Theorems about Shipping for every number of types, trucks, porters,     *)
(* loaders and boxes, and every quota; that it implements BoxFifo; and   *)
(* that the two states from which the factory does not recover are final.   *)
EXTENDS Shipping, SequenceTheorems, TLAPS

-----------------------------------------------------------------------------
(* Type correctness                                                        *)

\* The porter's and the loader's search for a type stays within the types.
LEMMA FirstAndNextType == 1 \in Types /\ \A t \in Types : NextKind(t) \in Types
BY CountsAssumption DEF NextKind, Types

\* There is a first truck, and each truck has a successor among the trucks.
LEMMA FirstAndNextTruck ==
  /\ 1 \in Trucks /\ Trucks \subseteq Nat
  /\ \A n \in Nat : n + 1 \in Trucks => n + 1 = NumTrucks \/ n + 2 \in Trucks
BY CountsAssumption DEF Trucks

\* What start_simulation sets up is typed.
LEMMA InitTypeOK == Init => TypeOK
<1> SUFFICES ASSUME Init PROVE TypeOK
  OBVIOUS
<1>1. QueuesTyped
  BY DEF Init, QueuesTyped
<1>2. TrucksTyped
  <2>1. truckQ \in [Trucks -> Seq(Boxes \cup {NoBox})] /\ truckMutex \in [Trucks -> Loaders \cup {None}]
    BY DEF Init
  <2>2. truckCount \in [Types -> Nat] /\ delivered \in [Types -> Nat]
    BY DEF Init
  <2>3. G_Trucks_Order \in Trucks /\ switched \in BOOLEAN /\ torn \subseteq Trucks
    BY FirstAndNextTruck DEF Init
  <2>4. QED
    BY <2>1, <2>2, <2>3 DEF TrucksTyped
<1>3. PcTyped
  BY ThreadsAssumption DEF Init, PcTyped, PorterLabels, LoaderLabels, SectionLabels, Carriers
<1>4. LocalsTyped
  BY ThreadsAssumption, FirstAndNextType, FirstAndNextTruck
     DEF Init, LocalsTyped, Carriers
<1>5. QED
  BY <1>1, <1>2, <1>3, <1>4 DEF TypeOK

\* A filler keeps every variable in its type.
LEMMA FillerStepTypeOK ==
  ASSUME TypeOK, NEW t \in Types, FillerStep(t)
  PROVE  TypeOK'
<1> USE ThreadsAssumption
<1> USE DEF TypeOK, queueVars, truckVars, turnVars, fillVars, localVars, Carriers
<1>1. CASE FillerTest(t)
  <2>1. QueuesTyped'
    BY <1>1
       DEF FillerTest, QueuesTyped
  <2>2. TrucksTyped' /\ PcTyped' /\ LocalsTyped'
    BY <1>1 DEF FillerTest, TrucksTyped, PcTyped, LocalsTyped
  <2>3. QED
    BY <2>1, <2>2
<1>2. CASE FillerResume(t)
  <2>1. QueuesTyped'
    BY <1>2
       DEF FillerResume, QueuesTyped
  <2>2. TrucksTyped' /\ PcTyped' /\ LocalsTyped'
    BY <1>2 DEF FillerResume, TrucksTyped, PcTyped, LocalsTyped
  <2>3. QED
    BY <2>1, <2>2
<1>3. CASE FillerPack(t)
  <2>1. QueuesTyped'
    BY <1>3
       DEF FillerPack, QueuesTyped, Boxes
  <2>2. TrucksTyped' /\ PcTyped' /\ LocalsTyped'
    BY <1>3 DEF FillerPack, TrucksTyped, PcTyped, LocalsTyped
  <2>3. QED
    BY <2>1, <2>2
<1>4. QED
  BY <1>1, <1>2, <1>3 DEF FillerStep

\* A porter keeps every variable in its type.
LEMMA PorterStepTypeOK ==
  ASSUME TypeOK, NEW p \in Porters, PorterStep(p)
  PROVE  TypeOK'
<1> USE ThreadsAssumption
<1> USE DEF TypeOK, queueVars, truckVars, turnVars, fillVars, localVars, Carriers
<1>1. CASE PorterEnter(p)
  <2>1. QueuesTyped'
    <3>1. kind[p] \in Types
      BY DEF LocalsTyped
    <3>2. fillMutex' = fillMutex \/ fillMutex' = [fillMutex EXCEPT ![kind[p]] = p]
      BY <1>1 DEF PorterEnter, Goto
    <3>3. fillMutex' \in [Types -> Porters \cup {None}]
      BY <3>1, <3>2 DEF QueuesTyped
    <3>4. QED
      BY <1>1, <3>3 DEF PorterEnter, QueuesTyped, Goto
  <2>2. PcTyped'
    BY <1>1
       DEF PorterEnter, PcTyped, Goto, PorterLabels, LoaderLabels
  <2>3. LocalsTyped'
    <3>1. kind' = kind \/ kind' = [kind EXCEPT ![p] = NextKind(kind[p])]
      BY <1>1 DEF PorterEnter, Goto
    <3>2. kind' \in [Carriers -> Types]
      BY <3>1, FirstAndNextType DEF LocalsTyped
    <3>3. UNCHANGED <<reg, hand, save>> /\ \A l \in Loaders : pc'[l] = pc[l]
      BY <1>1 DEF PorterEnter, Goto, PcTyped
    <3>4. QED
      BY <3>2, <3>3 DEF LocalsTyped
  <2>4. TrucksTyped'
    BY <1>1 DEF PorterEnter, TrucksTyped
  <2>5. QED
    BY <2>1, <2>2, <2>3, <2>4
<1>2. CASE PorterLoadCount(p)
  <2>1. PcTyped'
    BY <1>2
       DEF PorterLoadCount, PcTyped, Goto, PorterLabels, LoaderLabels
  <2>2. LocalsTyped'
    BY <1>2, FirstAndNextType
       DEF PorterLoadCount, LocalsTyped, Goto, QueuesTyped, PcTyped, PorterLabels
  <2>3. QueuesTyped' /\ TrucksTyped'
    BY <1>2 DEF PorterLoadCount, QueuesTyped, TrucksTyped
  <2>4. QED
    BY <2>1, <2>2, <2>3
<1>2s. CASE PorterStoreCount(p)
  <2>1. PcTyped'
    BY <1>2s
       DEF PorterStoreCount, PcTyped, Goto, PorterLabels, LoaderLabels
  <2>2. LocalsTyped'
    BY <1>2s, FirstAndNextType
       DEF PorterStoreCount, LocalsTyped, Goto, Forget, PcTyped, PorterLabels
  <2>3. QueuesTyped'
    <3>1. reg[p] + 1 \in Nat
      BY DEF LocalsTyped
    <3>2. QED
      BY <1>2s, <3>1 DEF PorterStoreCount, QueuesTyped
  <2>4. TrucksTyped'
    BY <1>2s DEF PorterStoreCount, TrucksTyped
  <2>5. QED
    BY <2>1, <2>2, <2>3, <2>4
<1>3. CASE PorterPick(p)
  <2>1. QueuesTyped'
    <3>1. kind[p] \in Types
      BY DEF LocalsTyped
    <3>2. /\ fillQ[kind[p]] = <<>> => fillQ' = fillQ
          /\ fillQ[kind[p]] # <<>>
               => fillQ' = [fillQ EXCEPT ![kind[p]] = Tail(fillQ[kind[p]])]
      BY <1>3 DEF PorterPick
    <3>3. fillQ' \in [Types -> Seq(Boxes)]
      <4>1. fillQ[kind[p]] # <<>> => Tail(fillQ[kind[p]]) \in Seq(Boxes)
        BY <3>1 DEF QueuesTyped
      <4>2. QED
        BY <3>1, <3>2, <4>1 DEF QueuesTyped
    <3>4. QED
      BY <1>3, <3>1, <3>3 DEF PorterPick, QueuesTyped
  <2>2. PcTyped'
    BY <1>3
       DEF PorterPick, PcTyped, Goto, PorterLabels, LoaderLabels
  <2>3. LocalsTyped'
    <3>1. kind[p] \in Types
      BY DEF LocalsTyped
    <3>2. \/ hand' = [hand EXCEPT ![p] = NoBox]
          \/ fillQ[kind[p]] # <<>> /\ hand' = [hand EXCEPT ![p] = Head(fillQ[kind[p]])]
      BY <1>3 DEF PorterPick
    <3>3. fillQ[kind[p]] # <<>> => Head(fillQ[kind[p]]) \in Boxes
      BY <3>1 DEF QueuesTyped
    <3>4. hand' \in [Carriers -> Boxes \cup {NoBox}]
      BY <3>2, <3>3 DEF LocalsTyped
    <3>5. UNCHANGED <<kind, reg, save>> /\ \A l \in Loaders : pc'[l] = pc[l]
      BY <1>3 DEF PorterPick, Goto, PcTyped
    <3>6. QED
      BY <3>4, <3>5 DEF LocalsTyped
  <2>4. TrucksTyped'
    BY <1>3 DEF PorterPick, TrucksTyped
  <2>5. QED
    BY <2>1, <2>2, <2>3, <2>4
<1>4. CASE PorterPut(p)
  <2>1. QueuesTyped'
    BY <1>4
       DEF PorterPut, QueuesTyped, LocalsTyped
  <2>2. PcTyped'
    BY <1>4
       DEF PorterPut, PcTyped, Goto, PorterLabels, LoaderLabels
  <2>3. LocalsTyped'
    BY <1>4, FirstAndNextType
       DEF PorterPut, LocalsTyped, Goto, QueuesTyped, PcTyped, PorterLabels
  <2>4. TrucksTyped'
    BY <1>4 DEF PorterPut, TrucksTyped
  <2>5. QED
    BY <2>1, <2>2, <2>3, <2>4
<1>5. QED
  BY <1>1, <1>2, <1>2s, <1>3, <1>4 DEF PorterStep

\* A list that two loaders change at a time is still a list of boxes.
LEMMA LinkedTyped ==
  ASSUME NEW S, truckQ \in [Trucks -> Seq(S)], NEW k \in Trucks, NEW b \in S
  PROVE  \A q \in Linked(k, b) : q \in Seq(S)
<1>1. SUFFICES ASSUME NEW q \in Linked(k, b) PROVE q \in Seq(S)
  OBVIOUS
<1>2. PICK s \in Seq(S) : s = truckQ[k]
  OBVIOUS
<1>3. CASE k \in torn
  <2>1. PICK n \in 0..Len(s) : q \in {SubSeq(s, 1, n), Append(SubSeq(s, 1, n), b)}
    BY <1>2, <1>3 DEF Linked
  <2>2. SubSeq(s, 1, n) \in Seq(S)
    <3>1. n \in Nat /\ n <= Len(s) /\ Len(s) \in Nat
      OBVIOUS
    <3>2. \A i \in 1..n : s[i] \in S
      BY <3>1
    <3>3. QED
      BY <3>1, <3>2, SubSeqProperties
  <2>3. PICK a \in Seq(S) : q = a \/ q = Append(a, b)
    BY <2>1, <2>2
  <2>4. QED
    BY ONLY <2>3, a \in Seq(S), b \in S
<1>4. CASE k \notin torn
  BY <1>2, <1>4 DEF Linked
<1>5. QED
  BY <1>3, <1>4

\* A loader keeps every variable in its type.
LEMMA LoaderStepTypeOK ==
  ASSUME TypeOK, NEW l \in Loaders, LoaderStep(l)
  PROVE  TypeOK'
<1> USE ThreadsAssumption
<1> USE DEF TypeOK, queueVars, truckVars, turnVars, fillVars, localVars, Carriers
<1>1. CASE LoaderReadOrder(l)
  <2>1. PcTyped'
    BY <1>1
       DEF LoaderReadOrder, PcTyped, Goto, PorterLabels, LoaderLabels, SectionLabels
  <2>2. LocalsTyped'
    BY <1>1, FirstAndNextTruck
       DEF LoaderReadOrder, LocalsTyped, Goto, PcTyped, TrucksTyped
  <2>3. QueuesTyped' /\ TrucksTyped'
    BY <1>1 DEF LoaderReadOrder, QueuesTyped, TrucksTyped
  <2>4. QED
    BY <2>1, <2>2, <2>3
<1>2. CASE LoaderLock(l)
  <2>1. TrucksTyped'
    BY <1>2
       DEF LoaderLock, TrucksTyped, LocalsTyped
  <2>2. PcTyped'
    BY <1>2
       DEF LoaderLock, PcTyped, Goto, PorterLabels, LoaderLabels, SectionLabels
  <2>3. LocalsTyped'
    BY <1>2, FirstAndNextTruck
       DEF LoaderLock, LocalsTyped, Goto, PcTyped, TrucksTyped
  <2>4. QueuesTyped'
    BY <1>2 DEF LoaderLock, QueuesTyped
  <2>5. QED
    BY <2>1, <2>2, <2>3, <2>4
<1>3. CASE LoaderSave(l)
  <2>1. PcTyped'
    BY <1>3
       DEF LoaderSave, PcTyped, Goto, PorterLabels, LoaderLabels, SectionLabels
  <2>2. LocalsTyped'
    BY <1>3, FirstAndNextTruck
       DEF LoaderSave, LocalsTyped, Goto, PcTyped, TrucksTyped, Forget
  <2>3. QueuesTyped' /\ TrucksTyped'
    BY <1>3 DEF LoaderSave, QueuesTyped, TrucksTyped
  <2>4. QED
    BY <2>1, <2>2, <2>3
<1>4. CASE LoaderCheck(l)
  <2>1. PcTyped'
    BY <1>4
       DEF LoaderCheck, PcTyped, Goto, PorterLabels, LoaderLabels, SectionLabels
  <2>2. LocalsTyped'
    BY <1>4, FirstAndNextTruck
       DEF LoaderCheck, LocalsTyped, Goto, PcTyped, TrucksTyped
  <2>3. QueuesTyped' /\ TrucksTyped'
    BY <1>4 DEF LoaderCheck, QueuesTyped, TrucksTyped
  <2>4. QED
    BY <2>1, <2>2, <2>3
<1>5. CASE LoaderStock(l)
  <2>1. PcTyped'
    BY <1>5
       DEF LoaderStock, PcTyped, Goto, NextType, PorterLabels, LoaderLabels, SectionLabels
  <2>2. LocalsTyped'
    <3>1. CASE storageQ[kind[l]] = <<>>
      BY <1>5, <3>1, FirstAndNextType, FirstAndNextTruck
         DEF LoaderStock, LocalsTyped, Goto, NextType, PcTyped, TrucksTyped
    <3>2. CASE storageQ[kind[l]] # <<>>
      BY <1>5, <3>2, FirstAndNextType, FirstAndNextTruck
         DEF LoaderStock, LocalsTyped, Goto, NextType, PcTyped, TrucksTyped
    <3>3. QED
      BY <3>1, <3>2
  <2>3. QueuesTyped' /\ TrucksTyped'
    BY <1>5 DEF LoaderStock, QueuesTyped, TrucksTyped
  <2>4. QED
    BY <2>1, <2>2, <2>3
<1>6. CASE LoaderTake(l)
  <2>1. QueuesTyped'
    <3>1. kind[l] \in Types
      BY DEF LocalsTyped
    <3>2. \/ /\ storageMutex' = [storageMutex EXCEPT ![kind[l]] = l]
             /\ storageQ' = storageQ
          \/ /\ storageQ[kind[l]] # <<>> /\ storageMutex' = storageMutex
             /\ storageQ' = [storageQ EXCEPT ![kind[l]] = Tail(storageQ[kind[l]])]
      BY <1>6 DEF LoaderTake
    <3>3. storageMutex' \in [Types -> Loaders \cup {None}]
      BY <3>1, <3>2 DEF QueuesTyped
    <3>4. storageQ' \in [Types -> Seq(Boxes \cup {NoBox})]
      <4>1. storageQ[kind[l]] # <<>>
              => Tail(storageQ[kind[l]]) \in Seq(Boxes \cup {NoBox})
        BY <3>1 DEF QueuesTyped
      <4>2. QED
        BY <3>1, <3>2, <4>1 DEF QueuesTyped
    <3>5. QED
      BY <1>6, <3>3, <3>4 DEF LoaderTake, QueuesTyped, Goto
  <2>2. PcTyped'
    BY <1>6
       DEF LoaderTake, PcTyped, Goto, PorterLabels, LoaderLabels, SectionLabels
  <2>3. LocalsTyped'
    <3>1. kind[l] \in Types
      BY DEF LocalsTyped
    <3>2. \/ hand' = hand
          \/ storageQ[kind[l]] # <<>> /\ hand' = [hand EXCEPT ![l] = Head(storageQ[kind[l]])]
      BY <1>6 DEF LoaderTake
    <3>3. storageQ[kind[l]] # <<>> => Head(storageQ[kind[l]]) \in Boxes \cup {NoBox}
      BY <3>1 DEF QueuesTyped
    <3>4. hand' \in [Carriers -> Boxes \cup {NoBox}]
      BY <3>2, <3>3 DEF LocalsTyped
    <3>5. UNCHANGED <<kind, reg, save>> /\ pc' = [pc EXCEPT ![l] = "release"]
      BY <1>6 DEF LoaderTake, Goto
    <3>6. QED
      BY <3>4, <3>5 DEF LocalsTyped, PcTyped
  <2>4. TrucksTyped'
    BY <1>6 DEF LoaderTake, TrucksTyped
  <2>5. QED
    BY <2>1, <2>2, <2>3, <2>4
<1>7. CASE LoaderRelease(l)
  <2>1. TrucksTyped'
    BY <1>7
       DEF LoaderRelease, TrucksTyped, LocalsTyped
  <2>2. PcTyped'
    BY <1>7
       DEF LoaderRelease, PcTyped, Goto, PorterLabels, LoaderLabels, SectionLabels
  <2>3. LocalsTyped'
    BY <1>7, FirstAndNextTruck
       DEF LoaderRelease, LocalsTyped, Goto, PcTyped, TrucksTyped
  <2>4. QueuesTyped'
    BY <1>7 DEF LoaderRelease, QueuesTyped
  <2>5. QED
    BY <2>1, <2>2, <2>3, <2>4
<1>8. CASE LoaderEnqueue(l)
  <2>1. TrucksTyped'
    BY <1>8
       DEF LoaderEnqueue, TrucksTyped, LocalsTyped
  <2>2. PcTyped'
    BY <1>8
       DEF LoaderEnqueue, PcTyped, Goto, PorterLabels, LoaderLabels, SectionLabels
  <2>3. LocalsTyped'
    BY <1>8, FirstAndNextTruck
       DEF LoaderEnqueue, LocalsTyped, Goto, PcTyped, TrucksTyped
  <2>4. QueuesTyped'
    BY <1>8 DEF LoaderEnqueue, QueuesTyped
  <2>5. QED
    BY <2>1, <2>2, <2>3, <2>4
<1>8a. CASE LoaderAppend(l)
  <2>1. TrucksTyped'
    <3>1. PICK q : q \in Linked(save[l], hand[l]) /\ truckQ' = [truckQ EXCEPT ![save[l]] = q]
      BY <1>8a DEF LoaderAppend
    <3>2. save[l] \in Trucks /\ hand[l] \in Boxes \cup {NoBox}
      BY DEF LocalsTyped
    <3>3. q \in Seq(Boxes \cup {NoBox})
      BY <3>1, <3>2, LinkedTyped DEF TrucksTyped
    <3>4. QED
      BY <1>8a, <3>1, <3>3
         DEF LoaderAppend, TrucksTyped, LocalsTyped
  <2>2. PcTyped'
    BY <1>8a
       DEF LoaderAppend, PcTyped, Goto, PorterLabels, LoaderLabels, SectionLabels
  <2>3. LocalsTyped'
    BY <1>8a, FirstAndNextTruck
       DEF LoaderAppend, LocalsTyped, Goto, PcTyped, TrucksTyped
  <2>4. QueuesTyped'
    BY <1>8a DEF LoaderAppend, QueuesTyped
  <2>5. QED
    BY <2>1, <2>2, <2>3, <2>4
<1>9. CASE LoaderLoadCount(l)
  <2>1. PcTyped'
    BY <1>9
       DEF LoaderLoadCount, PcTyped, Goto, PorterLabels, LoaderLabels, SectionLabels
  <2>2. LocalsTyped'
    BY <1>9, FirstAndNextTruck
       DEF LoaderLoadCount, LocalsTyped, Goto, PcTyped, TrucksTyped
  <2>3. QueuesTyped' /\ TrucksTyped'
    BY <1>9 DEF LoaderLoadCount, QueuesTyped, TrucksTyped
  <2>4. QED
    BY <2>1, <2>2, <2>3
<1>10. CASE LoaderStoreCount(l)
  <2>1. TrucksTyped'
    BY <1>10
       DEF LoaderStoreCount, TrucksTyped, LocalsTyped
  <2>2. PcTyped'
    BY <1>10
       DEF LoaderStoreCount, PcTyped, Goto, Restart, PorterLabels, LoaderLabels, SectionLabels
  <2>3. LocalsTyped'
    BY <1>10, FirstAndNextType, FirstAndNextTruck
       DEF LoaderStoreCount, LocalsTyped, Goto, Restart, PcTyped, TrucksTyped, Forget
  <2>4. QueuesTyped'
    BY <1>10 DEF LoaderStoreCount, QueuesTyped
  <2>5. QED
    BY <2>1, <2>2, <2>3, <2>4
<1>11. CASE LoaderShip(l)
  <2>1. QueuesTyped'
    BY <1>11
       DEF LoaderShip, QueuesTyped
  <2>2. TrucksTyped'
    <3>1. kind[l] \in Types
      BY DEF LocalsTyped
    <3>2. Saturated(delivered[kind[l]] + Quota[kind[l]]) \in Nat
      BY <3>1, InputAssumption, BoundAssumption DEF TrucksTyped, Saturated
    <3>3. delivered' \in [Types -> Nat]
      BY <1>11, <3>2 DEF LoaderShip, TrucksTyped
    <3>4. QED
      BY <1>11, <3>3 DEF LoaderShip, TrucksTyped, NextType, Goto
  <2>3. PcTyped'
    BY <1>11
       DEF LoaderShip, PcTyped, Goto, NextType, PorterLabels, LoaderLabels, SectionLabels
  <2>4. LocalsTyped'
    BY <1>11, FirstAndNextType, FirstAndNextTruck
       DEF LoaderShip, LocalsTyped, Goto, NextType, PcTyped, TrucksTyped
  <2>5. QED
    BY <2>1, <2>2, <2>3, <2>4
<1>12. CASE LoaderCompare(l)
  <2>1. PcTyped'
    BY <1>12
       DEF LoaderCompare, PcTyped, Goto, NextType, PorterLabels, LoaderLabels, SectionLabels
  <2>2. LocalsTyped'
    <3>1. kind' = kind \/ kind' = [kind EXCEPT ![l] = NextKind(kind[l])]
      BY <1>12 DEF LoaderCompare, NextType, Goto
    <3>2. kind' \in [Carriers -> Types]
      BY <3>1, FirstAndNextType DEF LocalsTyped
    <3>3. UNCHANGED <<hand, save>> /\ reg' = [reg EXCEPT ![l] = 0]
      BY <1>12 DEF LoaderCompare, Forget
    <3>4. QED
      BY <1>12, <3>2, <3>3, FirstAndNextTruck
         DEF LoaderCompare, NextType, Goto, LocalsTyped, PcTyped
  <2>3. QueuesTyped' /\ TrucksTyped'
    BY <1>12 DEF LoaderCompare, QueuesTyped, TrucksTyped
  <2>4. QED
    BY <2>1, <2>2, <2>3
<1>13. CASE LoaderTurn(l)
  <2>1. PcTyped'
    BY <1>13
       DEF LoaderTurn, PcTyped, Goto, PorterLabels, LoaderLabels, SectionLabels
  <2>2. LocalsTyped'
    <3>1. l \in Loaders /\ reg[l] \in Nat /\ reg[l] + 1 \in Trucks
      BY <1>13 DEF LoaderTurn, LocalsTyped
    <3>2. UNCHANGED <<kind, hand, save>>
      BY <1>13 DEF LoaderTurn
    <3>3. CASE pc' = [pc EXCEPT ![l] = "advance"] /\ reg' = reg
      BY <3>1, <3>2, <3>3 DEF LocalsTyped, PcTyped
    <3>4. CASE pc' = [pc EXCEPT ![l] = "reset"] /\ reg' = [reg EXCEPT ![l] = 0]
      BY <3>1, <3>2, <3>4 DEF LocalsTyped, PcTyped
    <3>5. CASE /\ reg[l] + 1 # NumTrucks
               /\ pc' = pc /\ reg' = [reg EXCEPT ![l] = reg[l] + 1]
      <4>1. reg[l] + 1 + 1 \in Trucks
        BY <3>1, <3>5, FirstAndNextTruck
      <4>2. QED
        BY <3>1, <3>2, <3>5, <4>1 DEF LocalsTyped, PcTyped
    <3>6. QED
      BY <1>13, <3>3, <3>4, <3>5 DEF LoaderTurn, Goto, Forget
  <2>3. QueuesTyped' /\ TrucksTyped'
    BY <1>13 DEF LoaderTurn, QueuesTyped, TrucksTyped
  <2>4. QED
    BY <2>1, <2>2, <2>3
<1>14. CASE LoaderAdvance(l)
  <2>1. TrucksTyped'
    <3>1. reg[l] + 1 \in Trucks
      BY <1>14 DEF LoaderAdvance, LocalsTyped
    <3>2. G_Trucks_Order' \in Trucks /\ switched' \in BOOLEAN
      <4>1. CASE reg[l] + 1 = NumTrucks
        BY <1>14, <4>1, FirstAndNextTruck DEF LoaderAdvance, TrucksTyped
      <4>2. CASE reg[l] + 1 # NumTrucks
        <5>1. G_Trucks_Order' = reg[l] + 2 /\ switched' = TRUE /\ reg[l] \in Nat
          BY <1>14, <4>2 DEF LoaderAdvance, LocalsTyped, Carriers
        <5>2. reg[l] + 1 + 1 \in Trucks /\ reg[l] + 1 + 1 = reg[l] + 2
          BY <3>1, <4>2, <5>1, FirstAndNextTruck
        <5>3. QED
          BY <5>1, <5>2 DEF TrucksTyped
      <4>3. QED
        BY <4>1, <4>2
    <3>3. UNCHANGED <<truckQ, truckMutex, truckCount, torn, delivered>>
      BY <1>14 DEF LoaderAdvance
    <3>4. QED
      BY <3>2, <3>3 DEF TrucksTyped
  <2>2. PcTyped'
    BY <1>14
       DEF LoaderAdvance, PcTyped, Goto, PorterLabels, LoaderLabels, SectionLabels
  <2>3. LocalsTyped'
    BY <1>14, FirstAndNextTruck
       DEF LoaderAdvance, LocalsTyped, Goto, PcTyped, TrucksTyped, Forget
  <2>4. QueuesTyped'
    BY <1>14 DEF LoaderAdvance, QueuesTyped
  <2>5. QED
    BY <2>1, <2>2, <2>3, <2>4
<1>15. CASE LoaderReset(l)
  <2>1. TrucksTyped'
    BY <1>15
       DEF LoaderReset, TrucksTyped, LocalsTyped
  <2>2. PcTyped'
    BY <1>15
       DEF LoaderReset, PcTyped, Goto, NextType, PorterLabels, LoaderLabels, SectionLabels
  <2>3. LocalsTyped'
    BY <1>15, FirstAndNextType, FirstAndNextTruck
       DEF LoaderReset, LocalsTyped, Goto, NextType, PcTyped, TrucksTyped
  <2>4. QueuesTyped'
    BY <1>15 DEF LoaderReset, QueuesTyped
  <2>5. QED
    BY <2>1, <2>2, <2>3, <2>4
<1>16. CASE LoaderLeave(l)
  <2>1. TrucksTyped'
    BY <1>16
       DEF LoaderLeave, TrucksTyped, LocalsTyped
  <2>2. PcTyped'
    BY <1>16
       DEF LoaderLeave, PcTyped, Goto, Restart, PorterLabels, LoaderLabels, SectionLabels
  <2>3. LocalsTyped'
    BY <1>16, FirstAndNextType, FirstAndNextTruck
       DEF LoaderLeave, LocalsTyped, Goto, Restart, PcTyped, TrucksTyped
  <2>4. QueuesTyped'
    BY <1>16 DEF LoaderLeave, QueuesTyped
  <2>5. QED
    BY <2>1, <2>2, <2>3, <2>4
<1>17. QED
  BY <1>1, <1>2, <1>3, <1>4, <1>5, <1>6, <1>7, <1>8, <1>8a, <1>9, <1>10, <1>11,
     <1>12, <1>13, <1>14, <1>15, <1>16 DEF LoaderStep

\* TypeOK is inductive.
LEMMA NextTypeOK == TypeOK /\ [Next]_vars => TypeOK'
<1> SUFFICES ASSUME TypeOK, [Next]_vars PROVE TypeOK'
  OBVIOUS
<1>1. CASE Next
  BY <1>1, FillerStepTypeOK, PorterStepTypeOK, LoaderStepTypeOK DEF Next
<1>2. CASE UNCHANGED vars
  BY <1>2 DEF TypeOK, QueuesTyped, TrucksTyped, PcTyped, LocalsTyped,
              vars, fillVars, queueVars, truckVars, turnVars, localVars
<1>3. QED
  BY <1>1, <1>2

\* No thread ever takes a variable out of its type.
THEOREM TypeCorrect == Spec => []TypeOK
BY InitTypeOK, NextTypeOK, PTL DEF Spec

-----------------------------------------------------------------------------
(* The boxes of a type reach the storage area in the order they were filled *)

\* The length and the elements of a queue with one box more.
LEMMA AppendFacts ==
  ASSUME NEW S, NEW q \in Seq(S), NEW x \in S
  PROVE  /\ Append(q, x) \in Seq(S) /\ Append(q, x) # <<>>
         /\ DOMAIN q = 1..Len(q) /\ Len(q) \in Nat
         /\ DOMAIN Append(q, x) = 1..(Len(q) + 1)
         /\ \A i \in DOMAIN q : Append(q, x)[i] = q[i]
         /\ Append(q, x)[Len(q) + 1] = x
OBVIOUS

\* A queue that received a box is not empty.
LEMMA AppendNotEmpty ==
  \A S : \A q \in Seq(S) : \A x \in S : Append(q, x) # <<>>
BY AppendFacts

\* A box of the longer queue is the new one or was in the queue.
LEMMA ElementOfAppend ==
  ASSUME NEW S, NEW q \in Seq(S), NEW x \in S
  PROVE  /\ Append(q, x) # <<>>
         /\ \A i \in DOMAIN Append(q, x) :
              \/ i \in DOMAIN q /\ Append(q, x)[i] = q[i]
              \/ Append(q, x)[i] = x
<1>1. \A i \in DOMAIN Append(q, x) : i \in DOMAIN q \/ i = Len(q) + 1
  BY AppendFacts
<1>2. QED
  BY <1>1, AppendFacts

\* The length and the elements of a queue without its first box.
LEMMA TailFacts ==
  ASSUME NEW S, NEW q \in Seq(S), q # <<>>
  PROVE  /\ Head(q) = q[1] /\ 1 \in DOMAIN q
         /\ DOMAIN q = 1..Len(q) /\ Len(q) \in Nat
         /\ \A i \in DOMAIN Tail(q) : i \in Nat /\ i >= 1
         /\ \A i \in DOMAIN Tail(q) : i + 1 \in DOMAIN q /\ Tail(q)[i] = q[i + 1]
OBVIOUS

\* A box behind all others keeps a queue in order.
LEMMA IncreasingAppend ==
  ASSUME NEW S, NEW q \in Seq(S), NEW x \in S, Increasing(q),
         \A i \in DOMAIN q : q[i][2] < x[2]
  PROVE  Increasing(Append(q, x))
<1>1. SUFFICES ASSUME NEW i \in DOMAIN Append(q, x), NEW j \in DOMAIN Append(q, x), i < j
               PROVE  Append(q, x)[i][2] < Append(q, x)[j][2]
  BY DEF Increasing
<1>2. i \in DOMAIN q /\ (j \in DOMAIN q \/ j = Len(q) + 1)
  BY <1>1, AppendFacts
<1>3. QED
  BY <1>2, <1>1, AppendFacts DEF Increasing

\* A queue without its first box is in order, behind that box.
LEMMA IncreasingTail ==
  ASSUME NEW S, NEW q \in Seq(S), q # <<>>, Increasing(q)
  PROVE  /\ Increasing(Tail(q))
         /\ \A i \in DOMAIN Tail(q) : Head(q)[2] < Tail(q)[i][2]
<1>1. ASSUME NEW i \in DOMAIN Tail(q), NEW j \in DOMAIN Tail(q), i < j
      PROVE  Tail(q)[i][2] < Tail(q)[j][2]
  BY <1>1, TailFacts DEF Increasing
<1>2. ASSUME NEW i \in DOMAIN Tail(q) PROVE Head(q)[2] < Tail(q)[i][2]
  BY TailFacts DEF Increasing
<1>3. QED
  BY <1>1, <1>2 DEF Increasing

\* At the start nothing is in the pipeline.
LEMMA InitOrderInv == Init => OrderInv
BY ThreadsAssumption, FirstAndNextType
   DEF Init, OrderInv, FillMutexHeld, PorterInside, PorterCarries, Numbered, InOrder,
       Increasing, HandOrder, PipelineOrder, InHand, Carriers, NoBox, Types

\* What OrderInv reads of the state of the porters.
PortersUntouched ==
  \A p \in Porters : pc'[p] = pc[p] /\ kind'[p] = kind[p] /\ hand'[p] = hand[p]

\* Only the porter at work on a type has a box of that type in hand.
LEMMA CarrierOfType ==
  ASSUME OrderInv, NEW s \in Types, NEW q \in InHand(s)
  PROVE  q \in Porters /\ PorterInside(q, s) /\ pc[q] = "put"
<1>1. q \in Porters /\ hand[q][1] = s
  BY DEF InHand
<1>2. NoBox[1] = 0 /\ 0 \notin Types
  BY DEF NoBox, Types
<1>3. pc[q] = "put"
  BY <1>1, <1>2 DEF OrderInv, PorterCarries
<1>4. QED
  BY <1>1, <1>3 DEF OrderInv, PorterCarries, PorterInside

\* A filled box has the largest number of its type, behind all others.
LEMMA PackKeepsOrder ==
  ASSUME TypeOK, OrderInv, NEW t \in Types, FillerPack(t)
  PROVE  OrderInv'
<1> DEFINE b == <<t, made[t] + 1>>
<1> USE DEF TypeOK, QueuesTyped
<1>1. /\ fillQ' = [fillQ EXCEPT ![t] = Append(fillQ[t], b)]
      /\ made' = [made EXCEPT ![t] = made[t] + 1]
      /\ UNCHANGED <<fillMutex, storageQ, pc, kind, hand>>
  BY DEF FillerPack, queueVars, localVars
<1>2. b \in Boxes /\ b[1] = t /\ b[2] = made[t] + 1 /\ made[t] \in Nat
  BY DEF Boxes
<1>3. /\ fillQ[t] \in Seq(Boxes) /\ fillQ'[t] = Append(fillQ[t], b)
      /\ made'[t] = made[t] + 1
      /\ \A s \in Types \ {t} : fillQ'[s] = fillQ[s] /\ made'[s] = made[s]
  BY <1>1
<1>4. /\ \A i \in DOMAIN fillQ'[t] :
           \/ i \in DOMAIN fillQ[t] /\ fillQ'[t][i] = fillQ[t][i]
           \/ fillQ'[t][i] = b
      /\ fillQ'[t] # <<>>
  <2> HIDE DEF b
  <2>1. /\ Append(fillQ[t], b) # <<>>
        /\ \A i \in DOMAIN Append(fillQ[t], b) :
             \/ i \in DOMAIN fillQ[t] /\ Append(fillQ[t], b)[i] = fillQ[t][i]
             \/ Append(fillQ[t], b)[i] = b
    <3>1. fillQ[t] \in Seq(Boxes) /\ b \in Boxes
      BY <1>2, <1>3
    <3>2. QED
      BY <3>1, ElementOfAppend, Zenon
  <2>2. QED
    BY <1>3, <2>1
<1>5. FillMutexHeld'
  BY <1>1 DEF OrderInv, FillMutexHeld, PorterInside
<1>6. PorterCarries'
  BY <1>1, <1>3, <1>4 DEF OrderInv, PorterCarries, LocalsTyped, Carriers
<1>7. Numbered'
  <2>1. ASSUME NEW s \in Types
        PROVE  /\ \A i \in DOMAIN fillQ'[s] :
                    fillQ'[s][i][1] = s /\ fillQ'[s][i][2] <= made'[s]
               /\ \A i \in DOMAIN storageQ'[s] : storageQ'[s][i] \in Boxes
               /\ \A i \in DOMAIN storageQ'[s] : storageQ'[s][i][2] <= made'[s]
               /\ \A p \in InHand(s)' : hand'[p][2] <= made'[s]
    <3> USE DEF OrderInv, Numbered, InHand
    <3>1. CASE s # t
      BY <1>1, <1>3, <3>1
    <3>2. CASE s = t
      <4>1. \A i \in DOMAIN fillQ[t] : fillQ[t][i] \in Boxes
        BY <1>3
      <4>2. \A p \in InHand(t) : hand[p][2] \in Nat
        BY DEF LocalsTyped, Carriers, Boxes, NoBox, Types
      <4>3. QED
        <5>1. PICK n \in Nat : n = made[t]
          OBVIOUS
        <5>2. b = <<t, n + 1>> /\ made'[t] = n + 1
          BY <1>2, <1>3, <5>1
        <5>3. \A i \in DOMAIN fillQ'[t] : fillQ'[t][i][1] = t /\ fillQ'[t][i][2] <= n + 1
          <6>1. \A i \in DOMAIN fillQ[t] : /\ fillQ[t][i][1] = t /\ fillQ[t][i][2] \in Nat
                                           /\ fillQ[t][i][2] <= n
            BY <4>1, <5>1 DEF Boxes
          <6>2. ASSUME NEW i \in DOMAIN fillQ'[t]
                PROVE  fillQ'[t][i][1] = t /\ fillQ'[t][i][2] <= n + 1
            <7>1. PICK x : x = fillQ'[t][i]
              OBVIOUS
            <7>2. x = <<t, n + 1>> \/ (x[1] = t /\ x[2] \in Nat /\ x[2] <= n)
              BY <1>4, <5>2, <6>1, <7>1, Zenon
            <7>3. QED
              BY ONLY n \in Nat, <7>1, <7>2
          <6>3. QED
            BY <6>2
        <5>4. \A i \in DOMAIN storageQ[t] : /\ storageQ[t][i] \in Boxes
                                            /\ storageQ[t][i][2] \in Nat
                                            /\ storageQ[t][i][2] <= n
          BY <5>1 DEF Boxes
        <5>5. \A p \in InHand(t)' : hand'[p][2] <= n + 1
          BY <1>1, <4>2, <5>1
        <5>6. QED
          BY <1>1, <3>2, <5>2, <5>3, <5>4, <5>5
    <3>3. QED
      BY <3>1, <3>2
  <2>2. QED
    BY <2>1 DEF Numbered
<1>8. InOrder'
  <2>1. ASSUME NEW s \in Types
        PROVE  Increasing(fillQ'[s]) /\ Increasing(storageQ'[s])
               /\ HandOrder(s)' /\ PipelineOrder(s)'
    <3> USE DEF OrderInv, InOrder, HandOrder, PipelineOrder, InHand
    <3>1. CASE s # t
      BY <1>1, <1>3, <3>1
    <3>2. CASE s = t
      <4>1. \A i \in DOMAIN fillQ[t] : fillQ[t][i][2] < b[2]
        <5>1. \A i \in DOMAIN fillQ[t] : fillQ[t][i] \in Boxes
          BY <1>3
        <5>2. QED
          BY <1>2, <5>1 DEF Numbered, Boxes
      <4>2. Increasing(fillQ'[t])
        BY <1>2, <1>3, <4>1, IncreasingAppend
      <4>3. \A i \in DOMAIN storageQ[t] : storageQ[t][i][2] < b[2]
        BY <1>2 DEF Numbered, Boxes
      <4>4. \A p \in InHand(t) : hand[p][2] < b[2]
        <5>1. \A p \in InHand(t) : hand[p] \in Boxes
          BY DEF LocalsTyped, Carriers, NoBox, Types
        <5>2. QED
          BY <1>2, <5>1 DEF Numbered, Boxes
      <4>5. QED
        BY <1>1, <1>4, <3>2, <4>2, <4>3, <4>4
    <3>3. QED
      BY <3>1, <3>2
  <2>2. QED
    BY <2>1 DEF InOrder
<1>9. QED
  BY <1>5, <1>6, <1>7, <1>8 DEF OrderInv

\* A porter enters the section of a type only when nobody is in it.
LEMMA EnterKeepsOrder ==
  ASSUME TypeOK, OrderInv, NEW p \in Porters, PorterEnter(p)
  PROVE  OrderInv'
<1> DEFINE t == kind[p]
<1> USE DEF TypeOK, QueuesTyped, LocalsTyped, PcTyped, Carriers
<1>1. t \in Types /\ UNCHANGED <<made, fillQ, storageQ, hand>>
      /\ pc[p] = "enter" /\ fillMutex[t] = None
  BY DEF PorterEnter, fillVars
<1>2. CASE fillQ[t] = <<>>
  <2>1. kind' = [kind EXCEPT ![p] = NextKind(t)] /\ UNCHANGED <<fillMutex, pc>>
    BY <1>2 DEF PorterEnter
  <2>2. FillMutexHeld'
    BY <1>1, <2>1 DEF OrderInv, FillMutexHeld, PorterInside
  <2>3. PorterCarries'
    BY <1>1, <2>1 DEF OrderInv, PorterCarries
  <2>4. QED
    BY <1>1, <2>1, <2>2, <2>3 DEF OrderInv, Numbered, InOrder, HandOrder, PipelineOrder, InHand
<1>3. CASE fillQ[t] # <<>>
  <2>1. /\ fillMutex' = [fillMutex EXCEPT ![t] = p]
        /\ pc' = [pc EXCEPT ![p] = "load"] /\ UNCHANGED kind
    BY <1>3 DEF PorterEnter, Goto
  <2>2. FillMutexHeld'
    <3>1. p # None
      BY ThreadsAssumption
    <3>2. ASSUME NEW q \in Porters, NEW s \in Types
          PROVE  fillMutex'[s] = q <=> PorterInside(q, s)'
      <4>1. CASE q = p
        BY <1>1, <2>1, <3>1, <4>1 DEF OrderInv, FillMutexHeld, PorterInside
      <4>2. CASE q # p
        BY <1>1, <2>1, <3>1, <4>2, ThreadsAssumption
           DEF OrderInv, FillMutexHeld, PorterInside
      <4>3. QED
        BY <4>1, <4>2
    <3>3. QED
      BY <3>2 DEF FillMutexHeld
  <2>3. PorterCarries'
    BY <1>1, <1>3, <2>1 DEF OrderInv, PorterCarries
  <2>4. QED
    BY <1>1, <2>1, <2>2, <2>3 DEF OrderInv, Numbered, InOrder, HandOrder, PipelineOrder, InHand
<1>4. QED
  BY <1>2, <1>3

\* What a porter does without a box of the pipeline changes no order.
LEMMA LoadKeepsOrder ==
  ASSUME TypeOK, OrderInv, NEW p \in Porters, PorterLoadCount(p) \/ PorterStoreCount(p)
  PROVE  OrderInv'
<1> USE DEF TypeOK, QueuesTyped, LocalsTyped, PcTyped, Carriers
<1>1. /\ UNCHANGED <<made, fillQ, fillMutex, storageQ, hand, kind>>
      /\ \/ pc[p] = "load" /\ pc' = [pc EXCEPT ![p] = "store"]
         \/ pc[p] = "store" /\ pc' = [pc EXCEPT ![p] = "pick"]
  BY DEF PorterLoadCount, PorterStoreCount, fillVars, queueVars, Goto
<1>2. FillMutexHeld'
  BY <1>1 DEF OrderInv, FillMutexHeld, PorterInside
<1>3. PorterCarries'
  BY <1>1 DEF OrderInv, PorterCarries
<1>4. QED
  BY <1>1, <1>2, <1>3 DEF OrderInv, Numbered, InOrder, HandOrder, PipelineOrder, InHand

\* The porter takes the first box of a queue, in front of the rest.
LEMMA PickKeepsOrder ==
  ASSUME TypeOK, OrderInv, NEW p \in Porters, PorterPick(p)
  PROVE  OrderInv'
<1> PICK t \in Types : t = kind[p]
  BY DEF TypeOK, LocalsTyped, Carriers
<1> DEFINE b == Head(fillQ[t])
<1> USE DEF TypeOK, QueuesTyped, LocalsTyped, PcTyped, Carriers
<1>1. pc[p] = "pick" /\ t \in Types /\ fillQ[t] # <<>> /\ fillQ[t] \in Seq(Boxes)
  BY DEF PorterPick, OrderInv, PorterCarries
<1>2. /\ UNCHANGED <<made, fillMutex, storageQ, kind>>
      /\ pc' = [pc EXCEPT ![p] = "put"]
      /\ hand' = [hand EXCEPT ![p] = b]
      /\ fillQ' = [fillQ EXCEPT ![t] = Tail(fillQ[t])]
  BY <1>1 DEF PorterPick, fillVars, Goto
<1>3. /\ b \in Boxes /\ 1 \in DOMAIN fillQ[t] /\ b = fillQ[t][1]
      /\ \A i \in DOMAIN fillQ'[t] : \E j \in DOMAIN fillQ[t] : fillQ'[t][i] = fillQ[t][j]
      /\ \A s \in Types \ {t} : fillQ'[s] = fillQ[s]
      /\ hand'[p] = b /\ \A c \in Carriers \ {p} : hand'[c] = hand[c]
  BY <1>1, <1>2, TailFacts
<1>4. b[1] = t /\ b[2] <= made[t]
  BY <1>1, <1>3 DEF OrderInv, Numbered
<1>5. \A q \in Porters \ {p} : PorterInside(q, t) => FALSE
  BY <1>1 DEF OrderInv, FillMutexHeld, PorterInside
<1>6. FillMutexHeld'
  BY <1>1, <1>2 DEF OrderInv, FillMutexHeld, PorterInside
<1>7. PorterCarries'
  <2>1. ASSUME NEW q \in Porters
        PROVE  /\ pc'[q] \in {"load", "store", "pick"} => fillQ'[kind'[q]] # <<>>
               /\ pc'[q] = "put" => hand'[q] \in Boxes /\ hand'[q][1] = kind'[q]
               /\ pc'[q] # "put" => hand'[q] = NoBox
    <3>1. CASE q = p
      BY <1>2, <1>3, <1>4, <3>1
    <3>2. CASE q # p
      BY <1>2, <1>3, <1>5, <3>2 DEF OrderInv, PorterCarries, PorterInside
    <3>3. QED
      BY <3>1, <3>2
  <2>2. QED
    BY <2>1 DEF PorterCarries
\* No other porter has a box of this type in hand.
<1>8. \A q \in InHand(t)' : q = p
  <2>1. SUFFICES ASSUME NEW q \in Porters, hand'[q][1] = t, q # p PROVE FALSE
    BY DEF InHand
  <2>2. q \in InHand(t)
    BY <2>1, <1>3 DEF InHand
  <2>3. QED
    BY <2>1, <2>2, <1>1, <1>5, CarrierOfType
<1>9. \A s \in Types \ {t} : InHand(s)' = InHand(s) /\ p \notin InHand(s)
  <2>1. SUFFICES ASSUME NEW s \in Types \ {t}
                 PROVE  InHand(s)' = InHand(s) /\ p \notin InHand(s)
    OBVIOUS
  <2>2. p \notin InHand(s)
    BY <1>1, CarrierOfType
  <2>3. p \notin InHand(s)'
    BY <1>3, <1>4, <2>1 DEF InHand
  <2>4. \A q \in Porters \ {p} : hand'[q] = hand[q]
    BY <1>3
  <2>5. \A q \in Porters : q \in InHand(s)' <=> q \in InHand(s)
    BY <2>2, <2>3, <2>4 DEF InHand
  <2>6. InHand(s) \subseteq Porters /\ InHand(s)' \subseteq Porters
    BY DEF InHand
  <2>7. QED
    BY <2>2, <2>5, <2>6
<1>10. Numbered'
  <2>1. ASSUME NEW s \in Types
        PROVE  \A i \in DOMAIN fillQ'[s] : fillQ'[s][i][1] = s /\ fillQ'[s][i][2] <= made'[s]
    BY <1>2, <1>3 DEF OrderInv, Numbered
  <2>2. ASSUME NEW s \in Types
        PROVE  \A i \in DOMAIN storageQ'[s] :
                 storageQ'[s][i] \in Boxes /\ storageQ'[s][i][2] <= made'[s]
    BY <1>2 DEF OrderInv, Numbered
  <2>3. ASSUME NEW s \in Types, NEW q \in InHand(s)'
        PROVE  hand'[q][2] <= made'[s]
    <3>1. CASE s = t
      BY <1>2, <1>3, <1>4, <1>8, <3>1
    <3>2. CASE s # t
      <4>1. q \in InHand(s) /\ hand'[q] = hand[q]
        BY <1>3, <1>9, <3>2 DEF InHand
      <4>2. hand[q][2] <= made[s]
        BY <4>1 DEF OrderInv, Numbered
      <4>3. QED
        BY <1>2, <4>1, <4>2
    <3>3. QED
      BY <3>1, <3>2
  <2>4. QED
    BY <2>1, <2>2, <2>3 DEF Numbered
<1>11. InOrder'
  <2>1. ASSUME NEW s \in Types
        PROVE  Increasing(fillQ'[s]) /\ Increasing(storageQ'[s])
               /\ HandOrder(s)' /\ PipelineOrder(s)'
    <3>1. CASE s # t
      BY <1>2, <1>3, <1>9, <3>1 DEF OrderInv, InOrder, HandOrder, PipelineOrder, InHand
    <3>2. CASE s = t
      <4>1. Increasing(fillQ'[t]) /\ \A i \in DOMAIN fillQ'[t] : b[2] < fillQ'[t][i][2]
        BY <1>1, <1>2, IncreasingTail DEF OrderInv, InOrder
      <4>2. HandOrder(t)'
        <5>1. \A i \in DOMAIN storageQ[t] : storageQ[t][i][2] < b[2]
          BY <1>3 DEF OrderInv, InOrder, PipelineOrder
        <5>2. \A q \in InHand(t)' : hand'[q] = b
          BY <1>3, <1>8
        <5>3. QED
          BY <1>2, <4>1, <5>1, <5>2 DEF HandOrder
      <4>3. PipelineOrder(t)'
        <5>1. \A i \in DOMAIN storageQ[t], j \in DOMAIN fillQ[t] :
                storageQ[t][i][2] < fillQ[t][j][2]
          BY DEF OrderInv, InOrder, PipelineOrder
        <5>2. SUFFICES ASSUME NEW i \in DOMAIN storageQ[t], NEW k \in DOMAIN fillQ'[t]
                       PROVE  storageQ[t][i][2] < fillQ'[t][k][2]
          BY <1>2 DEF PipelineOrder
        <5>3. PICK j \in DOMAIN fillQ[t] : fillQ'[t][k] = fillQ[t][j]
          BY <1>3
        <5>4. QED
          BY <5>1, <5>3
      <4>4. QED
        BY <1>2, <3>2, <4>1, <4>2, <4>3 DEF OrderInv, InOrder
    <3>3. QED
      BY <3>1, <3>2
  <2>2. QED
    BY <2>1 DEF InOrder
<1>12. QED
  BY <1>6, <1>7, <1>10, <1>11 DEF OrderInv

\* The porter puts its box behind the ones that came before.
LEMMA PutKeepsOrder ==
  ASSUME TypeOK, OrderInv, NEW p \in Porters, PorterPut(p)
  PROVE  OrderInv'
<1> PICK t \in Types : t = kind[p]
  BY DEF TypeOK, LocalsTyped, Carriers
<1> PICK b \in Boxes : b = hand[p] /\ b[1] = t
  BY DEF PorterPut, OrderInv, PorterCarries
<1> USE DEF TypeOK, QueuesTyped, LocalsTyped, PcTyped, Carriers
<1>1. /\ UNCHANGED <<made, fillQ>>
      /\ pc[p] = "put" /\ pc' = [pc EXCEPT ![p] = "enter"]
      /\ kind' = [kind EXCEPT ![p] = NextKind(t)]
      /\ hand' = [hand EXCEPT ![p] = NoBox]
      /\ fillMutex' = [fillMutex EXCEPT ![t] = None]
      /\ storageQ' = [storageQ EXCEPT ![t] = Append(storageQ[t], b)]
  BY DEF PorterPut, fillVars, Goto
<1>2. p \in InHand(t) /\ NoBox[1] = 0 /\ 0 \notin Types
  BY DEF InHand, NoBox, Types
<1>3. storageQ[t] \in Seq(Boxes \cup {NoBox})
  OBVIOUS
<1>4. /\ \A i \in DOMAIN storageQ'[t] :
           \/ i \in DOMAIN storageQ[t] /\ storageQ'[t][i] = storageQ[t][i]
           \/ storageQ'[t][i] = b
      /\ \A s \in Types \ {t} : storageQ'[s] = storageQ[s]
  <2>1. \A i \in DOMAIN Append(storageQ[t], b) :
          \/ i \in DOMAIN storageQ[t] /\ Append(storageQ[t], b)[i] = storageQ[t][i]
          \/ Append(storageQ[t], b)[i] = b
    <3> DEFINE S == Boxes \cup {NoBox}
    <3>1. storageQ[t] \in Seq(S) /\ b \in S
      BY <1>3
    <3> HIDE DEF S
    <3>2. QED
      BY <3>1, ElementOfAppend
  <2>2. QED
    BY <1>1, <2>1
<1>5. PorterInside(p, t) /\ \A q \in Porters \ {p} : ~PorterInside(q, t)
  BY <1>1 DEF OrderInv, FillMutexHeld, PorterInside
<1>6. FillMutexHeld'
  <2>1. ASSUME NEW q \in Porters, NEW s \in Types
        PROVE  fillMutex'[s] = q <=> PorterInside(q, s)'
    <3>1. q # None
      BY ThreadsAssumption
    <3>2. CASE q = p
      BY <1>1, <1>5, <3>1, <3>2 DEF OrderInv, FillMutexHeld, PorterInside
    <3>3. CASE q # p
      BY <1>1, <1>5, <3>1, <3>3 DEF OrderInv, FillMutexHeld, PorterInside
    <3>4. QED
      BY <3>2, <3>3
  <2>2. QED
    BY <2>1 DEF FillMutexHeld
<1>7. PorterCarries'
  BY <1>1 DEF OrderInv, PorterCarries
\* The box goes from the hand to the end of the queue; no hand gets a box.
<1>8. \A s \in Types : \A q \in InHand(s)' : q \in InHand(s) /\ hand'[q] = hand[q]
  <2>1. SUFFICES ASSUME NEW s \in Types, NEW q \in Porters, hand'[q][1] = s
                 PROVE  hand[q][1] = s /\ hand'[q] = hand[q]
    BY DEF InHand
  <2>2. q # p
    BY <1>1, <1>2, <2>1
  <2>3. QED
    BY <1>1, <2>1, <2>2
<1>9. InHand(t)' = {}
  <2>1. SUFFICES ASSUME NEW q \in InHand(t)' PROVE FALSE
    OBVIOUS
  <2>2. q \in InHand(t) /\ hand'[q] = hand[q]
    BY <1>8, <2>1
  <2>3. q = p
    BY <1>5, <2>2, CarrierOfType
  <2>4. QED
    BY <1>1, <1>2, <2>2, <2>3
<1>10. b[2] <= made[t]
  BY <1>2 DEF OrderInv, Numbered
<1>11. Numbered'
  <2>1. ASSUME NEW s \in Types
        PROVE  /\ \A i \in DOMAIN storageQ'[s] : storageQ'[s][i] \in Boxes
               /\ \A i \in DOMAIN storageQ'[s] : storageQ'[s][i][2] <= made[s]
    <3>1. CASE s # t
      BY <1>4, <3>1 DEF OrderInv, Numbered
    <3>2. CASE s = t
      BY <1>4, <1>10, <3>2 DEF OrderInv, Numbered
    <3>3. QED
      BY <3>1, <3>2
  <2>2. QED
    BY <1>1, <1>8, <2>1 DEF OrderInv, Numbered
<1>12. InOrder'
  <2>1. ASSUME NEW s \in Types
        PROVE  Increasing(storageQ'[s]) /\ HandOrder(s)' /\ PipelineOrder(s)'
    <3>1. CASE s # t
      <4>1. storageQ'[s] = storageQ[s] /\ fillQ' = fillQ
        BY <1>1, <1>4, <3>1
      <4>2. QED
        BY <1>8, <4>1 DEF OrderInv, InOrder, HandOrder, PipelineOrder
    <3>2. CASE s = t
      <4>1. /\ \A i \in DOMAIN storageQ[t] : storageQ[t][i][2] < b[2]
            /\ \A j \in DOMAIN fillQ[t] : b[2] < fillQ[t][j][2]
        BY <1>2 DEF OrderInv, InOrder, HandOrder
      <4>2. Increasing(Append(storageQ[t], b))
        <5>1. b \in Boxes \cup {NoBox} /\ Increasing(storageQ[t])
          BY DEF OrderInv, InOrder
        <5>2. QED
          BY <1>3, <4>1, <5>1, IncreasingAppend, Zenon
      <4>3. PipelineOrder(t)'
        BY <1>1, <1>4, <4>1 DEF OrderInv, InOrder, PipelineOrder
      <4>4. QED
        BY <1>1, <1>9, <3>2, <4>2, <4>3 DEF HandOrder
    <3>3. QED
      BY <3>1, <3>2
  <2>2. QED
    BY <1>1, <2>1 DEF OrderInv, InOrder
<1>13. QED
  BY <1>6, <1>7, <1>11, <1>12 DEF OrderInv

\* A loader only takes the first box of a storage queue.
LEMMA LoadersKeepOrder ==
  ASSUME TypeOK, OrderInv, NEW l \in Loaders, LoaderStep(l)
  PROVE  OrderInv'
<1> USE DEF TypeOK, QueuesTyped, LocalsTyped, PcTyped, Carriers
\* Loaders only take boxes from the front of the storage queues.
<1>1. /\ UNCHANGED <<made, fillQ, fillMutex>>
      /\ PortersUntouched
      /\ \A s \in Types :
           \/ storageQ'[s] = storageQ[s]
           \/ storageQ[s] # <<>> /\ storageQ'[s] = Tail(storageQ[s])
  <2>1. l \notin Porters
    BY ThreadsAssumption
  <2> USE DEF PortersUntouched, fillVars, queueVars, Goto
  <2>2. CASE LoaderReadOrder(l)
    BY <2>1, <2>2 DEF LoaderReadOrder
  <2>3. CASE LoaderLock(l)
    BY <2>1, <2>3 DEF LoaderLock
  <2>4. CASE LoaderSave(l)
    BY <2>1, <2>4 DEF LoaderSave
  <2>5. CASE LoaderCheck(l)
    BY <2>1, <2>5 DEF LoaderCheck
  <2>6. CASE LoaderStock(l)
    BY <2>1, <2>6 DEF LoaderStock, NextType
  <2>7. CASE LoaderTake(l)
    BY <2>1, <2>7 DEF LoaderTake
  <2>8. CASE LoaderRelease(l)
    BY <2>1, <2>8 DEF LoaderRelease
  <2>9. CASE LoaderEnqueue(l)
    BY <2>1, <2>9 DEF LoaderEnqueue
  <2>9a. CASE LoaderAppend(l)
    BY <2>1, <2>9a DEF LoaderAppend
  <2>10. CASE LoaderLoadCount(l)
    BY <2>1, <2>10 DEF LoaderLoadCount
  <2>11. CASE LoaderStoreCount(l)
    BY <2>1, <2>11 DEF LoaderStoreCount, Restart
  <2>12. CASE LoaderShip(l)
    BY <2>1, <2>12 DEF LoaderShip, NextType
  <2>13. CASE LoaderCompare(l)
    BY <2>1, <2>13 DEF LoaderCompare, NextType
  <2>14. CASE LoaderTurn(l)
    BY <2>1, <2>14 DEF LoaderTurn, Forget
  <2>15. CASE LoaderAdvance(l)
    BY <2>1, <2>15 DEF LoaderAdvance
  <2>16. CASE LoaderReset(l)
    BY <2>1, <2>16 DEF LoaderReset, NextType
  <2>17. CASE LoaderLeave(l)
    BY <2>1, <2>17 DEF LoaderLeave, Restart
  <2>18. QED
    BY <2>2, <2>3, <2>4, <2>5, <2>6, <2>7, <2>8, <2>9, <2>9a, <2>10, <2>11, <2>12,
       <2>13, <2>14, <2>15, <2>16, <2>17 DEF LoaderStep
<1>2. FillMutexHeld' /\ PorterCarries'
  BY <1>1 DEF PortersUntouched, OrderInv, FillMutexHeld, PorterInside, PorterCarries
<1>3. \A s \in Types : InHand(s)' = InHand(s) /\ \A p \in InHand(s) : hand'[p] = hand[p]
  BY <1>1 DEF PortersUntouched, InHand
<1>4. ASSUME NEW s \in Types
      PROVE  \A i \in DOMAIN storageQ'[s] :
               \E j \in DOMAIN storageQ[s] : storageQ'[s][i] = storageQ[s][j]
  <2>1. storageQ[s] \in Seq(Boxes \cup {NoBox})
    OBVIOUS
  <2>2. CASE storageQ'[s] = storageQ[s]
    BY <2>2
  <2>3. CASE storageQ[s] # <<>> /\ storageQ'[s] = Tail(storageQ[s])
    BY <2>1, <2>3, TailFacts
  <2>4. QED
    BY <1>1, <2>2, <2>3
<1>5. \A s \in Types : Increasing(storageQ'[s])
  <2>1. SUFFICES ASSUME NEW s \in Types PROVE Increasing(storageQ'[s])
    OBVIOUS
  <2>2. storageQ[s] \in Seq(Boxes \cup {NoBox}) /\ Increasing(storageQ[s])
    BY DEF OrderInv, InOrder
  <2>3. QED
    BY <1>1, <2>2, IncreasingTail
<1>6. Numbered'
  <2>1. ASSUME NEW s \in Types
        PROVE  \A i \in DOMAIN storageQ'[s] :
                 storageQ'[s][i] \in Boxes /\ storageQ'[s][i][2] <= made[s]
    BY <1>4 DEF OrderInv, Numbered
  <2>2. ASSUME NEW s \in Types
        PROVE  \A p \in InHand(s)' : hand'[p][2] <= made[s]
    <3>1. \A p \in InHand(s) : hand[p][2] <= made[s]
      BY DEF OrderInv, Numbered
    <3>2. QED
      BY <1>3, <3>1
  <2>3. QED
    BY <1>1, <2>1, <2>2 DEF OrderInv, Numbered
<1>7. InOrder'
  <2>1. ASSUME NEW s \in Types PROVE HandOrder(s)'
    <3>1. SUFFICES ASSUME NEW p \in InHand(s)
                   PROVE  /\ \A i \in DOMAIN storageQ'[s] : storageQ'[s][i][2] < hand[p][2]
                          /\ \A j \in DOMAIN fillQ[s] : hand[p][2] < fillQ[s][j][2]
      BY <1>1, <1>3 DEF HandOrder
    <3>2. QED
      BY <1>4 DEF OrderInv, InOrder, HandOrder
  <2>2. ASSUME NEW s \in Types PROVE PipelineOrder(s)'
    BY <1>1, <1>4 DEF OrderInv, InOrder, PipelineOrder
  <2>3. QED
    BY <1>1, <1>5, <2>1, <2>2 DEF OrderInv, InOrder
<1>8. QED
  BY <1>2, <1>6, <1>7 DEF OrderInv

\* OrderInv is inductive, given TypeOK.
LEMMA NextOrderInv == TypeOK /\ OrderInv /\ [Next]_vars => OrderInv'
<1> SUFFICES ASSUME TypeOK, OrderInv, [Next]_vars PROVE OrderInv'
  OBVIOUS
<1> USE DEF OrderInv, FillMutexHeld, PorterInside, PorterCarries, Numbered, InOrder,
            HandOrder, PipelineOrder, InHand
<1>1. CASE UNCHANGED <<made, fillQ, fillMutex, storageQ, pc, kind, hand>>
  BY <1>1 DEF Increasing
<1>2. ASSUME NEW t \in Types, FillerStep(t) PROVE OrderInv'
  <2>1. CASE FillerTest(t) \/ FillerResume(t)
    BY <1>1, <2>1 DEF FillerTest, FillerResume, queueVars, localVars
  <2>2. QED
    BY <1>2, <2>1, PackKeepsOrder DEF FillerStep
<1>3. ASSUME NEW p \in Porters, PorterStep(p) PROVE OrderInv'
  BY <1>3, EnterKeepsOrder, LoadKeepsOrder, PickKeepsOrder, PutKeepsOrder DEF PorterStep
<1>4. CASE UNCHANGED vars
  BY <1>1, <1>4 DEF vars, fillVars, queueVars, localVars
<1>5. QED
  BY <1>2, <1>3, <1>4, LoadersKeepOrder DEF Next

\* The strengthening of InOrder holds in every behaviour.
LEMMA OrderInvHolds == Spec => []OrderInv
<1>1. TypeOK /\ OrderInv /\ [Next]_vars => OrderInv'
  BY NextOrderInv
<1>2. QED
  BY <1>1, InitOrderInv, TypeCorrect, PTL DEF Spec

\* However many porters carry the boxes of a type, the storage area receives
\* them in the order in which they were filled.
THEOREM StorageInOrder == Spec => []InOrder
<1>1. OrderInv => InOrder
  BY DEF OrderInv
<1>2. QED
  BY <1>1, OrderInvHolds, PTL

-----------------------------------------------------------------------------
(* One loader at a time, until the trucks change for the first time         *)

\* At the start no loader has a truck.
LEMMA InitFirstTruckInv == Init => FirstTruckInv
BY ThreadsAssumption DEF Init, FirstTruckInv, InSection, SectionLabels, Carriers, FirstTruck, Inside

\* The order of the trucks has not changed before, and this step does not change it.
LEMMA FirstTruckOnce ==
  ASSUME TypeOK, NEW l \in Loaders, LoaderStep(l), FirstTruck'
  PROVE  FirstTruck /\ ~LoaderAdvance(l)
<1>1. ~LoaderAdvance(l)
  BY DEF LoaderAdvance, FirstTruck
<1>2. UNCHANGED switched
  BY <1>1 DEF LoaderStep, LoaderReadOrder, LoaderLock, LoaderSave, LoaderCheck,
     LoaderStock, LoaderTake, LoaderRelease, LoaderEnqueue, LoaderAppend, LoaderLoadCount,
     LoaderStoreCount, LoaderShip, LoaderCompare, LoaderTurn, LoaderReset, LoaderLeave,
     truckVars, turnVars
<1>3. QED
  BY <1>1, <1>2 DEF FirstTruck

\* Fillers and porters do not touch what the loaders' protocol is about, except
\* that porters add boxes to the storage queues.
LEMMA OthersKeepFirstTruckInv ==
  ASSUME TypeOK, FirstTruckInv,
         UNCHANGED <<truckMutex, turnVars, torn, storageMutex, save>>,
         \A l \in Loaders : pc'[l] = pc[l] /\ reg'[l] = reg[l] /\ kind'[l] = kind[l],
         \A t \in Types : storageQ[t] # <<>> => storageQ'[t] # <<>>
  PROVE  FirstTruckInv'
BY DEF TypeOK, LocalsTyped, Carriers, FirstTruckInv, FirstTruck, Inside, InSection, turnVars

\* A porter keeps the loaders' protocol as it is.
LEMMA PortersKeepFirstTruckInv ==
  ASSUME TypeOK, FirstTruckInv, NEW p \in Porters, PorterStep(p)
  PROVE  FirstTruckInv'
<1> USE DEF TypeOK, QueuesTyped, LocalsTyped, PcTyped, Carriers
<1>1. UNCHANGED <<truckMutex, turnVars, torn, storageMutex, save>>
  BY DEF PorterStep, PorterEnter, PorterLoadCount, PorterStoreCount, PorterPick, PorterPut,
     truckVars, queueVars
<1>2. \A l \in Loaders : l # p
  BY ThreadsAssumption
<1>3. \A l \in Loaders : pc'[l] = pc[l] /\ reg'[l] = reg[l] /\ kind'[l] = kind[l]
  <2> USE DEF Goto, Forget
  <2>1. CASE PorterEnter(p)
    BY <1>2, <2>1 DEF PorterEnter
  <2>2. CASE PorterLoadCount(p) \/ PorterStoreCount(p)
    BY <1>2, <2>2 DEF PorterLoadCount, PorterStoreCount
  <2>3. CASE PorterPick(p)
    BY <1>2, <2>3 DEF PorterPick
  <2>4. CASE PorterPut(p)
    BY <1>2, <2>4 DEF PorterPut
  <2>5. QED
    BY <2>1, <2>2, <2>3, <2>4 DEF PorterStep
<1>4. \A t \in Types : storageQ[t] # <<>> => storageQ'[t] # <<>>
  <2>1. CASE PorterPut(p)
    <3>1. kind[p] \in Types /\ hand[p] \in Boxes \cup {NoBox}
      OBVIOUS
    <3>2. storageQ' = [storageQ EXCEPT ![kind[p]] = Append(storageQ[kind[p]], hand[p])]
      BY <2>1 DEF PorterPut
    <3>3. Append(storageQ[kind[p]], hand[p]) # <<>>
      <4>1. storageQ[kind[p]] \in Seq(Boxes \cup {NoBox})
        BY <3>1
      <4>2. hand[p] \in Boxes \cup {NoBox}
        BY <3>1
      <4>3. QED
        BY ONLY <4>1, <4>2, AppendNotEmpty, Zenon
    <3>4. QED
      BY <3>1, <3>2, <3>3
  <2>2. QED
    BY <2>1 DEF PorterStep, PorterEnter, PorterLoadCount, PorterStoreCount, PorterPick, queueVars
<1>5. QED
  BY <1>1, <1>3, <1>4, OthersKeepFirstTruckInv

\* A loader's step keeps the others out until the trucks change.
LEMMA LoadersKeepFirstTruckInv ==
  ASSUME TypeOK, FirstTruckInv, NEW l \in Loaders, LoaderStep(l)
  PROVE  FirstTruckInv'
<1>1. SUFFICES ASSUME FirstTruck'
      PROVE  /\ G_Trucks_Order' = 1
             /\ \A m \in Loaders :
                  /\ pc'[m] = "lock" => reg'[m] = 1
                  /\ Inside(m)' => truckMutex'[1] = m
                  /\ save'[m] = 1
                  /\ pc'[m] = "take" => storageQ'[kind'[m]] # <<>>
             /\ \A t \in Types : storageMutex'[t] = None
             /\ torn' = {}
  BY DEF FirstTruckInv
<1>2. FirstTruck /\ ~LoaderAdvance(l)
  BY <1>1, FirstTruckOnce
<1>3. /\ G_Trucks_Order = 1
      /\ \A m \in Loaders :
           /\ pc[m] = "lock" => reg[m] = 1
           /\ Inside(m) => truckMutex[1] = m
           /\ save[m] = 1
           /\ pc[m] = "take" => storageQ[kind[m]] # <<>>
      /\ \A t \in Types : storageMutex[t] = None
      /\ torn = {}
  BY <1>2 DEF FirstTruckInv
<1> USE DEF TypeOK, TrucksTyped, LocalsTyped, PcTyped, Carriers, Inside, InSection, SectionLabels,
            Goto, queueVars, truckVars, turnVars
<1> USE <1>3, ThreadsAssumption, FirstAndNextTruck
<1>4. CASE LoaderReadOrder(l)
  BY <1>4 DEF LoaderReadOrder
<1>5. CASE LoaderLock(l)
  BY <1>5 DEF LoaderLock
<1>6. CASE LoaderSave(l)
  BY <1>6 DEF LoaderSave, Forget
<1>7. CASE LoaderCheck(l)
  BY <1>7 DEF LoaderCheck
<1>8. CASE LoaderStock(l)
  <2>1. CASE storageQ[kind[l]] # <<>>
    BY <1>8, <2>1 DEF LoaderStock
  <2>2. CASE storageQ[kind[l]] = <<>>
    BY <1>8, <2>2 DEF LoaderStock, NextType
  <2>3. QED
    BY <2>1, <2>2
<1>9. CASE LoaderTake(l)
  <2>1. /\ storageQ[kind[l]] # <<>> /\ pc' = [pc EXCEPT ![l] = "release"]
        /\ UNCHANGED <<storageMutex, truckMutex, save, reg, kind>>
        /\ pc[l] = "take"
    BY <1>9 DEF LoaderTake
  <2>2. \A m \in Loaders \ {l} : ~Inside(m)
    BY <2>1
  <2>3. \A m \in Loaders :
          /\ pc'[m] = "lock" => reg'[m] = 1
          /\ Inside(m)' => truckMutex'[1] = m
          /\ save'[m] = 1
          /\ pc'[m] # "take"
    BY <2>1, <2>2
  <2>4. UNCHANGED <<G_Trucks_Order, torn>>
    BY <1>9 DEF LoaderTake
  <2>5. QED
    BY <2>1, <2>3, <2>4
<1>10. CASE LoaderRelease(l)
  BY <1>10 DEF LoaderRelease
<1>11. CASE LoaderEnqueue(l)
  <2>1. \A m \in Loaders : ~Inside(m)
    BY <1>11 DEF LoaderEnqueue
  <2>2. torn' = {}
    BY <1>11, <2>1 DEF LoaderEnqueue
  <2>3. QED
    BY <1>11, <2>1, <2>2 DEF LoaderEnqueue
<1>11a. CASE LoaderAppend(l)
  BY <1>11a DEF LoaderAppend
<1>12. CASE LoaderLoadCount(l)
  BY <1>12 DEF LoaderLoadCount
<1>13. CASE LoaderStoreCount(l)
  BY <1>13 DEF LoaderStoreCount, Restart, Forget
<1>14. CASE LoaderShip(l)
  BY <1>14 DEF LoaderShip, NextType
<1>15. CASE LoaderCompare(l)
  BY <1>15 DEF LoaderCompare, NextType, Forget
<1>16. CASE LoaderTurn(l)
  BY <1>16 DEF LoaderTurn, Forget
<1>17. CASE LoaderReset(l)
  BY <1>17 DEF LoaderReset, NextType
<1>18. CASE LoaderLeave(l)
  BY <1>18 DEF LoaderLeave, Restart
<1>19. QED
  BY <1>2, <1>4, <1>5, <1>6, <1>7, <1>8, <1>9, <1>10, <1>11, <1>11a, <1>12, <1>13, <1>14,
     <1>15, <1>16, <1>17, <1>18 DEF LoaderStep

\* FirstTruckInv is inductive, given TypeOK.
LEMMA NextFirstTruckInv == TypeOK /\ FirstTruckInv /\ [Next]_vars => FirstTruckInv'
<1> SUFFICES ASSUME TypeOK, FirstTruckInv, [Next]_vars PROVE FirstTruckInv'
  OBVIOUS
<1>1. ASSUME NEW t \in Types, FillerStep(t) PROVE FirstTruckInv'
  <2>1. /\ UNCHANGED <<truckMutex, turnVars, torn, storageMutex, save>>
        /\ UNCHANGED <<pc, reg, kind, storageQ>>
    BY <1>1 DEF FillerStep, FillerTest, FillerResume, FillerPack, queueVars, truckVars, turnVars, localVars
  <2>2. QED
    BY <2>1, OthersKeepFirstTruckInv
<1>2. CASE UNCHANGED vars
  BY <1>2, OthersKeepFirstTruckInv DEF vars, queueVars, truckVars, turnVars, localVars
<1>3. QED
  BY <1>1, <1>2, PortersKeepFirstTruckInv, LoadersKeepFirstTruckInv DEF Next

\* Whatever the quotas and however many loaders there are, they exclude each
\* other and no storage queue is locked for good while truck 1 is loaded for the
\* first time; the failures that TLC finds all come after that.
THEOREM FirstTripExclusive == Spec => []FirstTruckExclusive
<1>1. FirstTruckInv => FirstTruckExclusive
  BY DEF FirstTruckInv, FirstTruckExclusive
<1>2. TypeOK /\ FirstTruckInv /\ [Next]_vars => FirstTruckInv'
  BY NextFirstTruckInv
<1>3. QED
  BY <1>1, <1>2, InitFirstTruckInv, TypeCorrect, PTL DEF Spec

-----------------------------------------------------------------------------
(* Refinement                                                              *)
(*                                                                         *)
(* Shipping implements BoxFifo: the storage area, the hand of the porter at *)
(* work on a type and the filling queue of the type are one queue.         *)

(* Queues                                                                  *)

\* What is behind the last of three queues is behind all of them.
LEMMA BehindAll ==
  ASSUME NEW S, NEW a \in Seq(S), NEW b \in Seq(S), NEW c \in Seq(S), NEW d \in Seq(S)
  PROVE  a \o (b \o (c \o d)) = (a \o (b \o c)) \o d
<1>1. b \o c \in Seq(S)
  BY ConcatProperties
<1>2. b \o (c \o d) = (b \o c) \o d
  BY ConcatAssociative, SMTT(30)
<1>3. a \o ((b \o c) \o d) = (a \o (b \o c)) \o d
  BY <1>1, ConcatAssociative, SMTT(30)
<1>4. QED
  BY <1>2, <1>3

\* The first box of a queue, and the rest, are the queue.
LEMMA HeadThenTail ==
  ASSUME NEW S, NEW c \in Seq(S), c # <<>>
  PROVE  <<Head(c)>> \o Tail(c) = c
<1> DEFINE d == <<Head(c)>> \o Tail(c)
<1>1. /\ Head(c) \in S /\ Tail(c) \in Seq(S) /\ Len(Tail(c)) = Len(c) - 1
      /\ \A i \in 1..Len(Tail(c)) : Tail(c)[i] = c[i + 1]
      /\ Len(c) \in Nat /\ Head(c) = c[1]
  BY HeadTailProperties
<1>2. PICK n \in Nat : n = Len(Tail(c)) /\ Len(c) = n + 1
  <2>1. PICK l \in Nat : l = Len(c)
    BY <1>1
  <2>2. l # 0
    BY <2>1, EmptySeq
  <2>3. l - 1 \in Nat /\ l - 1 = Len(Tail(c)) /\ Len(c) = (l - 1) + 1
    BY <1>1, <2>1, <2>2
  <2>4. QED
    BY <2>3
<1>3. <<Head(c)>> \in Seq(S) /\ Len(<<Head(c)>>) = 1 /\ <<Head(c)>>[1] = c[1]
  BY <1>1
<1>4. /\ d \in Seq(S) /\ Len(d) = 1 + n
      /\ \A i \in 1..(1 + n) : d[i] = IF i <= 1 THEN <<Head(c)>>[i] ELSE Tail(c)[i - 1]
  BY <1>1, <1>2, <1>3, ConcatProperties
<1>5. ASSUME NEW i \in 1..(1 + n) PROVE d[i] = c[i]
  <2>1. CASE i = 1
    BY <1>3, <1>4, <2>1
  <2>2. CASE i # 1
    <3>1. i - 1 \in 1..n /\ (i - 1) + 1 = i /\ ~(i <= 1)
      BY <2>2
    <3>2. Tail(c)[i - 1] = c[(i - 1) + 1]
      BY <1>1, <1>2, <3>1
    <3>3. QED
      BY <1>4, <3>1, <3>2
  <2>3. QED
    BY <2>1, <2>2
<1>6. QED
  BY <1>2, <1>4, <1>5, SeqEqual

\* A box that goes from the front of the last queue to the empty one before it
\* leaves the whole unchanged ...
LEMMA TakeIntoHand ==
  ASSUME NEW S, NEW a \in Seq(S), NEW c \in Seq(S), c # <<>>
  PROVE  a \o (<<Head(c)>> \o Tail(c)) = a \o (<<>> \o c)
BY HeadThenTail, ConcatEmptySeq

\* ... and so does one that goes from there to the back of the first queue.
LEMMA PutFromHand ==
  ASSUME NEW S, NEW a \in Seq(S), NEW c \in Seq(S), NEW x \in S
  PROVE  Append(a, x) \o (<<>> \o c) = a \o (<<x>> \o c)
<1>1. <<x>> \in Seq(S) /\ <<>> \o c = c /\ Append(a, x) = a \o <<x>>
  BY AppendIsConcat, ConcatEmptySeq
<1>2. (a \o <<x>>) \o c = a \o (<<x>> \o c)
  BY <1>1, ConcatAssociative
<1>3. QED
  BY <1>1, <1>2

\* The first box of the first queue is the first box of all.
LEMMA TakeFirst ==
  ASSUME NEW S, NEW a \in Seq(S), NEW b \in Seq(S), a # <<>>
  PROVE  a \o b # <<>> /\ Tail(a) \o b = Tail(a \o b)
<1>1. Head(a) \in S /\ Tail(a) \in Seq(S) /\ <<Head(a)>> \in Seq(S)
  BY HeadTailProperties
<1>2. a \o b = <<Head(a)>> \o (Tail(a) \o b)
  BY <1>1, HeadThenTail, ConcatAssociative
<1>3. PICK d \in Seq(S) : d = Tail(a) \o b
  BY <1>1, ConcatProperties
<1>4. PICK x \in S : x = Head(a)
  BY <1>1
<1>5. <<x>> \o d # <<>> /\ Tail(<<x>> \o d) = d
  <2> DEFINE e == <<x>> \o d
  <2>1. <<x>> \in Seq(S) /\ Len(<<x>>) = 1 /\ Len(d) \in Nat
    OBVIOUS
  <2>2. PICK n \in Nat : n = Len(d)
    BY <2>1
  <2>3. /\ e \in Seq(S) /\ Len(e) = 1 + n
        /\ \A i \in 1..(1 + n) : e[i] = IF i <= 1 THEN <<x>>[i] ELSE d[i - 1]
    BY <2>1, <2>2, ConcatProperties
  <2>4. e # <<>>
    BY <2>3
  <2>5. /\ Tail(e) \in Seq(S) /\ Len(Tail(e)) = Len(e) - 1
        /\ \A i \in 1..Len(Tail(e)) : Tail(e)[i] = e[i + 1]
    BY <2>3, <2>4, HeadTailProperties
  <2>6. Len(Tail(e)) = n
    BY <2>3, <2>5
  <2>7. ASSUME NEW i \in 1..n PROVE Tail(e)[i] = d[i]
    <3>1. i + 1 \in 1..(1 + n) /\ ~(i + 1 <= 1) /\ (i + 1) - 1 = i
      OBVIOUS
    <3>2. e[i + 1] = d[(i + 1) - 1]
      BY <2>3, <3>1
    <3>3. QED
      BY <2>5, <2>6, <3>1, <3>2
  <2>8. QED
    BY <2>2, <2>4, <2>5, <2>6, <2>7, SeqEqual
<1>6. QED
  BY <1>2, <1>3, <1>4, <1>5

\* The queue of one box, and of none.
LEMMA AsQueueFacts ==
  /\ AsQueue({}) = <<>>
  /\ \A x : AsQueue({x}) = <<x>>
BY DEF AsQueue

-----------------------------------------------------------------------------
(* Steps                                                                   *)

\* What the queues of a pipeline are made of.
LEMMA PipelineTyped ==
  ASSUME TypeOK, NEW t \in Types
  PROVE  /\ storageQ[t] \in Seq(Boxes \cup {NoBox}) /\ fillQ[t] \in Seq(Boxes \cup {NoBox})
         /\ \A p \in Porters : hand[p] \in Boxes \cup {NoBox}
BY DEF TypeOK, QueuesTyped, LocalsTyped, Carriers

\* The hand of a porter as a queue.
LEMMA CarriedTyped ==
  ASSUME TypeOK, NEW t \in Types
  PROVE  AsQueue(Carried(t)) \in Seq(Boxes \cup {NoBox})
<1>1. Carried(t) \subseteq Boxes \cup {NoBox}
  BY PipelineTyped DEF Carried, InHand
<1>2. CASE Carried(t) = {}
  BY <1>2 DEF AsQueue
<1>3. CASE Carried(t) # {}
  <2>1. PICK x \in Boxes \cup {NoBox} : x = CHOOSE y \in Carried(t) : TRUE
    BY <1>1, <1>3
  <2>2. AsQueue(Carried(t)) = <<x>>
    BY <1>3, <2>1 DEF AsQueue
  <2>3. QED
    BY <2>2
<1>4. QED
  BY <1>2, <1>3

\* What a step leaves alone, it leaves alone in the pipelines.
LEMMA SamePipelines ==
  ASSUME UNCHANGED <<made, fillQ, storageQ>>, \A p \in Porters : hand'[p] = hand[p]
  PROVE  UNCHANGED <<made, [t \in Types |-> Pipeline(t)]>>
<1>1. ASSUME NEW t \in Types PROVE Pipeline(t)' = Pipeline(t)
  <2>1. Carried(t)' = Carried(t)
    BY DEF Carried, InHand
  <2>2. QED
    BY <2>1 DEF Pipeline
<1>2. QED
  BY <1>1

\* While a porter is at work on a type, nobody else carries a box of it.
LEMMA OnlyCarrier ==
  ASSUME OrderInv, NEW p \in Porters, NEW t \in Types, PorterInside(p, t)
  PROVE  \A q \in Porters : hand[q][1] = t => q = p /\ pc[p] = "put"
<1>1. SUFFICES ASSUME NEW q \in Porters, hand[q][1] = t
      PROVE  q = p /\ pc[p] = "put"
  OBVIOUS
<1>2. PorterInside(q, t) /\ pc[q] = "put"
  BY <1>1, CarrierOfType DEF InHand
<1>3. fillMutex[t] = q /\ fillMutex[t] = p
  BY <1>2 DEF OrderInv, FillMutexHeld
<1>4. QED
  BY <1>2, <1>3

\* A box that is filled comes last in the queue of its type.
LEMMA PackIsFilled ==
  ASSUME TypeOK, OrderInv, NEW t \in Types, FillerPack(t)
  PROVE  Fifo!IsFilled(t)
<1> DEFINE box == <<t, made[t] + 1>>
<1>1. /\ made' = [made EXCEPT ![t] = @ + 1] /\ fillQ' = [fillQ EXCEPT ![t] = Append(@, box)]
      /\ UNCHANGED <<storageQ, hand>>
  BY DEF FillerPack, localVars
<1>2. box \in Boxes \cup {NoBox} /\ fillQ \in [Types -> Seq(Boxes)]
  BY DEF TypeOK, QueuesTyped, Boxes
<1>3. \A s \in Types : Carried(s)' = Carried(s)
  BY <1>1 DEF Carried, InHand
<1>4. \A s \in Types : s # t => Pipeline(s)' = Pipeline(s)
  BY <1>1, <1>2, <1>3 DEF Pipeline
<1>5. Pipeline(t)' = Append(Pipeline(t), box)
  <2>1. Pipeline(t)' = storageQ[t] \o (AsQueue(Carried(t)) \o Append(fillQ[t], box))
    BY <1>1, <1>2, <1>3 DEF Pipeline
  <2>2. /\ AsQueue(Carried(t)) \in Seq(Boxes \cup {NoBox})
        /\ storageQ[t] \in Seq(Boxes \cup {NoBox}) /\ fillQ[t] \in Seq(Boxes \cup {NoBox})
    BY PipelineTyped, CarriedTyped
  <2>3. PICK x \in Boxes \cup {NoBox} : x = box
    BY <1>2
  <2>4. storageQ[t] \o (AsQueue(Carried(t)) \o Append(fillQ[t], x))
          = Append(storageQ[t] \o (AsQueue(Carried(t)) \o fillQ[t]), x)
    <3>1. PICK S : S = Boxes \cup {NoBox}
      OBVIOUS
    <3>2. PICK a \in Seq(S), h \in Seq(S), c \in Seq(S) :
            a = storageQ[t] /\ h = AsQueue(Carried(t)) /\ c = fillQ[t]
      BY <2>2, <3>1
    <3>3. PICK y \in S : y = x
      BY <3>1
    <3>4. a \o (h \o Append(c, y)) = Append(a \o (h \o c), y)
      <4>1. h \o c \in Seq(S) /\ <<y>> \in Seq(S)
        BY ConcatProperties
      <4>2. a \o (h \o c) \in Seq(S)
        BY <4>1, ConcatProperties
      <4>3. Append(c, y) = c \o <<y>>
        BY AppendIsConcat
      <4>4. Append(a \o (h \o c), y) = (a \o (h \o c)) \o <<y>>
        BY <4>2, AppendIsConcat
      <4>5. a \o (h \o (c \o <<y>>)) = (a \o (h \o c)) \o <<y>>
        BY <4>1, BehindAll
      <4>6. QED
        BY <4>3, <4>4, <4>5
    <3>5. QED
      BY <3>2, <3>3, <3>4
  <2>5. QED
    BY <2>1, <2>3, <2>4 DEF Pipeline
<1>6. QED
  BY <1>1, <1>4, <1>5 DEF Fifo!IsFilled

\* A porter that picks a box up takes it from the filling queue's front to the place
\* behind the storage area: the same place of the pipeline.
LEMMA PickIsUnseen ==
  ASSUME TypeOK, OrderInv, NEW p \in Porters, PorterPick(p)
  PROVE  UNCHANGED <<made, [t \in Types |-> Pipeline(t)]>>
<1>1. PICK t \in Types : t = kind[p]
  BY DEF TypeOK, LocalsTyped, Carriers
<1>2. pc[p] = "pick" /\ PorterInside(p, t) /\ fillQ[t] # <<>> /\ hand[p] = NoBox
  BY <1>1 DEF PorterPick, PorterInside, OrderInv, PorterCarries
<1>3. /\ hand' = [hand EXCEPT ![p] = Head(fillQ[t])]
      /\ fillQ' = [fillQ EXCEPT ![t] = Tail(fillQ[t])]
      /\ UNCHANGED <<made, storageQ>>
  BY <1>1, <1>2 DEF PorterPick, fillVars
<1>4. fillQ \in [Types -> Seq(Boxes)] /\ p \in DOMAIN hand /\ DOMAIN hand = Carriers
  BY DEF TypeOK, QueuesTyped, LocalsTyped, Carriers
<1>5. Head(fillQ[t])[1] = t
  <2>1. Head(fillQ[t]) = fillQ[t][1] /\ 1 \in DOMAIN fillQ[t]
    BY <1>2, <1>4, TailFacts
  <2>2. QED
    BY <2>1 DEF OrderInv, Numbered
<1>6. /\ hand'[p] = Head(fillQ[t])
      /\ \A q \in Porters : q # p => hand'[q] = hand[q]
  BY <1>3, <1>4 DEF Carriers
<1>7. NoBox[1] = 0 /\ 0 \notin Types
  BY DEF NoBox, Types
<1>8. \A q \in Porters : hand[q][1] # t
  BY <1>2, OnlyCarrier
<1>9. Carried(t) = {} /\ Carried(t)' = {Head(fillQ[t])}
  <2>1. InHand(t) = {} /\ InHand(t)' = {p}
    BY <1>5, <1>6, <1>8 DEF InHand
  <2>2. QED
    BY <1>6, <2>1 DEF Carried
<1>10. ASSUME NEW s \in Types, s # t PROVE Pipeline(s)' = Pipeline(s)
  <2>1. p \notin InHand(s) /\ p \notin InHand(s)'
    BY <1>2, <1>5, <1>6, <1>7, <1>10 DEF InHand
  <2>2. InHand(s)' = InHand(s)
    BY <1>6, <2>1 DEF InHand
  <2>3. Carried(s)' = Carried(s)
    BY <1>6, <2>1, <2>2 DEF Carried, InHand
  <2>4. fillQ'[s] = fillQ[s]
    BY <1>3, <1>4, <1>10
  <2>5. QED
    BY <1>3, <2>3, <2>4 DEF Pipeline
<1>11. Pipeline(t)' = Pipeline(t)
  <2>1. fillQ'[t] = Tail(fillQ[t])
    BY <1>3, <1>4
  <2>2. Pipeline(t)' = storageQ[t] \o (<<Head(fillQ[t])>> \o Tail(fillQ[t]))
    BY <1>3, <1>9, <2>1, AsQueueFacts DEF Pipeline
  <2>3. Pipeline(t) = storageQ[t] \o (<<>> \o fillQ[t])
    BY <1>9, AsQueueFacts DEF Pipeline
  <2>4. QED
    BY <1>2, <2>2, <2>3, PipelineTyped, TakeIntoHand
<1>12. QED
  BY <1>3, <1>10, <1>11

\* A porter that puts its box down leaves it in its place, too.
LEMMA PutIsUnseen ==
  ASSUME TypeOK, OrderInv, NEW p \in Porters, PorterPut(p)
  PROVE  UNCHANGED <<made, [t \in Types |-> Pipeline(t)]>>
<1>1. PICK t \in Types : t = kind[p]
  BY DEF TypeOK, LocalsTyped, Carriers
<1>2. pc[p] = "put" /\ PorterInside(p, t) /\ hand[p] \in Boxes /\ hand[p][1] = t
  BY <1>1 DEF PorterPut, PorterInside, OrderInv, PorterCarries
<1>3. /\ hand' = [hand EXCEPT ![p] = NoBox]
      /\ storageQ' = [storageQ EXCEPT ![t] = Append(storageQ[t], hand[p])]
      /\ UNCHANGED <<made, fillQ>>
  BY <1>1 DEF PorterPut, fillVars
<1>4. /\ storageQ \in [Types -> Seq(Boxes \cup {NoBox})]
      /\ p \in DOMAIN hand /\ DOMAIN hand = Carriers
  BY DEF TypeOK, QueuesTyped, LocalsTyped, Carriers
<1>5. /\ hand'[p] = NoBox
      /\ \A q \in Porters : q # p => hand'[q] = hand[q]
  BY <1>3, <1>4 DEF Carriers
<1>6. NoBox[1] = 0 /\ 0 \notin Types
  BY DEF NoBox, Types
<1>7. \A q \in Porters : q # p => hand[q][1] # t
  BY <1>2, OnlyCarrier
<1>8. Carried(t) = {hand[p]} /\ Carried(t)' = {}
  <2>1. InHand(t) = {p} /\ InHand(t)' = {}
    BY <1>2, <1>5, <1>6, <1>7 DEF InHand
  <2>2. QED
    BY <2>1 DEF Carried
<1>9. ASSUME NEW s \in Types, s # t PROVE Pipeline(s)' = Pipeline(s)
  <2>1. p \notin InHand(s) /\ p \notin InHand(s)'
    BY <1>2, <1>5, <1>6, <1>9 DEF InHand
  <2>2. InHand(s)' = InHand(s)
    BY <1>5, <2>1 DEF InHand
  <2>3. Carried(s)' = Carried(s)
    BY <1>5, <2>1, <2>2 DEF Carried, InHand
  <2>4. storageQ'[s] = storageQ[s]
    BY <1>3, <1>4, <1>9
  <2>5. QED
    BY <1>3, <2>3, <2>4 DEF Pipeline
<1>10. Pipeline(t)' = Pipeline(t)
  <2>1. storageQ'[t] = Append(storageQ[t], hand[p])
    BY <1>3, <1>4
  <2>2. Pipeline(t)' = Append(storageQ[t], hand[p]) \o (<<>> \o fillQ[t])
    BY <1>3, <1>8, <2>1, AsQueueFacts DEF Pipeline
  <2>3. Pipeline(t) = storageQ[t] \o (<<hand[p]>> \o fillQ[t])
    BY <1>8, AsQueueFacts DEF Pipeline
  <2>4. QED
    <3>1. storageQ[t] \in Seq(Boxes \cup {NoBox}) /\ fillQ[t] \in Seq(Boxes \cup {NoBox})
      BY PipelineTyped
    <3>2. hand[p] \in Boxes \cup {NoBox}
      BY <1>2
    <3>3. Append(storageQ[t], hand[p]) \o (<<>> \o fillQ[t])
            = storageQ[t] \o (<<hand[p]>> \o fillQ[t])
      <4>1. PICK S : S = Boxes \cup {NoBox}
        OBVIOUS
      <4>2. PICK a \in Seq(S), c \in Seq(S), x \in S :
              a = storageQ[t] /\ c = fillQ[t] /\ x = hand[p]
        BY <3>1, <3>2, <4>1
      <4>3. Append(a, x) \o (<<>> \o c) = a \o (<<x>> \o c)
        BY PutFromHand
      <4>4. QED
        BY <4>2, <4>3
    <3>4. QED
      BY <2>2, <2>3, <3>3
<1>11. QED
  BY <1>3, <1>9, <1>10

\* A loader that finds a box takes the first one of the pipeline; from an empty
\* storage area it takes none.
LEMMA TakeIsTaken ==
  ASSUME TypeOK, OrderInv, NEW l \in Loaders, LoaderTake(l)
  PROVE  (\E t \in Types : Fifo!IsTaken(t)) \/ UNCHANGED <<made, [t \in Types |-> Pipeline(t)]>>
<1>1. PICK t \in Types : t = kind[l]
  BY DEF TypeOK, LocalsTyped, Carriers
<1>2. UNCHANGED <<made, fillQ>> /\ \A p \in Porters : hand'[p] = hand[p]
  <2>1. UNCHANGED <<made, fillQ>>
    BY DEF LoaderTake, fillVars
  <2>2. \A p \in Porters : p # l
    BY ThreadsAssumption
  <2>3. hand \in [Carriers -> Boxes \cup {NoBox}] /\ Porters \subseteq Carriers
    BY DEF TypeOK, LocalsTyped, Carriers
  <2>4. hand' = hand \/ \E x : hand' = [hand EXCEPT ![l] = x]
    BY DEF LoaderTake
  <2>5. QED
    BY <2>1, <2>2, <2>3, <2>4
<1>3. CASE storageQ[t] = <<>>
  <2>1. UNCHANGED storageQ
    BY <1>1, <1>3 DEF LoaderTake
  <2>2. QED
    BY <1>2, <2>1, SamePipelines
<1>4. CASE storageQ[t] # <<>>
  <2>1. storageQ' = [storageQ EXCEPT ![t] = Tail(storageQ[t])]
    BY <1>1, <1>4 DEF LoaderTake
  <2>2. storageQ \in [Types -> Seq(Boxes \cup {NoBox})]
    BY DEF TypeOK, QueuesTyped
  <2>3. \A s \in Types : Carried(s)' = Carried(s)
    BY <1>2 DEF Carried, InHand
  <2>4. \A s \in Types : s # t => Pipeline(s)' = Pipeline(s)
    BY <1>2, <2>1, <2>2, <2>3 DEF Pipeline
  <2>5. PICK c : c = AsQueue(Carried(t)) \o fillQ[t]
    OBVIOUS
  <2>6. c \in Seq(Boxes \cup {NoBox})
    BY <2>5, CarriedTyped, PipelineTyped, ConcatProperties
  <2>7. Pipeline(t) = storageQ[t] \o c /\ Pipeline(t)' = Tail(storageQ[t]) \o c
    BY <1>2, <2>1, <2>2, <2>3, <2>5 DEF Pipeline
  <2>8. Pipeline(t) # <<>> /\ Pipeline(t)' = Tail(Pipeline(t))
    BY <1>4, <2>6, <2>7, PipelineTyped, TakeFirst
  <2>9. Fifo!IsTaken(t)
    BY <1>2, <2>4, <2>8 DEF Fifo!IsTaken
  <2>10. QED
    BY <2>9
<1>5. QED
  BY <1>3, <1>4

\* The other steps of loaders are not seen.
LEMMA LoaderIsUnseen ==
  ASSUME TypeOK, NEW l \in Loaders, LoaderStep(l), ~LoaderTake(l)
  PROVE  UNCHANGED <<made, [t \in Types |-> Pipeline(t)]>>
<1>1. UNCHANGED <<made, fillQ, storageQ>>
  BY DEF LoaderStep, LoaderReadOrder, LoaderLock, LoaderSave, LoaderCheck, LoaderStock,
         LoaderRelease, LoaderEnqueue, LoaderAppend, LoaderLoadCount, LoaderStoreCount, LoaderShip,
         LoaderCompare, LoaderTurn, LoaderAdvance, LoaderReset, LoaderLeave,
         fillVars, queueVars
<1>2. hand' = hand \/ hand' = [hand EXCEPT ![l] = NoBox]
  BY DEF LoaderStep, LoaderReadOrder, LoaderLock, LoaderSave, LoaderCheck, LoaderStock,
         LoaderRelease, LoaderEnqueue, LoaderAppend, LoaderLoadCount, LoaderStoreCount, LoaderShip,
         LoaderCompare, LoaderTurn, LoaderAdvance, LoaderReset, LoaderLeave
<1>3. hand \in [Carriers -> Boxes \cup {NoBox}] /\ l \notin Porters /\ Porters \subseteq Carriers
  BY ThreadsAssumption DEF TypeOK, LocalsTyped, Carriers
<1>4. \A p \in Porters : hand'[p] = hand[p]
  BY <1>2, <1>3
<1>5. QED
  BY <1>1, <1>4, SamePipelines

\* Every step of Shipping is a step of BoxFifo, or nothing that BoxFifo sees.
LEMMA NextRefines ==
  ASSUME TypeOK, OrderInv, [Next]_vars
  PROVE  [Fifo!Next]_<<made, [t \in Types |-> Pipeline(t)]>>
<1>1. ASSUME NEW t \in Types, FillerStep(t)
      PROVE  [Fifo!Next]_<<made, [s \in Types |-> Pipeline(s)]>>
  <2>1. CASE FillerPack(t)
    BY <2>1, PackIsFilled DEF Fifo!Next
  <2>2. CASE FillerTest(t) \/ FillerResume(t)
    BY <2>2, SamePipelines DEF FillerTest, FillerResume, queueVars, localVars
  <2>3. QED
    BY <1>1, <2>1, <2>2 DEF FillerStep
<1>2. ASSUME NEW p \in Porters, PorterStep(p)
      PROVE  [Fifo!Next]_<<made, [s \in Types |-> Pipeline(s)]>>
  <2>1. CASE PorterEnter(p) \/ PorterLoadCount(p) \/ PorterStoreCount(p)
    BY <2>1, SamePipelines
       DEF PorterEnter, PorterLoadCount, PorterStoreCount, fillVars, queueVars
  <2>2. CASE PorterPick(p)
    BY <2>2, PickIsUnseen
  <2>3. CASE PorterPut(p)
    BY <2>3, PutIsUnseen
  <2>4. QED
    BY <1>2, <2>1, <2>2, <2>3 DEF PorterStep
<1>3. ASSUME NEW l \in Loaders, LoaderStep(l)
      PROVE  [Fifo!Next]_<<made, [s \in Types |-> Pipeline(s)]>>
  <2>1. CASE LoaderTake(l)
    BY <2>1, TakeIsTaken DEF Fifo!Next
  <2>2. CASE ~LoaderTake(l)
    BY <1>3, <2>2, LoaderIsUnseen
  <2>3. QED
    BY <2>1, <2>2
<1>4. CASE UNCHANGED vars
  BY <1>4, SamePipelines DEF vars, fillVars, queueVars, localVars
<1>5. QED
  BY <1>1, <1>2, <1>3, <1>4 DEF Next

\* The pipelines are empty at first.
LEMMA InitRefines == Init => Fifo!Init
<1> SUFFICES ASSUME Init PROVE Fifo!Init
  OBVIOUS
<1>1. \A t \in Types : Carried(t) = {}
  BY DEF Init, Carried, InHand, Carriers, NoBox, Types
<1>2. \A t \in Types : Pipeline(t) = <<>>
  <2>1. <<>> \o <<>> = <<>>
    BY EmptySeq, ConcatEmptySeq
  <2>2. QED
    BY <1>1, <2>1, AsQueueFacts DEF Init, Pipeline
<1>3. QED
  BY <1>2 DEF Init, Fifo!Init

\* No box is lost, doubled or overtaken between the filling threads and the loaders,
\* whatever the porters and loaders do (insertToStorageArea, insertToTrucks).
THEOREM ShippingIsFifo == Spec => PipelineIsFifo
<1>1. TypeOK /\ OrderInv /\ [Next]_vars => [Fifo!Next]_<<made, [t \in Types |-> Pipeline(t)]>>
  BY NextRefines
<1>2. QED
  BY <1>1, InitRefines, TypeCorrect, OrderInvHolds, PTL DEF Spec, PipelineIsFifo, Fifo!Spec

-----------------------------------------------------------------------------
(* What cannot be undone                                                    *)

\* The count of a type is above its quota, and no loader has found the counts
\* equal to the quotas or is about to store an older count.
Overfull(t) ==
  /\ truckCount[t] > Quota[t]
  /\ \A l \in Loaders :
       /\ pc[l] \notin {"turn", "advance", "reset"}
       /\ pc[l] = "compare" => kind[l] <= t
       /\ pc[l] = "store" /\ kind[l] = t => reg[l] >= Quota[t]

\* All lines are suspended, and there is no box anywhere that could fill the truck.
Drained ==
  /\ storage_area_box_count > MinThreshold
  /\ \A t \in Types : /\ filler[t] = "suspended" /\ truckCount[t] < Quota[t]
                      /\ fillQ[t] = <<>> /\ storageQ[t] = <<>>
  /\ \A p \in Porters : pc[p] = "enter"
  /\ \A l \in Loaders :
       pc[l] \in {"order", "lock", "save", "check", "stock", "compare", "leave"}

\* A step of a porter leaves what belongs to the loaders as it is.
LEMMA PorterLeavesLoaders ==
  ASSUME TypeOK, NEW p \in Porters, PorterStep(p)
  PROVE  /\ UNCHANGED truckVars
         /\ \A l \in Loaders : pc'[l] = pc[l] /\ reg'[l] = reg[l] /\ kind'[l] = kind[l]
<1> USE DEF TypeOK, LocalsTyped, PcTyped, Carriers, Goto, Forget
<1>1. \A l \in Loaders : l # p
  BY ThreadsAssumption
<1>2. CASE PorterEnter(p)
  BY <1>1, <1>2 DEF PorterEnter
<1>3. CASE PorterLoadCount(p) \/ PorterStoreCount(p)
  BY <1>1, <1>3 DEF PorterLoadCount, PorterStoreCount
<1>4. CASE PorterPick(p)
  BY <1>1, <1>4 DEF PorterPick
<1>5. CASE PorterPut(p)
  BY <1>1, <1>5 DEF PorterPut
<1>6. QED
  BY <1>2, <1>3, <1>4, <1>5 DEF PorterStep

\* While the counts cannot all equal the quotas, no loader changes the trucks.
LEMMA LoaderKeepsOverfull ==
  ASSUME TypeOK, NEW t \in Types, Overfull(t), NEW l \in Loaders, LoaderStep(l)
  PROVE  Overfull(t)' /\ UNCHANGED turnVars
<1>1. PICK c \in Nat, q \in Nat : c = truckCount[t] /\ q = Quota[t] /\ c > q
  BY InputAssumption DEF TypeOK, TrucksTyped, Overfull
<1>2. /\ pc[l] \notin {"turn", "advance", "reset"}
      /\ pc[l] = "compare" => kind[l] <= t
      /\ pc[l] = "store" /\ kind[l] = t => reg[l] >= q
  BY <1>1 DEF Overfull
<1>3. /\ l \in Carriers /\ kind[l] \in Types /\ Types \subseteq Nat
      /\ pc \in [Carriers -> PorterLabels \cup LoaderLabels] /\ kind \in [Carriers -> Types]
      /\ reg \in [Carriers -> Nat] /\ truckCount \in [Types -> Nat]
  BY DEF TypeOK, PcTyped, LocalsTyped, TrucksTyped, Carriers, Types
<1> USE DEF Goto, Forget
\* What is left to show: the count stays above the quota, and l is not dangerous.
<1>4. ASSUME UNCHANGED turnVars, truckCount'[t] > q,
             \A m \in Loaders \ {l} : pc'[m] = pc[m] /\ reg'[m] = reg[m] /\ kind'[m] = kind[m],
             pc'[l] \notin {"turn", "advance", "reset"},
             pc'[l] = "compare" => kind'[l] <= t,
             pc'[l] = "store" /\ kind'[l] = t => reg'[l] >= q
      PROVE  Overfull(t)' /\ UNCHANGED turnVars
  <2>1. ASSUME NEW m \in Loaders
        PROVE  /\ pc'[m] \notin {"turn", "advance", "reset"}
               /\ pc'[m] = "compare" => kind'[m] <= t
               /\ pc'[m] = "store" /\ kind'[m] = t => reg'[m] >= q
    <3>1. CASE m = l
      BY <1>4, <3>1
    <3>2. CASE m # l
      BY <1>1, <1>4, <3>2 DEF Overfull
    <3>3. QED
      BY <3>1, <3>2
  <2>2. QED
    BY <1>1, <1>4, <2>1 DEF Overfull
<1>5. CASE LoaderReadOrder(l)
  BY <1>1, <1>3, <1>4, <1>5 DEF LoaderReadOrder, truckVars
<1>6. CASE LoaderLock(l)
  BY <1>1, <1>3, <1>4, <1>6 DEF LoaderLock
<1>7. CASE LoaderSave(l)
  BY <1>1, <1>3, <1>4, <1>7 DEF LoaderSave, truckVars
<1>8. CASE LoaderCheck(l)
  BY <1>1, <1>3, <1>4, <1>8 DEF LoaderCheck, truckVars
<1>9. /\ 1 <= t
      /\ NextType(l, "check", "compare") =>
           /\ kind' = [kind EXCEPT ![l] = NextKind(kind[l])]
           /\ pc' = [pc EXCEPT ![l] = IF kind[l] = NumTypes THEN "compare" ELSE "check"]
      /\ kind[l] = NumTypes => NextKind(kind[l]) = 1
  BY DEF NextType, NextKind, Types
\* After a look at one type, l goes on with the next, or compares from the first.
<1>10a. ASSUME NextType(l, "check", "compare"), truckCount' = truckCount,
               \A m \in Loaders \ {l} : reg'[m] = reg[m],
               UNCHANGED turnVars
        PROVE  Overfull(t)' /\ UNCHANGED turnVars
  <2>1. PICK next : next = NextKind(kind[l])
    OBVIOUS
  <2>2. /\ kind' = [kind EXCEPT ![l] = next]
        /\ pc' = [pc EXCEPT ![l] = IF kind[l] = NumTypes THEN "compare" ELSE "check"]
        /\ kind[l] = NumTypes => next = 1
    BY <1>9, <1>10a, <2>1
  <2>3. /\ pc'[l] = "compare" \/ pc'[l] = "check"
        /\ pc'[l] = "compare" => kind'[l] = 1
        /\ \A m \in Loaders \ {l} : pc'[m] = pc[m] /\ kind'[m] = kind[m]
    BY <1>3, <2>2
  <2>4. pc'[l] = "compare" => kind'[l] <= t
    BY <1>9, <2>3
  <2>5. pc'[l] \notin {"turn", "advance", "reset"} /\ pc'[l] # "store"
    BY <2>3
  <2>6. truckCount'[t] > q
    BY <1>1, <1>10a
  <2>7. QED
    BY <1>4, <1>10a, <2>3, <2>4, <2>5, <2>6
<1>10. CASE LoaderStock(l)
  <2>1. CASE pc' = [pc EXCEPT ![l] = "take"] /\ UNCHANGED kind
    BY <1>1, <1>3, <1>4, <1>10, <2>1 DEF LoaderStock, truckVars
  <2>2. CASE NextType(l, "check", "compare")
    <3>1. UNCHANGED <<truckCount, reg, turnVars>>
      BY <1>10 DEF LoaderStock, truckVars
    <3>2. QED
      BY <1>1, <1>9, <2>2, <3>1, <1>10a
  <2>3. QED
    BY <1>10, <2>1, <2>2 DEF LoaderStock
<1>11. CASE LoaderTake(l)
  BY <1>1, <1>3, <1>4, <1>11 DEF LoaderTake, truckVars
<1>12. CASE LoaderRelease(l)
  BY <1>1, <1>3, <1>4, <1>12 DEF LoaderRelease
<1>13. CASE LoaderEnqueue(l)
  BY <1>1, <1>3, <1>4, <1>13 DEF LoaderEnqueue
<1>13a. CASE LoaderAppend(l)
  BY <1>1, <1>3, <1>4, <1>13a DEF LoaderAppend
<1>14. CASE LoaderLoadCount(l)
  BY <1>1, <1>3, <1>4, <1>14 DEF LoaderLoadCount, truckVars
<1>15. CASE LoaderStoreCount(l)
  <2>1. /\ truckCount' = [truckCount EXCEPT ![kind[l]] = reg[l] + 1]
        /\ pc[l] = "store" /\ pc' = [pc EXCEPT ![l] = "order"]
        /\ kind' = [kind EXCEPT ![l] = 1] /\ reg' = [reg EXCEPT ![l] = 0]
        /\ UNCHANGED turnVars
    BY <1>15 DEF LoaderStoreCount, Restart
  <2>2. truckCount'[t] > q
    <3>1. PICK r \in Nat : r = reg[l]
      BY <1>3
    <3>2. CASE kind[l] = t
      BY <1>2, <1>3, <2>1, <3>1, <3>2
    <3>3. CASE kind[l] # t
      BY <1>1, <1>3, <2>1, <3>3
    <3>4. QED
      BY <3>2, <3>3
  <2>3. QED
    BY <1>3, <1>4, <2>1, <2>2
<1>16. CASE LoaderShip(l)
  <2>1. /\ NextType(l, "check", "compare") /\ UNCHANGED <<truckCount, turnVars>>
        /\ \A m \in Loaders \ {l} : reg'[m] = reg[m]
    BY <1>3, <1>16 DEF LoaderShip
  <2>2. QED
    BY <1>10a, <2>1
<1>17. CASE LoaderCompare(l)
  <2>1. /\ pc[l] = "compare" /\ UNCHANGED <<truckCount, turnVars>>
        /\ reg' = [reg EXCEPT ![l] = 0]
    BY <1>17 DEF LoaderCompare, truckVars
  <2>2. CASE truckCount[kind[l]] = Quota[kind[l]] /\ NextType(l, "compare", "turn")
    <3>1. PICK k \in Types : k = kind[l]
      BY <1>3
    <3>2. k # t /\ k <= t
      <4>1. k # t
        <5>1. Quota[k] # truckCount[k] \/ k # t
          BY <1>1
        <5>2. QED
          BY <2>2, <3>1, <5>1
      <4>2. QED
        BY <1>2, <2>1, <3>1, <4>1
    <3>2a. k < t /\ t <= NumTypes /\ NumTypes \in Nat
      BY <3>2, CountsAssumption DEF Types
    <3>3. /\ kind' = [kind EXCEPT ![l] = k + 1] /\ pc' = [pc EXCEPT ![l] = "compare"]
      <4>1. k # NumTypes
        BY <3>2a DEF Types
      <4>2. QED
        BY <2>2, <3>1, <4>1 DEF NextType, NextKind
    <3>4. k + 1 <= t
      BY <3>2a DEF Types
    <3>5. QED
      BY <1>1, <1>3, <1>4, <2>1, <3>3, <3>4
  <2>3. CASE pc' = [pc EXCEPT ![l] = "leave"] /\ UNCHANGED kind
    BY <1>1, <1>3, <1>4, <2>1, <2>3
  <2>4. QED
    BY <1>17, <2>2, <2>3 DEF LoaderCompare
<1>18. CASE LoaderLeave(l)
  BY <1>1, <1>3, <1>4, <1>18 DEF LoaderLeave, Restart
<1>19. ~LoaderTurn(l) /\ ~LoaderAdvance(l) /\ ~LoaderReset(l)
  BY <1>2 DEF LoaderTurn, LoaderAdvance, LoaderReset
<1>20. QED
  BY <1>5, <1>6, <1>7, <1>8, <1>10, <1>11, <1>12, <1>13, <1>13a, <1>14, <1>15, <1>16,
     <1>17, <1>18, <1>19 DEF LoaderStep

\* Two loaders that both found room for the last box of a type put quota + 1 boxes on
\* the truck, and the test for equality (1489) never holds again: for any numbers and
\* quotas, the trucks never change again.
THEOREM OverfullTruckStays ==
  Spec => [][\A t \in Types :
               Overfull(t) => Overfull(t)' /\ UNCHANGED turnVars]_vars
<1>1. ASSUME TypeOK, Next, NEW t \in Types, Overfull(t)
      PROVE  Overfull(t)' /\ UNCHANGED turnVars
  <2>1. ASSUME NEW s \in Types, FillerStep(s)
        PROVE  Overfull(t)' /\ UNCHANGED turnVars
    <3>1. UNCHANGED <<truckVars, localVars>>
      BY <2>1 DEF FillerStep, FillerTest, FillerResume, FillerPack
    <3>2. QED
      BY <1>1, <3>1 DEF Overfull, truckVars, localVars
  <2>2. ASSUME NEW p \in Porters, PorterStep(p)
        PROVE  Overfull(t)' /\ UNCHANGED turnVars
    BY <1>1, <2>2, PorterLeavesLoaders DEF Overfull, truckVars
  <2>3. ASSUME NEW l \in Loaders, LoaderStep(l)
        PROVE  Overfull(t)' /\ UNCHANGED turnVars
    BY <1>1, <2>3, LoaderKeepsOverfull
  <2>4. QED
    BY <1>1, <2>1, <2>2, <2>3 DEF Next
<1>2. TypeOK /\ [Next]_vars =>
        [\A t \in Types :
           Overfull(t) => Overfull(t)' /\ UNCHANGED turnVars]_vars
  BY <1>1
<1>3. QED
  BY <1>2, TypeCorrect, PTL DEF Spec

\* When the storage area is drained, loaders come by and change nothing.
LEMMA LoaderKeepsDrained ==
  ASSUME TypeOK, Drained, NEW l \in Loaders, LoaderStep(l)
  PROVE  Drained'
<1>1. pc[l] \in {"order", "lock", "save", "check", "stock", "compare", "leave"}
  BY DEF Drained
<1>2. /\ l \in Carriers /\ kind[l] \in Types
      /\ pc \in [Carriers -> PorterLabels \cup LoaderLabels] /\ kind \in [Carriers -> Types]
      /\ \A p \in Porters : p # l /\ p \in Carriers
  BY ThreadsAssumption DEF TypeOK, PcTyped, LocalsTyped, Carriers
<1>3. /\ truckCount[kind[l]] < Quota[kind[l]] /\ storageQ[kind[l]] = <<>>
      /\ truckCount[kind[l]] # Quota[kind[l]]
  <2>1. truckCount[kind[l]] < Quota[kind[l]] /\ storageQ[kind[l]] = <<>>
    BY <1>2 DEF Drained
  <2>2. truckCount[kind[l]] \in Nat /\ Quota[kind[l]] \in Nat
    BY <1>2, InputAssumption DEF TypeOK, TrucksTyped
  <2>3. QED
    BY <2>1, <2>2
<1>4. ASSUME UNCHANGED <<storage_area_box_count, filler, truckCount, fillQ, storageQ>>,
             NEW at \in {"order", "lock", "save", "check", "stock", "compare", "leave"},
             pc' = [pc EXCEPT ![l] = at]
      PROVE  Drained'
  <2>1. /\ \A p \in Porters : pc'[p] = pc[p]
        /\ \A m \in Loaders : pc'[m] = pc[m] \/ pc'[m] = at
    BY <1>2, <1>4
  <2>2. QED
    BY <1>4, <2>1 DEF Drained
<1> USE DEF Goto, fillVars, queueVars, truckVars
<1>5. CASE LoaderReadOrder(l)
  BY <1>4, <1>5 DEF LoaderReadOrder
<1>6. CASE LoaderLock(l)
  BY <1>4, <1>6 DEF LoaderLock
<1>7. CASE LoaderSave(l)
  BY <1>4, <1>7 DEF LoaderSave
<1>8. CASE LoaderCheck(l)
  BY <1>3, <1>4, <1>8 DEF LoaderCheck
<1>9. CASE LoaderStock(l)
  BY <1>3, <1>4, <1>9 DEF LoaderStock, NextType
<1>10. CASE LoaderCompare(l)
  BY <1>3, <1>4, <1>10 DEF LoaderCompare
<1>11. CASE LoaderLeave(l)
  BY <1>4, <1>11 DEF LoaderLeave, Restart
<1>12. /\ ~LoaderTake(l) /\ ~LoaderRelease(l) /\ ~LoaderEnqueue(l) /\ ~LoaderAppend(l) /\ ~LoaderLoadCount(l)
       /\ ~LoaderStoreCount(l) /\ ~LoaderShip(l) /\ ~LoaderTurn(l) /\ ~LoaderAdvance(l)
       /\ ~LoaderReset(l)
  BY <1>1 DEF LoaderTake, LoaderRelease, LoaderEnqueue, LoaderAppend, LoaderLoadCount, LoaderStoreCount,
     LoaderShip, LoaderTurn, LoaderAdvance, LoaderReset
<1>13. QED
  BY <1>5, <1>6, <1>7, <1>8, <1>9, <1>10, <1>11, <1>12 DEF LoaderStep

\* A porter that finds an empty filling queue goes on to the next one.
LEMMA PorterKeepsDrained ==
  ASSUME TypeOK, Drained, NEW p \in Porters, PorterStep(p)
  PROVE  Drained'
<1>1. pc[p] = "enter" /\ kind[p] \in Types
  BY DEF Drained, TypeOK, LocalsTyped, Carriers
<1>2. PorterEnter(p) /\ fillQ[kind[p]] = <<>>
  BY <1>1 DEF PorterStep, PorterLoadCount, PorterStoreCount, PorterPick, PorterPut, Drained
<1>3. UNCHANGED <<storage_area_box_count, filler, truckCount, fillQ, storageQ, pc>>
  BY <1>2 DEF PorterEnter, fillVars, truckVars
<1>4. QED
  BY <1>3 DEF Drained

\* The count of the storage area is not decremented when boxes leave (1404): when all
\* lines are suspended, and the storage area is drained before a quota is reached, the
\* factory has stopped for good, for any numbers, thresholds and quotas.
THEOREM DrainedForGood == Spec => [][Drained => Drained']_vars
<1>1. ASSUME TypeOK, Next, Drained PROVE Drained'
  <2>1. ASSUME NEW t \in Types, FillerStep(t) PROVE FALSE
    <3>1. filler[t] = "suspended" /\ storage_area_box_count > MinThreshold
      BY <1>1 DEF Drained
    <3>2. storage_area_box_count \in Nat /\ MinThreshold \in Nat
      BY <1>1, InputAssumption DEF TypeOK, QueuesTyped
    <3>3. QED
      BY <2>1, <3>1, <3>2 DEF FillerStep, FillerTest, FillerResume, FillerPack
  <2>2. QED
    BY <1>1, <2>1, PorterKeepsDrained, LoaderKeepsDrained DEF Next
<1>2. TypeOK /\ [Next]_vars => [Drained => Drained']_vars
  BY <1>1
<1>3. QED
  BY <1>2, TypeCorrect, PTL DEF Spec
=============================================================================
