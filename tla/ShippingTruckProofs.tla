------------------------- MODULE ShippingTruckProofs -------------------------
(***************************************************************************)
(* Proof that the first truck leaves with its quota of every type, for any  *)
(* numbers of types, trucks, loaders and boxes and any quotas, though the   *)
(* loaders count the boxes they put on it without a mutex.                  *)
(***************************************************************************)
EXTENDS ShippingBoxProofs

-----------------------------------------------------------------------------
(* Counting                                                                *)

\* A box put at the end of a queue is one more of its type.
OfType(s, t) == {i \in DOMAIN s : s[i][1] = t}

LEMMA LoadedAppend ==
  ASSUME NEW S, NEW q \in Seq(S), NEW x \in S, NEW t
  PROVE  /\ Cardinality(OfType(q, t)) \in Nat
         /\ x[1] = t =>
              Cardinality(OfType(Append(q, x), t)) = Cardinality(OfType(q, t)) + 1
         /\ x[1] # t =>
              Cardinality(OfType(Append(q, x), t)) = Cardinality(OfType(q, t))
<1>1. PICK a : a = Append(q, x)
  OBVIOUS
<1>2. /\ DOMAIN q = 1..Len(q) /\ Len(q) \in Nat /\ DOMAIN a = 1..(Len(q) + 1)
      /\ \A i \in DOMAIN q : a[i] = q[i]
      /\ a[Len(q) + 1] = x
  BY <1>1, AppendFacts
<1>3. \A i : i \in DOMAIN a <=> i \in DOMAIN q \/ i = Len(q) + 1
  BY <1>2
<1>4. Len(q) + 1 \notin DOMAIN q
  BY <1>2
<1>5. IsFiniteSet(OfType(q, t)) /\ Cardinality(OfType(q, t)) \in Nat
  <2>1. IsFiniteSet(DOMAIN q)
    BY <1>2, FS_Interval
  <2>2. OfType(q, t) \subseteq DOMAIN q
    BY DEF OfType
  <2>3. QED
    BY <2>1, <2>2, FS_Subset, FS_CardinalityType
<1>6. ASSUME x[1] = t PROVE Cardinality(OfType(a, t)) = Cardinality(OfType(q, t)) + 1
  <2>1. OfType(a, t) = OfType(q, t) \cup {Len(q) + 1} /\ Len(q) + 1 \notin OfType(q, t)
    BY <1>2, <1>3, <1>4, <1>6 DEF OfType
  <2>2. QED
    BY <1>5, <2>1, FS_AddElement
<1>7. ASSUME x[1] # t PROVE OfType(a, t) = OfType(q, t)
  BY <1>2, <1>3, <1>4, <1>7 DEF OfType
<1>8. QED
  BY <1>1, <1>5, <1>6, <1>7

\* The types up to t, and the type after t.
LEMMA TypeAfter ==
  ASSUME NEW t \in Types
  PROVE  /\ t = NumTypes => NextKind(t) = 1 /\ \A s \in Types : s < t \/ s = t
         /\ t # NumTypes => NextKind(t) = t + 1
                            /\ \A s \in Types : s < t + 1 <=> s < t \/ s = t
         /\ \A s \in Types : ~(s < 1)
BY CountsAssumption DEF NextKind, Types

\* What the proofs below need of the types.
LEMMA LoadTypes ==
  ASSUME TypeOK
  PROVE  /\ truckQ \in [Trucks -> Seq(Boxes \cup {NoBox})]
         /\ truckCount \in [Types -> Nat] /\ Quota \in [Types -> Nat \ {0}]
         /\ pc \in [Carriers -> PorterLabels \cup LoaderLabels]
         /\ kind \in [Carriers -> Types] /\ reg \in [Carriers -> Nat]
         /\ hand \in [Carriers -> Boxes \cup {NoBox}]
         /\ save \in [Loaders -> Trucks] /\ Loaders \subseteq Carriers /\ 1 \in Trucks
         /\ Types \subseteq Nat
<1>1. truckCount \in [Types -> Nat]
  BY DEF TypeOK, TrucksTyped
<1>2. 1 \in Trucks /\ Types \subseteq Nat
  BY CountsAssumption DEF Trucks, Types
<1>3. reg \in [Carriers -> Nat] /\ Loaders \subseteq Carriers
  BY DEF TypeOK, LocalsTyped, Carriers
<1>4. QED
  BY <1>1, <1>2, <1>3, InputAssumption, BoxTypes

\* The boxes of a type on the first truck are a number of them.
LEMMA LoadedTyped ==
  ASSUME TypeOK, NEW t PROVE Loaded(1, t) \in Nat
<1>1. truckQ[1] \in Seq(Boxes \cup {NoBox})
  BY LoadTypes
<1>2. Cardinality(OfType(truckQ[1], t)) \in Nat
  <2>1. PICK S, x : S = Boxes \cup {NoBox} /\ x = NoBox
    OBVIOUS
  <2>2. truckQ[1] \in Seq(S) /\ x \in S
    BY <1>1, <2>1
  <2>3. QED
    BY <2>2, LoadedAppend
<1>3. QED
  BY <1>2 DEF Loaded, OfType

-----------------------------------------------------------------------------
(* The inductive invariant                                                 *)

\* The boxes that are not counted are finitely many.
FewUncounted == \A t \in Types : IsFiniteSet(Uncounted(t))
FirstLoad == FirstLoadInv /\ FewUncounted

\* A loader's step leaves the others where they are.
LEMMA LoaderLeavesOthers ==
  ASSUME TypeOK, NEW l \in Loaders, LoaderStep(l), NEW m \in Loaders, m # l
  PROVE  pc'[m] = pc[m] /\ kind'[m] = kind[m] /\ reg'[m] = reg[m] /\ hand'[m] = hand[m]
<1>1. /\ pc \in [Carriers -> PorterLabels \cup LoaderLabels] /\ kind \in [Carriers -> Types]
      /\ reg \in [Carriers -> Nat] /\ hand \in [Carriers -> Boxes \cup {NoBox}]
      /\ l \in Carriers /\ m \in Carriers
  BY LoadTypes
<1> USE <1>1 DEF Goto, Forget, Restart, NextType
<1>2. CASE LoaderReadOrder(l) \/ LoaderLock(l) \/ LoaderSave(l) \/ LoaderCheck(l)
  BY <1>2 DEF LoaderReadOrder, LoaderLock, LoaderSave, LoaderCheck
<1>3. CASE LoaderStock(l) \/ LoaderTake(l) \/ LoaderRelease(l)
             \/ LoaderEnqueue(l) \/ LoaderAppend(l)
  BY <1>3 DEF LoaderStock, LoaderTake, LoaderRelease, LoaderEnqueue, LoaderAppend
<1>4. CASE LoaderLoadCount(l) \/ LoaderStoreCount(l) \/ LoaderShip(l) \/ LoaderCompare(l)
  BY <1>4 DEF LoaderLoadCount, LoaderStoreCount, LoaderShip, LoaderCompare
<1>5. CASE LoaderTurn(l) \/ LoaderAdvance(l) \/ LoaderReset(l) \/ LoaderLeave(l)
  BY <1>5 DEF LoaderTurn, LoaderAdvance, LoaderReset, LoaderLeave
<1>6. QED
  BY <1>2, <1>3, <1>4, <1>5 DEF LoaderStep

\* So at most one uncounted box comes with a step.
LEMMA LoaderKeepsFew ==
  ASSUME TypeOK, FewUncounted, NEW l \in Loaders, LoaderStep(l)
  PROVE  FewUncounted'
<1> SUFFICES ASSUME NEW t \in Types PROVE IsFiniteSet(Uncounted(t)')
  BY DEF FewUncounted
<1>1. Uncounted(t)' \subseteq Uncounted(t) \cup {l}
  BY LoaderLeavesOthers DEF Uncounted
<1>2. IsFiniteSet(Uncounted(t) \cup {l})
  BY FS_AddElement DEF FewUncounted
<1>3. QED
  BY <1>1, <1>2, FS_Subset

\* The other threads disturb nothing of it.
LEMMA OthersKeepLoad ==
  ASSUME FirstLoad, UNCHANGED <<truckQ, truckCount, switched>>,
         \A l \in Loaders :
           pc'[l] = pc[l] /\ kind'[l] = kind[l] /\ reg'[l] = reg[l] /\ hand'[l] = hand[l]
  PROVE  FirstLoad'
<1>1. /\ \A t \in Types : Uncounted(t)' = Uncounted(t) /\ Loaded(1, t)' = Loaded(1, t)
      /\ FirstTruck' = FirstTruck
  BY DEF Uncounted, Loaded, FirstTruck
<1>2. FewUncounted'
  BY <1>1 DEF FirstLoad, FewUncounted
<1>3. ASSUME FirstTruck PROVE \A t \in Types : CountedIsLoaded(t)'
  BY <1>1, <1>3 DEF FirstLoad, FirstLoadInv, CountedIsLoaded
<1>4. ASSUME FirstTruck, NEW l \in Loaders
      PROVE  /\ CarriesItsType(l)'
             /\ \A t \in Types : FoundFull(l, t)' => Loaded(1, t)' >= Quota[t]
             /\ pc'[l] = "turn" => reg'[l] = 0
             /\ pc'[l] # "reset"
  BY <1>1, <1>4 DEF FirstLoad, FirstLoadInv, CarriesItsType, FoundFull
<1>5. QED
  BY <1>1, <1>2, <1>3, <1>4 DEF FirstLoad, FirstLoadInv

-----------------------------------------------------------------------------
(* The counts                                                              *)

Counts == \A t \in Types : CountedIsLoaded(t)

\* A step that neither loads nor counts.
LEMMA QuietCounts ==
  ASSUME TypeOK, Counts, NEW l \in Loaders, LoaderStep(l),
         truckQ' = truckQ, truckCount' = truckCount,
         pc[l] \notin {"load", "store"}, pc'[l] \notin {"load", "store"}
  PROVE  Counts'
<1>1. \A t \in Types : Uncounted(t)' = Uncounted(t) /\ Loaded(1, t)' = Loaded(1, t)
  BY LoaderLeavesOthers DEF Uncounted, Loaded
<1>2. \A t \in Types, m \in Loaders : pc'[m] = "store" /\ kind'[m] = t =>
        pc[m] = "store" /\ kind[m] = t /\ reg'[m] = reg[m]
  BY LoaderLeavesOthers
<1>3. QED
  BY <1>1, <1>2 DEF Counts, CountedIsLoaded

\* A box more on the first truck, and one more that is not counted.
LEMMA AppendCounts ==
  ASSUME TypeOK, FirstTruckInv, FirstTruck, Counts, FewUncounted,
         NEW l \in Loaders, LoaderAppend(l), CarriesItsType(l)
  PROVE  Counts' /\ \A t \in Types : Loaded(1, t)' \in Nat /\ Loaded(1, t)' >= Loaded(1, t)
<1> PICK t \in Types : t = kind[l]
  BY LoadTypes
<1> PICK S : S = Boxes \cup {NoBox}
  OBVIOUS
<1> PICK x \in S : x = hand[l]
  BY LoadTypes
<1> PICK q \in Seq(S) : q = truckQ[1]
  BY LoadTypes
<1>1. x[1] = t /\ pc[l] = "append"
  BY DEF LoaderAppend, CarriesItsType
<1>2. save[l] = 1 /\ torn = {}
  BY DEF FirstTruckInv
<1>3. Linked(1, x) = {Append(q, x)}
  BY <1>2 DEF Linked
<1>4. /\ truckQ' = [truckQ EXCEPT ![1] = Append(q, x)] /\ truckCount' = truckCount
      /\ pc' = [pc EXCEPT ![l] = "load"] /\ kind' = kind /\ reg' = reg
  BY <1>2, <1>3 DEF LoaderAppend, Goto
<1>5. truckQ'[1] = Append(q, x)
  BY <1>4, LoadTypes
<1>6. /\ Loaded(1, t)' = Loaded(1, t) + 1
      /\ \A s \in Types : s # t => Loaded(1, s)' = Loaded(1, s)
  <2>1. \A s : Loaded(1, s) = Cardinality(OfType(q, s))
    BY DEF Loaded, OfType
  <2>2. \A s : Loaded(1, s)' = Cardinality(OfType(Append(q, x), s))
    BY <1>5 DEF Loaded, OfType
  <2>3. QED
    BY <1>1, <2>1, <2>2, LoadedAppend
<1>7. /\ Uncounted(t)' = Uncounted(t) \cup {l} /\ l \notin Uncounted(t)
      /\ \A s \in Types : s # t => Uncounted(s)' = Uncounted(s)
  BY <1>1, <1>4, LoadTypes DEF Uncounted
<1>8. PICK n \in Nat : n = Cardinality(Uncounted(t)) /\ Cardinality(Uncounted(t)') = n + 1
  BY <1>7, FS_AddElement, FS_CardinalityType DEF FewUncounted
<1>9. PICK k \in Nat : k = Loaded(1, t) /\ Loaded(1, t)' = k + 1
  BY <1>6, LoadedTyped
<1>10. /\ truckCount[t] + n <= k /\ truckCount[t] \in Nat
       /\ \A m \in Loaders : pc[m] = "store" /\ kind[m] = t => reg[m] + n <= k
  BY <1>8, <1>9, LoadTypes DEF Counts, CountedIsLoaded
<1>11. \A m \in Loaders : /\ reg[m] \in Nat /\ reg'[m] = reg[m] /\ kind'[m] = kind[m]
                          /\ pc'[m] = "store" => pc[m] = "store"
  BY <1>4, LoadTypes
<1>12. CountedIsLoaded(t)'
  <2>1. truckCount'[t] + (n + 1) <= k + 1
    BY <1>4, <1>10
  <2>2. \A m \in Loaders : pc'[m] = "store" /\ kind'[m] = t => reg'[m] + (n + 1) <= k + 1
    BY <1>10, <1>11
  <2>3. QED
    BY <1>8, <1>9, <2>1, <2>2 DEF CountedIsLoaded
<1>13. ASSUME NEW s \in Types, s # t PROVE CountedIsLoaded(s)'
  BY <1>4, <1>6, <1>7, <1>11, <1>13 DEF Counts, CountedIsLoaded
<1>14. \A s \in Types : Loaded(1, s)' \in Nat /\ Loaded(1, s)' >= Loaded(1, s)
  BY <1>6, LoadedTyped
<1>15. QED
  BY <1>12, <1>13, <1>14 DEF Counts

\* What a loader reads of a count leaves the same room as the count.
LEMMA LoadCounts ==
  ASSUME TypeOK, Counts, NEW l \in Loaders, LoaderLoadCount(l)
  PROVE  Counts'
<1>1. /\ pc[l] = "load" /\ pc' = [pc EXCEPT ![l] = "store"]
      /\ reg' = [reg EXCEPT ![l] = truckCount[kind[l]]]
      /\ UNCHANGED <<truckQ, truckCount, kind>>
  BY DEF LoaderLoadCount, Goto, truckVars
<1>2. \A t \in Types : Uncounted(t)' = Uncounted(t) /\ Loaded(1, t)' = Loaded(1, t)
  BY <1>1, LoadTypes DEF Uncounted, Loaded
<1>3. \A m \in Loaders : pc'[m] = "store" =>
        \/ reg'[m] = truckCount[kind[m]]
        \/ pc[m] = "store" /\ reg'[m] = reg[m]
  BY <1>1, LoadTypes
<1>4. QED
  BY <1>1, <1>2, <1>3 DEF Counts, CountedIsLoaded

\* The loader that stores a count has one box less that is not counted.
LEMMA StoreCountsLoad ==
  ASSUME TypeOK, Counts, FewUncounted, NEW l \in Loaders, LoaderStoreCount(l)
  PROVE  Counts'
<1> PICK t \in Types : t = kind[l]
  BY LoadTypes
<1>1. /\ pc[l] = "store" /\ pc' = [pc EXCEPT ![l] = "order"]
      /\ reg' = [reg EXCEPT ![l] = 0] /\ kind' = [kind EXCEPT ![l] = 1]
      /\ truckCount' = [truckCount EXCEPT ![t] = reg[l] + 1] /\ truckQ' = truckQ
  BY DEF LoaderStoreCount, Restart, Goto, Forget
<1>2. /\ Uncounted(t)' = Uncounted(t) \ {l} /\ l \in Uncounted(t)
      /\ \A s \in Types : s # t => Uncounted(s)' = Uncounted(s)
  BY <1>1, LoadTypes DEF Uncounted
<1>3. PICK n \in Nat : n = Cardinality(Uncounted(t)') /\ Cardinality(Uncounted(t)) = n + 1
  <2>1. IsFiniteSet(Uncounted(t)) /\ IsFiniteSet(Uncounted(t)')
    BY <1>2, FS_RemoveElement DEF FewUncounted
  <2>2. /\ Cardinality(Uncounted(t)') = Cardinality(Uncounted(t)) - 1
        /\ Cardinality(Uncounted(t)) \in Nat /\ Cardinality(Uncounted(t)') \in Nat
    BY <1>2, <2>1, FS_RemoveElement, FS_CardinalityType
  <2>3. QED
    BY <2>2
<1>4. \A s \in Types : Loaded(1, s)' = Loaded(1, s)
  BY <1>1 DEF Loaded
<1>5. PICK k \in Nat : k = Loaded(1, t)
  BY LoadedTyped
<1>6. \A m \in Loaders : reg[m] \in Nat /\ (pc[m] = "store" /\ kind[m] = t => reg[m] + (n + 1) <= k)
  BY <1>3, <1>5, LoadTypes DEF Counts, CountedIsLoaded
<1>7. \A m \in Loaders : pc'[m] = "store" =>
        m # l /\ pc[m] = "store" /\ kind'[m] = kind[m] /\ reg'[m] = reg[m]
  BY <1>1, LoadTypes
<1>8. truckCount'[t] = reg[l] + 1 /\ \A s \in Types : s # t => truckCount'[s] = truckCount[s]
  BY <1>1, LoadTypes
<1>9. CountedIsLoaded(t)'
  <2>1. truckCount'[t] + n <= k
    BY <1>1, <1>6, <1>8
  <2>2. \A m \in Loaders : pc'[m] = "store" /\ kind'[m] = t => reg'[m] + n <= k
    BY <1>6, <1>7
  <2>3. QED
    BY <1>3, <1>4, <1>5, <2>1, <2>2 DEF CountedIsLoaded
<1>10. ASSUME NEW s \in Types, s # t PROVE CountedIsLoaded(s)'
  BY <1>2, <1>4, <1>7, <1>8, <1>10 DEF Counts, CountedIsLoaded
<1>11. QED
  BY <1>9, <1>10 DEF Counts

-----------------------------------------------------------------------------
(* What a loader has found                                                 *)

Own(l) ==
  /\ CarriesItsType(l)
  /\ \A t \in Types : FoundFull(l, t) => Loaded(1, t) >= Quota[t]
  /\ pc[l] = "turn" => reg[l] = 0
  /\ pc[l] # "reset"

\* The head of a storage queue is a box of its type.
LEMMA TakesItsType ==
  ASSUME TypeOK, OrderInv, BoxInv, NEW t \in Types, storageQ[t] # <<>>
  PROVE  Head(storageQ[t]) \in Boxes /\ Head(storageQ[t])[1] = t
<1>1. storageQ[t] \in Seq(Boxes \cup {NoBox})
  BY BoxTypes
<1>2. Head(storageQ[t]) = storageQ[t][1] /\ 1 \in DOMAIN storageQ[t]
  BY <1>1, TailFacts
<1>3. QED
  BY <1>2 DEF OrderInv, Numbered, BoxInv, OwnType

\* At the labels where nothing was found a loader has nothing to keep.
LEMMA NothingFound ==
  ASSUME NEW l,
         pc[l] \notin {"release", "stow", "append", "compare", "turn", "advance", "reset"}
  PROVE  Own(l)
BY DEF Own, CarriesItsType, FoundFull

\* A loader that starts to compare has found nothing either.
LEMMA StartsComparing ==
  ASSUME NEW l, pc[l] = "compare", kind[l] = 1
  PROVE  Own(l)
BY TypeAfter, FirstAndNextType DEF Own, CarriesItsType, FoundFull

\* While the count of a type is its quota, so many boxes are on the truck.
LEMMA CompareKeepsOwn ==
  ASSUME TypeOK, Counts, FewUncounted, NEW l \in Loaders, Own(l), LoaderCompare(l)
  PROVE  Own(l)'
<1> PICK t \in Types : t = kind[l]
  BY LoadTypes
<1>1. /\ pc[l] = "compare" /\ reg'[l] = 0
      /\ \A s \in Types : Loaded(1, s)' = Loaded(1, s)
  BY LoadTypes DEF LoaderCompare, Forget, truckVars, Loaded
<1>2. CASE truckCount[t] # Quota[t]
  <2>1. pc'[l] = "leave"
    BY <1>2, LoadTypes DEF LoaderCompare, Goto
  <2>2. QED
    BY <2>1 DEF Own, CarriesItsType, FoundFull
<1>3. CASE truckCount[t] = Quota[t]
  <2>1. Loaded(1, t) >= Quota[t]
    <3>1. PICK n \in Nat, k \in Nat, c \in Nat :
            n = Cardinality(Uncounted(t)) /\ k = Loaded(1, t) /\ c = truckCount[t]
      BY LoadedTyped, LoadTypes, FS_CardinalityType DEF FewUncounted
    <3>2. c + n <= k
      BY <3>1 DEF Counts, CountedIsLoaded
    <3>3. k >= c
      BY <3>2
    <3>4. QED
      BY <1>3, <3>1, <3>3
  <2>2. \A s \in Types : s < t => Loaded(1, s) >= Quota[s]
    BY <1>1 DEF Own, FoundFull
  <2>3. pc' = [pc EXCEPT ![l] = IF t = NumTypes THEN "turn" ELSE "compare"]
        /\ kind' = [kind EXCEPT ![l] = NextKind(t)]
    BY <1>3 DEF LoaderCompare, NextType, Goto
  <2>4. pc'[l] = (IF t = NumTypes THEN "turn" ELSE "compare") /\ kind'[l] = NextKind(t)
    BY <2>3, LoadTypes
  <2>5. CASE t = NumTypes
    <3>1. \A s \in Types : Loaded(1, s) >= Quota[s]
      BY <2>1, <2>2, <2>5, TypeAfter
    <3>2. pc'[l] = "turn"
      BY <2>4, <2>5
    <3>3. QED
      BY <1>1, <3>1, <3>2 DEF Own, CarriesItsType, FoundFull
  <2>6. CASE t # NumTypes
    <3>1. pc'[l] = "compare" /\ kind'[l] = t + 1
      BY <2>4, <2>6, TypeAfter
    <3>2. \A s \in Types : s < t + 1 => Loaded(1, s) >= Quota[s]
      BY <2>1, <2>2, <2>6, TypeAfter
    <3>3. QED
      BY <1>1, <3>1, <3>2 DEF Own, CarriesItsType, FoundFull
  <2>7. QED
    BY <2>5, <2>6
<1>4. QED
  BY <1>2, <1>3

\* Each step of a loader finds what it needs for the next.
LEMMA LoaderKeepsOwn ==
  ASSUME TypeOK, OrderInv, BoxInv, FirstTruckInv, FirstTruck, Counts, FewUncounted,
         NEW l \in Loaders, Own(l), LoaderStep(l), ~LoaderAdvance(l)
  PROVE  Own(l)'
<1> l \in Carriers /\ kind[l] \in Types
  BY LoadTypes
<1>1. CASE LoaderReadOrder(l) \/ LoaderLock(l) \/ LoaderSave(l) \/ LoaderCheck(l)
  <2>1. pc'[l] \in {"lock", "save", "check", "stock", "ship"}
    BY <1>1, LoadTypes DEF LoaderReadOrder, LoaderLock, LoaderSave, LoaderCheck, Goto
  <2>2. QED
    BY <2>1 DEF Own, CarriesItsType, FoundFull
<1>2. CASE LoaderStock(l) \/ LoaderShip(l)
  <2>1. /\ pc'[l] \in {"take", "check", "compare"}
        /\ pc'[l] = "compare" => kind[l] = NumTypes /\ kind'[l] = NextKind(kind[l])
    BY <1>2, LoadTypes DEF LoaderStock, LoaderShip, NextType, Goto
  <2>2. pc'[l] = "compare" => kind'[l] = 1
    BY <2>1, TypeAfter
  <2>3. \A t \in Types : ~(t < 1)
    BY FirstAndNextType, TypeAfter
  <2>4. QED
    BY <2>1, <2>2, <2>3 DEF Own, CarriesItsType, FoundFull
<1>3. CASE LoaderTake(l)
  <2>1. pc[l] = "take" /\ storageQ[kind[l]] # <<>>
    BY <1>3 DEF LoaderTake, FirstTruckInv
  <2>2. pc'[l] = "release" /\ hand'[l] = Head(storageQ[kind[l]]) /\ kind'[l] = kind[l]
    BY <1>3, <2>1, LoadTypes DEF LoaderTake, Goto
  <2>3. hand'[l] \in Boxes /\ hand'[l][1] = kind'[l]
    BY <2>1, <2>2, TakesItsType
  <2>4. QED
    BY <2>2, <2>3 DEF Own, CarriesItsType, FoundFull
<1>4. CASE LoaderRelease(l) \/ LoaderEnqueue(l)
  <2>1. /\ pc[l] \in {"release", "stow"} /\ pc'[l] \in {"stow", "append"}
        /\ hand' = hand /\ kind' = kind
    BY <1>4, LoadTypes DEF LoaderRelease, LoaderEnqueue, Goto
  <2>2. QED
    BY <2>1 DEF Own, CarriesItsType, FoundFull
<1>5. CASE LoaderAppend(l) \/ LoaderLoadCount(l) \/ LoaderStoreCount(l) \/ LoaderLeave(l)
  <2>1. pc'[l] \in {"load", "store", "order"}
    BY <1>5, LoadTypes DEF LoaderAppend, LoaderLoadCount, LoaderStoreCount, LoaderLeave,
       Restart, Goto
  <2>2. QED
    BY <2>1 DEF Own, CarriesItsType, FoundFull
<1>6. CASE LoaderTurn(l)
  <2>1. pc[l] = "turn" /\ reg[l] = 0 /\ G_Trucks_Order = 1
    BY <1>6 DEF LoaderTurn, Own, FirstTruckInv
  <2>2. pc'[l] = "advance" /\ truckQ' = truckQ
    BY <1>6, <2>1, LoadTypes DEF LoaderTurn, Goto, truckVars
  <2>3. \A t \in Types : Loaded(1, t) >= Quota[t] /\ Loaded(1, t)' = Loaded(1, t)
    BY <2>1, <2>2 DEF Own, FoundFull, Loaded
  <2>4. QED
    BY <2>2, <2>3 DEF Own, CarriesItsType, FoundFull
<1>7. CASE LoaderReset(l)
  BY <1>7 DEF LoaderReset, Own
<1>8. QED
  BY <1>1, <1>2, <1>3, <1>4, <1>5, <1>6, <1>7, CompareKeepsOwn DEF LoaderStep

\* A loader's step keeps what all have found.
LEMMA LoaderKeepsLoad ==
  ASSUME TypeOK, OrderInv, BoxInv, FirstTruckInv, FirstLoad, NEW l \in Loaders, LoaderStep(l)
  PROVE  FirstLoad'
<1>1. FewUncounted'
  BY LoaderKeepsFew DEF FirstLoad
<1>2. SUFFICES ASSUME FirstTruck' PROVE Counts' /\ \A m \in Loaders : Own(m)'
  BY <1>1 DEF FirstLoad, FirstLoadInv, Counts, Own
<1>3. FirstTruck /\ ~LoaderAdvance(l)
  BY <1>2, FirstTruckOnce
<1>4. Counts /\ FewUncounted /\ \A m \in Loaders : Own(m)
  BY <1>3 DEF FirstLoad, FirstLoadInv, Counts, Own
<1>5. Counts' /\ \A t \in Types : Loaded(1, t)' \in Nat /\ Loaded(1, t)' >= Loaded(1, t)
  <2>1. ASSUME truckQ' = truckQ
        PROVE  \A t \in Types : Loaded(1, t)' \in Nat /\ Loaded(1, t)' >= Loaded(1, t)
    <3>1. \A t \in Types : Loaded(1, t)' = Loaded(1, t)
      BY <2>1 DEF Loaded
    <3>2. \A t \in Types : Loaded(1, t) \in Nat
      BY LoadedTyped
    <3>3. QED
      BY <3>1, <3>2
  <2>2. CASE LoaderAppend(l)
    BY <1>3, <1>4, <2>2, AppendCounts DEF Own
  <2>3. CASE LoaderLoadCount(l)
    BY <1>4, <2>1, <2>3, LoadCounts DEF LoaderLoadCount, truckVars
  <2>4. CASE LoaderStoreCount(l)
    BY <1>4, <2>1, <2>4, StoreCountsLoad DEF LoaderStoreCount
  <2>5. ASSUME ~LoaderAppend(l), ~LoaderLoadCount(l), ~LoaderStoreCount(l)
        PROVE  /\ truckQ' = truckQ /\ truckCount' = truckCount
               /\ pc[l] \notin {"load", "store"} /\ pc'[l] \notin {"load", "store"}
    <3> USE LoadTypes DEF Goto, Restart, NextType, truckVars
    <3>1. CASE LoaderReadOrder(l) \/ LoaderLock(l) \/ LoaderSave(l) \/ LoaderCheck(l)
      BY <3>1 DEF LoaderReadOrder, LoaderLock, LoaderSave, LoaderCheck
    <3>2. CASE LoaderStock(l) \/ LoaderTake(l) \/ LoaderRelease(l) \/ LoaderEnqueue(l)
      BY <3>2 DEF LoaderStock, LoaderTake, LoaderRelease, LoaderEnqueue
    <3>3. CASE LoaderShip(l) \/ LoaderCompare(l) \/ LoaderTurn(l) \/ LoaderLeave(l)
      BY <3>3 DEF LoaderShip, LoaderCompare, LoaderTurn, LoaderLeave
    <3>4. CASE LoaderReset(l)
      BY <1>4, <3>4 DEF LoaderReset, Own
    <3>5. QED
      BY <1>3, <2>5, <3>1, <3>2, <3>3, <3>4 DEF LoaderStep
  <2>6. QED
    BY <1>4, <2>1, <2>2, <2>3, <2>4, <2>5, QuietCounts
<1>6. ASSUME NEW m \in Loaders, m # l PROVE Own(m)'
  <2>1. pc'[m] = pc[m] /\ kind'[m] = kind[m] /\ reg'[m] = reg[m] /\ hand'[m] = hand[m]
    BY <1>6, LoaderLeavesOthers
  <2>2. \A t \in Types : Loaded(1, t) >= Quota[t] => Loaded(1, t)' >= Quota[t]
    <3>1. ASSUME NEW t \in Types, Loaded(1, t) >= Quota[t] PROVE Loaded(1, t)' >= Quota[t]
      <4>1. /\ Loaded(1, t) \in Nat /\ Quota[t] \in Nat
            /\ Loaded(1, t)' \in Nat /\ Loaded(1, t)' >= Loaded(1, t)
        BY <1>5, LoadedTyped, LoadTypes
      <4>2. QED
        BY <3>1, <4>1
    <3>2. QED
      BY <3>1
  <2>3. Own(m)
    BY <1>4
  <2>4. QED
    BY <2>1, <2>2, <2>3 DEF Own, CarriesItsType, FoundFull
<1>7. QED
  BY <1>3, <1>4, <1>5, <1>6, LoaderKeepsOwn

\* At the start nothing is loaded or counted.
LEMMA InitFirstLoad == Init => FirstLoad
<1> SUFFICES ASSUME Init PROVE FirstLoad
  OBVIOUS
<1>1. \A l \in Loaders : pc[l] = "order"
  BY ThreadsAssumption DEF Init, Carriers
<1>2. \A t \in Types : Uncounted(t) = {} /\ truckCount[t] = 0
  BY <1>1 DEF Uncounted, Init
<1>3. IsFiniteSet({}) /\ Cardinality({}) = 0
  BY FS_EmptySet
<1>4. \A t \in Types : Loaded(1, t) \in Nat
  BY InitTypeOK, LoadedTyped
<1>5. \A t \in Types : CountedIsLoaded(t)
  BY <1>1, <1>2, <1>3, <1>4 DEF CountedIsLoaded
<1>6. \A l \in Loaders : Own(l)
  BY <1>1 DEF Own, CarriesItsType, FoundFull
<1>7. QED
  BY <1>2, <1>3, <1>5, <1>6 DEF FirstLoad, FirstLoadInv, FewUncounted, Own

\* The counts leave room for what is not counted, until the trucks change.
LEMMA NextFirstLoad ==
  TypeOK /\ OrderInv /\ BoxInv /\ FirstTruckInv /\ FirstLoad /\ [Next]_vars => FirstLoad'
<1> SUFFICES ASSUME TypeOK, OrderInv, BoxInv, FirstTruckInv, FirstLoad, [Next]_vars
             PROVE  FirstLoad'
  OBVIOUS
<1>1. ASSUME NEW t \in Types, FillerStep(t) PROVE FirstLoad'
  <2>1. UNCHANGED <<truckQ, truckCount, switched, pc, kind, reg, hand>>
    BY <1>1 DEF FillerStep, FillerTest, FillerResume, FillerPack, truckVars, turnVars, localVars
  <2>2. QED
    BY <2>1, OthersKeepLoad
<1>2. ASSUME NEW p \in Porters, PorterStep(p) PROVE FirstLoad'
  <2>1. UNCHANGED <<truckQ, truckCount, switched>>
    BY <1>2 DEF PorterStep, PorterEnter, PorterLoadCount, PorterStoreCount, PorterPick,
       PorterPut, truckVars, turnVars
  <2>2. \A l \in Loaders : l # p /\ l \in Carriers
    BY ThreadsAssumption DEF Carriers
  <2>3. \A l \in Loaders :
          pc'[l] = pc[l] /\ kind'[l] = kind[l] /\ reg'[l] = reg[l] /\ hand'[l] = hand[l]
    <3> USE LoadTypes DEF Goto, Forget
    <3>1. CASE PorterEnter(p)
      BY <2>2, <3>1 DEF PorterEnter
    <3>2. CASE PorterLoadCount(p) \/ PorterStoreCount(p)
      BY <2>2, <3>2 DEF PorterLoadCount, PorterStoreCount
    <3>3. CASE PorterPick(p)
      BY <2>2, <3>3 DEF PorterPick
    <3>4. CASE PorterPut(p)
      BY <2>2, <3>4 DEF PorterPut
    <3>5. QED
      BY <1>2, <3>1, <3>2, <3>3, <3>4 DEF PorterStep
  <2>4. QED
    BY <2>1, <2>3, OthersKeepLoad
<1>3. CASE UNCHANGED vars
  <2>1. UNCHANGED <<truckQ, truckCount, switched, pc, kind, reg, hand>>
    BY <1>3 DEF vars, truckVars, turnVars, localVars
  <2>2. QED
    BY <2>1, OthersKeepLoad
<1>4. QED
  BY <1>1, <1>2, <1>3, LoaderKeepsLoad DEF Next

\* The order of the trucks is changed by a loader that found every quota reached.
LEMMA SwitchFindsFull ==
  TypeOK /\ FirstLoad /\ [Next]_vars =>
    (switched' # switched => \A t \in Types : Loaded(1, t) >= Quota[t])
<1> SUFFICES ASSUME TypeOK, FirstLoad, [Next]_vars, switched' # switched
             PROVE  \A t \in Types : Loaded(1, t) >= Quota[t]
  OBVIOUS
<1>1. PICK l \in Loaders : LoaderAdvance(l)
  <2>1. PICK l \in Loaders : LoaderStep(l)
    <3>1. \A t \in Types : ~FillerStep(t)
      BY DEF FillerStep, FillerTest, FillerResume, FillerPack, truckVars, turnVars
    <3>2. \A p \in Porters : ~PorterStep(p)
      BY DEF PorterStep, PorterEnter, PorterLoadCount, PorterStoreCount, PorterPick,
         PorterPut, truckVars, turnVars
    <3>3. ~UNCHANGED vars
      BY DEF vars, truckVars, turnVars
    <3>4. QED
      BY <3>1, <3>2, <3>3 DEF Next
  <2>2. QED
    BY <2>1 DEF LoaderStep, LoaderReadOrder, LoaderLock, LoaderSave, LoaderCheck,
       LoaderStock, LoaderTake, LoaderRelease, LoaderEnqueue, LoaderAppend, LoaderLoadCount,
       LoaderStoreCount, LoaderShip, LoaderCompare, LoaderTurn, LoaderReset, LoaderLeave,
       truckVars, turnVars
<1>2. switched' = TRUE /\ pc[l] = "advance"
  BY <1>1 DEF LoaderAdvance
<1>3. FirstTruck
  BY <1>2 DEF TypeOK, TrucksTyped, FirstTruck
<1>4. QED
  BY <1>2, <1>3 DEF FirstLoad, FirstLoadInv, FoundFull

\* For any numbers of loaders, trucks, types and boxes and any quotas: the order of the
\* trucks does not change for the first time before the first truck has its quota of
\* every type, whatever increments of the counts the loaders lose.
THEOREM FirstTruckFull == Spec => FirstTruckLeavesFull
<1>1. TypeOK /\ OrderInv /\ BoxInv /\ FirstTruckInv /\ FirstLoad /\ [Next]_vars => FirstLoad'
  BY NextFirstLoad
<1>2. TypeOK /\ FirstTruckInv /\ [Next]_vars => FirstTruckInv'
  BY NextFirstTruckInv
<1>3. TypeOK /\ FirstLoad /\ [Next]_vars =>
        [switched' # switched => \A t \in Types : Loaded(1, t) >= Quota[t]]_vars
  BY SwitchFindsFull
<1>4. QED
  BY <1>1, <1>2, <1>3, InitFirstLoad, InitFirstTruckInv, TypeCorrect, OrderInvHolds,
     BoxInvHolds, PTL DEF Spec, FirstTruckLeavesFull
=============================================================================
