-------------------------- MODULE ShippingBoxProofs --------------------------
(***************************************************************************)
(* Proofs that every box that was filled is in exactly one place, unless it *)
(* was lost on a truck whose list two loaders changed at a time, and that    *)
(* no box is counted that was not carried off, for any numbers of types,    *)
(* porters, loaders, trucks and boxes.                                      *)
(***************************************************************************)
EXTENDS ShippingProofs, FiniteSetTheorems

-----------------------------------------------------------------------------
(* The positions of a box in a queue                                       *)

Single(A) == \E x : A = {x}

\* Two sets are both empty or not, and both have one element or not.
SameShape(A, B) == (A = {} <=> B = {}) /\ (Single(A) <=> Single(B))

\* A set with x and at most one element has no element but x.
LEMMA SingleIs ==
  ASSUME NEW A, NEW x \in A, Single(A)
  PROVE  A = {x}
BY DEF Single

\* A box that comes to a queue is at its end, and every other box stays where it is.
LEMMA AtAppend ==
  ASSUME NEW S, NEW q \in Seq(S), NEW x \in S, NEW b
  PROVE  /\ b # x => At(Append(q, x), b) = At(q, b)
         /\ At(q, x) = {} => Single(At(Append(q, x), x))
<1>1. PICK a : a = Append(q, x)
  OBVIOUS
<1>2. /\ DOMAIN q = 1..Len(q) /\ Len(q) \in Nat /\ DOMAIN a = 1..(Len(q) + 1)
      /\ \A i \in DOMAIN q : a[i] = q[i]
      /\ a[Len(q) + 1] = x
  BY <1>1, AppendFacts
<1>3. \A i \in DOMAIN a : i \in DOMAIN q \/ i = Len(q) + 1
  BY <1>2
<1>4. DOMAIN q \subseteq DOMAIN a /\ Len(q) + 1 \in DOMAIN a
  BY <1>2
<1>5. ASSUME b # x PROVE At(a, b) = At(q, b)
  BY <1>2, <1>3, <1>4, <1>5 DEF At
<1>6. ASSUME At(q, x) = {} PROVE At(a, x) = {Len(q) + 1}
  BY <1>2, <1>3, <1>4, <1>6 DEF At
<1>7. QED
  BY <1>1, <1>5, <1>6 DEF Single

\* The boxes of the beginning of a queue are where they were.
LEMMA AtBeginning ==
  ASSUME NEW S, NEW q \in Seq(S), NEW n \in 0..Len(q), NEW b
  PROVE  SubSeq(q, 1, n) \in Seq(S) /\ At(SubSeq(q, 1, n), b) \subseteq At(q, b)
<1>1. n \in Nat /\ n <= Len(q) /\ Len(q) \in Nat /\ DOMAIN q = 1..Len(q)
  OBVIOUS
<1>2. \A i \in 1..n : i \in DOMAIN q /\ q[i] \in S
  BY <1>1
<1>3. PICK a : a = SubSeq(q, 1, n)
  OBVIOUS
<1>4. /\ a \in Seq(S) /\ Len(a) = n
      /\ \A i \in 1..n : a[i] = q[i]
  <2>1. /\ a \in Seq(S) /\ Len(a) = IF 1 <= n THEN n - 1 + 1 ELSE 0
        /\ \A i \in 1..n - 1 + 1 : a[i] = q[1 + i - 1]
    BY <1>1, <1>2, <1>3, SubSeqProperties
  <2>2. QED
    BY <1>1, <2>1
<1>5. \A i \in DOMAIN a : i \in DOMAIN q /\ a[i] = q[i]
  BY <1>2, <1>4
<1>6. QED
  BY <1>3, <1>4, <1>5 DEF At

\* A part of a set with one element is the set, or empty.
LEMMA PartOfSingle ==
  ASSUME NEW A, NEW B, Single(A), B \subseteq A
  PROVE  B = {} \/ Single(B)
BY DEF Single

\* The first box of a queue leaves it, and every other box moves up.
LEMMA AtTail ==
  ASSUME NEW S, NEW q \in Seq(S), q # <<>>, NEW b
  PROVE  /\ b # Head(q) => SameShape(At(q, b), At(Tail(q), b))
         /\ 1 \in At(q, Head(q))
         /\ Single(At(q, Head(q))) => At(Tail(q), Head(q)) = {}
<1>1. PICK r, h : r = Tail(q) /\ h = Head(q)
  OBVIOUS
<1>2. PICK l \in Nat : l = Len(q) /\ l >= 1
  OBVIOUS
<1>3. /\ DOMAIN q = 1..l /\ DOMAIN r = 1..(l - 1) /\ h = q[1]
      /\ \A i \in 1..(l - 1) : r[i] = q[i + 1]
  BY <1>1, <1>2
<1>4. ASSUME NEW c, NEW i, i + 1 \in At(q, c), i \in 1..(l - 1) PROVE i \in At(r, c)
  BY <1>3, <1>4 DEF At
<1>5. ASSUME NEW c, NEW i \in At(r, c) PROVE i \in 1..(l - 1) /\ i + 1 \in At(q, c)
  <2>1. i \in 1..(l - 1) /\ r[i] = c
    BY <1>3 DEF At
  <2>2. i + 1 \in 1..l /\ q[i + 1] = c
    BY <1>2, <1>3, <2>1
  <2>3. QED
    BY <1>3, <2>1, <2>2 DEF At
<1>6. 1 \in At(q, h)
  BY <1>2, <1>3 DEF At
<1>7. ASSUME Single(At(q, h)) PROVE At(r, h) = {}
  <2>1. SUFFICES ASSUME NEW i \in At(r, h) PROVE FALSE
    OBVIOUS
  <2>2. i \in 1..(l - 1) /\ i + 1 \in At(q, h)
    BY <1>5
  <2>3. i + 1 = 1
    BY <1>6, <1>7, <2>2, SingleIs
  <2>4. QED
    BY <2>2, <2>3
<1>8. ASSUME b # h PROVE SameShape(At(q, b), At(r, b))
  <2>1. ASSUME NEW j \in At(q, b) PROVE \E i \in At(r, b) : j = i + 1
    <3>1. j \in 1..l /\ j # 1
      BY <1>3, <1>8 DEF At
    <3>2. PICK i \in 1..(l - 1) : j = i + 1
      BY <1>2, <3>1
    <3>3. QED
      BY <1>4, <3>2
  <2>2. At(q, b) = {} <=> At(r, b) = {}
    BY <1>5, <2>1
  <2>3. ASSUME Single(At(q, b)) PROVE Single(At(r, b))
    <3>1. PICK j : At(q, b) = {j}
      BY <2>3 DEF Single
    <3>2. PICK i \in At(r, b) : j = i + 1
      BY <2>1, <3>1
    <3>3. ASSUME NEW k \in At(r, b) PROVE k = i
      <4>1. k \in Nat /\ i \in Nat /\ k + 1 = j
        BY <1>5, <3>1
      <4>2. QED
        BY <3>2, <4>1
    <3>4. At(r, b) = {i}
      BY <3>2, <3>3
    <3>5. QED
      BY <3>4 DEF Single
  <2>4. ASSUME Single(At(r, b)) PROVE Single(At(q, b))
    <3>1. PICK i : At(r, b) = {i}
      BY <2>4 DEF Single
    <3>2. i + 1 \in At(q, b)
      BY <1>5, <3>1
    <3>3. ASSUME NEW j \in At(q, b) PROVE j = i + 1
      BY <2>1, <3>1
    <3>4. At(q, b) = {i + 1}
      BY <3>2, <3>3
    <3>5. QED
      BY <3>4 DEF Single
  <2>5. QED
    BY <2>2, <2>3, <2>4 DEF SameShape
<1>9. QED
  BY <1>1, <1>6, <1>7, <1>8

-----------------------------------------------------------------------------
(* The inductive invariant                                                 *)

\* The four kinds of places, for box b.
InFilling(b) == At(fillQ[b[1]], b)
InStore(b) == At(storageQ[b[1]], b)
InHands(b) == {c \in Carriers : hand[c] = b}
OnTrucks(b) == UNION {{k} \X At(truckQ[k], b) : k \in Trucks}

\* Exactly one of four sets has an element, and exactly one.
OneOf(A, B, C, D) ==
  \/ Single(A) /\ B = {} /\ C = {} /\ D = {}
  \/ A = {} /\ Single(B) /\ C = {} /\ D = {}
  \/ A = {} /\ B = {} /\ Single(C) /\ D = {}
  \/ A = {} /\ B = {} /\ C = {} /\ Single(D)
NoneOf(A, B, C, D) == A = {} /\ B = {} /\ C = {} /\ D = {}

Given(b) == b[2] <= made[b[1]]

\* A box that was filled is in one place, or it was lost on a truck; and one that was
\* not is nowhere.
Placed(b) ==
  /\ Given(b) => \/ OneOf(InFilling(b), InStore(b), InHands(b), OnTrucks(b))
                 \/ NoneOf(InFilling(b), InStore(b), InHands(b), OnTrucks(b)) /\ torn # {}
  /\ ~Given(b) => NoneOf(InFilling(b), InStore(b), InHands(b), OnTrucks(b))

\* A loader has a box only between taking and linking it, and the boxes in the storage
\* area are in the queue of their type.
Loading == {"release", "stow", "append"}
LoaderCarries == \A l \in Loaders : pc[l] \notin Loading => hand[l] = NoBox
OwnType == \A t \in Types : \A i \in DOMAIN storageQ[t] : storageQ[t][i][1] = t

BoxInv == LoaderCarries /\ OwnType /\ \A b \in Boxes : Placed(b)

LEMMA NoBoxIsNoBox == NoBox \notin Boxes
BY DEF NoBox, Boxes, Types

\* The types that the proofs of this module need.
LEMMA BoxTypes ==
  ASSUME TypeOK
  PROVE  /\ made \in [Types -> Nat]
         /\ fillQ \in [Types -> Seq(Boxes)]
         /\ storageQ \in [Types -> Seq(Boxes \cup {NoBox})]
         /\ truckQ \in [Trucks -> Seq(Boxes \cup {NoBox})]
         /\ hand \in [Carriers -> Boxes \cup {NoBox}]
         /\ kind \in [Carriers -> Types] /\ save \in [Loaders -> Trucks]
         /\ pc \in [Carriers -> PorterLabels \cup LoaderLabels]
BY DEF TypeOK, QueuesTyped, TrucksTyped, LocalsTyped, PcTyped

\* Whatever happens to other boxes, a box whose places keep their shape stays placed,
\* and so does one that is lost on a truck, once a list was torn.
LEMMA PlacedFrame ==
  ASSUME NEW b \in Boxes, Placed(b), Given(b)' <=> Given(b), torn # {} => torn' # {},
         SameShape(InFilling(b), InFilling(b)'), SameShape(InStore(b), InStore(b)'),
         SameShape(InHands(b), InHands(b)'),
         SameShape(OnTrucks(b), OnTrucks(b)') \/ (torn # {} /\ OnTrucks(b)' = {})
  PROVE  Placed(b)'
<1>1. PICK A, B, C, D : A = InFilling(b) /\ B = InStore(b) /\ C = InHands(b) /\ D = OnTrucks(b)
  OBVIOUS
<1>2. PICK X, Y, Z, W : /\ X = InFilling(b)' /\ Y = InStore(b)'
                        /\ Z = InHands(b)' /\ W = OnTrucks(b)'
  OBVIOUS
<1>3. OneOf(A, B, C, D) => OneOf(X, Y, Z, W) \/ (NoneOf(X, Y, Z, W) /\ torn # {})
  BY <1>1, <1>2 DEF OneOf, NoneOf, SameShape
<1>4. NoneOf(A, B, C, D) => NoneOf(X, Y, Z, W)
  BY <1>1, <1>2 DEF NoneOf, SameShape
<1>5. /\ Given(b) => OneOf(A, B, C, D) \/ (NoneOf(A, B, C, D) /\ torn # {})
      /\ ~Given(b) => NoneOf(A, B, C, D)
  BY <1>1 DEF Placed
<1>6. /\ Given(b)' => OneOf(X, Y, Z, W) \/ (NoneOf(X, Y, Z, W) /\ torn' # {})
      /\ ~Given(b)' => NoneOf(X, Y, Z, W)
  BY <1>3, <1>4, <1>5
<1>7. QED
  BY <1>2, <1>6 DEF Placed, OneOf, NoneOf, Single

LEMMA SameShapeOfEqual == ASSUME NEW A, NEW B, A = B PROVE SameShape(A, B)
BY DEF SameShape

\* A carrier with empty hands takes x, and one with x has empty hands afterwards.
LEMMA HandTakes ==
  ASSUME NEW c \in Carriers, NEW x, hand \in [Carriers -> Boxes \cup {NoBox}],
         hand[c] = NoBox, hand' = [hand EXCEPT ![c] = x], NEW b \in Boxes
  PROVE  /\ b # x => InHands(b)' = InHands(b)
         /\ b = x /\ InHands(b) = {} => Single(InHands(b)')
<1>1. hand'[c] = x /\ \A d \in Carriers : d # c => hand'[d] = hand[d]
  OBVIOUS
<1>2. b # NoBox
  BY NoBoxIsNoBox
<1>3. ASSUME b # x PROVE InHands(b)' = InHands(b)
  BY <1>1, <1>2, <1>3 DEF InHands
<1>4. ASSUME b = x, InHands(b) = {} PROVE InHands(b)' = {c}
  BY <1>1, <1>4 DEF InHands
<1>5. QED
  BY <1>3, <1>4 DEF Single

LEMMA HandGives ==
  ASSUME NEW c \in Carriers, hand \in [Carriers -> Boxes \cup {NoBox}],
         hand' = [hand EXCEPT ![c] = NoBox], NEW b \in Boxes
  PROVE  /\ b # hand[c] => InHands(b)' = InHands(b)
         /\ b = hand[c] => c \in InHands(b)
         /\ b = hand[c] /\ Single(InHands(b)) => InHands(b)' = {}
<1>1. hand'[c] = NoBox /\ \A d \in Carriers : d # c => hand'[d] = hand[d]
  OBVIOUS
<1>2. b # NoBox
  BY NoBoxIsNoBox
<1>3. ASSUME b # hand[c] PROVE InHands(b)' = InHands(b)
  BY <1>1, <1>2, <1>3 DEF InHands
<1>4. ASSUME b = hand[c] PROVE c \in InHands(b)
  BY <1>4 DEF InHands
<1>5. ASSUME b = hand[c], Single(InHands(b)) PROVE InHands(b)' = {}
  <2>1. InHands(b) = {c}
    BY <1>4, <1>5, SingleIs
  <2>2. \A d \in Carriers : hand'[d] # b
    BY <1>1, <1>2, <2>1 DEF InHands
  <2>3. QED
    BY <2>2 DEF InHands
<1>6. QED
  BY <1>3, <1>4, <1>5

\* What linking box x makes of the places of b in the list of its truck: b keeps its
\* place, unless the list is torn.
LEMMA LinkedAt ==
  ASSUME NEW S, NEW k \in Trucks, NEW x \in S, truckQ \in [Trucks -> Seq(S)],
         NEW q \in Linked(k, x), NEW b
  PROVE  /\ b # x => \/ At(q, b) = At(truckQ[k], b)
                     \/ torn # {} /\ At(q, b) \subseteq At(truckQ[k], b)
         /\ At(truckQ[k], x) = {} => \/ Single(At(q, x))
                                     \/ torn # {} /\ At(q, x) = {}
<1>1. PICK s \in Seq(S) : s = truckQ[k]
  OBVIOUS
<1>2. CASE k \notin torn
  <2>1. q = Append(s, x)
    BY <1>1, <1>2 DEF Linked
  <2>2. QED
    BY <1>1, <2>1, AtAppend
<1>3. CASE k \in torn
  <2>1. PICK n \in 0..Len(s) : q \in {SubSeq(s, 1, n), Append(SubSeq(s, 1, n), x)}
    BY <1>1, <1>3 DEF Linked
  <2>2. PICK a \in Seq(S) : a = SubSeq(s, 1, n)
    BY AtBeginning
  <2>3. At(a, b) \subseteq At(s, b) /\ At(a, x) \subseteq At(s, x)
    BY <2>2, AtBeginning
  <2>4. q = a \/ q = Append(a, x)
    BY <2>1, <2>2
  <2>5. ASSUME b # x PROVE At(q, b) = At(a, b)
    <3>1. At(Append(a, x), b) = At(a, b)
      BY <2>5, AtAppend
    <3>2. QED
      BY <2>4, <3>1, Zenon
  <2>6. At(s, x) = {} => Single(At(q, x)) \/ At(q, x) = {}
    BY <2>3, <2>4, AtAppend
  <2>7. QED
    BY <1>1, <1>3, <2>3, <2>5, <2>6
<1>4. QED
  BY <1>2, <1>3

\* What linking box x makes of the places of b on all trucks.
LEMMA TruckGets ==
  ASSUME NEW k \in Trucks, NEW x \in Boxes \cup {NoBox},
         truckQ \in [Trucks -> Seq(Boxes \cup {NoBox})],
         NEW q \in Linked(k, x), truckQ' = [truckQ EXCEPT ![k] = q], NEW b \in Boxes
  PROVE  /\ b # x => \/ OnTrucks(b)' = OnTrucks(b)
                     \/ torn # {} /\ OnTrucks(b)' \subseteq OnTrucks(b)
         /\ b = x /\ OnTrucks(b) = {} => \/ Single(OnTrucks(b)')
                                         \/ torn # {} /\ OnTrucks(b)' = {}
<1>1. truckQ'[k] = q /\ \A n \in Trucks : n # k => truckQ'[n] = truckQ[n]
  OBVIOUS
<1>2. /\ b # x => \/ At(q, b) = At(truckQ[k], b)
                  \/ torn # {} /\ At(q, b) \subseteq At(truckQ[k], b)
      /\ At(truckQ[k], x) = {} => \/ Single(At(q, x))
                                  \/ torn # {} /\ At(q, x) = {}
  <2>1. PICK S : S = Boxes \cup {NoBox}
    OBVIOUS
  <2>2. x \in S /\ truckQ \in [Trucks -> Seq(S)]
    BY <2>1
  <2>3. QED
    BY <2>2, LinkedAt
<1>3. OnTrucks(b)' = UNION {{n} \X At(truckQ'[n], b) : n \in Trucks}
  BY DEF OnTrucks, At
<1>4. ASSUME b # x
      PROVE  \/ OnTrucks(b)' = OnTrucks(b)
             \/ torn # {} /\ OnTrucks(b)' \subseteq OnTrucks(b)
  <2>1. CASE At(q, b) = At(truckQ[k], b)
    <3>1. \A n \in Trucks : At(truckQ'[n], b) = At(truckQ[n], b)
      BY <1>1, <2>1
    <3>2. QED
      BY <1>3, <3>1 DEF OnTrucks
  <2>2. CASE torn # {} /\ At(q, b) \subseteq At(truckQ[k], b)
    <3>1. \A n \in Trucks : At(truckQ'[n], b) \subseteq At(truckQ[n], b)
      BY <1>1, <2>2
    <3>2. OnTrucks(b)' \subseteq OnTrucks(b)
      BY <1>3, <3>1 DEF OnTrucks
    <3>3. QED
      BY <2>2, <3>2
  <2>3. QED
    BY <1>2, <1>4, <2>1, <2>2
<1>5. ASSUME b = x, OnTrucks(b) = {}
      PROVE  \/ Single(OnTrucks(b)')
             \/ torn # {} /\ OnTrucks(b)' = {}
  <2>1. \A n \in Trucks : At(truckQ[n], b) = {}
    <3>1. SUFFICES ASSUME NEW n \in Trucks, NEW i \in At(truckQ[n], b) PROVE FALSE
      OBVIOUS
    <3>2. <<n, i>> \in OnTrucks(b)
      BY DEF OnTrucks
    <3>3. QED
      BY <1>5, <3>2
  <2>2. \A n \in Trucks : n # k => At(truckQ'[n], b) = {}
    BY <1>1, <2>1
  <2>3. CASE Single(At(q, x))
    <3>1. PICK i : At(truckQ'[k], b) = {i}
      BY <1>1, <1>5, <2>3 DEF Single
    <3>2. <<k, i>> \in OnTrucks(b)'
      BY <1>3, <3>1
    <3>3. ASSUME NEW z \in OnTrucks(b)' PROVE z = <<k, i>>
      <4>1. PICK n \in Trucks : z \in {n} \X At(truckQ'[n], b)
        BY <1>3
      <4>2. n = k
        BY <2>2, <4>1
      <4>3. QED
        BY <3>1, <4>1, <4>2
    <3>4. OnTrucks(b)' = {<<k, i>>}
      BY <3>2, <3>3
    <3>5. QED
      BY <3>4 DEF Single
  <2>4. CASE torn # {} /\ At(q, x) = {}
    <3>1. \A n \in Trucks : At(truckQ'[n], b) = {}
      BY <1>1, <1>5, <2>2, <2>4
    <3>2. ASSUME NEW z \in OnTrucks(b)' PROVE FALSE
      <4>1. PICK n \in Trucks : z \in {n} \X At(truckQ'[n], b)
        BY <1>3
      <4>2. QED
        BY <3>1, <4>1
    <3>3. QED
      BY <2>4, <3>2
  <2>5. At(truckQ[k], x) = {}
    BY <1>5, <2>1
  <2>6. Single(At(q, x)) \/ (torn # {} /\ At(q, x) = {})
    BY <1>2, <2>5, Zenon
  <2>7. QED
    BY ONLY <2>3, <2>4, <2>6, Zenon
<1>6. QED
  BY <1>4, <1>5

-----------------------------------------------------------------------------
(* Steps                                                                   *)

\* A box that has a place has no other one.
LEMMA OnlyPlace ==
  ASSUME NEW b \in Boxes, Placed(b)
  PROVE  /\ InFilling(b) # {} => /\ Given(b) /\ Single(InFilling(b)) /\ InStore(b) = {}
                                 /\ InHands(b) = {} /\ OnTrucks(b) = {}
         /\ InStore(b) # {} => /\ Given(b) /\ InFilling(b) = {} /\ Single(InStore(b))
                               /\ InHands(b) = {} /\ OnTrucks(b) = {}
         /\ InHands(b) # {} => /\ Given(b) /\ InFilling(b) = {} /\ InStore(b) = {}
                               /\ Single(InHands(b)) /\ OnTrucks(b) = {}
<1>1. \A A, B, C, D :
        OneOf(A, B, C, D) =>
          /\ A # {} => Single(A) /\ B = {} /\ C = {} /\ D = {}
          /\ B # {} => A = {} /\ Single(B) /\ C = {} /\ D = {}
          /\ C # {} => A = {} /\ B = {} /\ Single(C) /\ D = {}
  BY DEF OneOf
<1>2. \A A, B, C, D : NoneOf(A, B, C, D) => A = {} /\ B = {} /\ C = {}
  BY DEF NoneOf
<1>3. QED
  BY <1>1, <1>2 DEF Placed

\* A filled box, which was nowhere, comes to the filling queue of its type.
LEMMA PackKeepsPlaces ==
  ASSUME TypeOK, BoxInv, NEW t \in Types, FillerPack(t)
  PROVE  BoxInv'
<1> DEFINE x == <<t, made[t] + 1>>
<1>1. /\ fillQ' = [fillQ EXCEPT ![t] = Append(fillQ[t], x)]
      /\ made' = [made EXCEPT ![t] = made[t] + 1]
      /\ UNCHANGED <<storageQ, truckQ, torn, pc, hand>>
  BY DEF FillerPack, localVars, truckVars
<1>2. /\ fillQ \in [Types -> Seq(Boxes)] /\ made \in [Types -> Nat]
      /\ x \in Boxes /\ x[1] = t /\ x[2] = made[t] + 1
  BY BoxTypes DEF Boxes
<1> HIDE DEF x
<1>3. /\ fillQ'[t] = Append(fillQ[t], x) /\ made'[t] = made[t] + 1
      /\ \A s \in Types : s # t => fillQ'[s] = fillQ[s] /\ made'[s] = made[s]
  BY <1>1, <1>2
<1>4. LoaderCarries' /\ OwnType'
  BY <1>1 DEF BoxInv, LoaderCarries, OwnType
<1>5. SUFFICES ASSUME NEW b \in Boxes PROVE Placed(b)'
  BY <1>4 DEF BoxInv
<1>6. /\ Placed(b) /\ InStore(b)' = InStore(b) /\ InHands(b)' = InHands(b)
      /\ OnTrucks(b)' = OnTrucks(b) /\ b[1] \in Types /\ b[2] \in Nat
  BY <1>1 DEF BoxInv, InStore, InHands, OnTrucks, At, Boxes
<1>7. CASE b # x
  <2>1. InFilling(b)' = InFilling(b)
    <3>1. CASE b[1] = t
      <4>1. At(Append(fillQ[t], x), b) = At(fillQ[t], b)
        BY <1>2, <1>7, AtAppend
      <4>2. QED
        BY <1>3, <3>1, <4>1 DEF InFilling, At
    <3>2. CASE b[1] # t
      BY <1>3, <1>6, <3>2 DEF InFilling, At
    <3>3. QED
      BY <3>1, <3>2
  <2>2. Given(b)' <=> Given(b)
    <3>1. CASE b[1] = t
      <4>1. b[2] # made[t] + 1
        BY <1>2, <1>7, <3>1 DEF Boxes, x
      <4>2. QED
        BY <1>2, <1>3, <1>6, <3>1, <4>1 DEF Given
    <3>2. CASE b[1] # t
      BY <1>3, <1>6, <3>2 DEF Given
    <3>3. QED
      BY <3>1, <3>2
  <2>3. QED
    BY <1>1, <1>6, <2>1, <2>2, PlacedFrame, SameShapeOfEqual
<1>8. CASE b = x
  <2>1. ~Given(b) /\ Given(b)'
    BY <1>2, <1>3, <1>8 DEF Given
  <2>2. InFilling(b) = {} /\ InStore(b) = {} /\ InHands(b) = {} /\ OnTrucks(b) = {}
    BY <1>6, <2>1 DEF Placed, NoneOf
  <2>3. Single(InFilling(b)')
    <3>1. fillQ[t] \in Seq(Boxes) /\ At(fillQ[t], x) = {}
      BY <1>2, <1>8, <2>2 DEF InFilling
    <3>2. Single(At(Append(fillQ[t], x), x))
      BY <1>2, <3>1, AtAppend
    <3>3. InFilling(b)' = At(fillQ'[t], x)
      BY <1>2, <1>8 DEF InFilling, At
    <3>4. QED
      BY <1>3, <3>2, <3>3
  <2>4. OneOf(InFilling(b)', InStore(b)', InHands(b)', OnTrucks(b)')
    BY <1>6, <2>2, <2>3 DEF OneOf
  <2>5. QED
    BY <2>1, <2>4 DEF Placed, OneOf, NoneOf, Single
<1>9. QED
  BY <1>7, <1>8

\* A porter takes the first box of a filling queue into its empty hands.
LEMMA PickKeepsPlaces ==
  ASSUME TypeOK, OrderInv, BoxInv, NEW p \in Porters, PorterPick(p)
  PROVE  BoxInv'
<1>1. PICK t \in Types : t = kind[p]
  BY BoxTypes DEF Carriers
<1>2. PICK x : x = Head(fillQ[t])
  OBVIOUS
<1>3. /\ fillQ[t] # <<>> /\ hand[p] = NoBox /\ p \in Carriers
  BY <1>1 DEF PorterPick, OrderInv, PorterCarries, Carriers
<1>4. /\ fillQ' = [fillQ EXCEPT ![t] = Tail(fillQ[t])]
      /\ hand' = [hand EXCEPT ![p] = x]
      /\ pc' = [pc EXCEPT ![p] = "put"]
      /\ UNCHANGED <<made, storageQ, truckQ, torn>>
  BY <1>1, <1>2, <1>3 DEF PorterPick, Goto, fillVars, truckVars
<1>5. /\ fillQ \in [Types -> Seq(Boxes)] /\ hand \in [Carriers -> Boxes \cup {NoBox}]
      /\ pc \in [Carriers -> PorterLabels \cup LoaderLabels]
  BY BoxTypes
<1>6. x \in Boxes /\ x[1] = t
  <2>1. Head(fillQ[t]) = fillQ[t][1] /\ 1 \in DOMAIN fillQ[t]
    BY <1>3, <1>5, TailFacts
  <2>2. fillQ[t][1] \in Boxes
    BY <1>5, <2>1
  <2>3. QED
    BY <1>2, <2>1, <2>2 DEF OrderInv, Numbered
<1>7. LoaderCarries' /\ OwnType'
  <2>1. \A l \in Loaders : l # p /\ l \in Carriers
    BY ThreadsAssumption DEF Carriers
  <2>2. \A l \in Loaders : pc'[l] = pc[l] /\ hand'[l] = hand[l]
    BY <1>4, <1>5, <2>1
  <2>3. QED
    BY <1>4, <2>2 DEF BoxInv, LoaderCarries, OwnType
<1>8. SUFFICES ASSUME NEW b \in Boxes PROVE Placed(b)'
  BY <1>7 DEF BoxInv
<1>9. /\ Placed(b) /\ InStore(b)' = InStore(b) /\ OnTrucks(b)' = OnTrucks(b)
      /\ (Given(b)' <=> Given(b)) /\ b[1] \in Types
  BY <1>4 DEF BoxInv, InStore, OnTrucks, At, Boxes, Given
<1>10. /\ fillQ'[t] = Tail(fillQ[t]) /\ \A s \in Types : s # t => fillQ'[s] = fillQ[s]
  BY <1>4, <1>5
<1>11. /\ b # x => SameShape(At(fillQ[t], b), At(Tail(fillQ[t]), b))
       /\ 1 \in At(fillQ[t], x)
       /\ Single(At(fillQ[t], x)) => At(Tail(fillQ[t]), x) = {}
  BY <1>2, <1>3, <1>5, AtTail
<1>12. /\ b # x => InHands(b)' = InHands(b)
       /\ b = x /\ InHands(b) = {} => Single(InHands(b)')
  BY <1>3, <1>4, <1>5, HandTakes
<1>13. CASE b # x
  <2>1. SameShape(InFilling(b), InFilling(b)')
    <3>1. CASE b[1] = t
      BY <1>10, <1>11, <1>13, <3>1 DEF InFilling, At
    <3>2. CASE b[1] # t
      BY <1>9, <1>10, <3>2, SameShapeOfEqual DEF InFilling, At
    <3>3. QED
      BY <3>1, <3>2
  <2>2. QED
    BY <1>4, <1>9, <1>12, <1>13, <2>1, PlacedFrame, SameShapeOfEqual
<1>14. CASE b = x
  <2>1. InFilling(b) = At(fillQ[t], x) /\ InFilling(b)' = At(fillQ'[t], x)
    BY <1>6, <1>14 DEF InFilling, At
  <2>2. /\ Given(b) /\ Single(InFilling(b)) /\ InStore(b) = {}
        /\ InHands(b) = {} /\ OnTrucks(b) = {}
    BY <1>9, <1>11, <2>1, OnlyPlace
  <2>3. InFilling(b)' = {} /\ Single(InHands(b)')
    BY <1>10, <1>11, <1>12, <1>14, <2>1, <2>2
  <2>4. OneOf(InFilling(b)', InStore(b)', InHands(b)', OnTrucks(b)')
    BY <1>9, <2>2, <2>3 DEF OneOf
  <2>5. QED
    BY <1>9, <2>2, <2>4 DEF Placed, OneOf, NoneOf, Single
<1>15. QED
  BY <1>13, <1>14

\* A porter puts its box into the storage queue of the type.
LEMMA PutKeepsPlaces ==
  ASSUME TypeOK, OrderInv, BoxInv, NEW p \in Porters, PorterPut(p)
  PROVE  BoxInv'
<1>1. PICK t \in Types : t = kind[p]
  BY BoxTypes DEF Carriers
<1>2. PICK x \in Boxes : x = hand[p] /\ x[1] = t
  BY <1>1 DEF PorterPut, OrderInv, PorterCarries
<1>3. /\ storageQ' = [storageQ EXCEPT ![t] = Append(storageQ[t], x)]
      /\ hand' = [hand EXCEPT ![p] = NoBox]
      /\ pc' = [pc EXCEPT ![p] = "enter"]
      /\ UNCHANGED <<made, fillQ, truckQ, torn>> /\ p \in Carriers
  BY <1>1, <1>2 DEF PorterPut, Goto, fillVars, truckVars, Carriers
<1>4. /\ storageQ \in [Types -> Seq(Boxes \cup {NoBox})]
      /\ hand \in [Carriers -> Boxes \cup {NoBox}]
      /\ pc \in [Carriers -> PorterLabels \cup LoaderLabels]
  BY BoxTypes
<1>5. /\ storageQ'[t] = Append(storageQ[t], x)
      /\ \A s \in Types : s # t => storageQ'[s] = storageQ[s]
  BY <1>3, <1>4
<1>6. LoaderCarries'
  <2>1. \A l \in Loaders : l # p /\ l \in Carriers
    BY ThreadsAssumption DEF Carriers
  <2>2. \A l \in Loaders : pc'[l] = pc[l] /\ hand'[l] = hand[l]
    BY <1>3, <1>4, <2>1
  <2>3. QED
    BY <2>2 DEF BoxInv, LoaderCarries
<1>7. OwnType'
  <2>1. SUFFICES ASSUME NEW s \in Types, NEW i \in DOMAIN storageQ'[s]
                 PROVE  storageQ'[s][i][1] = s
    BY DEF OwnType
  <2>2. CASE s # t
    BY <1>5, <2>2 DEF BoxInv, OwnType
  <2>3. CASE s = t
    <3>1. storageQ[t] \in Seq(Boxes \cup {NoBox})
      BY <1>4
    <3>2. \/ i \in DOMAIN storageQ[t] /\ storageQ'[t][i] = storageQ[t][i]
          \/ storageQ'[t][i] = x
      BY <1>5, <2>3, <3>1, ElementOfAppend
    <3>3. QED
      BY <1>2, <2>3, <3>2 DEF BoxInv, OwnType
  <2>4. QED
    BY <2>2, <2>3
<1>8. SUFFICES ASSUME NEW b \in Boxes PROVE Placed(b)'
  BY <1>6, <1>7 DEF BoxInv
<1>9. /\ Placed(b) /\ InFilling(b)' = InFilling(b) /\ OnTrucks(b)' = OnTrucks(b)
      /\ (Given(b)' <=> Given(b)) /\ b[1] \in Types
  BY <1>3 DEF BoxInv, InFilling, OnTrucks, At, Boxes, Given
<1>10. /\ b # x => InHands(b)' = InHands(b)
       /\ b = x => p \in InHands(b)
       /\ b = x /\ Single(InHands(b)) => InHands(b)' = {}
  BY <1>2, <1>3, <1>4, HandGives
<1>11. /\ b # x => At(Append(storageQ[t], x), b) = At(storageQ[t], b)
       /\ At(storageQ[t], x) = {} => Single(At(Append(storageQ[t], x), x))
  <2>1. storageQ[t] \in Seq(Boxes \cup {NoBox}) /\ x \in Boxes \cup {NoBox}
    BY <1>4
  <2>2. QED
    BY <2>1, AtAppend
<1>12. CASE b # x
  <2>1. InStore(b)' = InStore(b)
    <3>1. CASE b[1] = t
      BY <1>5, <1>11, <1>12, <3>1 DEF InStore, At
    <3>2. CASE b[1] # t
      BY <1>5, <1>9, <3>2 DEF InStore, At
    <3>3. QED
      BY <3>1, <3>2
  <2>2. QED
    BY <1>3, <1>9, <1>10, <1>12, <2>1, PlacedFrame, SameShapeOfEqual
<1>13. CASE b = x
  <2>1. InStore(b) = At(storageQ[t], x) /\ InStore(b)' = At(storageQ'[t], x)
    BY <1>2, <1>13 DEF InStore, At
  <2>2. /\ Given(b) /\ InFilling(b) = {} /\ InStore(b) = {}
        /\ Single(InHands(b)) /\ OnTrucks(b) = {}
    BY <1>9, <1>10, <1>13, OnlyPlace
  <2>3. Single(InStore(b)') /\ InHands(b)' = {}
    BY <1>5, <1>10, <1>11, <1>13, <2>1, <2>2
  <2>4. OneOf(InFilling(b)', InStore(b)', InHands(b)', OnTrucks(b)')
    BY <1>9, <2>2, <2>3 DEF OneOf
  <2>5. QED
    BY <1>9, <2>2, <2>4 DEF Placed, OneOf, NoneOf, Single
<1>14. QED
  BY <1>12, <1>13


\* A loader that finds a box in a storage queue takes the first one.
LEMMA TakeKeepsPlaces ==
  ASSUME TypeOK, OrderInv, BoxInv, NEW l \in Loaders, LoaderTake(l), storageQ[kind[l]] # <<>>
  PROVE  BoxInv'
<1>1. PICK t \in Types : t = kind[l]
  BY BoxTypes DEF Carriers
<1>2. PICK x : x = Head(storageQ[t])
  OBVIOUS
<1>3. storageQ[t] # <<>> /\ l \in Carriers /\ hand[l] = NoBox
  BY <1>1 DEF LoaderTake, BoxInv, LoaderCarries, Loading, Carriers
<1>4. /\ storageQ' = [storageQ EXCEPT ![t] = Tail(storageQ[t])]
      /\ hand' = [hand EXCEPT ![l] = x]
      /\ pc' = [pc EXCEPT ![l] = "release"]
      /\ UNCHANGED <<made, fillQ, truckQ, torn>>
  BY <1>1, <1>2, <1>3 DEF LoaderTake, Goto, fillVars, truckVars
<1>5. /\ storageQ \in [Types -> Seq(Boxes \cup {NoBox})]
      /\ hand \in [Carriers -> Boxes \cup {NoBox}]
      /\ pc \in [Carriers -> PorterLabels \cup LoaderLabels]
  BY BoxTypes
<1>6. storageQ[t] \in Seq(Boxes \cup {NoBox})
  BY <1>5
<1>7. x \in Boxes /\ x[1] = t
  <2>1. Head(storageQ[t]) = storageQ[t][1] /\ 1 \in DOMAIN storageQ[t]
    BY <1>3, <1>6, TailFacts
  <2>2. QED
    BY <1>2, <2>1 DEF OrderInv, Numbered, BoxInv, OwnType
<1>8. /\ storageQ'[t] = Tail(storageQ[t])
      /\ \A s \in Types : s # t => storageQ'[s] = storageQ[s]
  BY <1>4, <1>5
<1>9. LoaderCarries'
  <2>1. \A m \in Loaders : m \in Carriers
    BY DEF Carriers
  <2>2. pc'[l] = "release"
        /\ \A m \in Loaders : m # l => pc'[m] = pc[m] /\ hand'[m] = hand[m]
    BY <1>4, <1>5, <2>1
  <2>3. QED
    BY <2>2 DEF BoxInv, LoaderCarries, Loading
<1>10. OwnType'
  <2>1. SUFFICES ASSUME NEW s \in Types, NEW i \in DOMAIN storageQ'[s]
                 PROVE  storageQ'[s][i][1] = s
    BY DEF OwnType
  <2>2. CASE s # t
    BY <1>8, <2>2 DEF BoxInv, OwnType
  <2>3. CASE s = t
    <3>1. \E j \in DOMAIN storageQ[t] : storageQ'[t][i] = storageQ[t][j]
      <4>1. \A j \in DOMAIN Tail(storageQ[t]) :
              \E m \in DOMAIN storageQ[t] : Tail(storageQ[t])[j] = storageQ[t][m]
        BY <1>3, <1>6, TailFacts
      <4>2. QED
        BY <1>8, <2>3, <4>1
    <3>2. QED
      BY <2>3, <3>1 DEF BoxInv, OwnType
  <2>4. QED
    BY <2>2, <2>3
<1>11. SUFFICES ASSUME NEW b \in Boxes PROVE Placed(b)'
  BY <1>9, <1>10 DEF BoxInv
<1>12. /\ Placed(b) /\ InFilling(b)' = InFilling(b) /\ OnTrucks(b)' = OnTrucks(b)
       /\ (Given(b)' <=> Given(b)) /\ b[1] \in Types
  BY <1>4 DEF BoxInv, InFilling, OnTrucks, At, Boxes, Given
<1>13. /\ b # x => SameShape(At(storageQ[t], b), At(Tail(storageQ[t]), b))
       /\ 1 \in At(storageQ[t], x)
       /\ Single(At(storageQ[t], x)) => At(Tail(storageQ[t]), x) = {}
  BY <1>2, <1>3, <1>6, AtTail
<1>14. /\ b # x => InHands(b)' = InHands(b)
       /\ b = x /\ InHands(b) = {} => Single(InHands(b)')
  BY <1>3, <1>4, <1>5, HandTakes
<1>15. CASE b # x
  <2>1. SameShape(InStore(b), InStore(b)')
    <3>1. CASE b[1] = t
      <4>1. InStore(b) = At(storageQ[t], b) /\ InStore(b)' = At(storageQ'[t], b)
        BY <3>1 DEF InStore, At
      <4>2. QED
        BY <1>8, <1>13, <1>15, <4>1
    <3>2. CASE b[1] # t
      BY <1>8, <1>12, <3>2, SameShapeOfEqual DEF InStore, At
    <3>3. QED
      BY <3>1, <3>2
  <2>2. QED
    BY <1>4, <1>12, <1>14, <1>15, <2>1, PlacedFrame, SameShapeOfEqual
<1>16. CASE b = x
  <2>1. InStore(b) = At(storageQ[t], x) /\ InStore(b)' = At(storageQ'[t], x)
    BY <1>7, <1>16 DEF InStore, At
  <2>2. /\ Given(b) /\ InFilling(b) = {} /\ Single(InStore(b))
        /\ InHands(b) = {} /\ OnTrucks(b) = {}
    BY <1>12, <1>13, <2>1, OnlyPlace
  <2>3. InStore(b)' = {} /\ Single(InHands(b)')
    BY <1>8, <1>13, <1>14, <1>16, <2>1, <2>2
  <2>4. OneOf(InFilling(b)', InStore(b)', InHands(b)', OnTrucks(b)')
    BY <1>12, <2>2, <2>3 DEF OneOf
  <2>5. QED
    BY <1>12, <2>2, <2>4 DEF Placed, OneOf, NoneOf, Single
<1>17. QED
  BY <1>15, <1>16

\* A loader puts what it has on its truck: a box, or the zeroed payload of a
\* dequeue that found nothing.
LEMMA AppendKeepsPlaces ==
  ASSUME TypeOK, BoxInv, NEW l \in Loaders, LoaderAppend(l)
  PROVE  BoxInv'
<1>1. PICK k \in Trucks : k = save[l]
  BY BoxTypes
<1>2. PICK x \in Boxes \cup {NoBox} : x = hand[l]
  BY BoxTypes DEF Carriers
<1>3. /\ \E q \in Linked(k, x) : truckQ' = [truckQ EXCEPT ![k] = q]
      /\ hand' = [hand EXCEPT ![l] = NoBox]
      /\ pc' = [pc EXCEPT ![l] = "load"]
      /\ UNCHANGED <<made, fillQ, storageQ, torn>> /\ l \in Carriers
  BY <1>1, <1>2 DEF LoaderAppend, Goto, fillVars, queueVars, Carriers
<1>4. /\ truckQ \in [Trucks -> Seq(Boxes \cup {NoBox})]
      /\ hand \in [Carriers -> Boxes \cup {NoBox}]
      /\ pc \in [Carriers -> PorterLabels \cup LoaderLabels]
  BY BoxTypes
<1>5. LoaderCarries'
  <2>1. \A m \in Loaders : m \in Carriers
    BY DEF Carriers
  <2>2. hand'[l] = NoBox
        /\ \A m \in Loaders : m # l => pc'[m] = pc[m] /\ hand'[m] = hand[m]
    BY <1>3, <1>4, <2>1
  <2>3. QED
    BY <2>2 DEF BoxInv, LoaderCarries
<1>6. OwnType'
  BY <1>3 DEF BoxInv, OwnType
<1>7. SUFFICES ASSUME NEW b \in Boxes PROVE Placed(b)'
  BY <1>5, <1>6 DEF BoxInv
<1>8. /\ Placed(b) /\ InFilling(b)' = InFilling(b) /\ InStore(b)' = InStore(b)
      /\ (Given(b)' <=> Given(b))
  BY <1>3 DEF BoxInv, InFilling, InStore, At, Given
<1>9. /\ b # x => InHands(b)' = InHands(b)
      /\ b = x => l \in InHands(b)
      /\ b = x /\ Single(InHands(b)) => InHands(b)' = {}
  BY <1>2, <1>3, <1>4, HandGives
<1>10. /\ b # x => \/ OnTrucks(b)' = OnTrucks(b)
                   \/ torn # {} /\ OnTrucks(b)' \subseteq OnTrucks(b)
       /\ b = x /\ OnTrucks(b) = {} => \/ Single(OnTrucks(b)')
                                       \/ torn # {} /\ OnTrucks(b)' = {}
  BY <1>3, <1>4, TruckGets
<1>11. CASE b # x
  <2>1. SameShape(OnTrucks(b), OnTrucks(b)') \/ (torn # {} /\ OnTrucks(b)' = {})
    <3>1. OnTrucks(b) = {} \/ Single(OnTrucks(b))
      BY <1>8 DEF Placed, OneOf, NoneOf
    <3>2. CASE OnTrucks(b)' = OnTrucks(b)
      BY <3>2, SameShapeOfEqual
    <3>3. CASE torn # {} /\ OnTrucks(b)' \subseteq OnTrucks(b)
      <4>1. OnTrucks(b)' = {} \/ (Single(OnTrucks(b)) /\ Single(OnTrucks(b)'))
        BY <3>1, <3>3, PartOfSingle
      <4>2. \A A : Single(A) => A # {}
        BY DEF Single
      <4>3. QED
        BY <3>3, <4>1, <4>2 DEF SameShape
    <3>4. QED
      BY <1>10, <1>11, <3>2, <3>3
  <2>2. torn # {} => torn' # {}
    BY <1>3
  <2>3. QED
    BY <1>8, <1>9, <1>11, <2>1, <2>2, PlacedFrame, SameShapeOfEqual
<1>12. CASE b = x
  <2>1. /\ Given(b) /\ InFilling(b) = {} /\ InStore(b) = {}
        /\ Single(InHands(b)) /\ OnTrucks(b) = {}
    BY <1>8, <1>9, <1>12, OnlyPlace
  <2>2. /\ InHands(b)' = {}
        /\ Single(OnTrucks(b)') \/ (torn' # {} /\ OnTrucks(b)' = {})
    BY <1>3, <1>9, <1>10, <1>12, <2>1
  <2>3. \/ OneOf(InFilling(b)', InStore(b)', InHands(b)', OnTrucks(b)')
        \/ NoneOf(InFilling(b)', InStore(b)', InHands(b)', OnTrucks(b)') /\ torn' # {}
    BY <1>8, <2>1, <2>2 DEF OneOf, NoneOf
  <2>4. QED
    BY <1>8, <2>1, <2>3 DEF Placed, OneOf, NoneOf, Single
<1>13. QED
  BY <1>11, <1>12

\* Steps that move no box, after which each loader that had one still has it.
NoBoxMoves ==
  /\ UNCHANGED <<made, fillQ, storageQ, truckQ, hand>>
  /\ torn \subseteq torn'
  /\ \A l \in Loaders : pc[l] \in Loading => pc'[l] \in Loading

LEMMA NoMoveKeepsPlaces == ASSUME BoxInv, NoBoxMoves PROVE BoxInv'
<1>1. LoaderCarries' /\ OwnType'
  BY DEF NoBoxMoves, BoxInv, LoaderCarries, OwnType
<1>2. ASSUME NEW b \in Boxes PROVE Placed(b)'
  <2>1. /\ InFilling(b)' = InFilling(b) /\ InStore(b)' = InStore(b)
        /\ InHands(b)' = InHands(b) /\ OnTrucks(b)' = OnTrucks(b)
        /\ (Given(b)' <=> Given(b))
    BY DEF NoBoxMoves, Given, InFilling, InStore, InHands, OnTrucks, At
  <2>2. torn # {} => torn' # {}
    BY DEF NoBoxMoves
  <2>3. QED
    BY <2>1, <2>2, PlacedFrame, SameShapeOfEqual DEF BoxInv
<1>3. QED
  BY <1>1, <1>2 DEF BoxInv

LEMMA OthersMoveNothing ==
  ASSUME TypeOK, NEW l \in Loaders, LoaderStep(l)
  PROVE  \/ NoBoxMoves
         \/ LoaderTake(l) /\ storageQ[kind[l]] # <<>>
         \/ LoaderAppend(l)
<1>1. /\ pc \in [Carriers -> PorterLabels \cup LoaderLabels] /\ Loaders \subseteq Carriers
  BY BoxTypes DEF Carriers
<1>2. ASSUME NEW label, pc' = [pc EXCEPT ![l] = label],
             pc[l] \in Loading => label \in Loading
      PROVE  \A m \in Loaders : pc[m] \in Loading => pc'[m] \in Loading
  BY <1>1, <1>2
<1> USE DEF NoBoxMoves, Loading, fillVars, queueVars, truckVars, Goto
<1>3. CASE LoaderReadOrder(l)
  BY <1>2, <1>3 DEF LoaderReadOrder
<1>4. CASE LoaderLock(l)
  BY <1>2, <1>4 DEF LoaderLock
<1>5. CASE LoaderSave(l)
  BY <1>2, <1>5 DEF LoaderSave
<1>6. CASE LoaderCheck(l)
  BY <1>2, <1>6 DEF LoaderCheck
<1>7. CASE LoaderStock(l)
  BY <1>2, <1>7 DEF LoaderStock, NextType
<1>8. CASE LoaderTake(l) /\ storageQ[kind[l]] = <<>>
  BY <1>2, <1>8 DEF LoaderTake
<1>9. CASE LoaderRelease(l)
  BY <1>2, <1>9 DEF LoaderRelease
<1>9e. CASE LoaderEnqueue(l)
  <2>1. torn \subseteq torn'
    BY <1>9e DEF LoaderEnqueue
  <2>2. QED
    BY <1>2, <1>9e, <2>1 DEF LoaderEnqueue
<1>10. CASE LoaderLoadCount(l)
  BY <1>2, <1>10 DEF LoaderLoadCount
<1>11. CASE LoaderStoreCount(l)
  BY <1>2, <1>11 DEF LoaderStoreCount, Restart
<1>12. CASE LoaderShip(l)
  BY <1>2, <1>12 DEF LoaderShip, NextType
<1>13. CASE LoaderCompare(l)
  BY <1>2, <1>13 DEF LoaderCompare, NextType
<1>14. CASE LoaderTurn(l)
  BY <1>2, <1>14 DEF LoaderTurn
<1>15. CASE LoaderAdvance(l)
  BY <1>2, <1>15 DEF LoaderAdvance
<1>16. CASE LoaderReset(l)
  BY <1>2, <1>16 DEF LoaderReset, NextType
<1>17. CASE LoaderLeave(l)
  BY <1>2, <1>17 DEF LoaderLeave, Restart
<1>18. QED
  BY <1>3, <1>4, <1>5, <1>6, <1>7, <1>8, <1>9, <1>9e, <1>10, <1>11, <1>12, <1>13,
     <1>14, <1>15, <1>16, <1>17 DEF LoaderStep

LEMMA PortersMoveNothing ==
  ASSUME TypeOK, NEW p \in Porters,
         PorterEnter(p) \/ PorterLoadCount(p) \/ PorterStoreCount(p)
  PROVE  NoBoxMoves
<1>1. /\ pc \in [Carriers -> PorterLabels \cup LoaderLabels] /\ Loaders \subseteq Carriers
      /\ \A l \in Loaders : l # p
  BY BoxTypes, ThreadsAssumption DEF Carriers
<1> USE DEF NoBoxMoves, fillVars, queueVars, truckVars, Goto
<1>2. CASE PorterEnter(p)
  BY <1>1, <1>2 DEF PorterEnter
<1>3. CASE PorterLoadCount(p) \/ PorterStoreCount(p)
  BY <1>1, <1>3 DEF PorterLoadCount, PorterStoreCount
<1>4. QED
  BY <1>2, <1>3

-----------------------------------------------------------------------------
(* The theorem                                                             *)

LEMMA InitBoxInv == Init => BoxInv
<1> SUFFICES ASSUME Init PROVE BoxInv
  OBVIOUS
<1>1. LoaderCarries /\ OwnType
  BY DEF Init, LoaderCarries, OwnType, Carriers
<1>2. SUFFICES ASSUME NEW b \in Boxes PROVE Placed(b)
  BY <1>1 DEF BoxInv
<1>3. b[1] \in Types /\ b[2] \in Nat \ {0} /\ b # NoBox
  BY NoBoxIsNoBox DEF Boxes
<1>4. ~Given(b)
  BY <1>3 DEF Init, Given
<1>5. InFilling(b) = {} /\ InStore(b) = {} /\ InHands(b) = {}
  BY <1>3 DEF Init, InFilling, InStore, InHands, At
<1>6. OnTrucks(b) = {}
  <2>1. \A k \in Trucks : At(truckQ[k], b) = {}
    BY DEF Init, At
  <2>2. QED
    BY <2>1 DEF OnTrucks
<1>7. QED
  BY <1>4, <1>5, <1>6 DEF Placed, NoneOf

LEMMA NextBoxInv == TypeOK /\ OrderInv /\ BoxInv /\ [Next]_vars => BoxInv'
<1> SUFFICES ASSUME TypeOK, OrderInv, BoxInv, [Next]_vars PROVE BoxInv'
  OBVIOUS
<1>1. ASSUME NEW t \in Types, FillerStep(t) PROVE BoxInv'
  <2>1. CASE FillerTest(t) \/ FillerResume(t)
    <3>1. NoBoxMoves
      BY <2>1 DEF FillerTest, FillerResume, NoBoxMoves, queueVars, truckVars, localVars
    <3>2. QED
      BY <3>1, NoMoveKeepsPlaces
  <2>2. QED
    BY <1>1, <2>1, PackKeepsPlaces DEF FillerStep
<1>2. ASSUME NEW p \in Porters, PorterStep(p) PROVE BoxInv'
  <2>1. CASE PorterEnter(p) \/ PorterLoadCount(p) \/ PorterStoreCount(p)
    BY <2>1, PortersMoveNothing, NoMoveKeepsPlaces
  <2>2. QED
    BY <1>2, <2>1, PickKeepsPlaces, PutKeepsPlaces DEF PorterStep
<1>3. ASSUME NEW l \in Loaders, LoaderStep(l) PROVE BoxInv'
  BY <1>3, OthersMoveNothing, TakeKeepsPlaces, AppendKeepsPlaces, NoMoveKeepsPlaces
<1>4. CASE UNCHANGED vars
  <2>1. NoBoxMoves
    BY <1>4 DEF NoBoxMoves, vars, fillVars, queueVars, truckVars, localVars
  <2>2. QED
    BY <2>1, NoMoveKeepsPlaces
<1>5. QED
  BY <1>1, <1>2, <1>3, <1>4 DEF Next

LEMMA BoxInvHolds == Spec => []BoxInv
<1>1. TypeOK /\ OrderInv /\ BoxInv /\ [Next]_vars => BoxInv'
  BY NextBoxInv
<1>2. QED
  BY <1>1, InitBoxInv, TypeCorrect, OrderInvHolds, PTL DEF Spec

\* A place of one kind is one element of Places.
LEMMA TaggedSingle ==
  ASSUME NEW a, NEW A, Single(A)
  PROVE  Single({a} \X A)
<1>1. PICK y : A = {y}
  BY DEF Single
<1>2. {a} \X A = {<<a, y>>}
  BY <1>1
<1>3. QED
  BY <1>2 DEF Single

\* The sets of places are what BoxInOnePlace counts.
LEMMA PlacesAre ==
  ASSUME NEW b
  PROVE  Places(b) = ({"filling"} \X InFilling(b)) \cup ({"storage"} \X InStore(b))
                       \cup ({"hand"} \X InHands(b)) \cup ({"truck"} \X OnTrucks(b))
<1>1. UNION {{"truck"} \X ({k} \X At(truckQ[k], b)) : k \in Trucks} = {"truck"} \X OnTrucks(b)
  <2>1. \A z : z \in UNION {{"truck"} \X ({k} \X At(truckQ[k], b)) : k \in Trucks}
                 <=> z \in {"truck"} \X OnTrucks(b)
    BY DEF OnTrucks
  <2>2. QED
    BY <2>1
<1>2. QED
  BY <1>1 DEF Places, InFilling, InStore, InHands

\* For all numbers of types, porters, loaders, trucks and boxes: a box that was filled
\* is in exactly one place - a queue, the hands of one thread or a truck - however the
\* threads race for the queues; and if it is in none, two loaders were in the enqueue
\* of one truck at a time.
THEOREM BoxAlwaysInOnePlace == Spec => []BoxInOnePlace
<1>1. ASSUME BoxInv, TypeOK PROVE BoxInOnePlace
  <2>1. SUFFICES ASSUME NEW t \in Types, NEW n \in 1..made[t]
                 PROVE  \/ Cardinality(Places(<<t, n>>)) = 1
                        \/ Places(<<t, n>>) = {} /\ torn # {}
    BY DEF BoxInOnePlace
  <2>2. PICK b : b = <<t, n>>
    OBVIOUS
  <2>3. b \in Boxes /\ Given(b)
    BY <1>1, <2>2, BoxTypes DEF Boxes, Given
  <2>4. \/ OneOf(InFilling(b), InStore(b), InHands(b), OnTrucks(b))
        \/ NoneOf(InFilling(b), InStore(b), InHands(b), OnTrucks(b)) /\ torn # {}
    BY <1>1, <2>3 DEF BoxInv, Placed
  <2>5. \A a : {a} \X {} = {}
    OBVIOUS
  <2>6. Single(Places(b)) \/ (Places(b) = {} /\ torn # {})
    <3>1. PICK A, B, C, D : /\ A = InFilling(b) /\ B = InStore(b)
                            /\ C = InHands(b) /\ D = OnTrucks(b)
      OBVIOUS
    <3>2. Places(b) = ({"filling"} \X A) \cup ({"storage"} \X B)
                        \cup ({"hand"} \X C) \cup ({"truck"} \X D)
      BY <3>1, PlacesAre
    <3>3. CASE Single(A) /\ B = {} /\ C = {} /\ D = {}
      <4>1. Places(b) = {"filling"} \X A
        BY <2>5, <3>2, <3>3
      <4>2. Single({"filling"} \X A)
        BY <3>3, TaggedSingle
      <4>3. QED
        BY <4>1, <4>2
    <3>4. CASE A = {} /\ Single(B) /\ C = {} /\ D = {}
      <4>1. Places(b) = {"storage"} \X B
        BY <2>5, <3>2, <3>4
      <4>2. Single({"storage"} \X B)
        BY <3>4, TaggedSingle
      <4>3. QED
        BY <4>1, <4>2
    <3>5. CASE A = {} /\ B = {} /\ Single(C) /\ D = {}
      <4>1. Places(b) = {"hand"} \X C
        BY <2>5, <3>2, <3>5
      <4>2. Single({"hand"} \X C)
        BY <3>5, TaggedSingle
      <4>3. QED
        BY <4>1, <4>2
    <3>6. CASE A = {} /\ B = {} /\ C = {} /\ Single(D)
      <4>1. Places(b) = {"truck"} \X D
        BY <2>5, <3>2, <3>6
      <4>2. Single({"truck"} \X D)
        BY <3>6, TaggedSingle
      <4>3. QED
        BY <4>1, <4>2
    <3>7. CASE NoneOf(A, B, C, D) /\ torn # {}
      BY <2>5, <3>2, <3>7 DEF NoneOf
    <3>8. QED
      BY <2>4, <3>1, <3>3, <3>4, <3>5, <3>6, <3>7 DEF OneOf
  <2>7. \A y : Cardinality({y}) = 1
    BY FS_Singleton
  <2>8. QED
    BY <2>2, <2>6, <2>7 DEF Single
<1>2. BoxInv /\ TypeOK => BoxInOnePlace
  BY <1>1
<1>3. QED
  BY <1>2, BoxInvHolds, TypeCorrect, PTL


-----------------------------------------------------------------------------
(* The count of the storage area                                           *)

\* A porter that loaded the count will store at most one more than the boxes that
\* were carried off or about to be, and its own comes to these with the store.
CountInv ==
  /\ IsFiniteSet(CarriedOff) /\ IsFiniteSet(AboutToPick)
  /\ \A t \in Types : Len(fillQ[t]) <= made[t]
  /\ CountIsOfBoxes
  /\ \A p \in Porters :
       pc[p] = "store" => reg[p] <= Cardinality(CarriedOff) + Cardinality(AboutToPick)

\* The lengths of the filling queues are numbers, and so is what they left.
LEMMA FillLengths ==
  ASSUME TypeOK
  PROVE  \A t \in Types : Len(fillQ[t]) \in Nat /\ made[t] \in Nat
BY DEF TypeOK, QueuesTyped

\* Nothing is carried off unless the head of a filling queue is taken.
LEMMA SameCarriedOff ==
  ASSUME \A t \in Types : made'[t] - Len(fillQ'[t]) = made[t] - Len(fillQ[t])
  PROVE  CarriedOff' = CarriedOff
BY DEF CarriedOff

\* What CountInv reads of the porters is as it was, and the count is not above it.
LEMMA CountsNothing ==
  ASSUME TypeOK, CountInv,
         \A t \in Types : made'[t] = made[t] /\ fillQ'[t] = fillQ[t],
         storage_area_box_count' \in {0, storage_area_box_count},
         \A p \in Porters : pc'[p] = "pick" <=> pc[p] = "pick",
         \A p \in Porters : pc'[p] = "store" =>
           \/ pc[p] = "store" /\ reg'[p] = reg[p]
           \/ reg'[p] = storage_area_box_count
  PROVE  CountInv'
<1>1. CarriedOff' = CarriedOff /\ AboutToPick' = AboutToPick
  BY SameCarriedOff DEF AboutToPick
<1>2. Cardinality(CarriedOff) \in Nat /\ Cardinality(AboutToPick) \in Nat
  BY FS_CardinalityType DEF CountInv
<1>3. \A t \in Types : Len(fillQ'[t]) <= made'[t]
  BY DEF CountInv
<1>4. CountIsOfBoxes'
  BY <1>1, <1>2 DEF CountInv, CountIsOfBoxes
<1>5. \A p \in Porters :
        pc'[p] = "store" => reg'[p] <= Cardinality(CarriedOff') + Cardinality(AboutToPick')
  BY <1>1 DEF CountInv, CountIsOfBoxes
<1>6. QED
  BY <1>1, <1>3, <1>4, <1>5 DEF CountInv

\* A box that is filled is not carried off.
LEMMA PackCountsNothing ==
  ASSUME TypeOK, CountInv, NEW t \in Types, FillerPack(t)
  PROVE  CountInv'
<1> PICK b \in Boxes : b = <<t, made[t] + 1>>
  <2>1. made[t] + 1 \in Nat \ {0}
    BY FillLengths
  <2>2. <<t, made[t] + 1>> \in Boxes
    BY <2>1 DEF Boxes
  <2>3. QED
    BY <2>2
<1>1. /\ fillQ' = [fillQ EXCEPT ![t] = Append(fillQ[t], b)]
      /\ made' = [made EXCEPT ![t] = made[t] + 1]
      /\ UNCHANGED <<storage_area_box_count, pc, reg>>
  BY DEF FillerPack, localVars
<1>2. /\ fillQ'[t] = Append(fillQ[t], b) /\ made'[t] = made[t] + 1
      /\ \A s \in Types \ {t} : fillQ'[s] = fillQ[s] /\ made'[s] = made[s]
  BY <1>1 DEF TypeOK, QueuesTyped
<1>3. Len(fillQ'[t]) = Len(fillQ[t]) + 1
  BY <1>2, AppendFacts DEF TypeOK, QueuesTyped
<1>4. \A s \in Types : made'[s] - Len(fillQ'[s]) = made[s] - Len(fillQ[s])
                       /\ Len(fillQ'[s]) <= made'[s]
  <2>1. \A s \in Types : Len(fillQ[s]) <= made[s]
    BY DEF CountInv
  <2>2. Len(fillQ'[t]) <= made'[t] /\ made'[t] - Len(fillQ'[t]) = made[t] - Len(fillQ[t])
    <3>1. Len(fillQ[t]) \in Nat /\ made[t] \in Nat /\ made'[t] = made[t] + 1
      BY <1>2, FillLengths
    <3>2. Len(fillQ[t]) <= made[t]
      BY <2>1
    <3>3. QED
      BY <1>3, <3>1, <3>2
  <2>3. QED
    BY <1>2, <2>1, <2>2
<1>5. CarriedOff' = CarriedOff /\ AboutToPick' = AboutToPick
  BY <1>1, <1>4, SameCarriedOff DEF AboutToPick
<1>6. QED
  BY <1>1, <1>4, <1>5 DEF CountInv, CountIsOfBoxes

\* The porter stores the count it loaded, plus one, and is about to take a box: this
\* one makes up for it, whatever was counted by others since the load.
LEMMA StoreCounts ==
  ASSUME TypeOK, CountInv, NEW p \in Porters, PorterStoreCount(p)
  PROVE  CountInv'
<1>1. /\ pc[p] = "store" /\ storage_area_box_count' = reg[p] + 1
      /\ pc' = [pc EXCEPT ![p] = "pick"] /\ reg' = [reg EXCEPT ![p] = 0]
      /\ made' = made /\ fillQ' = fillQ
  BY DEF PorterStoreCount, fillVars, queueVars, Goto, Forget
<1>2. /\ pc \in [Carriers -> PorterLabels \cup LoaderLabels] /\ Porters \subseteq Carriers
      /\ reg \in [Carriers -> Nat]
  BY DEF TypeOK, PcTyped, LocalsTyped, Carriers
<1>3. CarriedOff' = CarriedOff
  BY <1>1, SameCarriedOff
<1>4. AboutToPick' = AboutToPick \cup {p} /\ p \notin AboutToPick
  BY <1>1, <1>2 DEF AboutToPick
<1>5. PICK c \in Nat, a \in Nat :
        /\ c = Cardinality(CarriedOff) /\ a = Cardinality(AboutToPick)
        /\ Cardinality(AboutToPick') = a + 1 /\ IsFiniteSet(AboutToPick')
  BY <1>4, FS_AddElement, FS_CardinalityType DEF CountInv
<1>6. \A q \in Porters : pc[q] = "store" => reg[q] <= c + a
  BY <1>5 DEF CountInv
<1>7. \A q \in Porters : pc'[q] = "store" => q # p /\ pc[q] = "store" /\ reg'[q] = reg[q]
  BY <1>1, <1>2
<1>8. \A q \in Porters : pc'[q] = "store" => reg'[q] <= c + (a + 1)
  <2>1. \A q \in Porters : reg[q] \in Nat
    BY <1>2
  <2>2. QED
    BY <1>6, <1>7, <2>1
<1>9. reg[p] + 1 <= c + (a + 1)
  <2>1. reg[p] \in Nat /\ reg[p] <= c + a
    BY <1>1, <1>2, <1>6
  <2>2. QED
    BY <2>1
<1>10. QED
  BY <1>1, <1>3, <1>5, <1>8, <1>9 DEF CountInv, CountIsOfBoxes

\* The porter takes the box it was about to take.
LEMMA PickCounts ==
  ASSUME TypeOK, OrderInv, CountInv, NEW p \in Porters, PorterPick(p)
  PROVE  CountInv'
<1> PICK t \in Types : t = kind[p]
  BY DEF TypeOK, LocalsTyped, Carriers
<1> PICK n \in Int : n = made[t] - Len(fillQ[t])
  BY FillLengths
<1>1. pc[p] = "pick" /\ fillQ[t] # <<>> /\ fillQ[t] \in Seq(Boxes)
  BY DEF PorterPick, OrderInv, PorterCarries, TypeOK, QueuesTyped
<1>2. /\ fillQ' = [fillQ EXCEPT ![t] = Tail(fillQ[t])]
      /\ UNCHANGED <<made, storage_area_box_count, reg>>
      /\ pc' = [pc EXCEPT ![p] = "put"]
  BY <1>1 DEF PorterPick, fillVars, Goto
<1>3. /\ fillQ'[t] = Tail(fillQ[t]) /\ Len(fillQ'[t]) = Len(fillQ[t]) - 1
      /\ \A s \in Types \ {t} : fillQ'[s] = fillQ[s]
  BY <1>1, <1>2, TailFacts DEF TypeOK, QueuesTyped
<1>4. n \in Nat /\ made'[t] - Len(fillQ'[t]) = n + 1
  BY <1>2, <1>3, FillLengths DEF CountInv
<1>5. CarriedOff' = CarriedOff \cup {<<t, n + 1>>}
  <2>1. 1..n + 1 = (1..n) \cup {n + 1}
    BY <1>4
  <2>2. \A x : x \in CarriedOff' <=> \E s \in Types : x \in {s} \X (1..made'[s] - Len(fillQ'[s]))
    BY DEF CarriedOff
  <2>3. \A x : x \in CarriedOff <=> \E s \in Types : x \in {s} \X (1..made[s] - Len(fillQ[s]))
    BY DEF CarriedOff
  <2>4. \A s \in Types \ {t} :
          {s} \X (1..made'[s] - Len(fillQ'[s])) = {s} \X (1..made[s] - Len(fillQ[s]))
    BY <1>2, <1>3
  <2>5. {t} \X (1..made'[t] - Len(fillQ'[t]))
          = ({t} \X (1..made[t] - Len(fillQ[t]))) \cup {<<t, n + 1>>}
    BY <1>4, <2>1
  <2>6. QED
    BY <2>2, <2>3, <2>4, <2>5
<1>6. <<t, n + 1>> \notin CarriedOff
  BY <1>4 DEF CarriedOff
<1>7. pc \in [Carriers -> PorterLabels \cup LoaderLabels] /\ Porters \subseteq Carriers
  BY DEF TypeOK, PcTyped, Carriers
<1>8. AboutToPick' = AboutToPick \ {p} /\ p \in AboutToPick
  BY <1>1, <1>2, <1>7 DEF AboutToPick
<1>9. PICK c \in Nat, a \in Nat :
        /\ IsFiniteSet(CarriedOff') /\ IsFiniteSet(AboutToPick')
        /\ c = Cardinality(CarriedOff) /\ Cardinality(CarriedOff') = c + 1
        /\ a = Cardinality(AboutToPick) /\ Cardinality(AboutToPick') = a - 1
  <2>1. /\ IsFiniteSet(CarriedOff) /\ IsFiniteSet(AboutToPick)
        /\ Cardinality(CarriedOff) \in Nat /\ Cardinality(AboutToPick) \in Nat
    BY FS_CardinalityType DEF CountInv
  <2>2. IsFiniteSet(CarriedOff') /\ Cardinality(CarriedOff') = Cardinality(CarriedOff) + 1
    BY <1>5, <1>6, <2>1, FS_AddElement
  <2>3. IsFiniteSet(AboutToPick') /\ Cardinality(AboutToPick') = Cardinality(AboutToPick) - 1
    BY <1>8, <2>1, FS_RemoveElement
  <2>4. QED
    BY <2>1, <2>2, <2>3
<1>10. Cardinality(CarriedOff') + Cardinality(AboutToPick')
         = Cardinality(CarriedOff) + Cardinality(AboutToPick)
  <2>1. (c + 1) + (a - 1) = c + a
    OBVIOUS
  <2>2. QED
    BY <1>9, <2>1
<1>11. \A s \in Types : Len(fillQ'[s]) <= made'[s]
  BY <1>2, <1>3, FillLengths DEF CountInv
<1>12. \A q \in Porters : pc'[q] = "store" => pc[q] = "store"
  BY <1>2, <1>7
<1>13. QED
  BY <1>2, <1>9, <1>10, <1>11, <1>12 DEF CountInv, CountIsOfBoxes

\* A loader sets the count back, or does not touch it.
LEMMA LoadersCountNothing ==
  ASSUME TypeOK, CountInv, NEW l \in Loaders, LoaderStep(l)
  PROVE  CountInv'
<1>1. /\ pc \in [Carriers -> PorterLabels \cup LoaderLabels] /\ Loaders \subseteq Carriers
      /\ reg \in [Carriers -> Nat] /\ \A p \in Porters : p # l /\ p \in Carriers
  BY ThreadsAssumption DEF TypeOK, PcTyped, LocalsTyped, Carriers
<1>2. /\ UNCHANGED <<made, fillQ>>
      /\ storage_area_box_count' \in {0, storage_area_box_count}
      /\ \A p \in Porters : pc'[p] = pc[p] /\ reg'[p] = reg[p]
  <2> USE DEF fillVars, queueVars, Goto, Forget, Restart, NextType
  <2>1. CASE LoaderReadOrder(l) \/ LoaderLock(l) \/ LoaderSave(l) \/ LoaderCheck(l)
    BY <1>1, <2>1 DEF LoaderReadOrder, LoaderLock, LoaderSave, LoaderCheck
  <2>2. CASE LoaderStock(l) \/ LoaderTake(l) \/ LoaderRelease(l)
                  \/ LoaderEnqueue(l) \/ LoaderAppend(l)
    BY <1>1, <2>2 DEF LoaderStock, LoaderTake, LoaderRelease, LoaderEnqueue, LoaderAppend
  <2>3. CASE LoaderLoadCount(l) \/ LoaderStoreCount(l) \/ LoaderShip(l) \/ LoaderCompare(l)
    BY <1>1, <2>3 DEF LoaderLoadCount, LoaderStoreCount, LoaderShip, LoaderCompare
  <2>4. CASE LoaderTurn(l) \/ LoaderAdvance(l) \/ LoaderReset(l) \/ LoaderLeave(l)
    BY <1>1, <2>4 DEF LoaderTurn, LoaderAdvance, LoaderReset, LoaderLeave
  <2>5. QED
    BY <2>1, <2>2, <2>3, <2>4 DEF LoaderStep
<1>3. QED
  BY <1>2, CountsNothing

\* A porter that does not take a box counts none.
LEMMA PortersCountNothing ==
  ASSUME TypeOK, CountInv, NEW p \in Porters,
         PorterEnter(p) \/ PorterLoadCount(p) \/ PorterPut(p)
  PROVE  CountInv'
<1>1. /\ pc \in [Carriers -> PorterLabels \cup LoaderLabels] /\ Porters \subseteq Carriers
      /\ reg \in [Carriers -> Nat]
  BY DEF TypeOK, PcTyped, LocalsTyped, Carriers
<1>2. /\ UNCHANGED <<made, fillQ, storage_area_box_count>>
      /\ \A q \in Porters : pc'[q] = "pick" <=> pc[q] = "pick"
      /\ \A q \in Porters : pc'[q] = "store" =>
            \/ pc[q] = "store" /\ reg'[q] = reg[q]
            \/ reg'[q] = storage_area_box_count
  BY <1>1 DEF PorterEnter, PorterLoadCount, PorterPut, fillVars, queueVars, Goto
<1>3. QED
  BY <1>2, CountsNothing

\* At the start nothing is counted.
LEMMA InitCountInv == Init => CountInv
<1> SUFFICES ASSUME Init PROVE CountInv
  OBVIOUS
<1>1. \A t \in Types : made[t] = 0 /\ fillQ[t] = <<>> /\ Len(fillQ[t]) = 0
  BY DEF Init
<1>2. CarriedOff = {}
  BY <1>1 DEF CarriedOff
<1>3. IsFiniteSet({}) /\ Cardinality({}) = 0
  BY FS_EmptySet
<1>4. /\ storage_area_box_count = 0 /\ AboutToPick = {}
      /\ \A p \in Porters : pc[p] # "store"
  BY ThreadsAssumption DEF Init, Carriers, AboutToPick
<1>5. QED
  BY <1>1, <1>2, <1>3, <1>4 DEF CountInv, CountIsOfBoxes

\* CountInv is inductive: the porter's mutex keeps its box where it saw it.
LEMMA NextCountInv == TypeOK /\ OrderInv /\ CountInv /\ [Next]_vars => CountInv'
<1> SUFFICES ASSUME TypeOK, OrderInv, CountInv, [Next]_vars PROVE CountInv'
  OBVIOUS
<1>1. ASSUME NEW t \in Types, FillerStep(t) PROVE CountInv'
  <2>1. CASE FillerTest(t) \/ FillerResume(t)
    <3>1. UNCHANGED <<made, fillQ, storage_area_box_count, pc, reg>>
      BY <2>1 DEF FillerTest, FillerResume, queueVars, localVars
    <3>2. QED
      BY <3>1, CountsNothing
  <2>2. QED
    BY <1>1, <2>1, PackCountsNothing DEF FillerStep
<1>2. ASSUME NEW p \in Porters, PorterStep(p) PROVE CountInv'
  BY <1>2, PortersCountNothing, StoreCounts, PickCounts DEF PorterStep
<1>3. CASE UNCHANGED vars
  <2>1. UNCHANGED <<made, fillQ, storage_area_box_count, pc, reg>>
    BY <1>3 DEF vars, fillVars, queueVars, localVars
  <2>2. QED
    BY <2>1, CountsNothing
<1>4. QED
  BY <1>1, <1>2, <1>3, LoadersCountNothing DEF Next

\* For any numbers of porters and loaders, whose reads and writes of the count nothing
\* orders: no box is counted that was not carried off or is not the next to be.
THEOREM CountNeverAhead == Spec => []CountIsOfBoxes
<1>1. TypeOK /\ OrderInv /\ CountInv /\ [Next]_vars => CountInv'
  BY NextCountInv
<1>2. CountInv => CountIsOfBoxes
  BY DEF CountInv
<1>3. QED
  BY <1>1, <1>2, InitCountInv, TypeCorrect, OrderInvHolds, PTL DEF Spec
=============================================================================
