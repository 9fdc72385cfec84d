--------------------------- MODULE PatchingProofs ---------------------------
(***************************************************************************)
(* Proofs about Patching, for any numbers of types and products, any size   *)
(* of a patch and any capacities of the queues: it implements Batches, and *)
(* the GUI is told the story of each patch in order, and shows it where it  *)
(* is.                                                                     *)
(***************************************************************************)
EXTENDS Patching, FiniteSetTheorems, TLAPS

-----------------------------------------------------------------------------
(* Queues                                                                  *)

\* The length and the elements of a queue with one element more.
LEMMA AppendFacts ==
  ASSUME NEW S, NEW q \in Seq(S), NEW x \in S
  PROVE  /\ Append(q, x) \in Seq(S) /\ Len(Append(q, x)) = Len(q) + 1 /\ Len(q) \in Nat
         /\ DOMAIN Append(q, x) = 1..(Len(q) + 1) /\ DOMAIN q = 1..Len(q)
         /\ Append(q, x)[Len(q) + 1] = x
         /\ \A i \in 1..Len(q) : Append(q, x)[i] = q[i]
OBVIOUS

\* The length and the elements of a queue without its first element.
LEMMA TailFacts ==
  ASSUME NEW S, NEW q \in Seq(S), q # <<>>
  PROVE  /\ Tail(q) \in Seq(S) /\ Len(Tail(q)) = Len(q) - 1 /\ Len(q) \in Nat \ {0}
         /\ DOMAIN Tail(q) = 1..(Len(q) - 1) /\ DOMAIN q = 1..Len(q)
         /\ Head(q) = q[1] /\ Head(q) \in S
         /\ \A i \in 1..(Len(q) - 1) : Tail(q)[i] = q[i + 1]
OBVIOUS

\* What is in queue q of type t has the numbers after lo up to hi, in order.
InTurn(q, t, lo, hi) ==
  /\ lo \in Nat /\ hi \in Nat /\ lo <= hi
  /\ \A i \in DOMAIN q : q[i][1] = t => q[i][2] \in (lo + 1)..hi
  /\ \A n \in (lo + 1)..hi : \E i \in DOMAIN q : q[i][1] = t /\ q[i][2] = n
  /\ \A i, j \in DOMAIN q :
       i < j /\ q[i][1] = t /\ q[j][1] = t => q[i][2] < q[j][2]

\* An empty queue holds nothing of any type.
LEMMA EmptyInTurn ==
  ASSUME NEW t, NEW n \in Nat
  PROVE  InTurn(<<>>, t, n, n)
BY DEF InTurn

\* The next number comes to the end of the queue.
LEMMA AppendNext ==
  ASSUME NEW q \in Seq(Items), NEW x \in Items, NEW t, NEW lo, NEW hi,
         InTurn(q, t, lo, hi), x[1] = t, x[2] = hi + 1
  PROVE  InTurn(Append(q, x), t, lo, hi + 1)
<1> DEFINE a == Append(q, x)
<1>1. /\ DOMAIN a = 1..(Len(q) + 1) /\ DOMAIN q = 1..Len(q) /\ Len(q) \in Nat
      /\ a[Len(q) + 1] = x /\ \A i \in 1..Len(q) : a[i] = q[i]
  BY AppendFacts
<1>2. /\ lo \in Nat /\ hi \in Nat /\ lo <= hi
      /\ \A i \in DOMAIN q : q[i][1] = t => q[i][2] \in (lo + 1)..hi
      /\ \A n \in (lo + 1)..hi : \E i \in DOMAIN q : q[i][1] = t /\ q[i][2] = n
      /\ \A i, j \in DOMAIN q :
           i < j /\ q[i][1] = t /\ q[j][1] = t => q[i][2] < q[j][2]
  BY DEF InTurn
<1> HIDE DEF a
<1>3. ASSUME NEW i \in DOMAIN a, a[i][1] = t PROVE a[i][2] \in (lo + 1)..(hi + 1)
  BY <1>1, <1>2, <1>3
<1>4. ASSUME NEW n \in (lo + 1)..(hi + 1) PROVE \E i \in DOMAIN a : a[i][1] = t /\ a[i][2] = n
  <2>1. CASE n = hi + 1
    BY <1>1, <2>1
  <2>2. CASE n # hi + 1
    <3>1. n \in (lo + 1)..hi
      BY <1>2, <2>2
    <3>2. PICK i \in DOMAIN q : q[i][1] = t /\ q[i][2] = n
      BY <1>2, <3>1
    <3>3. i \in DOMAIN a /\ a[i] = q[i]
      BY <1>1
    <3>4. QED
      BY <3>2, <3>3
  <2>3. QED
    BY <2>1, <2>2
<1>5. ASSUME NEW i \in DOMAIN a, NEW j \in DOMAIN a, i < j, a[i][1] = t, a[j][1] = t
      PROVE  a[i][2] < a[j][2]
  <2>1. i \in DOMAIN q /\ a[i] = q[i]
    BY <1>1, <1>5
  <2>2. CASE j = Len(q) + 1
    <3>1. q[i][2] \in (lo + 1)..hi /\ a[j][2] = hi + 1
      BY <1>1, <1>2, <1>5, <2>1, <2>2
    <3>2. QED
      BY <1>2, <2>1, <3>1
  <2>3. CASE j # Len(q) + 1
    <3>1. j \in DOMAIN q /\ a[j] = q[j]
      BY <1>1, <2>3
    <3>2. QED
      BY <1>2, <1>5, <2>1, <3>1
  <2>4. QED
    BY <2>2, <2>3
<1>6. lo <= hi + 1 /\ hi + 1 \in Nat
  BY <1>2
<1>7. QED
  BY <1>2, <1>3, <1>4, <1>5, <1>6 DEF InTurn, a

\* What comes of another type changes nothing.
LEMMA AppendOther ==
  ASSUME NEW q \in Seq(Items), NEW x \in Items, NEW t, NEW lo, NEW hi,
         InTurn(q, t, lo, hi), x[1] # t
  PROVE  InTurn(Append(q, x), t, lo, hi)
<1> DEFINE a == Append(q, x)
<1>1. /\ DOMAIN a = 1..(Len(q) + 1) /\ DOMAIN q = 1..Len(q) /\ Len(q) \in Nat
      /\ a[Len(q) + 1] = x /\ \A i \in 1..Len(q) : a[i] = q[i]
  BY AppendFacts
<1> HIDE DEF a
<1>2. \A i \in DOMAIN q : i \in DOMAIN a /\ a[i] = q[i]
  BY <1>1
<1>3. \A i \in DOMAIN a : a[i][1] = t => i \in DOMAIN q /\ a[i] = q[i]
  BY <1>1
<1>4. QED
  BY <1>2, <1>3 DEF InTurn, a

\* The first one in the queue has the next number of its type ...
LEMMA HeadIsNext ==
  ASSUME NEW q \in Seq(Items), q # <<>>, NEW t, NEW lo, NEW hi,
         InTurn(q, t, lo, hi), Head(q)[1] = t
  PROVE  Head(q)[2] = lo + 1 /\ InTurn(Tail(q), t, lo + 1, hi)
<1> DEFINE r == Tail(q)
<1>1. /\ DOMAIN r = 1..(Len(q) - 1) /\ DOMAIN q = 1..Len(q) /\ Len(q) \in Nat \ {0}
      /\ Head(q) = q[1] /\ \A i \in 1..(Len(q) - 1) : r[i] = q[i + 1]
  BY TailFacts
<1>2. /\ lo \in Nat /\ hi \in Nat /\ lo <= hi
      /\ \A i \in DOMAIN q : q[i][1] = t => q[i][2] \in (lo + 1)..hi
      /\ \A n \in (lo + 1)..hi : \E i \in DOMAIN q : q[i][1] = t /\ q[i][2] = n
      /\ \A i, j \in DOMAIN q :
           i < j /\ q[i][1] = t /\ q[j][1] = t => q[i][2] < q[j][2]
  BY DEF InTurn
<1> HIDE DEF r
<1>3. 1 \in DOMAIN q /\ q[1][1] = t
  BY <1>1
<1>4. q[1][2] \in (lo + 1)..hi
  BY <1>2, <1>3
<1>5. q[1][2] = lo + 1
  <2>1. lo + 1 \in (lo + 1)..hi
    BY <1>2, <1>4
  <2>2. PICK i \in DOMAIN q : q[i][1] = t /\ q[i][2] = lo + 1
    BY <1>2, <2>1
  <2>3. CASE i = 1
    BY <2>2, <2>3
  <2>4. CASE i # 1
    <3>1. 1 < i
      BY <1>1, <2>4
    <3>2. q[1][2] < q[i][2]
      BY <1>2, <1>3, <2>2, <3>1
    <3>3. QED
      BY <1>2, <1>4, <2>2, <3>2
  <2>5. QED
    BY <2>3, <2>4
<1>6. ASSUME NEW i \in DOMAIN r PROVE i + 1 \in DOMAIN q /\ r[i] = q[i + 1] /\ 1 < i + 1
  BY <1>1
<1>7. ASSUME NEW i \in DOMAIN r, r[i][1] = t PROVE r[i][2] \in (lo + 1 + 1)..hi
  <2>1. q[1][2] < q[i + 1][2] /\ q[i + 1][2] \in (lo + 1)..hi
    BY <1>2, <1>3, <1>6, <1>7
  <2>2. QED
    BY <1>2, <1>5, <1>6, <2>1
<1>8. ASSUME NEW n \in (lo + 1 + 1)..hi PROVE \E i \in DOMAIN r : r[i][1] = t /\ r[i][2] = n
  <2>1. n \in (lo + 1)..hi /\ n # lo + 1
    BY <1>2
  <2>2. PICK i \in DOMAIN q : q[i][1] = t /\ q[i][2] = n
    BY <1>2, <2>1
  <2>3. i # 1
    BY <1>5, <2>1, <2>2
  <2>4. i - 1 \in DOMAIN r /\ r[i - 1] = q[(i - 1) + 1] /\ (i - 1) + 1 = i
    BY <1>1, <2>3
  <2>5. QED
    BY <2>2, <2>4
<1>9. ASSUME NEW i \in DOMAIN r, NEW j \in DOMAIN r, i < j, r[i][1] = t, r[j][1] = t
      PROVE  r[i][2] < r[j][2]
  <2>1. i + 1 < j + 1
    BY <1>1, <1>9
  <2>2. QED
    BY <1>2, <1>6, <1>9, <2>1
<1>10. lo + 1 \in Nat /\ lo + 1 <= hi
  BY <1>2, <1>4
<1>11. QED
  BY <1>1, <1>2, <1>5, <1>7, <1>8, <1>9, <1>10 DEF InTurn, r

\* ... and says nothing about the others.
LEMMA HeadIsOther ==
  ASSUME NEW q \in Seq(Items), q # <<>>, NEW t, NEW lo, NEW hi,
         InTurn(q, t, lo, hi), Head(q)[1] # t
  PROVE  InTurn(Tail(q), t, lo, hi)
<1> DEFINE r == Tail(q)
<1>1. /\ DOMAIN r = 1..(Len(q) - 1) /\ DOMAIN q = 1..Len(q) /\ Len(q) \in Nat \ {0}
      /\ Head(q) = q[1] /\ \A i \in 1..(Len(q) - 1) : r[i] = q[i + 1]
  BY TailFacts
<1>2. /\ lo \in Nat /\ hi \in Nat /\ lo <= hi
      /\ \A i \in DOMAIN q : q[i][1] = t => q[i][2] \in (lo + 1)..hi
      /\ \A n \in (lo + 1)..hi : \E i \in DOMAIN q : q[i][1] = t /\ q[i][2] = n
      /\ \A i, j \in DOMAIN q :
           i < j /\ q[i][1] = t /\ q[j][1] = t => q[i][2] < q[j][2]
  BY DEF InTurn
<1> HIDE DEF r
<1>3. ASSUME NEW i \in DOMAIN r PROVE i + 1 \in DOMAIN q /\ r[i] = q[i + 1]
  BY <1>1
<1>4. ASSUME NEW n \in (lo + 1)..hi PROVE \E i \in DOMAIN r : r[i][1] = t /\ r[i][2] = n
  <2>1. PICK i \in DOMAIN q : q[i][1] = t /\ q[i][2] = n
    BY <1>2
  <2>2. i # 1
    BY <1>1, <2>1
  <2>3. i - 1 \in DOMAIN r /\ r[i - 1] = q[(i - 1) + 1] /\ (i - 1) + 1 = i
    BY <1>1, <2>2
  <2>4. QED
    BY <2>1, <2>3
<1>5. ASSUME NEW i \in DOMAIN r, NEW j \in DOMAIN r, i < j, r[i][1] = t, r[j][1] = t
      PROVE  r[i][2] < r[j][2]
  <2>1. i + 1 < j + 1
    BY <1>1, <1>5
  <2>2. QED
    BY <1>2, <1>3, <1>5, <2>1
<1>6. ASSUME NEW i \in DOMAIN r, r[i][1] = t PROVE r[i][2] \in (lo + 1)..hi
  BY <1>2, <1>3, <1>6
<1>7. QED
  BY <1>2, <1>4, <1>5, <1>6 DEF InTurn, r

-----------------------------------------------------------------------------
(* Type correctness                                                        *)

\* The counter is the next one, from zero again behind the last index of an array.
LEMMA NextCountFacts ==
  ASSUME NEW n \in 0..PatchSize - 1
  PROVE  /\ n = PatchSize - 1 => NextCount(n) = 0
         /\ n # PatchSize - 1 => NextCount(n) = n + 1
         /\ NextCount(n) \in 0..PatchSize - 1
<1>1. PatchSize \in Nat /\ PatchSize > 2
  BY SizeAssumption
<1>2. CASE n = PatchSize - 1
  <2>1. n + 1 = PatchSize
    BY <1>1, <1>2
  <2>2. PatchSize % PatchSize = 0
    BY <1>1
  <2>3. QED
    BY <1>1, <1>2, <2>1, <2>2 DEF NextCount
<1>3. CASE n # PatchSize - 1
  <2>1. n + 1 \in 0..PatchSize - 1
    BY <1>1, <1>3
  <2>2. (n + 1) % PatchSize = n + 1
    BY <1>1, <2>1
  <2>3. QED
    BY <1>3, <2>1, <2>2 DEF NextCount
<1>4. QED
  BY <1>2, <1>3

\* The messages to the GUI about patches.
Messages == [what : Whats, patch : Nat \ {0}, place : {PATCHING, PRINTER}, index : Nat,
             items : SUBSET ((0..PatchSize - 1) \X Nat)]

\* What Tell changes is typed when the message is.
LEMMA TellTyped ==
  ASSUME TypeOK, NEW t \in Types, NEW m \in Messages, Tell(t, m)
  PROVE  /\ ui' \in [Types -> Seq(Messages)]
         /\ unread' \in 0..UiCap /\ window' \in BOOLEAN
<1>1. ui \in [Types -> Seq(Messages)] /\ ui' = [ui EXCEPT ![t] = Append(ui[t], m)]
  BY DEF TypeOK, Tell, Messages
<1>2. Append(ui[t], m) \in Seq(Messages)
  BY <1>1, AppendFacts
<1>3. unread' = unread + 1 /\ unread < UiCap /\ unread \in 0..UiCap /\ UiCap \in Nat
  BY SizeAssumption DEF TypeOK, Tell
<1>4. unread' \in 0..UiCap
  BY <1>3
<1>5. QED
  BY <1>1, <1>2, <1>4 DEF TypeOK, Tell

\* At the start nothing is on its way.
LEMMA InitTypeOK == Init => TypeOK
BY SizeAssumption DEF Init, TypeOK, guiVars

\* A product arrives in the patcher's queue when there is room.
LEMMA ProductArrivesTypeOK ==
  ASSUME TypeOK, NEW t \in Types, ProductArrives(t)
  PROVE  TypeOK'
<1>1. PICK index \in LastIndex[t] : patcherQ' = Append(patcherQ, <<t, sent[t] + 1, index>>)
  BY DEF ProductArrives
<1>2. /\ sent' = [sent EXCEPT ![t] = sent[t] + 1] /\ Len(patcherQ) < QueueCap
      /\ UNCHANGED <<patcher, counter, arr, patchId, printerQ, printer, printed, guiVars, level>>
  BY DEF ProductArrives
<1>3. sent[t] + 1 \in Nat \ {0} /\ index \in Nat
  <2>1. PICK n \in Nat : n = sent[t]
    BY DEF TypeOK
  <2>2. LastIndex[t] \subseteq Nat
    BY SizeAssumption
  <2>3. QED
    BY <2>1, <2>2
<1>4. <<t, sent[t] + 1, index>> \in Items
  BY <1>3 DEF Items
<1>5. patcherQ' \in Seq(Items) /\ Len(patcherQ') = Len(patcherQ) + 1 /\ Len(patcherQ) \in Nat
  BY <1>1, <1>4, AppendFacts DEF TypeOK
<1>6. Len(patcherQ') <= QueueCap
  BY <1>2, <1>5, SizeAssumption
<1>7. sent' \in [Types -> Nat]
  BY <1>2, <1>3 DEF TypeOK
<1>8. QED
  BY <1>2, <1>5, <1>6, <1>7 DEF TypeOK, guiVars

\* The first message of a queue is an item, and the rest is a shorter queue.
LEMMA ReceiveFacts ==
  ASSUME NEW q \in Seq(Items), q # <<>>, Len(q) <= QueueCap
  PROVE  Head(q) \in Items /\ Tail(q) \in Seq(Items) /\ Len(Tail(q)) <= QueueCap
<1>1. /\ Head(q) \in Items /\ Tail(q) \in Seq(Items)
      /\ Len(Tail(q)) = Len(q) - 1 /\ Len(q) \in Nat
  BY TailFacts
<1>2. QED
  BY <1>1, SizeAssumption

\* The patcher collects a product.
LEMMA PatcherCollectTypeOK ==
  ASSUME TypeOK, PatcherCollect
  PROVE  TypeOK'
<1>1. PICK t \in Types, n \in Nat \ {0}, x \in Nat : patcher.got = <<t, n, x>>
  BY DEF TypeOK, PatcherCollect, Collect, Items
<1> DEFINE c == NextCount(counter[t])
<1>2. Collect(t, counter[t], c, PatchSize - 1) /\ patcher.at = "collect"
  BY <1>1 DEF PatcherCollect, Collect
<1>3. counter[t] \in 0..PatchSize - 1 /\ c \in 0..PatchSize - 1
  BY NextCountFacts DEF TypeOK
<1> HIDE DEF c
<1>4. /\ arr' = [arr EXCEPT ![t][counter[t]] = n]
      /\ counter' = [counter EXCEPT ![t] = c]
      /\ UNCHANGED <<sent, patcherQ, printerQ, printer, printed, level>>
  BY <1>1, <1>2 DEF Collect
<1>5. arr' \in [Types -> [0..PatchSize - 1 -> Nat]] /\ counter' \in [Types -> 0..PatchSize - 1]
  BY <1>3, <1>4 DEF TypeOK
<1>6. /\ patcher' \in [at : {"top", "spin", "receive", "collect", "send", "told"},
                       got : Items \cup {Nothing}]
      /\ patcher'.at \in {"collect", "send", "told"} => patcher'.got \in Items
  <2>1. \/ patcher' = [at |-> "top", got |-> Nothing]
        \/ patcher' = [patcher EXCEPT !.at = "send"]
    BY <1>2 DEF Collect
  <2>2. /\ patcher.got \in Items
        /\ patcher \in [at : {"top", "spin", "receive", "collect", "send", "told"},
                       got : Items \cup {Nothing}]
    BY <1>2 DEF TypeOK
  <2>3. CASE patcher' = [at |-> "top", got |-> Nothing]
    BY <2>3
  <2>4. CASE patcher' = [patcher EXCEPT !.at = "send"]
    BY <2>2, <2>4
  <2>5. QED
    BY <2>1, <2>3, <2>4
<1>7. /\ patchId' \in [Types -> Nat]
      /\ ui' \in [Types -> Seq(Messages)] /\ unread' \in 0..UiCap /\ window' \in BOOLEAN
  <2>1. CASE UNCHANGED <<patchId, guiVars>>
    BY <2>1 DEF TypeOK, guiVars, Messages
  <2>2. CASE ~UNCHANGED <<patchId, guiVars>>
    <3>1. /\ patchId' = [patchId EXCEPT ![t] = patchId[t] + 1]
          /\ Tell(t, PatchMsg("created", patchId[t] + 1, PATCHING, 0, {}))
      BY <1>2, <2>2 DEF Collect
    <3>2. patchId[t] + 1 \in Nat \ {0}
      BY DEF TypeOK
    <3>3. PatchMsg("created", patchId[t] + 1, PATCHING, 0, {}) \in Messages
      BY <3>2 DEF PatchMsg, Messages, Whats
    <3>4. QED
      BY <3>1, <3>2, <3>3, TellTyped DEF TypeOK
  <2>3. QED
    BY <2>1, <2>2
<1>8. QED
  BY <1>4, <1>5, <1>6, <1>7 DEF TypeOK, Messages

\* The patcher tells the GUI of the patch and sends it to the printer.
LEMMA PatcherSendTypeOK ==
  ASSUME TypeOK, PatcherSend, patcher.at \in {"send", "told"} => patchId[patcher.got[1]] > 0
  PROVE  TypeOK'
<1>1. PICK t \in Types, n \in Nat \ {0}, x \in Nat : patcher.got = <<t, n, x>>
  <2>1. patcher.got \in Items
    BY DEF TypeOK, PatcherSend
  <2>2. QED
    BY <2>1 DEF Items
<1>2. UNCHANGED <<sent, patcherQ, counter, arr, patchId, printer, printed, level>>
  BY DEF PatcherSend
<1>3. patchId[t] \in Nat \ {0} /\ arr[t] \in [0..PatchSize - 1 -> Nat]
  BY <1>1 DEF TypeOK, PatcherSend
<1>4. CASE patcher.at = "send"
  <2>1. /\ Tell(t, PatchMsg("moved", patchId[t], PATCHING, 3, Contents(t)))
        /\ patcher' = [patcher EXCEPT !.at = "told"] /\ UNCHANGED printerQ
    BY <1>1, <1>4 DEF PatcherSend
  <2>2. Contents(t) \in SUBSET ((0..PatchSize - 1) \X Nat)
    <3>1. \A i \in 0..PatchSize - 1 : <<i, arr[t][i]>> \in (0..PatchSize - 1) \X Nat
      BY <1>3
    <3>2. QED
      BY <3>1 DEF Contents
  <2>3. PatchMsg("moved", patchId[t], PATCHING, 3, Contents(t)) \in Messages
    BY <1>3, <2>2 DEF PatchMsg, Messages, Whats
  <2>4. ui' \in [Types -> Seq(Messages)] /\ unread' \in 0..UiCap /\ window' \in BOOLEAN
    BY <2>1, <2>3, TellTyped
  <2>5. /\ patcher' \in [at : {"top", "spin", "receive", "collect", "send", "told"},
                         got : Items \cup {Nothing}]
        /\ patcher'.got \in Items
    BY <1>4, <2>1 DEF TypeOK
  <2>6. QED
    BY <1>2, <2>1, <2>4, <2>5 DEF TypeOK, Messages
<1>5. CASE patcher.at = "told"
  <2>1. /\ Len(printerQ) < QueueCap
        /\ printerQ' = Append(printerQ, <<t, patchId[t], x>>)
        /\ patcher' = [at |-> "top", got |-> Nothing] /\ UNCHANGED guiVars
    BY <1>1, <1>5 DEF PatcherSend
  <2>2. <<t, patchId[t], x>> \in Items
    BY <1>3 DEF Items
  <2>3. printerQ' \in Seq(Items) /\ Len(printerQ') = Len(printerQ) + 1 /\ Len(printerQ) \in Nat
    BY <2>1, <2>2, AppendFacts DEF TypeOK
  <2>4. Len(printerQ') <= QueueCap
    BY <2>1, <2>3, SizeAssumption
  <2>5. QED
    BY <1>2, <2>1, <2>3, <2>4 DEF TypeOK, guiVars
<1>6. QED
  BY <1>4, <1>5 DEF PatcherSend

\* The printer tells the GUI of the patch it has.
LEMMA PrinterPrintTypeOK ==
  ASSUME TypeOK, PrinterPrint
  PROVE  TypeOK'
<1>1. PICK t \in Types, n \in Nat \ {0}, x \in Nat : printer.got = <<t, n, x>>
  BY DEF TypeOK, PrinterPrint, Items
<1>2. UNCHANGED <<sent, patcherQ, patcher, counter, arr, patchId, printerQ, printed, level>>
  BY DEF PrinterPrint
<1>3. PICK m \in Messages, next \in {"ready", "enqueue"} :
        Tell(t, m) /\ printer' = [printer EXCEPT !.at = next] /\ printer.at \in {"print", "ready"}
  <2>1. /\ PatchMsg("printing", n, PRINTER, x, {}) \in Messages
        /\ PatchMsg("printed", n, PRINTER, 3, {}) \in Messages
    BY DEF PatchMsg, Messages, Whats
  <2>2. QED
    BY <1>1, <2>1 DEF PrinterPrint
<1>4. ui' \in [Types -> Seq(Messages)] /\ unread' \in 0..UiCap /\ window' \in BOOLEAN
  BY <1>3, TellTyped
<1>5. /\ printer' \in [at : {"top", "spin", "receive", "print", "ready", "enqueue"},
                       got : Items \cup {Nothing}]
      /\ printer'.got \in Items
  BY <1>3 DEF TypeOK
<1>6. QED
  BY <1>2, <1>4, <1>5 DEF TypeOK, Messages

\* The printer puts its patch on the printing queue.
LEMMA PrinterPutTypeOK ==
  ASSUME TypeOK, PrinterPut
  PROVE  TypeOK'
<1>1. PICK t \in Types, n \in Nat \ {0}, x \in Nat : printer.got = <<t, n, x>>
  <2>1. printer.at = "enqueue"
    BY DEF PrinterPut
  <2>2. printer.got \in Items
    BY <2>1 DEF TypeOK
  <2>3. QED
    BY <2>2 DEF Items
<1>2. /\ printed' = [printed EXCEPT ![t] = Append(printed[t], <<t, n>>)]
      /\ printer' = [at |-> "top", got |-> Nothing]
      /\ UNCHANGED <<sent, patcherQ, patcher, counter, arr, patchId, printerQ, guiVars, level>>
  BY <1>1 DEF PrinterPut
<1>3. Append(printed[t], <<t, n>>) \in Seq(Types \X (Nat \ {0}))
  BY AppendFacts DEF TypeOK
<1>4. QED
  BY <1>2, <1>3 DEF TypeOK, guiVars

-----------------------------------------------------------------------------
(* The inductive invariant                                                 *)

\* The patcher has a product of type t in its hand, or sends a patch of type t.
InHand(t) == patcher.at = "collect" /\ patcher.got[1] = t
Sending(t) == patcher.at \in {"send", "told"} /\ patcher.got[1] = t

\* Products of type t that were put into the array, and that left the queue.
Collected(t) ==
  IF counter[t] = 0 THEN patchId[t] * PatchSize
                    ELSE (patchId[t] - 1) * PatchSize + counter[t]
Received(t) == IF InHand(t) THEN Collected(t) + 1 ELSE Collected(t)

\* Patches of type t that the printer's queue got: all but the one that is filled.
Released(t) ==
  IF Sending(t) \/ counter[t] \in 1..PatchSize - 2 THEN patchId[t] - 1 ELSE patchId[t]

\* The printer is at work on a patch of type t, and how many it took so far.
AtPrinter(t) == printer.at \in {"print", "ready", "enqueue"} /\ printer.got[1] = t
Taken(t) == IF AtPrinter(t) THEN Len(printed[t]) + 1 ELSE Len(printed[t])

\* The products that wait for the patcher are the next ones that were sent, and
\* each patch that was released had its products sent before.
PatcherInv(t) ==
  /\ Sending(t) => counter[t] = PatchSize - 1
  /\ counter[t] # 0 => patchId[t] > 0
  /\ InTurn(patcherQ, t, Received(t), sent[t])
  /\ \A n \in 1..Released(t) : SentForPatch(n) <= sent[t]

\* The patches that wait for the printer are the next ones that were released, and
\* the one it works on is the next one to be printed.
PrinterInv(t) ==
  /\ AtPrinter(t) => printer.got[2] = Len(printed[t]) + 1
  /\ InTurn(printerQ, t, Taken(t), Released(t))

PatchingInv == \A t \in Types : PatcherInv(t) /\ PrinterInv(t)

\* The counts of products and patches are numbers.
LEMMA CountFacts ==
  ASSUME TypeOK, NEW t \in Types, PatcherInv(t)
  PROVE  /\ Collected(t) \in Nat /\ Released(t) \in Nat /\ Taken(t) \in Nat
         /\ sent[t] \in Nat /\ patchId[t] \in Nat /\ counter[t] \in 0..PatchSize - 1
         /\ Len(printed[t]) \in Nat
<1>1. /\ sent[t] \in Nat /\ patchId[t] \in Nat /\ counter[t] \in 0..PatchSize - 1
      /\ PatchSize \in Nat /\ PatchSize > 2
  BY SizeAssumption DEF TypeOK
<1>2. counter[t] # 0 => patchId[t] > 0
  BY DEF PatcherInv
<1>3. printed[t] \in Seq(Types \X (Nat \ {0}))
  BY DEF TypeOK
<1>4. Len(printed[t]) \in Nat
  BY <1>3
<1>5. Taken(t) \in Nat
  BY <1>4 DEF Taken
<1>6. Collected(t) \in Nat
  <2>1. PICK i \in Nat, p \in Nat, c \in Nat :
          i = patchId[t] /\ p = PatchSize /\ c = counter[t]
    BY <1>1
  <2>2. i * p \in Nat
    OBVIOUS
  <2>3. CASE c = 0
    BY <2>1, <2>2, <2>3 DEF Collected
  <2>4. CASE c # 0
    <3>1. i - 1 \in Nat
      BY <1>2, <2>1, <2>4
    <3>2. (i - 1) * p \in Nat
      BY <3>1
    <3>3. (i - 1) * p + c \in Nat
      BY <3>2
    <3>4. QED
      BY <2>1, <2>4, <3>3 DEF Collected
  <2>5. QED
    BY <2>3, <2>4
<1>7. Released(t) \in Nat
  <2>1. Sending(t) => counter[t] # 0
    BY <1>1 DEF PatcherInv
  <2>2. counter[t] \in 1..PatchSize - 2 => counter[t] # 0
    BY <1>1
  <2>3. QED
    BY <1>1, <1>2, <2>1, <2>2 DEF Released
<1>8. QED
  BY <1>1, <1>4, <1>5, <1>6, <1>7

\* What does not touch the patcher's data, nor what it has in hand, keeps its part.
LEMMA PatcherFrame ==
  ASSUME NEW t \in Types, PatcherInv(t), UNCHANGED <<sent, patcherQ, counter, patchId>>,
         InHand(t)' = InHand(t), Sending(t)' = Sending(t)
  PROVE  PatcherInv(t)' /\ Released(t)' = Released(t)
<1>1. Collected(t)' = Collected(t)
  BY DEF Collected
<1>2. Received(t)' = Received(t)
  BY <1>1 DEF Received
<1>3. Released(t)' = Released(t)
  BY DEF Released
<1>4. QED
  BY <1>2, <1>3 DEF PatcherInv, InTurn, SentForPatch

\* What does not touch the printer's data keeps its part.
LEMMA PrinterFrame ==
  ASSUME NEW t \in Types, PrinterInv(t), UNCHANGED <<printerQ, printed>>,
         Released(t)' = Released(t), printer'.got = printer.got,
         AtPrinter(t)' = AtPrinter(t)
  PROVE  PrinterInv(t)'
BY DEF PrinterInv, Taken, InTurn

\* A product that arrives is the next one of its type.
LEMMA ArrivalKeepsInv ==
  ASSUME TypeOK, PatchingInv, NEW s \in Types, ProductArrives(s)
  PROVE  PatchingInv'
<1>1. /\ sent' = [sent EXCEPT ![s] = sent[s] + 1] /\ sent \in [Types -> Nat]
      /\ UNCHANGED <<patcher, counter, patchId, printerQ, printer, printed>>
  BY DEF ProductArrives, TypeOK
<1>2. PICK index \in Nat : patcherQ' = Append(patcherQ, <<s, sent[s] + 1, index>>)
  BY SizeAssumption DEF ProductArrives
<1>3. <<s, sent[s] + 1, index>> \in Items /\ patcherQ \in Seq(Items)
  BY <1>1 DEF TypeOK, Items
<1>4. SUFFICES ASSUME NEW t \in Types PROVE PatcherInv(t)' /\ PrinterInv(t)'
  BY DEF PatchingInv
<1>5. PatcherInv(t) /\ PrinterInv(t)
  BY DEF PatchingInv
<1>6. /\ InHand(t)' = InHand(t) /\ Sending(t)' = Sending(t) /\ AtPrinter(t)' = AtPrinter(t)
      /\ Released(t)' = Released(t) /\ Received(t)' = Received(t)
  BY <1>1 DEF InHand, Sending, AtPrinter, Released, Received, Collected
<1>7. PrinterInv(t)'
  BY <1>1, <1>5, <1>6, PrinterFrame
<1>8. InTurn(patcherQ, t, Received(t), sent[t])
  BY <1>5 DEF PatcherInv
<1>9. InTurn(patcherQ', t, Received(t), sent'[t])
  <2>1. CASE t = s
    BY <1>1, <1>2, <1>3, <1>8, <2>1, AppendNext
  <2>2. CASE t # s
    BY <1>1, <1>2, <1>3, <1>8, <2>2, AppendOther
  <2>3. QED
    BY <2>1, <2>2
<1>10. sent[t] <= sent'[t] /\ sent[t] \in Nat /\ sent'[t] \in Nat
  BY <1>1
<1>11. \A n \in 1..Released(t) : SentForPatch(n) <= sent'[t]
  <2>1. SUFFICES ASSUME NEW n \in 1..Released(t) PROVE SentForPatch(n) <= sent'[t]
    OBVIOUS
  <2>2. SentForPatch(n) <= sent[t]
    BY <1>5 DEF PatcherInv
  <2>3. SentForPatch(n) \in Int
    <3>1. n \in Int /\ PatchSize \in Int
      BY SizeAssumption
    <3>2. n * PatchSize \in Int
      BY <3>1
    <3>3. QED
      BY <3>2 DEF SentForPatch
  <2>4. QED
    BY <1>10, <2>2, <2>3
<1>12. PatcherInv(t)'
  BY <1>1, <1>5, <1>6, <1>9, <1>11 DEF PatcherInv, SentForPatch
<1>13. QED
  BY <1>7, <1>12

\* The patcher takes the next product of its type out of its queue.
LEMMA ReceiveKeepsInv ==
  ASSUME TypeOK, PatchingInv, PatcherReceive
  PROVE  PatchingInv'
<1>1. /\ patcher.at = "receive" /\ patcherQ # <<>>
      /\ patcher' = [at |-> "collect", got |-> Head(patcherQ)]
      /\ patcherQ' = Tail(patcherQ)
      /\ UNCHANGED <<sent, counter, patchId, printerQ, printer, printed>>
  BY DEF PatcherReceive
<1>2. SUFFICES ASSUME NEW t \in Types PROVE PatcherInv(t)' /\ PrinterInv(t)'
  BY DEF PatchingInv
<1>3. PatcherInv(t) /\ PrinterInv(t)
  BY DEF PatchingInv
<1>4. /\ ~InHand(t) /\ ~Sending(t) /\ ~Sending(t)' /\ AtPrinter(t)' = AtPrinter(t)
      /\ InHand(t)' = (Head(patcherQ)[1] = t)
      /\ Collected(t)' = Collected(t)
  BY <1>1 DEF InHand, Sending, AtPrinter, Collected
<1>5. Released(t)' = Released(t)
  BY <1>1, <1>4 DEF Released
<1>6. PrinterInv(t)'
  BY <1>1, <1>3, <1>4, <1>5, PrinterFrame
<1>7. InTurn(patcherQ, t, Collected(t), sent[t])
  BY <1>3, <1>4 DEF PatcherInv, Received
<1>8. InTurn(patcherQ', t, Received(t)', sent[t])
  <2>1. patcherQ \in Seq(Items)
    BY DEF TypeOK
  <2>2. CASE Head(patcherQ)[1] = t
    <3>1. InTurn(Tail(patcherQ), t, Collected(t) + 1, sent[t])
      BY <1>1, <1>7, <2>1, <2>2, HeadIsNext
    <3>2. Received(t)' = Collected(t) + 1
      BY <1>4, <2>2 DEF Received
    <3>3. QED
      BY <1>1, <3>1, <3>2
  <2>3. CASE Head(patcherQ)[1] # t
    BY <1>1, <1>4, <1>7, <2>1, <2>3, HeadIsOther DEF Received
  <2>4. QED
    BY <2>2, <2>3
<1>9. PatcherInv(t)'
  BY <1>1, <1>3, <1>4, <1>5, <1>8 DEF PatcherInv, SentForPatch
<1>10. QED
  BY <1>6, <1>9

\* A product goes from the hand into the array: one more is collected, none more was
\* received, and no patch is released.
LEMMA CollectCounts ==
  ASSUME TypeOK, NEW t \in Types, PatcherInv(t), PatcherCollect, patcher.got[1] = t
  PROVE  /\ Collected(t)' = Collected(t) + 1 /\ Released(t)' = Released(t)
         /\ Sending(t)' => counter'[t] = PatchSize - 1
         /\ counter'[t] # 0 => patchId'[t] > 0
         /\ ~InHand(t)'
<1> DEFINE c == NextCount(counter[t])
<1>1. Collect(t, counter[t], c, PatchSize - 1) /\ patcher.at = "collect"
  BY DEF PatcherCollect, Collect
<1>2. counter'[t] = c
  BY <1>1 DEF Collect, TypeOK
<1>3. PICK n \in Nat, i \in Nat, p \in Nat :
        /\ n = counter[t] /\ i = patchId[t] /\ p = PatchSize
        /\ n \in 0..p - 1 /\ p > 2
        /\ n # 0 => i > 0
  BY SizeAssumption DEF TypeOK, PatcherInv
<1>4. /\ n = p - 1 => c = 0
      /\ n # p - 1 => c = n + 1
  BY <1>3, NextCountFacts
<1>5. ~Sending(t) /\ InHand(t)
  BY <1>1 DEF Sending, InHand
<1>6. /\ Collected(t) = IF n = 0 THEN i * p ELSE (i - 1) * p + n
      /\ Released(t) = IF n \in 1..p - 2 THEN i - 1 ELSE i
  BY <1>3, <1>5 DEF Collected, Released
<1> HIDE DEF c
<1>7. CASE n = p - 1
  <2>1. c = 0 /\ c # 1 /\ c # PatchSize - 1
    BY <1>3, <1>4, <1>7
  <2>2. patcher' = [at |-> "top", got |-> Nothing] /\ patchId' = patchId
    BY <1>1, <2>1 DEF Collect
  <2>3. ~Sending(t)' /\ ~InHand(t)' /\ patchId'[t] = i /\ counter'[t] = 0
    BY <1>2, <1>3, <2>1, <2>2 DEF Sending, InHand
  <2>4. Collected(t)' = i * p
    BY <1>3, <2>3 DEF Collected
  <2>5. Collected(t) = (i - 1) * p + (p - 1)
    BY <1>3, <1>6, <1>7
  <2>6. (i - 1) * p + (p - 1) + 1 = i * p
    OBVIOUS
  <2>7. Released(t)' = i /\ Released(t) = i
    BY <1>3, <1>6, <1>7, <2>3 DEF Released
  <2>8. QED
    BY <2>3, <2>4, <2>5, <2>6, <2>7
<1>8. CASE n = 0
  <2>1. c = 1 /\ c # PatchSize - 1
    BY <1>3, <1>4, <1>8
  <2>2. /\ patcher' = [at |-> "top", got |-> Nothing]
        /\ patchId' = [patchId EXCEPT ![t] = patchId[t] + 1]
    BY <1>1, <2>1 DEF Collect
  <2>3. ~Sending(t)' /\ ~InHand(t)' /\ patchId'[t] = i + 1 /\ counter'[t] = 1
    BY <1>2, <1>3, <2>1, <2>2 DEF Sending, InHand, TypeOK
  <2>4. Collected(t)' = ((i + 1) - 1) * p + 1
    BY <1>3, <2>3 DEF Collected
  <2>5. Collected(t) = i * p
    BY <1>6, <1>8
  <2>6. (i + 1) - 1 = i
    OBVIOUS
  <2>7. Released(t)' = i /\ Released(t) = i
    BY <1>3, <1>6, <1>8, <2>3 DEF Released
  <2>8. QED
    BY <2>3, <2>4, <2>5, <2>6, <2>7
<1>9. CASE n # 0 /\ n # p - 1
  <2>1. c = n + 1 /\ c # 1 /\ c # 0 /\ n \in 1..p - 2
    BY <1>3, <1>4, <1>9
  <2>2. /\ patchId' = patchId
        /\ \/ c = PatchSize - 1 /\ patcher' = [patcher EXCEPT !.at = "send"]
           \/ c # PatchSize - 1 /\ patcher' = [at |-> "top", got |-> Nothing]
    BY <1>1, <2>1 DEF Collect
  <2>3. patchId'[t] = i /\ counter'[t] = n + 1
    BY <1>2, <1>3, <2>1, <2>2
  <2>4. /\ Sending(t)' <=> c = PatchSize - 1
        /\ ~InHand(t)'
    <3>1. /\ patcher \in [at : {"top", "spin", "receive", "collect", "send", "told"},
                          got : Items \cup {Nothing}]
          /\ patcher.got[1] = t
      BY DEF TypeOK
    <3>2. \/ c = PatchSize - 1 /\ patcher'.at = "send" /\ patcher'.got = patcher.got
          \/ c # PatchSize - 1 /\ patcher'.at = "top"
      BY <2>2, <3>1
    <3>3. QED
      BY <3>1, <3>2 DEF Sending, InHand
  <2>5. Collected(t)' = (i - 1) * p + (n + 1)
    BY <1>3, <2>1, <2>3 DEF Collected
  <2>6. Collected(t) = (i - 1) * p + n
    BY <1>6, <1>9
  <2>7. Released(t) = i - 1
    BY <1>6, <2>1
  <2>8. Released(t)' = i - 1
    <3>1. counter'[t] = PatchSize - 1 \/ counter'[t] \in 1..PatchSize - 2
      BY <1>3, <2>1, <2>3
    <3>2. QED
      BY <1>2, <2>3, <2>4, <3>1 DEF Released
  <2>9. (i - 1) * p + (n + 1) = (i - 1) * p + n + 1
    OBVIOUS
  <2>10. QED
    BY <1>2, <1>3, <1>9, <2>3, <2>4, <2>5, <2>6, <2>7, <2>8, <2>9
<1>10. QED
  BY <1>7, <1>8, <1>9

LEMMA CollectKeepsInv ==
  ASSUME TypeOK, PatchingInv, PatcherCollect
  PROVE  PatchingInv'
<1>1. /\ patcher.at = "collect"
      /\ UNCHANGED <<sent, patcherQ, printerQ, printer, printed>>
      /\ patcher'.at \in {"top", "send"}
  BY DEF PatcherCollect, Collect, TypeOK
<1>2. SUFFICES ASSUME NEW t \in Types PROVE PatcherInv(t)' /\ PrinterInv(t)'
  BY DEF PatchingInv
<1>3. PatcherInv(t) /\ PrinterInv(t) /\ AtPrinter(t)' = AtPrinter(t)
  BY <1>1 DEF PatchingInv, AtPrinter
<1>4. CASE patcher.got[1] = t
  <2>1. /\ Collected(t)' = Collected(t) + 1 /\ Released(t)' = Released(t)
        /\ Sending(t)' => counter'[t] = PatchSize - 1
        /\ counter'[t] # 0 => patchId'[t] > 0
        /\ ~InHand(t)'
    BY <1>3, <1>4, CollectCounts
  <2>2. Received(t)' = Received(t)
    BY <1>1, <1>4, <2>1 DEF Received, InHand
  <2>3. PrinterInv(t)'
    BY <1>1, <1>3, <2>1, PrinterFrame
  <2>4. PatcherInv(t)'
    BY <1>1, <1>3, <2>1, <2>2 DEF PatcherInv, SentForPatch
  <2>5. QED
    BY <2>3, <2>4
<1>5. CASE patcher.got[1] # t
  <2>1. PICK s \in Types : s = patcher.got[1] /\ s # t
    BY <1>1, <1>5 DEF TypeOK, Items
  <2>2. /\ counter'[t] = counter[t] /\ patchId'[t] = patchId[t]
        /\ patcher' = [at |-> "top", got |-> Nothing] \/ patcher'.got = patcher.got
    BY <2>1 DEF PatcherCollect, Collect, TypeOK
  <2>3. ~InHand(t) /\ ~InHand(t)' /\ ~Sending(t) /\ ~Sending(t)'
    BY <1>1, <1>5, <2>2 DEF InHand, Sending
  <2>4. Collected(t)' = Collected(t) /\ Released(t)' = Released(t)
    BY <2>2, <2>3 DEF Collected, Released
  <2>5. Received(t)' = Received(t)
    BY <2>3, <2>4 DEF Received
  <2>6. PrinterInv(t)'
    BY <1>1, <1>3, <2>4, PrinterFrame
  <2>7. PatcherInv(t)'
    BY <1>1, <1>3, <2>2, <2>3, <2>4, <2>5 DEF PatcherInv, SentForPatch
  <2>8. QED
    BY <2>6, <2>7
<1>6. QED
  BY <1>4, <1>5

\* The patch that the patcher sends is the next one, and its products were sent.
LEMMA SendKeepsInv ==
  ASSUME TypeOK, PatchingInv, PatcherSend
  PROVE  PatchingInv'
<1>1. PICK s \in Types, x \in Nat : s = patcher.got[1] /\ x = patcher.got[3]
  BY DEF TypeOK, PatcherSend, Items
<1>2. /\ UNCHANGED <<sent, patcherQ, counter, patchId, printer, printed>>
      /\ \/ /\ patcher.at = "send" /\ patcher' = [patcher EXCEPT !.at = "told"]
            /\ UNCHANGED printerQ
         \/ /\ patcher.at = "told" /\ patcher' = [at |-> "top", got |-> Nothing]
            /\ printerQ' = Append(printerQ, <<s, patchId[s], x>>)
  BY <1>1 DEF PatcherSend
<1>3. SUFFICES ASSUME NEW t \in Types PROVE PatcherInv(t)' /\ PrinterInv(t)'
  BY DEF PatchingInv
<1>4. /\ PatcherInv(t) /\ PrinterInv(t) /\ AtPrinter(t)' = AtPrinter(t)
      /\ Taken(t)' = Taken(t)
  BY <1>2 DEF PatchingInv, AtPrinter, Taken
<1>5. CASE patcher.at = "send"
  <2>1. patcher'.at = "told" /\ patcher'.got = patcher.got /\ UNCHANGED printerQ
    BY <1>2, <1>5 DEF TypeOK
  <2>2. InHand(t)' = InHand(t) /\ Sending(t)' = Sending(t)
    BY <1>5, <2>1 DEF InHand, Sending
  <2>3. QED
    BY <1>2, <1>4, <2>1, <2>2, PatcherFrame, PrinterFrame
<1>6. CASE patcher.at = "told" /\ s # t
  <2>1. /\ patcher'.at = "top" /\ printerQ' = Append(printerQ, <<s, patchId[s], x>>)
        /\ s # t /\ patcher.got[1] # t
    BY <1>1, <1>2, <1>6
  <2>2. InHand(t)' = InHand(t) /\ Sending(t)' = Sending(t)
    BY <2>1, <1>6 DEF InHand, Sending
  <2>3. PatcherInv(t)' /\ Released(t)' = Released(t)
    BY <1>2, <1>4, <2>2, PatcherFrame
  <2>4. printerQ \in Seq(Items) /\ <<s, patchId[s], x>> \in Items
    <3>1. Sending(s) /\ PatcherInv(s)
      BY <1>1, <1>6 DEF PatchingInv, Sending
    <3>2. patchId[s] > 0 /\ patchId[s] \in Nat
      BY <3>1, SizeAssumption DEF PatcherInv, TypeOK
    <3>3. PICK n \in Nat \ {0} : n = patchId[s]
      BY <3>2
    <3>4. <<s, n, x>> \in Items
      BY <1>1, <3>3 DEF Items
    <3>5. printerQ \in Seq(Items)
      BY DEF TypeOK
    <3>6. QED
      BY <3>3, <3>4, <3>5
  <2>5. InTurn(printerQ', t, Taken(t), Released(t))
    BY <1>4, <2>1, <2>4, AppendOther DEF PrinterInv
  <2>6. PrinterInv(t)'
    BY <1>2, <1>4, <2>3, <2>5 DEF PrinterInv
  <2>7. QED
    BY <2>3, <2>6
<1>7. CASE patcher.at = "told" /\ s = t
  <2>1. /\ patcher'.at = "top" /\ printerQ' = Append(printerQ, <<t, patchId[t], x>>)
        /\ patcher.got[1] = t
    BY <1>1, <1>2, <1>7
  <2>2. ~InHand(t) /\ ~InHand(t)' /\ Sending(t) /\ ~Sending(t)'
    BY <2>1, <1>7 DEF InHand, Sending
  <2>3. PICK i \in Nat, p \in Nat, r \in Nat : i = patchId[t] /\ p = PatchSize /\ r = sent[t] /\ p > 2
    BY SizeAssumption DEF TypeOK
  <2>4. counter[t] = p - 1 /\ i > 0
    BY <1>4, <2>2, <2>3 DEF PatcherInv
  <2>5. Released(t) = i - 1
    BY <2>2, <2>3 DEF Released
  <2>6. Released(t)' = i
    <3>1. counter'[t] = p - 1 /\ ~(p - 1 \in 1..p - 2) /\ patchId'[t] = i
      BY <1>2, <2>3, <2>4
    <3>2. QED
      BY <2>2, <2>3, <3>1 DEF Released
  <2>7. Received(t)' = Received(t) /\ Received(t) = (i - 1) * p + (p - 1)
    <3>1. counter[t] # 0 /\ counter'[t] # 0 /\ counter'[t] = p - 1 /\ patchId'[t] = i
      BY <1>2, <2>3, <2>4
    <3>2. QED
      BY <2>2, <2>3, <2>4, <3>1 DEF Received, Collected
  <2>8. Received(t) <= r
    BY <1>4, <2>3 DEF PatcherInv, InTurn
  <2>9. i * p - 1 <= r
    <3>1. (i - 1) * p + (p - 1) = i * p - 1
      OBVIOUS
    <3>2. QED
      BY <2>7, <2>8, <3>1
  <2>10. \A n \in 1..i : SentForPatch(n) <= r
    <3>1. SUFFICES ASSUME NEW n \in 1..i PROVE SentForPatch(n) <= r
      OBVIOUS
    <3>2. CASE n = i
      BY <2>3, <2>9, <3>2 DEF SentForPatch
    <3>3. CASE n # i
      <4>1. n \in 1..(i - 1)
        BY <3>3
      <4>2. QED
        BY <1>4, <2>3, <2>5, <4>1 DEF PatcherInv
    <3>4. QED
      BY <3>2, <3>3
  <2>11. PatcherInv(t)'
    <3>1. InTurn(patcherQ', t, Received(t)', sent'[t])
      BY <1>2, <1>4, <2>7 DEF PatcherInv
    <3>2. counter'[t] # 0 => patchId'[t] > 0
      BY <1>2, <2>3, <2>4
    <3>3. \A n \in 1..Released(t)' : SentForPatch(n) <= sent'[t]
      BY <1>2, <2>3, <2>6, <2>10
    <3>4. QED
      BY <2>2, <3>1, <3>2, <3>3 DEF PatcherInv, SentForPatch
  <2>12. InTurn(printerQ', t, Taken(t), Released(t)')
    <3>1. InTurn(printerQ, t, Taken(t), i - 1)
      BY <1>4, <2>5 DEF PrinterInv
    <3>2. <<t, i, x>> \in Items /\ printerQ \in Seq(Items)
      <4>1. i \in Nat \ {0} /\ x \in Nat /\ t \in Types
        BY <1>1, <2>3, <2>4
      <4>2. <<t, i, x>> \in Items
        BY <4>1 DEF Items
      <4>3. printerQ \in Seq(Items)
        BY DEF TypeOK
      <4>4. QED
        BY <4>2, <4>3
    <3>3. InTurn(Append(printerQ, <<t, i, x>>), t, Taken(t), (i - 1) + 1)
      <4>1. <<t, i, x>>[1] = t /\ <<t, i, x>>[2] = (i - 1) + 1
        BY <2>3
      <4>2. QED
        BY <3>1, <3>2, <4>1, AppendNext
    <3>4. (i - 1) + 1 = i
      BY <2>3
    <3>5. QED
      BY <2>1, <2>3, <2>6, <3>3, <3>4
  <2>13. PrinterInv(t)'
    BY <1>2, <1>4, <2>12 DEF PrinterInv
  <2>14. QED
    BY <2>11, <2>13
<1>8. QED
  BY <1>2, <1>5, <1>6, <1>7

\* The printer takes the next patch of its type out of its queue, or finds none.
LEMMA PrinterReceiveKeepsInv ==
  ASSUME TypeOK, PatchingInv, PrinterReceive
  PROVE  PatchingInv'
<1>1. /\ printer.at = "receive" /\ UNCHANGED <<sent, patcherQ, patcher, counter, patchId, printed>>
      /\ \/ printer'.at = "top" /\ UNCHANGED printerQ
         \/ /\ printerQ # <<>> /\ printerQ' = Tail(printerQ)
            /\ printer' = [at |-> "print", got |-> Head(printerQ)]
  BY DEF PrinterReceive, TypeOK
<1>2. SUFFICES ASSUME NEW t \in Types PROVE PatcherInv(t)' /\ PrinterInv(t)'
  BY DEF PatchingInv
<1>3. /\ PatcherInv(t) /\ PrinterInv(t)
      /\ InHand(t)' = InHand(t) /\ Sending(t)' = Sending(t)
  BY <1>1 DEF PatchingInv, InHand, Sending
<1>4. PatcherInv(t)' /\ Released(t)' = Released(t)
  BY <1>1, <1>3, PatcherFrame
<1>5. ~AtPrinter(t) /\ InTurn(printerQ, t, Len(printed[t]), Released(t))
  BY <1>1, <1>3 DEF PrinterInv, AtPrinter, Taken
<1>6. CASE printer'.at = "top" /\ UNCHANGED printerQ
  <2>1. ~AtPrinter(t)'
    BY <1>6 DEF AtPrinter
  <2>2. QED
    BY <1>1, <1>4, <1>5, <1>6, <2>1 DEF PrinterInv, Taken
<1>7. CASE /\ printerQ # <<>> /\ printerQ' = Tail(printerQ)
           /\ printer' = [at |-> "print", got |-> Head(printerQ)]
  <2>1. printerQ \in Seq(Items)
    BY DEF TypeOK
  <2>2. CASE Head(printerQ)[1] = t
    <3>1. /\ Head(printerQ)[2] = Len(printed[t]) + 1
          /\ InTurn(Tail(printerQ), t, Len(printed[t]) + 1, Released(t))
      BY <1>5, <1>7, <2>1, <2>2, HeadIsNext
    <3>2. AtPrinter(t)' /\ Taken(t)' = Len(printed[t]) + 1
      BY <1>1, <1>7, <2>2 DEF AtPrinter, Taken
    <3>3. QED
      BY <1>1, <1>4, <1>7, <3>1, <3>2 DEF PrinterInv
  <2>3. CASE Head(printerQ)[1] # t
    <3>1. InTurn(Tail(printerQ), t, Len(printed[t]), Released(t))
      BY <1>5, <1>7, <2>1, <2>3, HeadIsOther
    <3>2. ~AtPrinter(t)' /\ Taken(t)' = Len(printed[t])
      BY <1>1, <1>7, <2>3 DEF AtPrinter, Taken
    <3>3. QED
      BY <1>1, <1>4, <1>7, <3>1, <3>2 DEF PrinterInv
  <2>4. QED
    BY <2>2, <2>3
<1>8. QED
  BY <1>1, <1>6, <1>7

\* The patch the printer puts on the printing queue is the next one of its type.
LEMMA PrinterPutKeepsInv ==
  ASSUME TypeOK, PatchingInv, PrinterPut
  PROVE  PatchingInv'
<1>1. PICK s \in Types, k \in Nat \ {0} : s = printer.got[1] /\ k = printer.got[2]
  <2>1. printer.got \in Items
    BY DEF PrinterPut, TypeOK
  <2>2. QED
    BY <2>1 DEF Items
<1>2. /\ printer.at = "enqueue" /\ printer' = [at |-> "top", got |-> Nothing]
      /\ printed' = [printed EXCEPT ![s] = Append(printed[s], <<s, k>>)]
      /\ UNCHANGED <<sent, patcherQ, patcher, counter, patchId, printerQ>>
  BY <1>1 DEF PrinterPut
<1>3. SUFFICES ASSUME NEW t \in Types PROVE PatcherInv(t)' /\ PrinterInv(t)'
  BY DEF PatchingInv
<1>4. /\ PatcherInv(t) /\ PrinterInv(t) /\ ~AtPrinter(t)'
      /\ InHand(t)' = InHand(t) /\ Sending(t)' = Sending(t)
  BY <1>2 DEF PatchingInv, InHand, Sending, AtPrinter
<1>5. PatcherInv(t)' /\ Released(t)' = Released(t)
  BY <1>2, <1>4, PatcherFrame
<1>6. Taken(t)' = Taken(t)
  <2>1. CASE s = t
    <3>1. AtPrinter(t)
      BY <1>1, <1>2, <2>1 DEF AtPrinter
    <3>2. Len(printed'[t]) = Len(printed[t]) + 1
      <4>1. printed[t] \in Seq(Types \X (Nat \ {0})) /\ <<t, k>> \in Types \X (Nat \ {0})
        BY DEF TypeOK
      <4>2. printed'[t] = Append(printed[t], <<t, k>>)
        BY <1>2, <2>1 DEF TypeOK
      <4>3. QED
        BY <4>1, <4>2, AppendFacts
    <3>3. QED
      BY <1>4, <3>1, <3>2 DEF Taken
  <2>2. CASE s # t
    <3>1. ~AtPrinter(t) /\ printed'[t] = printed[t]
      BY <1>1, <1>2, <2>2 DEF AtPrinter, TypeOK
    <3>2. QED
      BY <1>4, <3>1 DEF Taken
  <2>3. QED
    BY <2>1, <2>2
<1>7. PrinterInv(t)'
  BY <1>2, <1>4, <1>5, <1>6 DEF PrinterInv
<1>8. QED
  BY <1>5, <1>7

\* Other steps change neither the queues nor what is in a hand.
LEMMA OthersKeepInv ==
  ASSUME TypeOK, PatchingInv,
         \/ PatcherTop \/ PrinterTop \/ PrinterPrint
         \/ StorageChanges \/ GuiReads \/ OthersTell \/ WindowCloses \/ UNCHANGED vars
  PROVE  PatchingInv'
<1>1. /\ UNCHANGED <<sent, patcherQ, counter, patchId, printerQ, printed>>
      /\ patcher'.got = patcher.got /\ printer'.got = printer.got
      /\ \/ patcher'.at = patcher.at
         \/ {patcher.at, patcher'.at} \subseteq {"top", "spin", "receive"}
      /\ \/ printer'.at = printer.at
         \/ {printer.at, printer'.at} \subseteq {"top", "spin", "receive"}
         \/ {printer.at, printer'.at} \subseteq {"print", "ready", "enqueue"}
  <2>1. CASE PatcherTop
    BY <2>1 DEF PatcherTop, PassesTop, TypeOK
  <2>2. CASE PrinterTop
    BY <2>2 DEF PrinterTop, PassesTop, TypeOK
  <2>3. CASE PrinterPrint
    BY <2>3 DEF PrinterPrint, TypeOK
  <2>4. CASE StorageChanges \/ GuiReads \/ OthersTell \/ WindowCloses \/ UNCHANGED vars
    BY <2>4 DEF StorageChanges, GuiReads, OthersTell, WindowCloses, vars
  <2>5. QED
    BY <2>1, <2>2, <2>3, <2>4
<1>2. ASSUME NEW t \in Types
      PROVE  InHand(t)' = InHand(t) /\ Sending(t)' = Sending(t) /\ AtPrinter(t)' = AtPrinter(t)
  BY <1>1 DEF InHand, Sending, AtPrinter
<1>3. QED
  BY <1>1, <1>2, PatcherFrame, PrinterFrame DEF PatchingInv

-----------------------------------------------------------------------------
(* The theorems                                                            *)

IndInv == TypeOK /\ PatchingInv

LEMMA InitIndInv == Init => IndInv
<1> SUFFICES ASSUME Init PROVE IndInv
  OBVIOUS
<1>1. TypeOK
  BY InitTypeOK
<1>2. ASSUME NEW t \in Types PROVE PatcherInv(t) /\ PrinterInv(t)
  <2>1. /\ sent[t] = 0 /\ patcherQ = <<>> /\ counter[t] = 0 /\ patchId[t] = 0
        /\ printerQ = <<>> /\ printed[t] = <<>> /\ Len(printed[t]) = 0
        /\ patcher.at = "top" /\ printer.at = "top"
    BY DEF Init
  <2>2. ~InHand(t) /\ ~Sending(t) /\ ~AtPrinter(t)
    BY <2>1 DEF InHand, Sending, AtPrinter
  <2>3. Received(t) = 0 /\ Released(t) = 0 /\ Taken(t) = 0
    <3>1. 0 * PatchSize = 0 /\ ~(0 \in 1..PatchSize - 2)
      BY SizeAssumption
    <3>2. QED
      BY <2>1, <2>2, <3>1 DEF Received, Collected, Released, Taken
  <2>4. InTurn(<<>>, t, 0, 0)
    BY EmptyInTurn
  <2>5. 1..0 = {}
    OBVIOUS
  <2>6. QED
    BY <2>1, <2>2, <2>3, <2>4, <2>5 DEF PatcherInv, PrinterInv
<1>3. QED
  BY <1>1, <1>2 DEF IndInv, PatchingInv

LEMMA NextIndInv == IndInv /\ [Next]_vars => IndInv'
<1> SUFFICES ASSUME TypeOK, PatchingInv, [Next]_vars PROVE TypeOK' /\ PatchingInv'
  BY DEF IndInv
<1>1. ASSUME NEW t \in Types, ProductArrives(t) PROVE TypeOK' /\ PatchingInv'
  BY <1>1, ProductArrivesTypeOK, ArrivalKeepsInv
<1>2. CASE PatcherTop
  <2>1. TypeOK'
    BY <1>2 DEF PatcherTop, PassesTop, TypeOK, guiVars
  <2>2. QED
    BY <1>2, <2>1, OthersKeepInv
<1>3. CASE PatcherReceive
  <2>1. TypeOK'
    BY <1>3, ReceiveFacts DEF PatcherReceive, TypeOK, guiVars
  <2>2. QED
    BY <1>3, <2>1, ReceiveKeepsInv
<1>4. CASE PatcherCollect
  BY <1>4, PatcherCollectTypeOK, CollectKeepsInv
<1>5. CASE PatcherSend
  <2>1. patcher.at \in {"send", "told"} => patchId[patcher.got[1]] > 0
    <3>1. SUFFICES ASSUME patcher.at \in {"send", "told"} PROVE patchId[patcher.got[1]] > 0
      OBVIOUS
    <3>2. PICK t \in Types : t = patcher.got[1]
      BY <3>1 DEF TypeOK, Items
    <3>3. Sending(t) /\ PatcherInv(t)
      BY <3>1, <3>2 DEF PatchingInv, Sending
    <3>4. QED
      BY <3>2, <3>3, SizeAssumption DEF PatcherInv
  <2>2. QED
    BY <1>5, <2>1, PatcherSendTypeOK, SendKeepsInv
<1>6. CASE PrinterTop
  <2>1. TypeOK'
    BY <1>6 DEF PrinterTop, PassesTop, TypeOK, guiVars
  <2>2. QED
    BY <1>6, <2>1, OthersKeepInv
<1>7. CASE PrinterReceive
  <2>1. TypeOK'
    <3>1. CASE printerQ = <<>>
      BY <1>7, <3>1 DEF PrinterReceive, TypeOK, guiVars
    <3>2. CASE printerQ # <<>>
      <4>1. /\ Head(printerQ) \in Items /\ Tail(printerQ) \in Seq(Items)
            /\ Len(Tail(printerQ)) <= QueueCap
        <5>1. printerQ \in Seq(Items) /\ Len(printerQ) <= QueueCap
          BY DEF TypeOK
        <5>2. QED
          BY <3>2, <5>1, ReceiveFacts
      <4>2. printerQ' = Tail(printerQ) /\ printer' = [at |-> "print", got |-> Head(printerQ)]
        BY <1>7, <3>2 DEF PrinterReceive
      <4>3. /\ printer' \in [at : {"top", "spin", "receive", "print", "ready", "enqueue"},
                             got : Items \cup {Nothing}]
            /\ printer'.got \in Items
            /\ printerQ' \in Seq(Items) /\ Len(printerQ') <= QueueCap
        BY <4>1, <4>2
      <4>4. QED
        BY <1>7, <4>3 DEF PrinterReceive, TypeOK, guiVars
    <3>3. QED
      BY <3>1, <3>2
  <2>2. QED
    BY <1>7, <2>1, PrinterReceiveKeepsInv
<1>8. CASE PrinterPrint
  BY <1>8, PrinterPrintTypeOK, OthersKeepInv
<1>9. CASE PrinterPut
  BY <1>9, PrinterPutTypeOK, PrinterPutKeepsInv
<1>10. CASE StorageChanges \/ WindowCloses \/ UNCHANGED vars
  <2>1. TypeOK'
    BY <1>10 DEF StorageChanges, WindowCloses, TypeOK, vars, guiVars
  <2>2. QED
    BY <1>10, <2>1, OthersKeepInv
<1>11. CASE GuiReads \/ OthersTell
  <2>1. unread' \in 0..UiCap
    BY <1>11, SizeAssumption DEF GuiReads, OthersTell, TypeOK
  <2>2. TypeOK'
    BY <1>11, <2>1 DEF GuiReads, OthersTell, TypeOK
  <2>3. QED
    BY <1>11, <2>2, OthersKeepInv
<1>12. QED
  BY <1>1, <1>2, <1>3, <1>4, <1>5, <1>6, <1>7, <1>8, <1>9, <1>10, <1>11
     DEF Next, PatcherStep, PrinterStep

LEMMA IndInvHolds == Spec => []IndInv
BY InitIndInv, NextIndInv, PTL DEF Spec

\* No step of patcher, printer or GUI ever takes a variable out of its type: no
\* index is outside of an array, no queue is over its capacity, and what a thread
\* sends is a product or a patch that exists.
THEOREM TypeCorrect == Spec => []TypeOK
<1>1. IndInv => TypeOK
  BY DEF IndInv
<1>2. QED
  BY <1>1, IndInvHolds, PTL

\* At the start nothing has come in and nothing has gone out.
LEMMA InitRefines == Init => Patches!Init
BY DEF Init, Patches!Init

\* The printer puts the next patch of its type on the printing queue, and its
\* products were sent.
LEMMA PrinterPutRefines ==
  ASSUME TypeOK, PatchingInv, PrinterPut
  PROVE  \E t \in Types : Patches!GoesOut(t)
<1>1. PICK t \in Types, k \in Nat \ {0} : t = printer.got[1] /\ k = printer.got[2]
  <2>1. printer.got \in Items
    BY DEF PrinterPut, TypeOK
  <2>2. QED
    BY <2>1 DEF Items
<1>2. /\ printer.at = "enqueue" /\ UNCHANGED sent
      /\ printed' = [printed EXCEPT ![t] = Append(printed[t], <<t, k>>)]
  BY <1>1 DEF PrinterPut
<1>3. AtPrinter(t) /\ PatcherInv(t) /\ PrinterInv(t)
  BY <1>1, <1>2 DEF AtPrinter, PatchingInv
<1>4. /\ k = Len(printed[t]) + 1 /\ Taken(t) = k
      /\ Taken(t) <= Released(t) /\ Released(t) \in Nat
  BY <1>1, <1>3 DEF PrinterInv, Taken, InTurn
<1>5. k \in 1..Released(t)
  BY <1>4
<1>6. SentForPatch(k) <= sent[t] /\ sent[t] \in Nat
  BY <1>3, <1>5 DEF PatcherInv, TypeOK
<1>7. SentForPatch(k) \in Int
  <2>1. k \in Int /\ PatchSize \in Int
    BY SizeAssumption
  <2>2. k * PatchSize \in Int
    BY <2>1
  <2>3. QED
    BY <2>2 DEF SentForPatch
<1>8. sent[t] >= SentForPatch(k)
  BY <1>6, <1>7
<1>9. QED
  BY <1>2, <1>4, <1>8 DEF Patches!GoesOut, Patch

\* Every step makes a step of Batches, or none that it sees.
LEMMA NextRefines == IndInv /\ [Next]_vars => [Patches!Next]_<<sent, printed>>
<1> SUFFICES ASSUME TypeOK, PatchingInv, [Next]_vars
             PROVE  Patches!Next \/ UNCHANGED <<sent, printed>>
  BY DEF IndInv
<1>1. ASSUME NEW t \in Types, ProductArrives(t) PROVE Patches!Next
  BY <1>1 DEF ProductArrives, Patches!Next, Patches!ComesIn
<1>2. CASE PrinterPut
  BY <1>2, PrinterPutRefines DEF Patches!Next
<1>3. CASE PatcherStep \/ PrinterTop \/ PrinterReceive \/ PrinterPrint
  BY <1>3 DEF PatcherStep, PatcherTop, PatcherReceive, PatcherCollect, Collect, PatcherSend,
              PrinterTop, PrinterReceive, PrinterPrint
<1>4. CASE StorageChanges \/ GuiReads \/ OthersTell \/ WindowCloses \/ UNCHANGED vars
  BY <1>4 DEF StorageChanges, GuiReads, OthersTell, WindowCloses, vars
<1>5. QED
  BY <1>1, <1>2, <1>3, <1>4 DEF Next, PrinterStep

\* Patching implements Batches, for any numbers of types and products, any size of a
\* patch and any capacities of the queues, whoever else fills the queue of the GUI.
THEOREM PatchingImplementsBatches == Spec => PatchesInTurn
BY InitRefines, NextRefines, IndInvHolds, PTL DEF Spec, PatchesInTurn, Patches!Spec

-----------------------------------------------------------------------------
(* What the GUI is told                                                    *)
(*                                                                         *)
(* The story of a patch, told by two threads, and the products it lists.   *)

-----------------------------------------------------------------------------
(* Arithmetic                                                              *)

\* Every product number is in the interval of one patch.
LEMMA PatchOfProduct ==
  ASSUME NEW n \in Nat, NEW p \in Nat, p > 0
  PROVE  \E k \in Nat \ {0} : (k - 1) * p <= n /\ n <= k * p - 1
<1>1. PICK q \in Nat : q = n \div p
  OBVIOUS
<1>2. n % p \in 0..p - 1
  OBVIOUS
<1>3. n = p * (n \div p) + (n % p)
  OBVIOUS
<1>4. q * p <= n /\ n < q * p + p
  BY <1>1, <1>2, <1>3
<1>5. (q + 1) * p = q * p + p /\ q * p \in Int
  OBVIOUS
<1>6. (q + 1) - 1 = q /\ q + 1 \in Nat \ {0}
  OBVIOUS
<1>7. n <= (q + 1) * p - 1
  BY <1>4, <1>5
<1>8. QED
  BY <1>4, <1>6, <1>7

\* Of two patches, the one that begins before the other ends is not later.
LEMMA IntervalOrder ==
  ASSUME NEW j \in Nat, NEW k \in Nat, NEW p \in Nat, p > 0, NEW n \in Nat,
         (j - 1) * p <= n, n < k * p
  PROVE  j <= k
<1>1. j - 1 \in Int
  OBVIOUS
<1>2. PICK i \in Int : i = j - 1
  BY <1>1
<1>3. i * p <= n /\ n < k * p
  BY <1>2
<1>4. i < k
  BY <1>3
<1>5. QED
  BY <1>2, <1>4

-----------------------------------------------------------------------------
(* The story of the patches                                                *)

\* The ranks are the numbers from 1 to 4.
LEMMA RankFacts ==
  /\ \A w \in Whats : Rank(w) \in 1..4
  /\ \A w \in Whats : Rank(w) = 2 => w = "moved"
  /\ Rank("created") = 1 /\ Rank("moved") = 2 /\ Rank("printing") = 3 /\ Rank("printed") = 4
BY DEF Whats, Rank

\* In messages q, what has rank r was told of the patches 1 to N[r], in this order,
\* and of each patch in the order of the ranks.
Story(q, N) ==
  /\ \A i \in DOMAIN q : q[i].patch \in 1..N[Rank(q[i].what)]
  /\ \A r \in 1..4 : \A p \in 1..N[r] :
       \E i \in DOMAIN q : q[i].patch = p /\ Rank(q[i].what) = r
  /\ \A i, j \in DOMAIN q :
       i < j /\ Rank(q[i].what) = Rank(q[j].what) => q[i].patch < q[j].patch
  /\ \A i, j \in DOMAIN q :
       i < j /\ q[i].patch = q[j].patch => Rank(q[i].what) < Rank(q[j].what)
  /\ \A i \in DOMAIN q : Rank(q[i].what) > 1 =>
       \E k \in 1..i - 1 : q[k].patch = q[i].patch /\ Rank(q[k].what) = Rank(q[i].what) - 1

LEMMA LaterRanks ==
  \A c, d \in 1..4 : d > c =>
    \/ c = 1 /\ (d = 2 \/ d = 3 \/ d = 4)
    \/ c = 2 /\ (d = 3 \/ d = 4)
    \/ c = 3 /\ d = 4
OBVIOUS

\* The next message of a rank, about a patch that was told of with the rank before.
LEMMA StoryGoesOn ==
  ASSUME NEW q \in Seq(Messages), NEW m \in Messages, NEW r \in 1..4, Rank(m.what) = r,
         NEW N \in [1..4 -> Nat], NEW M,
         M[r] = N[r] + 1, \A s \in 1..4 : s # r => M[s] = N[s],
         \A s \in 1..4 : s > r => N[s] <= N[r],
         r > 1 => N[r] < N[r - 1],
         Story(q, N), m.patch = N[r] + 1
  PROVE  Story(Append(q, m), M)
<1> DEFINE a == Append(q, m)
<1>1. /\ DOMAIN a = 1..(Len(q) + 1) /\ DOMAIN q = 1..Len(q) /\ Len(q) \in Nat
      /\ a[Len(q) + 1] = m /\ \A i \in 1..Len(q) : a[i] = q[i]
  BY AppendFacts
<1> HIDE DEF a
<1>2. PICK l \in Nat : l = Len(q)
  BY <1>1
<1>3. /\ DOMAIN a = 1..(l + 1) /\ DOMAIN q = 1..l
      /\ a[l + 1] = m /\ \A i \in 1..l : a[i] = q[i]
  BY <1>1, <1>2
<1>4. \A i \in 1..l : q[i] \in Messages
  BY <1>2
<1>5. \A i \in 1..l : Rank(q[i].what) \in 1..4 /\ q[i].patch \in Nat \ {0}
  BY <1>4, RankFacts DEF Messages
<1>6. /\ \A i \in 1..l : q[i].patch \in 1..N[Rank(q[i].what)]
      /\ \A s \in 1..4 : \A p \in 1..N[s] :
           \E i \in 1..l : q[i].patch = p /\ Rank(q[i].what) = s
      /\ \A i, j \in 1..l :
           i < j /\ Rank(q[i].what) = Rank(q[j].what) => q[i].patch < q[j].patch
      /\ \A i, j \in 1..l :
           i < j /\ q[i].patch = q[j].patch => Rank(q[i].what) < Rank(q[j].what)
      /\ \A i \in 1..l : Rank(q[i].what) > 1 =>
           \E k \in 1..i - 1 : q[k].patch = q[i].patch /\ Rank(q[k].what) = Rank(q[i].what) - 1
  <2>1. DOMAIN q = 1..l
    BY <1>3
  <2>2. \A i \in 1..l : q[i].patch \in 1..N[Rank(q[i].what)]
    BY <2>1 DEF Story
  <2>3. \A s \in 1..4 : \A p \in 1..N[s] :
          \E i \in 1..l : q[i].patch = p /\ Rank(q[i].what) = s
    <3>1. SUFFICES ASSUME NEW s \in 1..4, NEW p \in 1..N[s]
                   PROVE  \E i \in 1..l : q[i].patch = p /\ Rank(q[i].what) = s
      OBVIOUS
    <3>2. PICK i \in DOMAIN q : q[i].patch = p /\ Rank(q[i].what) = s
      BY DEF Story
    <3>3. QED
      BY <2>1, <3>2
  <2>4. /\ \A i, j \in 1..l :
             i < j /\ Rank(q[i].what) = Rank(q[j].what) => q[i].patch < q[j].patch
        /\ \A i, j \in 1..l :
             i < j /\ q[i].patch = q[j].patch => Rank(q[i].what) < Rank(q[j].what)
    BY <2>1 DEF Story
  <2>5. \A i \in 1..l : Rank(q[i].what) > 1 =>
          \E k \in 1..i - 1 : q[k].patch = q[i].patch /\ Rank(q[k].what) = Rank(q[i].what) - 1
    BY <2>1 DEF Story
  <2>6. QED
    BY <2>2, <2>3, <2>4, <2>5
<1>7. \A s \in 1..4 : N[s] \in Nat /\ M[s] \in Nat /\ N[s] <= M[s]
  <2>1. \A s \in 1..4 : N[s] \in Nat
    OBVIOUS
  <2>2. \A s \in 1..4 : M[s] = N[s] \/ M[s] = N[s] + 1
    OBVIOUS
  <2>3. \A x \in Nat : \A y : y = x \/ y = x + 1 => y \in Nat /\ x <= y
    OBVIOUS
  <2>4. QED
    BY ONLY <2>1, <2>2, <2>3
<1>8. ASSUME NEW i \in DOMAIN a PROVE a[i].patch \in 1..M[Rank(a[i].what)]
  <2>1. CASE i = l + 1
    <3>1. PICK x \in Nat : x = N[r]
      BY <1>7
    <3>2. m.patch = x + 1 /\ M[r] = x + 1 /\ x + 1 \in 1..x + 1
      BY <3>1
    <3>3. a[i] = m
      BY <1>3, <2>1
    <3>4. QED
      BY <3>2, <3>3
  <2>2. CASE i # l + 1
    <3>1. i \in 1..l /\ a[i] = q[i]
      BY <1>3, <2>2
    <3>2. PICK s \in 1..4 : s = Rank(q[i].what)
      BY <1>5, <3>1
    <3>3. q[i].patch \in 1..N[s]
      BY <1>6, <3>1, <3>2
    <3>4. q[i].patch \in 1..M[s]
      <4>1. N[s] \in Nat /\ M[s] \in Nat /\ N[s] <= M[s]
        BY <1>7
      <4>2. PICK x \in Nat : x = q[i].patch
        BY <1>5, <3>1
      <4>3. x \in 1..N[s]
        BY <3>3, <4>2
      <4>4. x \in 1..M[s]
        BY <4>1, <4>3
      <4>5. QED
        BY <4>2, <4>4
    <3>5. QED
      BY <3>1, <3>2, <3>4
  <2>3. QED
    BY <2>1, <2>2
<1>9. ASSUME NEW s \in 1..4, NEW p \in 1..M[s]
      PROVE  \E i \in DOMAIN a : a[i].patch = p /\ Rank(a[i].what) = s
  <2>1. CASE p \in 1..N[s]
    <3>1. PICK i \in 1..l : q[i].patch = p /\ Rank(q[i].what) = s
      BY <1>6, <2>1
    <3>2. i \in DOMAIN a /\ a[i] = q[i]
      BY <1>3
    <3>3. QED
      BY <3>1, <3>2
  <2>2. CASE p \notin 1..N[s]
    <3>1. s = r /\ p = N[r] + 1
      <4>1. PICK x \in Nat : x = N[s]
        BY <1>7
      <4>2. s = r
        BY <2>2
      <4>3. M[s] = x + 1
        BY <4>1, <4>2
      <4>4. p \in 1..x + 1 /\ p \notin 1..x
        BY <2>2, <4>1, <4>3
      <4>5. p = x + 1
        BY <4>4
      <4>6. QED
        BY <4>1, <4>2, <4>5
    <3>2. l + 1 \in DOMAIN a /\ a[l + 1] = m
      BY <1>3
    <3>3. QED
      BY <3>1, <3>2
  <2>3. QED
    BY <2>1, <2>2
<1>10. ASSUME NEW i \in DOMAIN a, NEW j \in DOMAIN a, i < j
       PROVE  /\ Rank(a[i].what) = Rank(a[j].what) => a[i].patch < a[j].patch
              /\ a[i].patch = a[j].patch => Rank(a[i].what) < Rank(a[j].what)
  <2>1. i \in 1..l /\ a[i] = q[i] /\ i \in Nat /\ j \in 1..(l + 1)
    BY <1>3, <1>10
  <2>2. CASE j = l + 1
    <3>1. a[j] = m
      BY <1>3, <2>2
    <3>2. PICK s \in 1..4 : s = Rank(q[i].what)
      BY <1>5, <2>1
    <3>3. q[i].patch \in 1..N[s]
      BY <1>6, <2>1, <3>2
    <3>4. s = r => q[i].patch < m.patch
      <4>1. PICK x \in Nat, y \in Nat : x = q[i].patch /\ y = N[s]
        BY <1>5, <1>7, <2>1
      <4>2. x <= y
        BY <3>3, <4>1
      <4>3. s = r => m.patch = y + 1
        BY <4>1
      <4>4. x < y + 1
        BY <4>2
      <4>5. QED
        BY <4>1, <4>3, <4>4
    <3>5. q[i].patch = m.patch => s < r
      <4>1. PICK x \in Nat, y \in Nat, z \in Nat : x = q[i].patch /\ y = N[s] /\ z = N[r]
        BY <1>5, <1>7, <2>1
      <4>2. x <= y /\ m.patch = z + 1
        BY <3>3, <4>1
      <4>3. s >= r => y <= z
        <5>1. s > r => y <= z
          BY <4>1
        <5>2. s = r => y <= z
          BY <4>1
        <5>3. QED
          BY <5>1, <5>2
      <4>4. s >= r => x # z + 1
        BY <4>2, <4>3
      <4>5. QED
        BY <4>1, <4>2, <4>4
    <3>6. QED
      BY <2>1, <3>1, <3>2, <3>4, <3>5
  <2>3. CASE j # l + 1
    <3>1. j \in 1..l /\ a[j] = q[j]
      BY <1>3, <2>1, <2>3
    <3>2. QED
      BY <1>6, <1>10, <2>1, <3>1
  <2>4. QED
    BY <2>2, <2>3
<1>11. ASSUME NEW i \in DOMAIN a, Rank(a[i].what) > 1
       PROVE  \E k \in 1..i - 1 : /\ a[k].patch = a[i].patch
                                  /\ Rank(a[k].what) = Rank(a[i].what) - 1
  <2>1. CASE i = l + 1
    <3>1. a[i] = m /\ r > 1
      BY <1>3, <1>11, <2>1
    <3>2. PICK s \in 1..4 : s = r - 1
      BY <3>1
    <3>3. m.patch \in 1..N[s]
      <4>1. PICK x \in Nat, y \in Nat : x = N[r] /\ y = N[s]
        BY <1>7
      <4>2. m.patch = x + 1 /\ x < y
        BY <3>1, <3>2, <4>1
      <4>3. x + 1 \in 1..y
        <5>1. \A c, d \in Nat : c < d => c + 1 \in 1..d
          OBVIOUS
        <5>2. QED
          BY <4>1, <4>2, <5>1, Zenon
      <4>4. QED
        BY <4>1, <4>2, <4>3
    <3>4. PICK k \in 1..l : q[k].patch = m.patch /\ Rank(q[k].what) = s
      BY <1>6, <3>3
    <3>5. k \in 1..i - 1 /\ a[k] = q[k]
      <4>1. i - 1 = l
        BY <2>1
      <4>2. a[k] = q[k]
        BY <1>3
      <4>3. QED
        BY <4>1, <4>2
    <3>6. QED
      BY <3>1, <3>2, <3>4, <3>5
  <2>2. CASE i # l + 1
    <3>1. i \in 1..l /\ a[i] = q[i]
      BY <1>3, <2>2
    <3>2. PICK k \in 1..i - 1 : q[k].patch = q[i].patch /\ Rank(q[k].what) = Rank(q[i].what) - 1
      BY <1>6, <1>11, <3>1
    <3>3. a[k] = q[k]
      BY <1>3, <3>1
    <3>4. QED
      BY <3>1, <3>2, <3>3
  <2>3. QED
    BY <2>1, <2>2
<1>12. QED
  BY <1>8, <1>9, <1>10, <1>11 DEF Story, a

\* The last patch whose list was told, the last one whose printing was told to begin,
\* and the last one whose printing was told to have ended.
Listing(t) == patcher.at = "send" /\ patcher.got[1] = t
Listed(t) ==
  IF Listing(t) \/ counter[t] \in 1..PatchSize - 2 THEN patchId[t] - 1 ELSE patchId[t]
Begun(t) ==
  IF AtPrinter(t) /\ printer.at # "print" THEN Len(printed[t]) + 1 ELSE Len(printed[t])
Ended(t) ==
  IF AtPrinter(t) /\ printer.at = "enqueue" THEN Len(printed[t]) + 1 ELSE Len(printed[t])

\* Of how many patches of type t the GUI was told with each rank.
Heard(t) == [r \in 1..4 |->
  IF r = 1 THEN patchId[t] ELSE IF r = 2 THEN Listed(t)
  ELSE IF r = 3 THEN Begun(t) ELSE Ended(t)]

StoryInv == \A t \in Types : Story(ui[t], Heard(t))

\* The printer is behind the patcher, and the patcher tells of a list before it sends.
LEMMA HeardFacts ==
  ASSUME IndInv, NEW t \in Types
  PROVE  /\ patchId[t] \in Nat /\ Listed(t) \in Nat /\ Begun(t) \in Nat /\ Ended(t) \in Nat
         /\ Ended(t) <= Begun(t) /\ Begun(t) <= Taken(t) /\ Taken(t) <= Released(t)
         /\ Released(t) <= Listed(t) /\ Listed(t) <= patchId[t]
         /\ Released(t) \in Nat /\ Taken(t) \in Nat
         /\ Heard(t) \in [1..4 -> Nat]
<1>1. PatcherInv(t) /\ PrinterInv(t)
  BY DEF IndInv, PatchingInv
<1>2. /\ Released(t) \in Nat /\ Taken(t) \in Nat
      /\ patchId[t] \in Nat /\ counter[t] \in 0..PatchSize - 1 /\ Len(printed[t]) \in Nat
  BY <1>1, CountFacts DEF IndInv
<1>3. PatchSize \in Nat /\ PatchSize > 2
  BY SizeAssumption
<1>4. Ended(t) \in Nat /\ Begun(t) \in Nat /\ Ended(t) <= Begun(t) /\ Begun(t) <= Taken(t)
  BY <1>2 DEF Ended, Begun, Taken, AtPrinter
<1>5. Taken(t) <= Released(t)
  BY <1>1 DEF PrinterInv, InTurn
<1>6. Listing(t) => Sending(t)
  BY DEF Listing, Sending
<1>7. Sending(t) => counter[t] = PatchSize - 1
  BY <1>1 DEF PatcherInv
<1>8. counter[t] # 0 => patchId[t] > 0
  BY <1>1 DEF PatcherInv
<1>9. Listed(t) \in Nat /\ Released(t) <= Listed(t) /\ Listed(t) <= patchId[t]
  BY <1>2, <1>3, <1>6, <1>7, <1>8 DEF Listed, Released
<1>10. Heard(t) \in [1..4 -> Nat]
  BY <1>2, <1>4, <1>9 DEF Heard
<1>11. QED
  BY <1>2, <1>4, <1>5, <1>9, <1>10

\* Nothing is told of type t, and none of its numbers changes.
LEMMA StoryFrame ==
  ASSUME NEW t \in Types, Story(ui[t], Heard(t)), ui'[t] = ui[t], patchId'[t] = patchId[t],
         Listed(t)' = Listed(t), Begun(t)' = Begun(t), Ended(t)' = Ended(t)
  PROVE  Story(ui[t], Heard(t))'
<1>1. Heard(t)' = Heard(t)
  BY DEF Heard
<1>2. QED
  BY <1>1 DEF Story

\* A message of rank r about the next patch.
LEMMA StoryStep ==
  ASSUME IndInv, NEW t \in Types, NEW m \in Messages, NEW r \in 1..4,
         Story(ui[t], Heard(t)), ui'[t] = Append(ui[t], m), Rank(m.what) = r,
         m.patch = Heard(t)[r] + 1, Heard(t)'[r] = Heard(t)[r] + 1,
         \A s \in 1..4 : s # r => Heard(t)'[s] = Heard(t)[s],
         r > 1 => Heard(t)[r] < Heard(t)[r - 1]
  PROVE  Story(ui[t], Heard(t))'
<1>1. ui[t] \in Seq(Messages)
  BY DEF IndInv, TypeOK, Messages
<1>2. Heard(t) \in [1..4 -> Nat]
  BY HeardFacts
<1>3. PICK N, M : N = Heard(t) /\ M = Heard(t)'
  OBVIOUS
<1>4. \A s \in 1..4 : s > r => N[s] <= N[r]
  <2>1. /\ N[1] = patchId[t] /\ N[2] = Listed(t) /\ N[3] = Begun(t) /\ N[4] = Ended(t)
    BY <1>3 DEF Heard
  <2>2. N[4] <= N[3] /\ N[3] <= N[2] /\ N[2] <= N[1]
    BY <2>1, HeardFacts
  <2>3. N[1] \in Nat /\ N[2] \in Nat /\ N[3] \in Nat /\ N[4] \in Nat
    BY <1>2, <1>3
  <2>4. SUFFICES ASSUME NEW s \in 1..4, s > r PROVE N[s] <= N[r]
    OBVIOUS
  <2>5. PICK x, y, z, w : x = N[1] /\ y = N[2] /\ z = N[3] /\ w = N[4]
    OBVIOUS
  <2>6. w <= z /\ w <= y /\ w <= x /\ z <= y /\ z <= x /\ y <= x
    BY <2>2, <2>3, <2>5
  <2>7. \/ r = 1 /\ (s = 2 \/ s = 3 \/ s = 4)
        \/ r = 2 /\ (s = 3 \/ s = 4)
        \/ r = 3 /\ s = 4
    BY <2>4, LaterRanks, Zenon
  <2>8. QED
    BY <2>5, <2>6, <2>7
<1>5. Story(Append(ui[t], m), M)
  BY <1>1, <1>2, <1>3, <1>4, StoryGoesOn
<1>6. Story(ui'[t], Heard(t)')
  BY <1>3, <1>5
<1>7. QED
  BY <1>6 DEF Story

\* The patcher collects: the first product of a patch announces it, and the counts of
\* the other ranks stay.
LEMMA CollectKeepsStory ==
  ASSUME IndInv, StoryInv, PatcherCollect
  PROVE  StoryInv'
<1>1. PICK t \in Types : t = patcher.got[1]
  BY DEF IndInv, TypeOK, PatcherCollect, Collect, Items
<1> DEFINE c == NextCount(counter[t])
           m == PatchMsg("created", patchId[t] + 1, PATCHING, 0, {})
<1>2. /\ patcher.at = "collect" /\ counter' = [counter EXCEPT ![t] = c]
      /\ \/ /\ c = 1
            /\ patchId' = [patchId EXCEPT ![t] = patchId[t] + 1] /\ Tell(t, m)
            /\ patcher' = [at |-> "top", got |-> Nothing]
         \/ /\ c = PatchSize - 1 /\ patcher' = [patcher EXCEPT !.at = "send"]
            /\ UNCHANGED <<patchId, guiVars>>
         \/ /\ c \notin {1, PatchSize - 1} /\ patcher' = [at |-> "top", got |-> Nothing]
            /\ UNCHANGED <<patchId, guiVars>>
      /\ UNCHANGED <<printer, printed>>
  BY <1>1 DEF PatcherCollect, Collect
<1>3. PICK n \in Nat, i \in Nat, p \in Nat :
        n = counter[t] /\ i = patchId[t] /\ p = PatchSize /\ n \in 0..p - 1 /\ p > 2
  BY SizeAssumption DEF IndInv, TypeOK
<1>4. (n = p - 1 => c = 0) /\ (n # p - 1 => c = n + 1) /\ counter'[t] = c
  <2>1. (n = p - 1 => c = 0) /\ (n # p - 1 => c = n + 1)
    BY <1>3, NextCountFacts
  <2>2. counter \in [Types -> 0..PatchSize - 1]
    BY DEF IndInv, TypeOK
  <2>3. QED
    BY <1>2, <2>1, <2>2
<1> HIDE DEF c, m
<1>5. SUFFICES ASSUME NEW s \in Types PROVE Story(ui[s], Heard(s))'
  BY DEF StoryInv
<1>6. Story(ui[s], Heard(s)) /\ ~Listing(s)
  BY <1>2 DEF StoryInv, Listing
<1>7. Begun(s)' = Begun(s) /\ Ended(s)' = Ended(s)
  BY <1>2 DEF Begun, Ended, AtPrinter
<1>8. ui \in [Types -> Seq(Messages)] /\ patchId \in [Types -> Nat]
      /\ counter \in [Types -> 0..PatchSize - 1]
  BY DEF IndInv, TypeOK, Messages
<1>9. CASE s # t
  <2>1. ui'[s] = ui[s] /\ patchId'[s] = patchId[s] /\ counter'[s] = counter[s]
    BY <1>2, <1>8, <1>9 DEF Tell, guiVars
  <2>2. ~Listing(s)'
    <3>1. patcher'.at = "top" \/ patcher'.got = patcher.got
      <4>1. patcher \in [at : {"top", "spin", "receive", "collect", "send", "told"},
                         got : Items \cup {Nothing}]
        BY DEF IndInv, TypeOK
      <4>2. QED
        BY <1>2, <4>1
    <3>2. QED
      BY <1>1, <1>9, <3>1 DEF Listing
  <2>3. Listed(s)' = Listed(s)
    BY <1>6, <2>1, <2>2 DEF Listed
  <2>4. QED
    BY <1>6, <1>7, <2>1, <2>3, StoryFrame
<1>10. CASE s = t /\ c = 1
  <2>1. n = 0 /\ c # PatchSize - 1
    BY <1>3, <1>4, <1>10
  <2>2. /\ patchId' = [patchId EXCEPT ![t] = patchId[t] + 1] /\ Tell(t, m)
        /\ patcher' = [at |-> "top", got |-> Nothing]
    BY <1>2, <1>10, <2>1
  <2>3. patchId'[t] = i + 1 /\ ui'[t] = Append(ui[t], m) /\ ~Listing(t)'
    BY <1>3, <1>8, <2>2 DEF Tell, Listing
  <2>4. Listed(t) = i /\ Listed(t)' = i
    <3>1. counter[t] \notin 1..PatchSize - 2 /\ counter'[t] \in 1..PatchSize - 2
      BY <1>3, <1>4, <1>10, <2>1
    <3>2. Listed(t) = i
      BY <1>3, <1>6, <1>10, <3>1 DEF Listed
    <3>3. Listed(t)' = (i + 1) - 1
      BY <2>3, <3>1 DEF Listed
    <3>4. QED
      BY <3>2, <3>3
  <2>5. /\ Heard(t)[1] = i /\ Heard(t)'[1] = i + 1
        /\ \A r \in 1..4 : r # 1 => Heard(t)'[r] = Heard(t)[r]
    BY <1>3, <1>7, <1>10, <2>3, <2>4 DEF Heard
  <2>6. m \in Messages /\ Rank(m.what) = 1 /\ m.patch = i + 1
    <3>1. m = [what |-> "created", patch |-> i + 1, place |-> PATCHING, index |-> 0, items |-> {}]
      BY <1>3 DEF m, PatchMsg
    <3>2. m \in Messages
      BY <3>1 DEF Messages, Whats
    <3>3. QED
      BY <3>1, <3>2, RankFacts
  <2>7. Story(ui[t], Heard(t))'
    <3>1. PICK r \in 1..4 : r = 1
      OBVIOUS
    <3>2. /\ Story(ui[t], Heard(t)) /\ ui'[t] = Append(ui[t], m) /\ m \in Messages
          /\ Rank(m.what) = r /\ m.patch = Heard(t)[r] + 1 /\ Heard(t)'[r] = Heard(t)[r] + 1
          /\ \A x \in 1..4 : x # r => Heard(t)'[x] = Heard(t)[x]
          /\ ~(r > 1)
      BY <1>6, <1>10, <2>3, <2>5, <2>6, <3>1
    <3>3. QED
      BY <3>2, StoryStep
  <2>8. QED
    BY <1>10, <2>7
<1>11. CASE s = t /\ c # 1
  <2>1. /\ UNCHANGED <<patchId, guiVars>> /\ n # 0
        /\ \/ c = PatchSize - 1 /\ patcher' = [patcher EXCEPT !.at = "send"]
           \/ c # PatchSize - 1 /\ patcher' = [at |-> "top", got |-> Nothing]
    BY <1>2, <1>3, <1>4, <1>11
  <2>2. Listing(t)' <=> c = PatchSize - 1
    <3>1. /\ patcher \in [at : {"top", "spin", "receive", "collect", "send", "told"},
                          got : Items \cup {Nothing}]
      BY DEF IndInv, TypeOK
    <3>2. \/ c = PatchSize - 1 /\ patcher'.at = "send" /\ patcher'.got = patcher.got
          \/ c # PatchSize - 1 /\ patcher'.at = "top"
      BY <2>1, <3>1
    <3>3. QED
      BY <1>1, <3>2 DEF Listing
  <2>3. counter[t] \in 1..PatchSize - 2 <=> n # p - 1
    BY <1>3, <2>1
  <2>4. (counter'[t] \in 1..PatchSize - 2 \/ c = PatchSize - 1) <=> n # p - 1
    BY <1>3, <1>4, <2>1
  <2>5. Listed(t)' = Listed(t)
    BY <1>6, <1>11, <2>1, <2>2, <2>3, <2>4 DEF Listed
  <2>6. ui' = ui
    BY <2>1 DEF guiVars
  <2>7. QED
    BY <1>6, <1>7, <1>11, <2>1, <2>5, <2>6, StoryFrame
<1>12. QED
  BY <1>9, <1>10, <1>11

\* The patcher tells of the list of its patch, or sends it.
LEMMA SendKeepsStory ==
  ASSUME IndInv, StoryInv, PatcherSend
  PROVE  StoryInv'
<1>1. PICK t \in Types : t = patcher.got[1]
  <2>1. patcher.got \in Items
    BY DEF IndInv, TypeOK, PatcherSend
  <2>2. QED
    BY <2>1 DEF Items
<1> DEFINE m == PatchMsg("moved", patchId[t], PATCHING, 3, Contents(t))
<1>2. /\ \/ /\ patcher.at = "send" /\ Tell(t, m) /\ patcher' = [patcher EXCEPT !.at = "told"]
         \/ /\ patcher.at = "told" /\ patcher' = [at |-> "top", got |-> Nothing]
            /\ UNCHANGED guiVars
      /\ UNCHANGED <<counter, patchId, printer, printed>>
  BY <1>1 DEF PatcherSend
<1>3. SUFFICES ASSUME NEW s \in Types PROVE Story(ui[s], Heard(s))'
  BY DEF StoryInv
<1>4. Story(ui[s], Heard(s)) /\ Begun(s)' = Begun(s) /\ Ended(s)' = Ended(s)
  BY <1>2 DEF StoryInv, Begun, Ended, AtPrinter
<1>5. ~Listing(s)'
  <2>1. patcher \in [at : {"top", "spin", "receive", "collect", "send", "told"},
                     got : Items \cup {Nothing}]
    BY DEF IndInv, TypeOK
  <2>2. patcher'.at # "send"
    BY <1>2, <2>1
  <2>3. QED
    BY <2>2 DEF Listing
<1>6. ui \in [Types -> Seq(Messages)] /\ Contents(t) \in SUBSET ((0..PatchSize - 1) \X Nat)
  <2>1. \A i \in 0..PatchSize - 1 : arr[t][i] \in Nat
    BY DEF IndInv, TypeOK
  <2>2. \A i \in 0..PatchSize - 1 : <<i, arr[t][i]>> \in (0..PatchSize - 1) \X Nat
    BY <2>1
  <2>3. Contents(t) \in SUBSET ((0..PatchSize - 1) \X Nat)
    BY <2>2 DEF Contents
  <2>4. QED
    BY <2>3 DEF IndInv, TypeOK, Messages
<1>7. CASE ~Listing(s)
  <2>1. ui'[s] = ui[s]
    BY <1>1, <1>2, <1>6, <1>7 DEF Tell, Listing, guiVars
  <2>2. Listed(s)' = Listed(s) /\ patchId'[s] = patchId[s]
    BY <1>2, <1>5, <1>7 DEF Listed
  <2>3. QED
    BY <1>4, <2>1, <2>2, StoryFrame
<1>8. CASE Listing(s)
  <2>1. s = t /\ patcher.at = "send" /\ Sending(t)
    BY <1>1, <1>8 DEF Listing, Sending
  <2>2. ui'[t] = Append(ui[t], m)
    BY <1>2, <1>6, <2>1 DEF Tell
  <2>3. counter[t] = PatchSize - 1 /\ PatcherInv(t)
    BY <2>1 DEF IndInv, PatchingInv, PatcherInv
  <2>4. PICK i \in Nat : i = patchId[t]
    BY DEF IndInv, TypeOK
  <2>5. i > 0 /\ counter[t] \notin 1..PatchSize - 2
    BY <2>3, <2>4, SizeAssumption DEF PatcherInv
  <2>6. Listed(t) = i - 1 /\ Listed(t)' = i
    BY <1>2, <1>5, <1>8, <2>1, <2>4, <2>5 DEF Listed
  <2>7. Story(ui[t], Heard(t))'
    <3> HIDE DEF m
    <3>1. PICK r \in 1..4 : r = 2
      OBVIOUS
    <3>2. m = [what |-> "moved", patch |-> i, place |-> PATCHING, index |-> 3,
               items |-> Contents(t)]
      BY <2>4 DEF m, PatchMsg
    <3>3. m \in Messages
      BY <1>6, <2>5, <3>2 DEF Messages, Whats
    <3>4. Rank(m.what) = r /\ m.patch = i
      BY <3>1, <3>2, RankFacts
    <3>5. /\ Heard(t)[r] = i - 1 /\ Heard(t)'[r] = i /\ Heard(t)[r - 1] = i
          /\ \A x \in 1..4 : x # r => Heard(t)'[x] = Heard(t)[x]
      BY <1>2, <1>4, <2>1, <2>4, <2>6, <3>1 DEF Heard
    <3>6. i = (i - 1) + 1 /\ i - 1 < i
      OBVIOUS
    <3>7. QED
      BY <1>4, <2>1, <2>2, <3>3, <3>4, <3>5, <3>6, StoryStep
  <2>8. QED
    BY <2>1, <2>7
<1>9. QED
  BY <1>7, <1>8

\* The printer tells that it begins with its patch, and that it has ended.
LEMMA PrintKeepsStory ==
  ASSUME IndInv, StoryInv, PrinterPrint
  PROVE  StoryInv'
<1>1. PICK t \in Types, k \in Nat \ {0}, x \in Nat : printer.got = <<t, k, x>>
  <2>1. printer.got \in Items
    BY DEF IndInv, TypeOK, PrinterPrint
  <2>2. QED
    BY <2>1 DEF Items
<1>2. PICK m \in Messages, r \in {3, 4}, next \in {"ready", "enqueue"} :
        /\ Rank(m.what) = r /\ m.patch = k
        /\ Tell(t, m) /\ printer' = [printer EXCEPT !.at = next]
        /\ \/ r = 3 /\ printer.at = "print" /\ next = "ready"
           \/ r = 4 /\ printer.at = "ready" /\ next = "enqueue"
  <2>1. ASSUME NEW w \in {"printing", "printed"}, NEW i \in Nat
        PROVE  /\ PatchMsg(w, k, PRINTER, i, {}) \in Messages
               /\ PatchMsg(w, k, PRINTER, i, {}).patch = k
               /\ PatchMsg(w, k, PRINTER, i, {}).what = w
    BY DEF PatchMsg, Messages, Whats
  <2>2. CASE printer.at = "print"
    <3>1. /\ Tell(t, PatchMsg("printing", k, PRINTER, x, {}))
          /\ printer' = [printer EXCEPT !.at = "ready"]
      BY <1>1, <2>2 DEF PrinterPrint
    <3>2. PICK m \in Messages : /\ m.patch = k /\ m.what = "printing" /\ Tell(t, m)
      BY <2>1, <3>1
    <3>3. Rank(m.what) = 3
      BY <3>2, RankFacts
    <3>4. QED
      BY <2>2, <3>1, <3>2, <3>3
  <2>3. CASE printer.at = "ready"
    <3>1. /\ Tell(t, PatchMsg("printed", k, PRINTER, 3, {}))
          /\ printer' = [printer EXCEPT !.at = "enqueue"]
      BY <1>1, <2>3 DEF PrinterPrint
    <3>2. PICK m \in Messages : /\ m.patch = k /\ m.what = "printed" /\ Tell(t, m)
      BY <2>1, <3>1
    <3>3. Rank(m.what) = 4
      BY <3>2, RankFacts
    <3>4. QED
      BY <2>3, <3>1, <3>2, <3>3
  <2>4. QED
    BY <2>2, <2>3 DEF PrinterPrint
<1>3. UNCHANGED <<patcher, counter, patchId, printed>>
  BY DEF PrinterPrint
<1>4. /\ printer'.at = next /\ printer'.got = printer.got
  BY <1>2 DEF IndInv, TypeOK
<1>5. SUFFICES ASSUME NEW s \in Types PROVE Story(ui[s], Heard(s))'
  BY DEF StoryInv
<1>6. Story(ui[s], Heard(s)) /\ Listed(s)' = Listed(s)
  BY <1>3 DEF StoryInv, Listed, Listing
<1>7. ui \in [Types -> Seq(Messages)]
  BY DEF IndInv, TypeOK, Messages
<1>8. CASE s # t
  <2>1. ui'[s] = ui[s]
    BY <1>2, <1>7, <1>8 DEF Tell
  <2>2. ~AtPrinter(s) /\ ~AtPrinter(s)'
    BY <1>1, <1>4, <1>8 DEF AtPrinter
  <2>3. Begun(s)' = Begun(s) /\ Ended(s)' = Ended(s)
    BY <1>3, <2>2 DEF Begun, Ended
  <2>4. QED
    BY <1>3, <1>6, <2>1, <2>3, StoryFrame
<1>9. CASE s = t
  <2>1. AtPrinter(t) /\ AtPrinter(t)'
    BY <1>1, <1>2, <1>4 DEF AtPrinter
  <2>2. PICK n \in Nat : n = Len(printed[t])
    BY DEF IndInv, TypeOK
  <2>3. k = n + 1
    BY <1>1, <2>1, <2>2 DEF IndInv, PatchingInv, PrinterInv
  <2>4. /\ Begun(t) = (IF r = 3 THEN n ELSE n + 1) /\ Begun(t)' = n + 1
        /\ Ended(t) = n /\ Ended(t)' = (IF r = 3 THEN n ELSE n + 1)
    BY <1>2, <1>3, <1>4, <2>1, <2>2 DEF Begun, Ended
  <2>5. n < Listed(t)
    <3>1. Taken(t) = n + 1
      BY <2>1, <2>2 DEF Taken
    <3>2. QED
      BY <3>1, HeardFacts
  <2>6. /\ Heard(t)[r] = n /\ Heard(t)'[r] = n + 1 /\ n < Heard(t)[r - 1]
        /\ \A y \in 1..4 : y # r => Heard(t)'[y] = Heard(t)[y]
    <3>1. /\ Heard(t)[1] = patchId[t] /\ Heard(t)[2] = Listed(t)
          /\ Heard(t)[3] = Begun(t) /\ Heard(t)[4] = Ended(t)
      BY DEF Heard
    <3>2. /\ Heard(t)'[1] = patchId[t] /\ Heard(t)'[2] = Listed(t)
          /\ Heard(t)'[3] = Begun(t)' /\ Heard(t)'[4] = Ended(t)'
      BY <1>3, <1>6, <1>9 DEF Heard
    <3>3. CASE r = 3
      BY <2>4, <2>5, <3>1, <3>2, <3>3
    <3>4. CASE r = 4
      BY <2>4, <3>1, <3>2, <3>4
    <3>5. QED
      BY <3>3, <3>4
  <2>7. ui'[t] = Append(ui[t], m)
    BY <1>2, <1>7 DEF Tell
  <2>8. /\ r \in 1..4 /\ Rank(m.what) = r /\ m.patch = Heard(t)[r] + 1
        /\ Heard(t)'[r] = Heard(t)[r] + 1 /\ Heard(t)[r] < Heard(t)[r - 1]
    BY <1>2, <2>3, <2>6
  <2>9. Story(ui[t], Heard(t))'
    BY <1>6, <1>9, <2>6, <2>7, <2>8, StoryStep
  <2>10. QED
    BY <1>9, <2>9
<1>10. QED
  BY <1>8, <1>9

\* The patch goes on the printing queue: what was told stays the same.
LEMMA PutKeepsStory ==
  ASSUME IndInv, StoryInv, PrinterPut
  PROVE  StoryInv'
<1>1. PICK t \in Types, k \in Nat \ {0}, x \in Nat : printer.got = <<t, k, x>>
  <2>1. printer.got \in Items
    BY DEF IndInv, TypeOK, PrinterPut
  <2>2. QED
    BY <2>1 DEF Items
<1>2. /\ printer.at = "enqueue" /\ printer' = [at |-> "top", got |-> Nothing]
      /\ printed' = [printed EXCEPT ![t] = Append(printed[t], <<t, k>>)]
      /\ UNCHANGED <<patcher, counter, patchId, guiVars>>
  BY <1>1 DEF PrinterPut
<1>3. SUFFICES ASSUME NEW s \in Types PROVE Story(ui[s], Heard(s))'
  BY DEF StoryInv
<1>4. Story(ui[s], Heard(s)) /\ Listed(s)' = Listed(s) /\ ~AtPrinter(s)'
  BY <1>2 DEF StoryInv, Listed, Listing, AtPrinter
<1>5. AtPrinter(s) <=> s = t
  BY <1>1, <1>2 DEF AtPrinter
<1>6. Len(printed'[s]) = IF s = t THEN Len(printed[s]) + 1 ELSE Len(printed[s])
  <2>1. printed \in [Types -> Seq(Types \X (Nat \ {0}))] /\ <<t, k>> \in Types \X (Nat \ {0})
    BY DEF IndInv, TypeOK
  <2>2. Len(Append(printed[t], <<t, k>>)) = Len(printed[t]) + 1
    BY <2>1, AppendFacts
  <2>3. QED
    BY <1>2, <2>1, <2>2
<1>7. Begun(s)' = Begun(s) /\ Ended(s)' = Ended(s)
  BY <1>2, <1>4, <1>5, <1>6 DEF Begun, Ended
<1>8. QED
  BY <1>2, <1>4, <1>7, StoryFrame DEF guiVars

\* Other steps tell the GUI nothing about a patch.
LEMMA OthersKeepStory ==
  ASSUME IndInv, StoryInv,
         \/ \E t \in Types : ProductArrives(t)
         \/ PatcherTop \/ PatcherReceive \/ PrinterTop \/ PrinterReceive
         \/ StorageChanges \/ GuiReads \/ OthersTell \/ WindowCloses \/ UNCHANGED vars
  PROVE  StoryInv'
<1>1. /\ UNCHANGED <<ui, counter, patchId, printed>>
      /\ \/ patcher' = patcher \/ {patcher.at, patcher'.at} \cap {"send"} = {}
      /\ \/ printer' = printer \/ {printer.at, printer'.at} \cap {"ready", "enqueue"} = {}
  <2>1. patcher'.at # "send" \/ patcher' = patcher
    BY DEF IndInv, TypeOK, ProductArrives, PatcherTop, PatcherReceive, PassesTop, PrinterTop,
           PrinterReceive, StorageChanges, GuiReads, OthersTell, WindowCloses, vars, guiVars
  <2>2. patcher.at # "send" \/ patcher' = patcher
    BY DEF ProductArrives, PatcherTop, PatcherReceive, PassesTop, PrinterTop,
           PrinterReceive, StorageChanges, GuiReads, OthersTell, WindowCloses, vars, guiVars
  <2>3. printer'.at \notin {"ready", "enqueue"} \/ printer' = printer
    BY DEF IndInv, TypeOK, ProductArrives, PatcherTop, PatcherReceive, PassesTop, PrinterTop,
           PrinterReceive, StorageChanges, GuiReads, OthersTell, WindowCloses, vars, guiVars
  <2>4. printer.at \notin {"ready", "enqueue"} \/ printer' = printer
    BY DEF ProductArrives, PatcherTop, PatcherReceive, PassesTop, PrinterTop,
           PrinterReceive, StorageChanges, GuiReads, OthersTell, WindowCloses, vars, guiVars
  <2>5. UNCHANGED <<ui, counter, patchId, printed>>
    BY DEF ProductArrives, PatcherTop, PatcherReceive, PrinterTop, PrinterReceive,
           StorageChanges, GuiReads, OthersTell, WindowCloses, vars, guiVars
  <2>6. QED
    BY <2>1, <2>2, <2>3, <2>4, <2>5
<1>2. SUFFICES ASSUME NEW s \in Types PROVE Story(ui[s], Heard(s))'
  BY DEF StoryInv
<1>3. Listing(s)' <=> Listing(s)
  BY <1>1 DEF Listing
<1>4. Listed(s)' = Listed(s)
  BY <1>1, <1>3 DEF Listed
<1>5. Begun(s)' = Begun(s) /\ Ended(s)' = Ended(s)
  BY <1>1 DEF Begun, Ended, AtPrinter
<1>6. Story(ui[s], Heard(s))
  BY DEF StoryInv
<1>7. QED
  BY <1>1, <1>4, <1>5, <1>6, StoryFrame

LEMMA InitStory == Init => StoryInv
<1> SUFFICES ASSUME Init, NEW t \in Types PROVE Story(ui[t], Heard(t))
  BY DEF StoryInv
<1>1. /\ ui[t] = <<>> /\ patchId[t] = 0 /\ counter[t] = 0 /\ Len(printed[t]) = 0
      /\ patcher.at = "top" /\ printer.at = "top"
  BY DEF Init
<1>2. Listed(t) = 0 /\ Begun(t) = 0 /\ Ended(t) = 0
  BY <1>1 DEF Listed, Begun, Ended, AtPrinter, Listing
<1>3. \A r \in 1..4 : Heard(t)[r] = 0
  BY <1>1, <1>2 DEF Heard
<1>4. DOMAIN ui[t] = {}
  BY <1>1
<1>5. QED
  BY <1>3, <1>4 DEF Story

\* Every step keeps the story.
LEMMA NextStory == IndInv /\ StoryInv /\ [Next]_vars => StoryInv'
<1> SUFFICES ASSUME IndInv, StoryInv, [Next]_vars PROVE StoryInv'
  OBVIOUS
<1>1. CASE PatcherCollect
  BY <1>1, CollectKeepsStory
<1>2. CASE PatcherSend
  BY <1>2, SendKeepsStory
<1>3. CASE PrinterPrint
  BY <1>3, PrintKeepsStory
<1>4. CASE PrinterPut
  BY <1>4, PutKeepsStory
<1>5. QED
  BY <1>1, <1>2, <1>3, <1>4, OthersKeepStory DEF Next, PatcherStep, PrinterStep

LEMMA StoryHolds == Spec => [](IndInv /\ StoryInv)
BY InitIndInv, NextIndInv, InitStory, NextStory, PTL DEF Spec

\* Patcher and printer tell the story of each patch in its order, each part once.
THEOREM StoryInOrder == Spec => []PatchStory
<1>1. StoryInv => PatchStory
  BY DEF StoryInv, Story, PatchStory
<1>2. QED
  BY <1>1, StoryHolds, PTL

-----------------------------------------------------------------------------
(* What the GUI shows                                                      *)

\* f has what is shown of patch p after each of the messages q.
Follows(f, q, p) ==
  f = [i \in 0..Len(q) |->
        IF i = 0 THEN Absent
        ELSE IF q[i].patch = p THEN Handle(f[i - 1], q[i]) ELSE f[i - 1]]

\* What holds of the only way to follow the messages holds of the screen.
LEMMA ScreenIs ==
  ASSUME NEW t \in Types, NEW p, NEW S,
         \E f : Follows(f, ui[t], p),
         \A f : Follows(f, ui[t], p) => f[Len(ui[t])] \in S
  PROVE  Screen(t, p) \in S
<1>1. Screen(t, p) = (CHOOSE f : Follows(f, ui[t], p))[Len(ui[t])]
  BY DEF Screen, Follows
<1>2. Follows((CHOOSE f : Follows(f, ui[t], p)), ui[t], p)
  BY Zenon
<1>3. QED
  BY <1>1, <1>2, Zenon

\* The place and the index that the patcher and the printer name.
Placed(m) ==
  /\ m.what = "created" => m.place = PATCHING /\ m.index = 0
  /\ m.what = "moved" => m.place = PATCHING /\ m.index = 3
  /\ m.what = "printing" => m.place = PRINTER
  /\ m.what = "printed" => m.place = PRINTER /\ m.index = 3

\* A patch is shown when it was told of, and where it left the printer after that.
Shows(x, q, p) ==
  /\ x = Absent \/ x \in [place : {PATCHING, PRINTER}, index : Nat]
  /\ (\E i \in DOMAIN q : q[i].patch = p) => x # Absent
  /\ (\E i \in DOMAIN q : q[i].patch = p /\ q[i].what = "printed")
       => x = [place |-> PRINTER, index |-> 3]

\* The next message about a patch is shown as it calls for.
LEMMA HandleShows ==
  ASSUME NEW m \in Messages, Placed(m), NEW x, NEW q, NEW r, Shows(x, q, m.patch),
         m.what # "created" => x # Absent,
         \A i \in DOMAIN q : q[i].patch = m.patch => q[i].what # "printed",
         \A i \in DOMAIN r : r[i].patch = m.patch =>
           \/ i \in DOMAIN q /\ q[i] = r[i]
           \/ r[i] = m
  PROVE  Shows(Handle(x, m), r, m.patch)
<1>1. m.what \in Whats /\ m.place \in {PATCHING, PRINTER} /\ m.index \in Nat
  BY DEF Messages
<1>2. PATCHING = 1 /\ PRINTER = 2 /\ Absent = [place |-> 0, index |-> 0]
  BY DEF PATCHING, PRINTER, Absent
<1>3. PICK y : y = Handle(x, m)
  OBVIOUS
<1>4. y = [place |-> m.place, index |-> m.index] \/ (y = x /\ x # Absent)
  BY <1>3 DEF Handle
<1>5. y \in [place : {PATCHING, PRINTER}, index : Nat]
  BY <1>1, <1>4 DEF Shows
<1>6. y # Absent
  BY <1>2, <1>5
<1>7. m.what = "printed" => y = [place |-> PRINTER, index |-> 3]
  <2>1. SUFFICES ASSUME m.what = "printed" PROVE y = [place |-> PRINTER, index |-> 3]
    OBVIOUS
  <2>2. m.place = PRINTER /\ m.index = 3
    BY <2>1 DEF Placed
  <2>3. x # Absent /\ x.place \in {1, 2}
    BY <1>2, <2>1 DEF Shows
  <2>4. QED
    BY <1>2, <1>3, <2>2, <2>3 DEF Handle
<1>8. \A i \in DOMAIN r : r[i].patch = m.patch /\ r[i].what = "printed" => m.what = "printed"
  OBVIOUS
<1>9. QED
  BY <1>3, <1>5, <1>6, <1>7, <1>8 DEF Shows

\* One message more is followed by one step more.
LEMMA FollowsOn ==
  ASSUME NEW q \in Seq(Messages), NEW m \in Messages, NEW p
  PROVE  /\ \A f : Follows(f, q, p) => \E g : Follows(g, Append(q, m), p)
         /\ \A g : Follows(g, Append(q, m), p) =>
              \E f : /\ Follows(f, q, p)
                     /\ g[Len(q) + 1] = IF m.patch = p THEN Handle(f[Len(q)], m) ELSE f[Len(q)]
<1> DEFINE a == Append(q, m)
<1>1. /\ Len(a) = Len(q) + 1 /\ Len(q) \in Nat
      /\ a[Len(q) + 1] = m /\ \A i \in 1..Len(q) : a[i] = q[i]
  BY AppendFacts
<1> HIDE DEF a
<1>2. PICK l \in Nat : l = Len(q)
  BY <1>1
<1>3. /\ Len(a) = l + 1 /\ a[l + 1] = m /\ \A i \in 1..l : a[i] = q[i]
  BY <1>1, <1>2
<1>4. ASSUME NEW f, Follows(f, q, p) PROVE \E g : Follows(g, a, p)
  <2> DEFINE last == IF m.patch = p THEN Handle(f[l], m) ELSE f[l]
             g == [i \in 0..(l + 1) |-> IF i = l + 1 THEN last ELSE f[i]]
             h == [i \in 0..(l + 1) |->
                    IF i = 0 THEN Absent
                    ELSE IF a[i].patch = p THEN Handle(g[i - 1], a[i]) ELSE g[i - 1]]
  <2>1. \A i \in 0..l : f[i] = IF i = 0 THEN Absent
                              ELSE IF q[i].patch = p THEN Handle(f[i - 1], q[i]) ELSE f[i - 1]
    BY <1>2, <1>4 DEF Follows
  <2>2. ASSUME NEW i \in 0..(l + 1) PROVE g[i] = h[i]
    <3>1. CASE i = l + 1
      <4>1. a[i] = m /\ i # 0 /\ i - 1 = l /\ l \in 0..(l + 1) /\ l # l + 1
        BY <1>3, <3>1
      <4>2. g[i - 1] = f[l]
        BY <4>1
      <4>3. QED
        BY <3>1, <4>1, <4>2
    <3>2. CASE i = 0
      <4>1. 0 \in 0..l /\ i # l + 1
        BY <3>2
      <4>2. QED
        BY <2>1, <3>2, <4>1
    <3>3. CASE i # 0 /\ i # l + 1
      <4>1. i \in 1..l /\ i - 1 \in 0..(l + 1) /\ i - 1 # l + 1 /\ i \in 0..l
        BY <3>3
      <4>2. a[i] = q[i] /\ g[i - 1] = f[i - 1] /\ g[i] = f[i]
        BY <1>3, <3>3, <4>1
      <4>3. QED
        BY <2>1, <3>3, <4>1, <4>2
    <3>4. QED
      BY <3>1, <3>2, <3>3
  <2>3. g = h
    BY <2>2
  <2>4. Follows(g, a, p)
    <3> HIDE DEF g
    <3>1. QED
      BY <1>3, <2>3 DEF Follows
  <2>5. QED
    BY <2>4
<1>5. ASSUME NEW g, Follows(g, a, p)
      PROVE  \E f : /\ Follows(f, q, p)
                    /\ g[l + 1] = IF m.patch = p THEN Handle(f[l], m) ELSE f[l]
  <2>1. \A i \in 0..(l + 1) : g[i] = IF i = 0 THEN Absent
                              ELSE IF a[i].patch = p THEN Handle(g[i - 1], a[i]) ELSE g[i - 1]
    BY <1>3, <1>5 DEF Follows
  <2> DEFINE f == [i \in 0..l |-> g[i]]
             h == [i \in 0..l |->
                    IF i = 0 THEN Absent
                    ELSE IF q[i].patch = p THEN Handle(f[i - 1], q[i]) ELSE f[i - 1]]
  <2>2. ASSUME NEW i \in 0..l PROVE f[i] = h[i]
    <3>1. i \in 0..(l + 1) /\ f[i] = g[i]
      OBVIOUS
    <3>2. CASE i = 0
      BY <2>1, <3>1, <3>2
    <3>3. CASE i # 0
      <4>1. i \in 1..l /\ i - 1 \in 0..l
        BY <3>3
      <4>2. a[i] = q[i] /\ f[i - 1] = g[i - 1]
        BY <1>3, <4>1
      <4>3. QED
        BY <2>1, <3>1, <3>3, <4>2
    <3>4. QED
      BY <3>2, <3>3
  <2>3. f = h
    BY <2>2
  <2>4. f[l] = g[l]
    OBVIOUS
  <2>5. g[l + 1] = IF m.patch = p THEN Handle(g[l], m) ELSE g[l]
    <3>1. l + 1 \in 0..(l + 1) /\ l + 1 # 0 /\ (l + 1) - 1 = l
      OBVIOUS
    <3>2. QED
      BY <1>3, <2>1, <3>1
  <2>6. Follows(f, q, p)
    <3> HIDE DEF f
    <3>1. QED
      BY <1>2, <2>3 DEF Follows
  <2> HIDE DEF f
  <2>7. QED
    BY <2>4, <2>5, <2>6
<1>6. QED
  BY <1>2, <1>4, <1>5 DEF a

\* Of each patch the GUI shows what its messages call for, and the patches on the
\* printing queue are numbered.
Shown(t, p) ==
  /\ \E f : Follows(f, ui[t], p)
  /\ \A f : Follows(f, ui[t], p) => Shows(f[Len(ui[t])], ui[t], p)
Numbered(t) == \A i \in DOMAIN printed[t] : printed[t][i][2] = i
ScreenInv == \A t \in Types : Numbered(t) /\ \A p \in Nat \ {0} : Shown(t, p)

\* Each message says where the patch is.
LEMMA TellsPlaced ==
  ASSUME IndInv, [Next]_vars, NEW t \in Types
  PROVE  \/ ui'[t] = ui[t]
         \/ \E m \in Messages : Placed(m) /\ ui'[t] = Append(ui[t], m)
<1>1. ui \in [Types -> Seq(Messages)]
  BY DEF IndInv, TypeOK, Messages
<1>2. ASSUME NEW s \in Types, NEW m \in Messages, Placed(m), Tell(s, m)
      PROVE  \/ ui'[t] = ui[t]
             \/ \E x \in Messages : Placed(x) /\ ui'[t] = Append(ui[t], x)
  <2>1. IF s = t THEN ui'[t] = Append(ui[t], m) ELSE ui'[t] = ui[t]
    BY <1>1, <1>2 DEF Tell
  <2>2. QED
    BY <1>2, <2>1
<1>3. CASE PatcherCollect
  <2>1. PICK s \in Types : s = patcher.got[1]
    BY <1>3 DEF IndInv, TypeOK, PatcherCollect, Collect, Items
  <2>2. CASE UNCHANGED guiVars
    BY <2>2 DEF guiVars
  <2>3. CASE Tell(s, PatchMsg("created", patchId[s] + 1, PATCHING, 0, {}))
    <3>1. PICK i \in Nat : i = patchId[s]
      BY DEF IndInv, TypeOK
    <3>2. PICK m : m = PatchMsg("created", i + 1, PATCHING, 0, {})
      OBVIOUS
    <3>3. m \in Messages /\ Placed(m)
      BY <3>2 DEF PatchMsg, Messages, Whats, Placed
    <3>4. QED
      BY <1>2, <2>3, <3>1, <3>2, <3>3
  <2>4. QED
    BY <1>3, <2>1, <2>2, <2>3 DEF PatcherCollect, Collect
<1>4. CASE PatcherSend
  <2>1. PICK s \in Types : s = patcher.got[1]
    <3>1. patcher.got \in Items
      BY <1>4 DEF IndInv, TypeOK, PatcherSend
    <3>2. QED
      BY <3>1 DEF Items
  <2>2. CASE UNCHANGED guiVars
    BY <2>2 DEF guiVars
  <2>3. CASE /\ patcher.at = "send"
             /\ Tell(s, PatchMsg("moved", patchId[s], PATCHING, 3, Contents(s)))
    <3>1. patchId[s] \in Nat \ {0}
      <4>1. PatcherInv(s) /\ Sending(s)
        BY <2>1, <2>3 DEF IndInv, PatchingInv, Sending
      <4>2. counter[s] = PatchSize - 1 /\ PatchSize > 2 /\ PatchSize \in Nat
        BY <4>1, SizeAssumption DEF PatcherInv
      <4>3. patchId[s] \in Nat
        BY DEF IndInv, TypeOK
      <4>4. QED
        BY <4>1, <4>2, <4>3 DEF PatcherInv
    <3>2. Contents(s) \in SUBSET ((0..PatchSize - 1) \X Nat)
      <4>1. \A i \in 0..PatchSize - 1 : arr[s][i] \in Nat
        BY DEF IndInv, TypeOK
      <4>2. \A i \in 0..PatchSize - 1 : <<i, arr[s][i]>> \in (0..PatchSize - 1) \X Nat
        BY <4>1
      <4>3. QED
        BY <4>2 DEF Contents
    <3>3. PICK m : m = PatchMsg("moved", patchId[s], PATCHING, 3, Contents(s))
      OBVIOUS
    <3>4. m \in Messages /\ Placed(m)
      BY <3>1, <3>2, <3>3 DEF PatchMsg, Messages, Whats, Placed
    <3>5. QED
      BY <1>2, <2>3, <3>3, <3>4
  <2>4. QED
    BY <1>4, <2>1, <2>2, <2>3 DEF PatcherSend
<1>5. CASE PrinterPrint
  <2>1. PICK s \in Types, k \in Nat \ {0}, x \in Nat : printer.got = <<s, k, x>>
    <3>1. printer.got \in Items
      BY <1>5 DEF IndInv, TypeOK, PrinterPrint
    <3>2. QED
      BY <3>1 DEF Items
  <2>2. CASE Tell(s, PatchMsg("printing", k, PRINTER, x, {}))
    <3>1. PICK m : m = PatchMsg("printing", k, PRINTER, x, {})
      OBVIOUS
    <3>2. m \in Messages /\ Placed(m)
      BY <3>1 DEF PatchMsg, Messages, Whats, Placed
    <3>3. QED
      BY <1>2, <2>2, <3>1, <3>2
  <2>3. CASE Tell(s, PatchMsg("printed", k, PRINTER, 3, {}))
    <3>1. PICK m : m = PatchMsg("printed", k, PRINTER, 3, {})
      OBVIOUS
    <3>2. m \in Messages /\ Placed(m)
      BY <3>1 DEF PatchMsg, Messages, Whats, Placed
    <3>3. QED
      BY <1>2, <2>3, <3>1, <3>2
  <2>4. QED
    BY <1>5, <2>1, <2>2, <2>3 DEF PrinterPrint
<1>6. CASE ui' = ui
  BY <1>6
<1>7. ui' = ui \/ PatcherCollect \/ PatcherSend \/ PrinterPrint
  BY DEF Next, PatcherStep, PrinterStep, ProductArrives, PatcherTop, PatcherReceive, PrinterTop,
         PrinterReceive, PrinterPut, StorageChanges, GuiReads, OthersTell, WindowCloses,
         vars, guiVars
<1>8. QED
  BY <1>3, <1>4, <1>5, <1>6, <1>7

\* What PatchStory says of messages a.
Told(a) ==
  \A i, j \in DOMAIN a :
    /\ i < j /\ a[i].patch = a[j].patch => Rank(a[i].what) < Rank(a[j].what)
    /\ Rank(a[i].what) > 1 => \E k \in 1..i - 1 : a[k].patch = a[i].patch

\* A message about a patch starts its story or goes on with one that is not over.
GoesOn(q, m) ==
  /\ m.what = "created" => \A i \in DOMAIN q : q[i].patch # m.patch
  /\ m.what # "created" => \E i \in DOMAIN q : q[i].patch = m.patch
  /\ \A i \in DOMAIN q : q[i].patch = m.patch => q[i].what # "printed"

\* Of the message that comes last: there are earlier ones about its patch unless it
\* announces the patch.
LEMMA LastOfStory ==
  ASSUME NEW q \in Seq(Messages), NEW m \in Messages, NEW a, a = Append(q, m), Told(a)
  PROVE  GoesOn(q, m)
<1>1. /\ DOMAIN a = 1..(Len(q) + 1) /\ DOMAIN q = 1..Len(q) /\ Len(q) \in Nat
      /\ a[Len(q) + 1] = m /\ \A i \in 1..Len(q) : a[i] = q[i]
  BY AppendFacts
<1>2. PICK l \in Nat : l = Len(q)
  BY <1>1
<1>3. /\ DOMAIN a = 1..(l + 1) /\ DOMAIN q = 1..l
      /\ a[l + 1] = m /\ \A i \in 1..l : a[i] = q[i]
  BY <1>1, <1>2
<1>4. m.what \in Whats /\ Rank("created") = 1
  BY RankFacts DEF Messages
<1>5. ASSUME NEW i \in 1..l, q[i].patch = m.patch
      PROVE  m.what # "created" /\ q[i].what # "printed"
  <2>1. i \in DOMAIN a /\ l + 1 \in DOMAIN a /\ i < l + 1 /\ a[i] = q[i]
    BY <1>3
  <2>2. Rank(q[i].what) < Rank(m.what)
    BY <1>3, <1>5, <2>1 DEF Told
  <2>3. q[i].what \in Whats
    <3>1. q[i] \in Messages
      BY <1>2
    <3>2. QED
      BY <3>1 DEF Messages
  <2>4. Rank(q[i].what) \in 1..4 /\ Rank(m.what) \in 1..4
    BY <1>4, <2>3, RankFacts
  <2>5. m.what # "created"
    BY <1>4, <2>2, <2>4
  <2>6. ASSUME q[i].what = "printed" PROVE FALSE
    <3>1. Rank(q[i].what) = 4
      BY <2>6 DEF Rank
    <3>2. QED
      BY <2>2, <2>4, <3>1
  <2>7. QED
    BY <2>5, <2>6
<1>6. ASSUME m.what # "created" PROVE \E i \in 1..l : q[i].patch = m.patch
  <2>1. Rank(m.what) > 1
    BY <1>4, <1>6 DEF Whats, Rank
  <2>2. l + 1 \in DOMAIN a /\ (l + 1) - 1 = l
    BY <1>3
  <2>3. PICK k \in 1..l : a[k].patch = m.patch
    BY <1>3, <2>1, <2>2 DEF Told
  <2>4. QED
    BY <1>3, <2>3
<1>7. QED
  BY <1>3, <1>5, <1>6 DEF GoesOn

\* Whatever is told, what is shown of a patch is what its messages call for.
LEMMA ShownStep ==
  ASSUME NEW t \in Types, NEW p \in Nat \ {0}, Shown(t, p), ui[t] \in Seq(Messages),
         PatchStory', NEW m \in Messages, Placed(m), ui'[t] = Append(ui[t], m)
  PROVE  Shown(t, p)'
<1>1. PICK q \in Seq(Messages) : q = ui[t]
  OBVIOUS
<1>2. PICK a : a = Append(q, m)
  OBVIOUS
<1>3. ui'[t] = a /\ Len(a) = Len(q) + 1
  BY <1>1, <1>2, AppendFacts
<1>4. PICK l \in Nat : l = Len(q)
  OBVIOUS
<1>5. /\ DOMAIN a = 1..(l + 1) /\ DOMAIN q = 1..l
      /\ a[l + 1] = m /\ \A i \in 1..l : a[i] = q[i]
  BY <1>2, <1>4, AppendFacts
<1>6. /\ m.what = "created" => \A i \in DOMAIN q : q[i].patch # m.patch
      /\ m.what # "created" => \E i \in DOMAIN q : q[i].patch = m.patch
      /\ \A i \in DOMAIN q : q[i].patch = m.patch => q[i].what # "printed"
  <2>1. Told(a)
    BY <1>3 DEF PatchStory, Told
  <2>2. GoesOn(q, m)
    BY <1>2, <2>1, LastOfStory
  <2>3. QED
    BY <2>2 DEF GoesOn
<1>7. \E f : Follows(f, a, p)
  BY <1>1, <1>2, FollowsOn DEF Shown
<1>8. ASSUME NEW g, Follows(g, a, p) PROVE Shows(g[l + 1], a, p)
  <2>1. PICK f : /\ Follows(f, q, p)
                 /\ g[l + 1] = IF m.patch = p THEN Handle(f[l], m) ELSE f[l]
    BY <1>2, <1>4, <1>8, FollowsOn
  <2>2. Shows(f[l], q, p)
    BY <1>1, <1>4, <2>1 DEF Shown
  <2>3. \A i \in DOMAIN a : (i \in DOMAIN q /\ q[i] = a[i]) \/ a[i] = m
    BY <1>5
  <2>4. CASE m.patch = p
    <3>1. PICK x : x = f[l]
      OBVIOUS
    <3>2. m.what # "created" => x # Absent
      BY <1>6, <2>2, <2>4, <3>1 DEF Shows
    <3>3. Shows(Handle(x, m), a, m.patch)
      <4>1. Shows(x, q, m.patch)
        BY <2>2, <2>4, <3>1
      <4>2. \A i \in DOMAIN q : q[i].patch = m.patch => q[i].what # "printed"
        BY <1>6
      <4>3. \A i \in DOMAIN a : a[i].patch = m.patch =>
              \/ i \in DOMAIN q /\ q[i] = a[i]
              \/ a[i] = m
        BY <2>3
      <4>4. QED
        BY <3>2, <4>1, <4>2, <4>3, HandleShows
    <3>4. QED
      BY <2>1, <2>4, <3>1, <3>3
  <2>5. CASE m.patch # p
    <3>1. g[l + 1] = f[l]
      BY <2>1, <2>5
    <3>2. \A i \in DOMAIN a : a[i].patch = p => i \in DOMAIN q /\ q[i] = a[i]
      BY <2>3, <2>5
    <3>3. QED
      BY <2>2, <3>1, <3>2 DEF Shows
  <2>6. QED
    BY <2>4, <2>5
<1>9. Len(ui'[t]) = l + 1
  BY <1>3, <1>4
<1>10. QED
  BY <1>3, <1>7, <1>8, <1>9 DEF Shown

\* At the start there is nothing to show.
LEMMA InitScreen == Init => ScreenInv
<1> SUFFICES ASSUME Init, NEW t \in Types, NEW p \in Nat \ {0} PROVE Numbered(t) /\ Shown(t, p)
  BY DEF ScreenInv
<1>1. ui[t] = <<>> /\ Len(ui[t]) = 0 /\ DOMAIN ui[t] = {} /\ DOMAIN printed[t] = {}
  BY DEF Init
<1>2. ASSUME NEW f, Follows(f, ui[t], p) PROVE f[0] = Absent
  <2>1. 0 \in 0..Len(ui[t])
    BY <1>1
  <2>2. QED
    BY <1>2, <2>1 DEF Follows
<1>3. \E f : Follows(f, ui[t], p)
  <2> DEFINE f == [i \in 0..0 |-> Absent]
             h == [i \in 0..0 |->
                    IF i = 0 THEN Absent
                    ELSE IF ui[t][i].patch = p THEN Handle(f[i - 1], ui[t][i]) ELSE f[i - 1]]
  <2>1. f = h
    <3>1. \A i \in 0..0 : f[i] = h[i]
      OBVIOUS
    <3>2. QED
      BY <3>1
  <2> HIDE DEF f
  <2>2. Follows(f, ui[t], p)
    BY <1>1, <2>1 DEF Follows
  <2>3. QED
    BY <2>2
<1>4. Shown(t, p)
  BY <1>1, <1>2, <1>3 DEF Shown, Shows
<1>5. QED
  BY <1>1, <1>4 DEF Numbered

\* The printer puts its patches on the printing queue in turn.
LEMMA NumberedStep ==
  ASSUME IndInv, [Next]_vars, NEW t \in Types, Numbered(t)
  PROVE  Numbered(t)'
<1>1. CASE printed' = printed
  BY <1>1 DEF Numbered
<1>2. CASE PrinterPut
  <2>1. PICK s \in Types, k \in Nat \ {0}, x \in Nat : printer.got = <<s, k, x>>
    <3>1. printer.got \in Items
      BY <1>2 DEF IndInv, TypeOK, PrinterPut
    <3>2. QED
      BY <3>1 DEF Items
  <2>2. printed' = [printed EXCEPT ![s] = Append(printed[s], <<s, k>>)]
    BY <1>2, <2>1 DEF PrinterPut
  <2>3. printed \in [Types -> Seq(Types \X (Nat \ {0}))] /\ <<s, k>> \in Types \X (Nat \ {0})
    BY DEF IndInv, TypeOK
  <2>4. CASE s # t
    BY <2>2, <2>3, <2>4 DEF Numbered
  <2>5. CASE s = t
    <3>1. PICK n \in Nat : n = Len(printed[t])
      BY <2>3
    <3>2. k = n + 1
      <4>1. AtPrinter(t) /\ PrinterInv(t)
        BY <1>2, <2>1, <2>5 DEF AtPrinter, PrinterPut, IndInv, PatchingInv
      <4>2. QED
        BY <2>1, <3>1, <4>1 DEF PrinterInv
    <3>3. PICK a : a = printed'[t]
      OBVIOUS
    <3>4. a = Append(printed[t], <<s, k>>)
      BY <2>2, <2>3, <2>5, <3>3
    <3>5. /\ DOMAIN a = 1..(n + 1) /\ DOMAIN printed[t] = 1..n
          /\ a[n + 1] = <<s, k>> /\ \A i \in 1..n : a[i] = printed[t][i]
      BY <2>3, <2>5, <3>1, <3>4, AppendFacts
    <3>6. \A i \in 1..(n + 1) : a[i][2] = i
      <4>1. ASSUME NEW i \in 1..(n + 1) PROVE a[i][2] = i
        <5>1. CASE i = n + 1
          BY <3>2, <3>5, <5>1
        <5>2. CASE i # n + 1
          <6>1. i \in 1..n
            BY <5>2
          <6>2. QED
            BY <3>5, <6>1 DEF Numbered
        <5>3. QED
          BY <5>1, <5>2
      <4>2. QED
        BY <4>1
    <3>7. QED
      BY <3>3, <3>5, <3>6 DEF Numbered
  <2>6. QED
    BY <2>4, <2>5
<1>3. printed' = printed \/ PrinterPut
  BY DEF Next, PatcherStep, PrinterStep, ProductArrives, PatcherTop, PatcherReceive,
         PatcherCollect, Collect, PatcherSend, PrinterTop, PrinterReceive, PrinterPrint,
         StorageChanges, GuiReads, OthersTell, WindowCloses, vars
<1>4. QED
  BY <1>1, <1>2, <1>3

LEMMA NextScreen == IndInv /\ StoryInv /\ ScreenInv /\ [Next]_vars => ScreenInv'
<1> SUFFICES ASSUME IndInv, StoryInv, ScreenInv, [Next]_vars,
                    NEW t \in Types, NEW p \in Nat \ {0}
             PROVE  Numbered(t)' /\ Shown(t, p)'
  BY DEF ScreenInv
<1>1. Numbered(t)'
  BY NumberedStep DEF ScreenInv
<1>2. Shown(t, p) /\ ui[t] \in Seq(Messages)
  BY DEF ScreenInv, IndInv, TypeOK, Messages
<1>3. PatchStory'
  <2>1. StoryInv'
    BY NextStory
  <2>2. QED
    BY <2>1 DEF StoryInv, Story, PatchStory
<1>4. ui'[t] = ui[t] => Shown(t, p)'
  BY <1>2 DEF Shown
<1>5. ASSUME NEW m \in Messages, Placed(m), ui'[t] = Append(ui[t], m) PROVE Shown(t, p)'
  BY <1>2, <1>3, <1>5, ShownStep
<1>6. Shown(t, p)'
  BY <1>4, <1>5, TellsPlaced
<1>7. QED
  BY <1>1, <1>6

\* What is on the printing queue was told to be printed, and is shown at the printer.
LEMMA ScreenIsRight == IndInv /\ StoryInv /\ ScreenInv => PrintedIsShown
<1> SUFFICES ASSUME IndInv, StoryInv, ScreenInv, NEW t \in Types, NEW i \in DOMAIN printed[t]
             PROVE  Screen(t, printed[t][i][2]) = [place |-> PRINTER, index |-> 3]
  BY DEF PrintedIsShown
<1>1. PICK n \in Nat : n = Len(printed[t]) /\ DOMAIN printed[t] = 1..n
  BY DEF IndInv, TypeOK
<1>2. printed[t][i][2] = i /\ i \in 1..n /\ i \in Nat \ {0}
  BY <1>1 DEF ScreenInv, Numbered
<1>3. i \in 1..Heard(t)[4]
  <2>1. Heard(t)[4] = Ended(t)
    BY DEF Heard
  <2>2. Ended(t) = n \/ Ended(t) = n + 1
    BY <1>1 DEF Ended
  <2>3. QED
    BY <1>2, <2>1, <2>2
<1>4. PICK j \in DOMAIN ui[t] : ui[t][j].patch = i /\ Rank(ui[t][j].what) = 4
  BY <1>3 DEF StoryInv, Story
<1>5. ui[t][j].what = "printed"
  <2>1. ui[t] \in Seq(Messages)
    BY DEF IndInv, TypeOK, Messages
  <2>2. ui[t][j].what \in Whats
    <3>1. ui[t][j] \in Messages
      BY <2>1
    <3>2. QED
      BY <3>1 DEF Messages
  <2>3. QED
    BY <1>4, <2>2 DEF Rank, Whats
<1>6. ASSUME NEW f, Follows(f, ui[t], i)
      PROVE  f[Len(ui[t])] \in {[place |-> PRINTER, index |-> 3]}
  <2>1. PICK x : x = f[Len(ui[t])]
    OBVIOUS
  <2>2. Shows(x, ui[t], i)
    BY <1>2, <1>6, <2>1 DEF ScreenInv, Shown
  <2>3. x = [place |-> PRINTER, index |-> 3]
    BY <1>4, <1>5, <2>2 DEF Shows
  <2>4. QED
    BY <2>1, <2>3
<1>7. \E f : Follows(f, ui[t], i)
  BY <1>2 DEF ScreenInv, Shown
<1>8. Screen(t, i) \in {[place |-> PRINTER, index |-> 3]}
  BY <1>6, <1>7, ScreenIs
<1>9. QED
  BY <1>2, <1>8

\* For any numbers of types, products and indices, any sizes of patches and queues: a
\* patch on the printing queue is shown where it left the printer.
THEOREM PrintedShown == Spec => []PrintedIsShown
BY StoryHolds, InitScreen, NextScreen, ScreenIsRight, PTL DEF Spec

-----------------------------------------------------------------------------
(* The lists of the patches                                                *)

\* Products of type t in the patches before the one that is filled.
Base(t) == IF counter[t] = 0 THEN patchId[t] * PatchSize ELSE (patchId[t] - 1) * PatchSize

\* An array that holds c products after the first b, and what they have not overwritten.
Holds(a, b, c) ==
  \A i \in 0..PatchSize - 1 :
    a[i] = IF i < c THEN b + i + 1 ELSE IF b = 0 THEN 0 ELSE b - PatchSize + i + 1

\* A list has the products of its patch, the last one of them replaced by the last one
\* of the patch before.
Whole(m) ==
  \A n \in Nat \ {0} :
    (\E x \in m.items : x[2] = n)
      <=> ((m.patch - 1) * PatchSize <= n /\ n <= m.patch * PatchSize - 1)

HandInv(t) == InHand(t) => patcher.got[2] = Collected(t) + 1
ArrayInv(t) == Holds(arr[t], Base(t), counter[t])
ListsInv(t) == \A k \in Moves(t) : Whole(ui[t][k])
ListInv == \A t \in Types : HandInv(t) /\ ArrayInv(t) /\ ListsInv(t)

\* The next product goes into the array, and the last one of a patch.
LEMMA HoldsNext ==
  ASSUME NEW a \in [0..PatchSize - 1 -> Nat], NEW b \in Nat, NEW c \in 0..PatchSize - 1,
         Holds(a, b, c)
  PROVE  /\ c # PatchSize - 1 => Holds([a EXCEPT ![c] = b + c + 1], b, c + 1)
         /\ c = PatchSize - 1 => Holds([a EXCEPT ![c] = b + c + 1], b + PatchSize, 0)
<1>1. PICK p \in Nat : p = PatchSize /\ p > 2
  BY SizeAssumption
<1>2. PICK d : d = [a EXCEPT ![c] = b + c + 1]
  OBVIOUS
<1>3. d[c] = b + c + 1 /\ \A i \in 0..p - 1 : i # c => d[i] = a[i]
  BY <1>1, <1>2
<1>4. \A i \in 0..p - 1 :
        a[i] = IF i < c THEN b + i + 1 ELSE IF b = 0 THEN 0 ELSE b - p + i + 1
  BY <1>1 DEF Holds
<1>5. CASE c # p - 1
  <2>1. ASSUME NEW i \in 0..p - 1
        PROVE  d[i] = IF i < c + 1 THEN b + i + 1 ELSE IF b = 0 THEN 0 ELSE b - p + i + 1
    <3>1. CASE i = c
      BY <1>3, <3>1
    <3>2. CASE i # c
      <4>1. i < c <=> i < c + 1
        BY <1>1, <3>2
      <4>2. QED
        BY <1>3, <1>4, <3>2, <4>1
    <3>3. QED
      BY <3>1, <3>2
  <2>2. QED
    BY <1>1, <1>2, <1>5, <2>1 DEF Holds
<1>6. CASE c = p - 1
  <2>1. ASSUME NEW i \in 0..p - 1
        PROVE  d[i] = IF i < 0 THEN (b + p) + i + 1
                      ELSE IF b + p = 0 THEN 0 ELSE (b + p) - p + i + 1
    <3>1. ~(i < 0) /\ b + p # 0 /\ (b + p) - p + i + 1 = b + i + 1
      BY <1>1
    <3>2. d[i] = b + i + 1
      <4>1. CASE i = c
        BY <1>3, <4>1
      <4>2. CASE i # c
        <5>1. i < c
          BY <1>1, <1>6, <4>2
        <5>2. QED
          BY <1>3, <1>4, <4>2, <5>1
      <4>3. QED
        BY <4>1, <4>2
    <3>3. QED
      BY <3>1, <3>2
  <2>2. QED
    BY <1>1, <1>2, <1>6, <2>1 DEF Holds
<1>7. QED
  BY <1>1, <1>5, <1>6

\* What an array lists that lacks its last product.
LEMMA HoldsPatch ==
  ASSUME NEW a \in [0..PatchSize - 1 -> Nat], NEW b \in Nat,
         Holds(a, b, PatchSize - 1), NEW n \in Nat \ {0}
  PROVE  (\E i \in 0..PatchSize - 1 : a[i] = n) <=> b <= n /\ n <= b + PatchSize - 1
<1>1. PICK p \in Nat : p = PatchSize /\ p > 2
  BY SizeAssumption
<1>2. \A i \in 0..p - 1 :
        a[i] = IF i < p - 1 THEN b + i + 1 ELSE IF b = 0 THEN 0 ELSE b - p + i + 1
  BY <1>1 DEF Holds
<1>3. a[p - 1] = b
  <2>1. p - 1 \in 0..p - 1 /\ ~(p - 1 < p - 1) /\ b - p + (p - 1) + 1 = b
    BY <1>1
  <2>2. QED
    BY <1>2, <2>1
<1>4. \A i \in 0..p - 2 : a[i] = b + i + 1
  <2>1. SUFFICES ASSUME NEW i \in 0..p - 2 PROVE a[i] = b + i + 1
    OBVIOUS
  <2>2. i \in 0..p - 1 /\ i < p - 1
    BY <1>1
  <2>3. QED
    BY <1>2, <2>2
<1>5. ASSUME NEW i \in 0..p - 1, a[i] = n PROVE b <= n /\ n <= b + p - 1
  <2>1. CASE i = p - 1
    BY <1>1, <1>3, <1>5, <2>1
  <2>2. CASE i # p - 1
    <3>1. i \in 0..p - 2
      BY <1>1, <2>2
    <3>2. n = b + i + 1
      BY <1>4, <1>5, <3>1
    <3>3. QED
      BY <1>1, <3>1, <3>2
  <2>3. QED
    BY <2>1, <2>2
<1>6. ASSUME b <= n, n <= b + p - 1 PROVE \E i \in 0..p - 1 : a[i] = n
  <2>1. CASE n = b
    <3>1. p - 1 \in 0..p - 1
      BY <1>1
    <3>2. QED
      BY <1>3, <2>1, <3>1
  <2>2. CASE n # b
    <3>1. PICK i \in 0..p - 2 : i = n - b - 1
      BY <1>1, <1>6, <2>2
    <3>2. a[i] = n /\ i \in 0..p - 1
      BY <1>1, <1>4, <3>1
    <3>3. QED
      BY <3>2
  <2>3. QED
    BY <2>1, <2>2
<1>7. QED
  BY <1>1, <1>5, <1>6

\* The base of the patch is what was collected without what the array counts.
LEMMA BaseFacts ==
  ASSUME IndInv, NEW t \in Types
  PROVE  Base(t) \in Nat /\ Collected(t) = Base(t) + counter[t]
<1>1. PICK n \in Nat, i \in Nat, p \in Nat :
        /\ n = counter[t] /\ i = patchId[t] /\ p = PatchSize /\ (n # 0 => i > 0)
  BY SizeAssumption DEF IndInv, TypeOK, PatchingInv, PatcherInv
<1>2. i * p \in Nat /\ (i > 0 => (i - 1) * p \in Nat)
  <2>1. i > 0 => i - 1 \in Nat
    OBVIOUS
  <2>2. QED
    BY <2>1
<1>3. CASE n = 0
  BY <1>1, <1>2, <1>3 DEF Base, Collected
<1>4. CASE n # 0
  BY <1>1, <1>2, <1>4 DEF Base, Collected
<1>5. QED
  BY <1>3, <1>4

\* A new message is not a list, or a list of its patch.
LEMMA ListsFrame ==
  ASSUME NEW t \in Types, ui[t] \in Seq(Messages), NEW m \in Messages, ListsInv(t),
         ui'[t] = Append(ui[t], m), m.what = "moved" => Whole(m)
  PROVE  ListsInv(t)'
<1>1. PICK q, a : q \in Seq(Messages) /\ q = ui[t] /\ a = Append(q, m) /\ a = ui'[t]
  OBVIOUS
<1>2. /\ DOMAIN a = 1..(Len(q) + 1) /\ DOMAIN q = 1..Len(q) /\ Len(q) \in Nat
      /\ a[Len(q) + 1] = m /\ \A i \in 1..Len(q) : a[i] = q[i]
  BY <1>1, AppendFacts
<1>3. \A k \in DOMAIN q : q[k].what = "moved" => Whole(q[k])
  BY <1>1 DEF ListsInv, Moves
<1>4. ASSUME NEW k \in DOMAIN a, a[k].what = "moved" PROVE Whole(a[k])
  <2>1. CASE k = Len(q) + 1
    BY <1>2, <1>4, <2>1
  <2>2. CASE k # Len(q) + 1
    <3>1. k \in DOMAIN q /\ a[k] = q[k]
      BY <1>2, <2>2
    <3>2. QED
      BY <1>3, <1>4, <3>1
  <2>3. QED
    BY <2>1, <2>2
<1>5. QED
  BY <1>1, <1>4 DEF ListsInv, Moves, Whole

\* What changes neither the array nor the hand, nor tells of a list, keeps ListInv.
LEMMA ListFrame ==
  ASSUME NEW t \in Types, HandInv(t), ArrayInv(t), arr'[t] = arr[t],
         counter'[t] = counter[t], patchId'[t] = patchId[t],
         InHand(t)' => InHand(t) /\ patcher'.got = patcher.got
  PROVE  HandInv(t)' /\ ArrayInv(t)'
<1>1. Base(t)' = Base(t) /\ Collected(t)' = Collected(t)
  BY DEF Base, Collected
<1>2. QED
  BY <1>1 DEF HandInv, ArrayInv, Holds

\* Nothing is told of type t.
LEMMA ListsStay ==
  ASSUME NEW t \in Types, ListsInv(t), ui'[t] = ui[t]
  PROVE  ListsInv(t)'
BY DEF ListsInv, Moves, Whole

\* The patcher puts the product it holds into the array, as the next one.
LEMMA CollectKeepsList ==
  ASSUME IndInv, ListInv, PatcherCollect
  PROVE  ListInv'
<1>1. PICK t \in Types : t = patcher.got[1]
  BY DEF IndInv, TypeOK, PatcherCollect, Collect, Items
<1> DEFINE c == NextCount(counter[t])
           m == PatchMsg("created", patchId[t] + 1, PATCHING, 0, {})
<1>2. /\ patcher.at = "collect" /\ counter' = [counter EXCEPT ![t] = c]
      /\ arr' = [arr EXCEPT ![t] = [arr[t] EXCEPT ![counter[t]] = patcher.got[2]]]
      /\ \/ c = 1 /\ patchId' = [patchId EXCEPT ![t] = patchId[t] + 1] /\ Tell(t, m)
         \/ c # 1 /\ UNCHANGED <<patchId, guiVars>>
      /\ patcher'.at \in {"top", "send"}
  <2>1. patcher \in [at : {"top", "spin", "receive", "collect", "send", "told"},
                     got : Items \cup {Nothing}]
    BY DEF IndInv, TypeOK
  <2>2. 1 # PatchSize - 1
    BY SizeAssumption
  <2>3. /\ patcher.at = "collect" /\ counter' = [counter EXCEPT ![t] = c]
        /\ arr' = [arr EXCEPT ![t][counter[t]] = patcher.got[2]]
        /\ \/ /\ c = 1
              /\ patchId' = [patchId EXCEPT ![t] = patchId[t] + 1] /\ Tell(t, m)
              /\ patcher' = [at |-> "top", got |-> Nothing]
           \/ /\ c = PatchSize - 1 /\ patcher' = [patcher EXCEPT !.at = "send"]
              /\ UNCHANGED <<patchId, guiVars>>
           \/ /\ c \notin {1, PatchSize - 1} /\ patcher' = [at |-> "top", got |-> Nothing]
              /\ UNCHANGED <<patchId, guiVars>>
    BY <1>1 DEF PatcherCollect, Collect
  <2>4. arr' = [arr EXCEPT ![t] = [arr[t] EXCEPT ![counter[t]] = patcher.got[2]]]
    BY <2>3
  <2> HIDE DEF c, m
  <2>5. \/ c = 1 /\ patchId' = [patchId EXCEPT ![t] = patchId[t] + 1] /\ Tell(t, m)
        \/ c # 1 /\ UNCHANGED <<patchId, guiVars>>
    <3>1. c = PatchSize - 1 \/ c \notin {1, PatchSize - 1} => c # 1
      BY <2>2
    <3>2. QED
      BY <2>3, <3>1
  <2>6. patcher'.at \in {"top", "send"}
    BY <2>1, <2>3
  <2>7. QED
    BY <2>3, <2>4, <2>5, <2>6
<1>3. PICK n \in Nat, i \in Nat, p \in Nat :
        n = counter[t] /\ i = patchId[t] /\ p = PatchSize /\ n \in 0..p - 1 /\ p > 2
  BY SizeAssumption DEF IndInv, TypeOK
<1>4. /\ counter \in [Types -> 0..PatchSize - 1] /\ patchId \in [Types -> Nat]
      /\ ui \in [Types -> Seq(Messages)] /\ arr \in [Types -> [0..PatchSize - 1 -> Nat]]
  BY DEF IndInv, TypeOK, Messages
<1>5. (n = p - 1 => c = 0) /\ (n # p - 1 => c = n + 1) /\ counter'[t] = c
  <2>1. (n = p - 1 => c = 0) /\ (n # p - 1 => c = n + 1)
    BY <1>3, NextCountFacts
  <2>2. QED
    BY <1>2, <1>4, <2>1
<1> HIDE DEF c, m
<1>6. SUFFICES ASSUME NEW s \in Types PROVE HandInv(s)' /\ ArrayInv(s)' /\ ListsInv(s)'
  BY DEF ListInv
<1>7. HandInv(s) /\ ArrayInv(s) /\ ListsInv(s) /\ ~InHand(s)'
  BY <1>2 DEF ListInv, InHand
<1>8. ListsInv(s)'
  <2>1. CASE ui'[s] = ui[s]
    BY <1>7, <2>1, ListsStay
  <2>2. CASE ui'[s] # ui[s]
    <3>1. c = 1 /\ Tell(t, m)
      BY <1>2, <2>2 DEF guiVars
    <3>2. s = t /\ ui'[t] = Append(ui[t], m)
      BY <1>4, <2>2, <3>1 DEF Tell
    <3>3. m = [what |-> "created", patch |-> i + 1, place |-> PATCHING, index |-> 0, items |-> {}]
      BY <1>3 DEF m, PatchMsg
    <3>4. m \in Messages /\ m.what # "moved"
      BY <3>3 DEF Messages, Whats
    <3>5. QED
      BY <1>4, <1>7, <3>2, <3>4, ListsFrame
  <2>3. QED
    BY <2>1, <2>2
<1>9. CASE s # t
  <2>1. arr'[s] = arr[s] /\ counter'[s] = counter[s] /\ patchId'[s] = patchId[s]
    BY <1>2, <1>4, <1>9
  <2>2. QED
    BY <1>7, <1>8, <2>1, ListFrame
<1>10. CASE s = t
  <2>1. HandInv(t)'
    BY <1>7, <1>10 DEF HandInv
  <2>2. PICK b \in Nat : b = Base(t) /\ Collected(t) = b + n
    BY <1>3, BaseFacts
  <2>3. patcher.got[2] = b + n + 1
    BY <1>1, <1>2, <1>7, <1>10, <2>2 DEF HandInv, InHand
  <2>4. PICK a \in [0..PatchSize - 1 -> Nat] : a = arr[t] /\ Holds(a, b, n)
    BY <1>3, <1>4, <1>7, <1>10, <2>2 DEF ArrayInv
  <2>5. arr'[t] = [a EXCEPT ![n] = b + n + 1]
    BY <1>2, <1>3, <1>4, <2>3, <2>4
  <2>6. /\ n # p - 1 => Holds(arr'[t], b, n + 1)
        /\ n = p - 1 => Holds(arr'[t], b + p, 0)
    <3>1. n \in 0..PatchSize - 1 /\ (n = p - 1 <=> n = PatchSize - 1)
      BY <1>3
    <3>2. /\ n # PatchSize - 1 => Holds([a EXCEPT ![n] = b + n + 1], b, n + 1)
          /\ n = PatchSize - 1 => Holds([a EXCEPT ![n] = b + n + 1], b + PatchSize, 0)
      BY <2>4, <3>1, HoldsNext
    <3>3. QED
      BY <1>3, <2>5, <3>1, <3>2
  <2>7. /\ n # p - 1 => Base(t)' = b
        /\ n = p - 1 => Base(t)' = b + p
    <3>1. CASE n = 0
      <4>1. c = 1 /\ n # p - 1
        BY <1>3, <1>5, <3>1
      <4>2. patchId'[t] = i + 1 /\ counter'[t] = 1
        BY <1>2, <1>3, <1>4, <1>5, <4>1
      <4>3. Base(t)' = ((i + 1) - 1) * p /\ (i + 1) - 1 = i
        BY <1>3, <4>2 DEF Base
      <4>4. b = i * p
        BY <1>3, <2>2, <3>1 DEF Base
      <4>5. QED
        BY <4>1, <4>3, <4>4
    <3>2. CASE n = p - 1
      <4>1. c = 0 /\ n # 0
        BY <1>3, <1>5, <3>2
      <4>2. patchId'[t] = i /\ counter'[t] = 0
        BY <1>2, <1>3, <1>5, <4>1
      <4>3. Base(t)' = i * p
        BY <1>3, <4>2 DEF Base
      <4>4. b = (i - 1) * p
        BY <1>3, <2>2, <4>1 DEF Base
      <4>5. (i - 1) * p + p = i * p
        OBVIOUS
      <4>6. QED
        BY <3>2, <4>3, <4>4, <4>5
    <3>3. CASE n # 0 /\ n # p - 1
      <4>1. c = n + 1 /\ c # 1 /\ c # 0
        BY <1>3, <1>5, <3>3
      <4>2. patchId'[t] = i /\ counter'[t] # 0
        BY <1>2, <1>3, <1>5, <4>1
      <4>3. Base(t)' = (i - 1) * p /\ b = (i - 1) * p
        BY <1>3, <2>2, <3>3, <4>2 DEF Base
      <4>4. QED
        BY <3>3, <4>3
    <3>4. QED
      BY <3>1, <3>2, <3>3
  <2>8. Holds(arr'[t], Base(t)', counter'[t])
    BY <1>5, <2>6, <2>7
  <2>9. ArrayInv(t)'
    BY <2>8 DEF ArrayInv, Holds
  <2>10. QED
    BY <1>8, <1>10, <2>1, <2>9
<1>11. QED
  BY <1>9, <1>10

\* The patcher takes a product: it is the one after those that were collected.
LEMMA ReceiveKeepsList ==
  ASSUME IndInv, ListInv, PatcherReceive
  PROVE  ListInv'
<1>1. /\ patcher.at = "receive" /\ patcherQ # <<>>
      /\ patcher' = [at |-> "collect", got |-> Head(patcherQ)]
      /\ UNCHANGED <<counter, patchId, arr, guiVars>>
  BY DEF PatcherReceive
<1>2. SUFFICES ASSUME NEW t \in Types PROVE HandInv(t)' /\ ArrayInv(t)' /\ ListsInv(t)'
  BY DEF ListInv
<1>3. HandInv(t) /\ ArrayInv(t) /\ ListsInv(t) /\ PatcherInv(t)
  BY DEF ListInv, IndInv, PatchingInv
<1>4. ListsInv(t)'
  BY <1>1, <1>3, ListsStay DEF guiVars
<1>5. Base(t)' = Base(t) /\ Collected(t)' = Collected(t)
  BY <1>1 DEF Base, Collected
<1>6. ArrayInv(t)'
  BY <1>1, <1>3, <1>5 DEF ArrayInv, Holds
<1>7. HandInv(t)'
  <2>1. SUFFICES ASSUME Head(patcherQ)[1] = t PROVE Head(patcherQ)[2] = Collected(t) + 1
    BY <1>1, <1>5 DEF HandInv, InHand
  <2>2. InTurn(patcherQ, t, Collected(t), sent[t])
    BY <1>1, <1>3 DEF PatcherInv, Received, InHand
  <2>3. patcherQ \in Seq(Items)
    BY DEF IndInv, TypeOK
  <2>4. QED
    BY <1>1, <2>1, <2>2, <2>3, HeadIsNext
<1>8. QED
  BY <1>4, <1>6, <1>7

\* The patcher tells of the list: what the array holds when its last product is missing.
LEMMA SendKeepsList ==
  ASSUME IndInv, ListInv, PatcherSend
  PROVE  ListInv'
<1>1. PICK t \in Types : t = patcher.got[1]
  <2>1. patcher.got \in Items
    BY DEF IndInv, TypeOK, PatcherSend
  <2>2. QED
    BY <2>1 DEF Items
<1>2. PICK m : m = PatchMsg("moved", patchId[t], PATCHING, 3, Contents(t))
  OBVIOUS
<1>3. /\ \/ /\ patcher.at = "send" /\ Tell(t, m)
         \/ UNCHANGED guiVars
      /\ patcher.at # "collect" /\ patcher'.at # "collect"
      /\ UNCHANGED <<counter, patchId, arr>>
  BY <1>1, <1>2 DEF PatcherSend, IndInv, TypeOK
<1>4. SUFFICES ASSUME NEW s \in Types PROVE HandInv(s)' /\ ArrayInv(s)' /\ ListsInv(s)'
  BY DEF ListInv
<1>5. HandInv(s) /\ ArrayInv(s) /\ ListsInv(s)
  BY DEF ListInv
<1>6. HandInv(s)' /\ ArrayInv(s)'
  BY <1>3, <1>5, ListFrame DEF InHand
<1>7. ui \in [Types -> Seq(Messages)]
  BY DEF IndInv, TypeOK, Messages
<1>8. CASE ui'[s] = ui[s]
  BY <1>5, <1>6, <1>8, ListsStay
<1>9. CASE ui'[s] # ui[s]
  <2>1. s = t /\ patcher.at = "send" /\ ui'[t] = Append(ui[t], m)
    BY <1>3, <1>7, <1>9 DEF Tell, guiVars
  <2>2. Sending(t) /\ PatcherInv(t)
    BY <1>1, <2>1 DEF Sending, IndInv, PatchingInv
  <2>3. PICK i \in Nat, p \in Nat : i = patchId[t] /\ p = PatchSize /\ p > 2
    BY SizeAssumption DEF IndInv, TypeOK
  <2>4. counter[t] = p - 1 /\ i > 0 /\ p - 1 # 0
    BY <2>2, <2>3 DEF PatcherInv
  <2>5. PICK b \in Nat : b = Base(t) /\ b = (i - 1) * p
    <3>1. Base(t) \in Nat
      BY BaseFacts
    <3>2. Base(t) = (i - 1) * p
      BY <2>3, <2>4 DEF Base
    <3>3. QED
      BY <3>1, <3>2
  <2>6. PICK a \in [0..p - 1 -> Nat] : a = arr[t] /\ Holds(a, b, p - 1)
    <3>1. arr[t] \in [0..p - 1 -> Nat]
      BY <2>3 DEF IndInv, TypeOK
    <3>2. QED
      BY <1>5, <2>1, <2>4, <2>5, <3>1 DEF ArrayInv
  <2>7. m = [what |-> "moved", patch |-> i, place |-> PATCHING, index |-> 3,
             items |-> {<<j, a[j]>> : j \in 0..p - 1}]
    BY <1>2, <2>3, <2>6 DEF PatchMsg, Contents
  <2>8. m \in Messages
    <3>1. {<<j, a[j]>> : j \in 0..p - 1} \in SUBSET ((0..p - 1) \X Nat)
      OBVIOUS
    <3>2. i \in Nat \ {0}
      BY <2>4
    <3>3. QED
      BY <2>3, <2>7, <3>1, <3>2 DEF Messages, Whats
  <2>9. Whole(m)
    <3>1. SUFFICES ASSUME NEW n \in Nat \ {0}
                   PROVE  (\E x \in m.items : x[2] = n)
                            <=> (m.patch - 1) * p <= n /\ n <= m.patch * p - 1
      BY <2>3 DEF Whole
    <3>2. (\E x \in m.items : x[2] = n) <=> \E j \in 0..p - 1 : a[j] = n
      <4>1. m.items = {<<j, a[j]>> : j \in 0..p - 1}
        BY <2>7
      <4>2. ASSUME NEW x \in m.items, x[2] = n PROVE \E j \in 0..p - 1 : a[j] = n
        <5>1. PICK j \in 0..p - 1 : x = <<j, a[j]>>
          BY <4>1
        <5>2. QED
          BY <4>2, <5>1
      <4>3. ASSUME NEW j \in 0..p - 1, a[j] = n PROVE \E x \in m.items : x[2] = n
        <5>1. <<j, a[j]>> \in m.items /\ <<j, a[j]>>[2] = n
          BY <4>1, <4>3
        <5>2. QED
          BY <5>1
      <4>4. QED
        BY <4>2, <4>3
    <3>3. (\E j \in 0..p - 1 : a[j] = n) <=> b <= n /\ n <= b + p - 1
      BY <2>3, <2>6, HoldsPatch
    <3>4. b + p = i * p
      <4>1. (i - 1) * p + p = i * p
        OBVIOUS
      <4>2. QED
        BY <2>5, <4>1
    <3>5. m.patch = i /\ (m.patch - 1) * p = b /\ m.patch * p = b + p
      BY <2>5, <2>7, <3>4
    <3>6. b <= n /\ n <= b + p - 1
            <=> (m.patch - 1) * p <= n /\ n <= m.patch * p - 1
      BY <3>5
    <3>7. QED
      BY <3>2, <3>3, <3>6
  <2>10. ListsInv(t)'
    BY <1>5, <1>7, <2>1, <2>8, <2>9, ListsFrame
  <2>11. QED
    BY <1>6, <2>1, <2>10
<1>10. QED
  BY <1>8, <1>9

\* What the printer tells is no list.
LEMMA PrintKeepsList ==
  ASSUME IndInv, ListInv, PrinterPrint
  PROVE  ListInv'
<1>1. PICK t \in Types, k \in Nat \ {0}, x \in Nat : printer.got = <<t, k, x>>
  <2>1. printer.got \in Items
    BY DEF IndInv, TypeOK, PrinterPrint
  <2>2. QED
    BY <2>1 DEF Items
<1>2. PICK m \in Messages : m.what # "moved" /\ Tell(t, m)
  <2>1. ASSUME NEW w \in {"printing", "printed"}, NEW i \in Nat
        PROVE  /\ PatchMsg(w, k, PRINTER, i, {}) \in Messages
               /\ PatchMsg(w, k, PRINTER, i, {}).what # "moved"
    BY DEF PatchMsg, Messages, Whats
  <2>2. \E w \in {"printing", "printed"} : \E i \in Nat : Tell(t, PatchMsg(w, k, PRINTER, i, {}))
    BY <1>1 DEF PrinterPrint
  <2>3. QED
    BY <2>1, <2>2
<1>3. UNCHANGED <<patcher, counter, patchId, arr>>
  BY DEF PrinterPrint
<1>4. SUFFICES ASSUME NEW s \in Types PROVE HandInv(s)' /\ ArrayInv(s)' /\ ListsInv(s)'
  BY DEF ListInv
<1>5. HandInv(s) /\ ArrayInv(s) /\ ListsInv(s) /\ ui \in [Types -> Seq(Messages)]
  BY DEF ListInv, IndInv, TypeOK, Messages
<1>6. HandInv(s)' /\ ArrayInv(s)'
  BY <1>3, <1>5, ListFrame DEF InHand
<1>7. CASE s = t
  <2>1. ui'[t] = Append(ui[t], m)
    BY <1>2, <1>5 DEF Tell
  <2>2. QED
    BY <1>2, <1>5, <1>6, <1>7, <2>1, ListsFrame
<1>8. CASE s # t
  <2>1. ui'[s] = ui[s]
    BY <1>2, <1>5, <1>8 DEF Tell
  <2>2. QED
    BY <1>5, <1>6, <2>1, ListsStay
<1>9. QED
  BY <1>7, <1>8

\* Other steps neither fill an array nor tell of a patch.
LEMMA OthersKeepList ==
  ASSUME IndInv, ListInv,
         \/ \E t \in Types : ProductArrives(t)
         \/ PatcherTop \/ PrinterTop \/ PrinterReceive \/ PrinterPut
         \/ StorageChanges \/ GuiReads \/ OthersTell \/ WindowCloses \/ UNCHANGED vars
  PROVE  ListInv'
<1>1. /\ UNCHANGED <<ui, counter, patchId, arr>>
      /\ patcher' = patcher \/ patcher'.at # "collect"
  <2>1. UNCHANGED <<ui, counter, patchId, arr>>
    BY DEF ProductArrives, PatcherTop, PrinterTop, PrinterReceive, PrinterPut,
           StorageChanges, GuiReads, OthersTell, WindowCloses, vars, guiVars
  <2>2. patcher' = patcher \/ patcher'.at # "collect"
    BY DEF IndInv, TypeOK, ProductArrives, PatcherTop, PassesTop, PrinterTop, PrinterReceive,
           PrinterPut, StorageChanges, GuiReads, OthersTell, WindowCloses, vars, guiVars
  <2>3. QED
    BY <2>1, <2>2
<1>2. SUFFICES ASSUME NEW t \in Types PROVE HandInv(t)' /\ ArrayInv(t)' /\ ListsInv(t)'
  BY DEF ListInv
<1>3. HandInv(t) /\ ArrayInv(t) /\ ListsInv(t)
  BY DEF ListInv
<1>4. QED
  BY <1>1, <1>3, ListFrame, ListsStay DEF InHand

LEMMA InitList == Init => ListInv
<1> SUFFICES ASSUME Init, NEW t \in Types PROVE HandInv(t) /\ ArrayInv(t) /\ ListsInv(t)
  BY DEF ListInv
<1>1. PICK p \in Nat : p = PatchSize /\ p > 2
  BY SizeAssumption
<1>2. /\ counter[t] = 0 /\ patchId[t] = 0 /\ patcher.at = "top" /\ ui[t] = <<>>
      /\ \A i \in 0..p - 1 : arr[t][i] = 0
  BY <1>1 DEF Init
<1>3. Base(t) = 0
  BY <1>1, <1>2 DEF Base
<1>4. \A i \in 0..p - 1 : ~(i < 0)
  OBVIOUS
<1>5. ArrayInv(t)
  BY <1>1, <1>2, <1>3, <1>4 DEF ArrayInv, Holds
<1>6. HandInv(t) /\ ListsInv(t)
  BY <1>2 DEF HandInv, InHand, ListsInv, Moves
<1>7. QED
  BY <1>5, <1>6

LEMMA NextList == IndInv /\ ListInv /\ [Next]_vars => ListInv'
<1> SUFFICES ASSUME IndInv, ListInv, [Next]_vars PROVE ListInv'
  OBVIOUS
<1>1. CASE PatcherCollect
  BY <1>1, CollectKeepsList
<1>2. CASE PatcherReceive
  BY <1>2, ReceiveKeepsList
<1>3. CASE PatcherSend
  BY <1>3, SendKeepsList
<1>4. CASE PrinterPrint
  BY <1>4, PrintKeepsList
<1>5. QED
  BY <1>1, <1>2, <1>3, <1>4, OthersKeepList DEF Next, PatcherStep, PrinterStep

-----------------------------------------------------------------------------
(* No product in two lists                                                 *)

\* Two lists that have a product in common are one message.
LEMMA OneList ==
  ASSUME IndInv, StoryInv, ListInv, NEW t \in Types, NEW n \in Nat \ {0},
         NEW j \in Lists(t, n), NEW k \in Lists(t, n)
  PROVE  j = k
<1>1. PICK p \in Nat : p = PatchSize /\ p > 2
  BY SizeAssumption
<1>2. /\ j \in DOMAIN ui[t] /\ k \in DOMAIN ui[t]
      /\ ui[t][j].what = "moved" /\ ui[t][k].what = "moved"
      /\ j \in Moves(t) /\ k \in Moves(t)
      /\ \E x \in ui[t][j].items : x[2] = n
      /\ \E x \in ui[t][k].items : x[2] = n
  BY DEF Lists, Moves
<1>3. Whole(ui[t][j]) /\ Whole(ui[t][k])
  BY <1>2 DEF ListInv, ListsInv
<1>4. ui[t] \in Seq(Messages)
  BY DEF IndInv, TypeOK, Messages
<1>5. j \in Nat /\ k \in Nat /\ ui[t][j] \in Messages /\ ui[t][k] \in Messages
  BY <1>2, <1>4
<1>6. PICK a \in Nat, b \in Nat : a = ui[t][j].patch /\ b = ui[t][k].patch
  BY <1>5 DEF Messages
<1>7. /\ (a - 1) * p <= n /\ n <= a * p - 1
      /\ (b - 1) * p <= n /\ n <= b * p - 1
  BY <1>1, <1>2, <1>3, <1>6 DEF Whole
<1>8. n < a * p /\ n < b * p
  <2>1. a * p \in Int /\ b * p \in Int
    OBVIOUS
  <2>2. QED
    BY <1>7, <2>1
<1>9. a <= b /\ b <= a
  BY <1>1, <1>7, <1>8, IntervalOrder
<1>10. a = b
  BY <1>9
<1>11. /\ ~(j < k) /\ ~(k < j)
  <2>1. \A x, y \in DOMAIN ui[t] :
          x < y /\ Rank(ui[t][x].what) = Rank(ui[t][y].what) => ui[t][x].patch < ui[t][y].patch
    BY DEF StoryInv, Story
  <2>2. ui[t][j].patch = a /\ ui[t][k].patch = a /\ ~(a < a)
    BY <1>6, <1>10
  <2>3. QED
    BY <1>2, <2>1, <2>2
<1>12. QED
  BY <1>5, <1>11

\* When a later product is out of reach of a list, the product is in that list or in an
\* earlier one.
LEMMA ListedByThen ==
  ASSUME IndInv, StoryInv, ListInv, NEW t \in Types, NEW n \in Nat \ {0},
         NEW k \in Moves(t), n < ui[t][k].patch * PatchSize
  PROVE  \E j \in Lists(t, n) : j <= k
<1>1. PICK p \in Nat : p = PatchSize /\ p > 2
  BY SizeAssumption
<1>2. k \in DOMAIN ui[t] /\ ui[t][k].what = "moved" /\ Rank(ui[t][k].what) = 2
  BY RankFacts DEF Moves
<1>3. ui[t] \in Seq(Messages)
  BY DEF IndInv, TypeOK, Messages
<1>4. PICK b \in Nat : b = ui[t][k].patch
  <2>1. ui[t][k] \in Messages
    BY <1>2, <1>3
  <2>2. QED
    BY <2>1 DEF Messages
<1>5. PICK a \in Nat \ {0} : (a - 1) * p <= n /\ n <= a * p - 1
  <2>1. n \in Nat /\ p > 0
    BY <1>1
  <2>2. QED
    BY <2>1, PatchOfProduct
<1>6. a <= b
  BY <1>1, <1>4, <1>5, IntervalOrder
<1>7. Story(ui[t], Heard(t)) /\ Heard(t)[2] \in Nat
  BY HeardFacts DEF StoryInv
<1>8. b \in 1..Heard(t)[2]
  BY <1>2, <1>4, <1>7 DEF Story
<1>9. a \in 1..Heard(t)[2]
  BY <1>6, <1>7, <1>8
<1>10. PICK j \in DOMAIN ui[t] : ui[t][j].patch = a /\ Rank(ui[t][j].what) = 2
  <2>1. 2 \in 1..4
    OBVIOUS
  <2>2. QED
    BY <1>7, <1>9, <2>1 DEF Story
<1>11. j \in Moves(t)
  <2>1. ui[t][j].what \in Whats
    <3>1. ui[t][j] \in Messages
      BY <1>3, <1>10
    <3>2. QED
      BY <3>1 DEF Messages
  <2>2. QED
    BY <1>10, <2>1, RankFacts DEF Moves
<1>12. j \in Lists(t, n)
  <2>1. Whole(ui[t][j])
    BY <1>11 DEF ListInv, ListsInv
  <2>2. QED
    BY <1>1, <1>5, <1>10, <1>11, <2>1 DEF Whole, Lists
<1>13. j <= k
  <2>1. j \in Nat /\ k \in Nat
    BY <1>2, <1>3
  <2>2. ~(k < j)
    <3>1. k < j => b < a
      BY <1>2, <1>4, <1>7, <1>10 DEF Story
    <3>2. QED
      BY <1>6, <3>1
  <2>3. QED
    BY <2>1, <2>2
<1>14. QED
  BY <1>12, <1>13

\* No product is listed in two patches, and each is listed in time, though the arrays
\* are reused while the patches are away and sent with one product missing.
THEOREM ListedOnlyOnce == Spec => []ListedOnce
<1>1. IndInv /\ StoryInv /\ ListInv => ListedOnce
  <2>1. SUFFICES ASSUME IndInv, StoryInv, ListInv, NEW t \in Types, NEW n \in 1..sent[t]
                 PROVE  /\ Cardinality(Lists(t, n)) <= 1
                        /\ \A k \in Moves(t) :
                             n < ui[t][k].patch * PatchSize => \E j \in Lists(t, n) : j <= k
    BY DEF ListedOnce
  <2>2. n \in Nat \ {0}
    BY DEF IndInv, TypeOK
  <2>3. Cardinality(Lists(t, n)) <= 1
    <3>1. CASE Lists(t, n) = {}
      BY <3>1, FS_EmptySet
    <3>2. CASE Lists(t, n) # {}
      <4>1. PICK j : j \in Lists(t, n)
        BY <3>2
      <4>2. \A k \in Lists(t, n) : j = k
        BY <2>1, <2>2, <4>1, OneList
      <4>3. Lists(t, n) = {j}
        BY <4>1, <4>2
      <4>4. QED
        BY <4>3, FS_Singleton
    <3>3. QED
      BY <3>1, <3>2
  <2>4. ASSUME NEW k \in Moves(t), n < ui[t][k].patch * PatchSize
        PROVE  \E j \in Lists(t, n) : j <= k
    BY <2>1, <2>2, <2>4, ListedByThen
  <2>5. QED
    BY <2>3, <2>4
<1>2. QED
  BY <1>1, StoryHolds, InitList, NextList, PTL DEF Spec

\* The list of a patch is one product late and misses no other: the list of patch p,
\* of n products, has those from (p - 1) * n to p * n - 1. The last one that came for
\* the patch is stored after the list is sent (745), and the next list has it.
THEOREM ListsAreWhole == Spec => [](\A t \in Types : \A k \in Moves(t) : Whole(ui[t][k]))
<1>1. ListInv => \A t \in Types : \A k \in Moves(t) : Whole(ui[t][k])
  BY DEF ListInv, ListsInv
<1>2. QED
  BY <1>1, StoryHolds, InitList, NextList, PTL DEF Spec
=============================================================================
