-------------------------- MODULE AnimationProofs --------------------------
(***************************************************************************)
(* Proofs about the table of the GUI and where its objects are drawn, for   *)
(* any number of buckets and objects, any places and any lengths of steps.  *)
(***************************************************************************)
EXTENDS Animation, FiniteSetTheorems, SequenceTheorems, TLAPS

-----------------------------------------------------------------------------
(* Tables                                                                  *)

Tables ==
  [item : [Buckets -> Ids \cup {0}], chain : [Buckets -> Seq(Ids)],
   count : Int, freed : SUBSET Ids]

\* Every key has a bucket.
LEMMA HashIsBucket == \A k \in Nat : Hash(k) \in Buckets
<1> SUFFICES ASSUME NEW k \in Nat PROVE k % Capacity \in 0..Capacity - 1
  BY DEF Hash, Buckets
<1> QED
  BY TableAssumption

\* What an insertion makes of a table: an item, or the end of a chain.
LEMMA InsertIs ==
  ASSUME NEW h \in Tables, NEW k \in Ids, NEW b \in Buckets, b = Hash(k)
  PROVE  /\ h.item[b] = 0 =>
              HtInsert(h, k) = [item |-> [h.item EXCEPT ![b] = k], chain |-> h.chain,
                                count |-> h.count + 1, freed |-> h.freed]
         /\ h.item[b] # 0 =>
              HtInsert(h, k) = [item |-> h.item,
                                chain |-> [h.chain EXCEPT ![b] = Append(h.chain[b], k)],
                                count |-> h.count, freed |-> h.freed]
BY DEF HtInsert, Tables

\* What a deletion makes of a table.
LEMMA DeleteIs ==
  ASSUME NEW h \in Tables, NEW k \in Ids, NEW b \in Buckets, b = Hash(k)
  PROVE  \/ /\ h.item[b] = k /\ h.chain[b] = <<>>
            /\ HtDelete(h, k) = [item |-> [h.item EXCEPT ![b] = 0], chain |-> h.chain,
                                 count |-> h.count - 1, freed |-> h.freed \cup {k}]
         \/ /\ h.item[b] = k /\ h.chain[b] # <<>>
            /\ HtDelete(h, k) = [item |-> [h.item EXCEPT ![b] = Head(h.chain[b])],
                                 chain |-> [h.chain EXCEPT ![b] = Tail(h.chain[b])],
                                 count |-> h.count,
                                 freed |-> h.freed \cup {k, Head(h.chain[b])}]
         \/ /\ h.item[b] # k /\ 1 \in DOMAIN h.chain[b] /\ h.chain[b][1] = k
            /\ HtDelete(h, k) = [item |-> h.item, chain |-> [h.chain EXCEPT ![b] = <<>>],
                                 count |-> h.count,
                                 freed |-> h.freed \cup ToSet(h.chain[b])]
         \/ /\ h.item[b] # k
            /\ \E i \in DOMAIN h.chain[b] \ {1} :
                 /\ h.chain[b][i] = k
                 /\ HtDelete(h, k) =
                      [item |-> h.item,
                       chain |-> [h.chain EXCEPT ![b] = SubSeq(h.chain[b], 1, i)],
                       count |-> h.count, freed |-> h.freed \cup {k}]
         \/ h.item[b] # k /\ k \notin ToSet(h.chain[b]) /\ HtDelete(h, k) = h
<1>1. CASE h.item[b] = k /\ h.chain[b] = <<>>
  <2>1. HtDelete(h, k) = DeleteItem(h, b)
    BY <1>1 DEF HtDelete
  <2>2. QED
    BY <1>1, <2>1 DEF DeleteItem, Tables
<1>2. CASE h.item[b] = k /\ h.chain[b] # <<>>
  <2>1. HtDelete(h, k) = DeleteItem(h, b)
    BY <1>2 DEF HtDelete
  <2>2. DeleteItem(h, b) =
          [item |-> [h.item EXCEPT ![b] = Head(h.chain[b])],
           chain |-> [h.chain EXCEPT ![b] = Tail(h.chain[b])],
           count |-> h.count, freed |-> h.freed \cup {k, Head(h.chain[b])}]
    BY <1>2 DEF DeleteItem, Tables
  <2>3. QED
    BY <1>2, <2>1, <2>2
<1>3. CASE h.item[b] # k /\ k \in ToSet(h.chain[b])
  <2>1. PICK i \in DOMAIN h.chain[b] : i = CHOOSE j \in DOMAIN h.chain[b] : h.chain[b][j] = k
    BY <1>3 DEF ToSet
  <2>2. h.chain[b][i] = k
    BY <1>3, <2>1 DEF ToSet
  <2>3. HtDelete(h, k) = DeleteFromChain(h, b, i)
    BY <1>3, <2>1 DEF HtDelete
  <2>4. CASE i = 1
    BY <1>3, <2>2, <2>3, <2>4 DEF DeleteFromChain, Tables
  <2>5. CASE i # 1
    <3>1. HtDelete(h, k) = [item |-> h.item,
                            chain |-> [h.chain EXCEPT ![b] = SubSeq(h.chain[b], 1, i)],
                            count |-> h.count, freed |-> h.freed \cup {k}]
      BY <2>2, <2>3, <2>5 DEF DeleteFromChain, Tables
    <3>2. QED
      BY <1>3, <2>2, <2>5, <3>1
  <2>6. QED
    BY <2>4, <2>5
<1>4. CASE h.item[b] # k /\ k \notin ToSet(h.chain[b])
  BY <1>4 DEF HtDelete
<1>5. QED
  BY <1>1, <1>2, <1>3, <1>4

-----------------------------------------------------------------------------
(* Buckets in order                                                        *)

\* The item and the chain of bucket b: keys of that hash, each larger than those
\* before it, as objects are inserted in the order of their ids.
OrderedBucket(b, it, ch) ==
  /\ it \in Ids \cup {0} /\ ch \in Seq(Ids)
  /\ it = 0 => ch = <<>>
  /\ it # 0 => Hash(it) = b
  /\ \A j \in DOMAIN ch : it < ch[j] /\ Hash(ch[j]) = b
  /\ \A i, j \in DOMAIN ch : i < j => ch[i] < ch[j]

\* The entries of a bucket.
Has(it, ch, n) == n = it \/ \E j \in DOMAIN ch : ch[j] = n

\* A table whose bucket b is another one.
With(h, b, it, ch, c, f) ==
  [item |-> [h.item EXCEPT ![b] = it], chain |-> [h.chain EXCEPT ![b] = ch],
   count |-> c, freed |-> f]

Ordered(h) == h \in Tables /\ \A b \in Buckets : OrderedBucket(b, h.item[b], h.chain[b])

\* A key larger than those of the bucket goes to its end.
LEMMA InsertBucket ==
  ASSUME NEW h \in Tables, Ordered(h), NEW k \in Ids, NEW b \in Buckets, b = Hash(k),
         \A n \in Ids : Has(h.item[b], h.chain[b], n) => n < k
  PROVE  \E it, ch :
           /\ OrderedBucket(b, it, ch) /\ it # 0
           /\ \A n \in Ids : Has(it, ch, n) <=> Has(h.item[b], h.chain[b], n) \/ n = k
           /\ HtInsert(h, k) =
                With(h, b, it, ch, IF h.item[b] = 0 THEN h.count + 1 ELSE h.count, h.freed)
<1>1. /\ h.item \in [Buckets -> Ids \cup {0}] /\ h.chain \in [Buckets -> Seq(Ids)]
      /\ OrderedBucket(b, h.item[b], h.chain[b])
  BY DEF Ordered, Tables
<1>2. CASE h.item[b] = 0
  <2>1. h.chain[b] = <<>>
    BY <1>1, <1>2 DEF OrderedBucket
  <2>2. OrderedBucket(b, k, <<>>) /\ k # 0
    BY DEF OrderedBucket, Ids
  <2>3. \A n \in Ids : Has(k, <<>>, n) <=> Has(h.item[b], h.chain[b], n) \/ n = k
    BY <1>2, <2>1 DEF Has, Ids
  <2>4. h.chain = [h.chain EXCEPT ![b] = <<>>]
    BY <1>1, <2>1
  <2>5. HtInsert(h, k) = With(h, b, k, <<>>, h.count + 1, h.freed)
    BY <1>2, <2>4, InsertIs DEF With
  <2>6. QED
    BY <1>2, <2>2, <2>3, <2>5
<1>3. CASE h.item[b] # 0
  <2> DEFINE c == h.chain[b]
             d == Append(c, k)
  <2>1. /\ c \in Seq(Ids) /\ d \in Seq(Ids) /\ DOMAIN c = 1..Len(c) /\ Len(c) \in Nat
        /\ DOMAIN d = DOMAIN c \cup {Len(c) + 1}
        /\ d[Len(c) + 1] = k /\ \A j \in DOMAIN c : d[j] = c[j]
    BY <1>1
  <2>2. \A j \in DOMAIN c : c[j] \in Ids /\ c[j] < k
    BY <2>1 DEF Has
  <2>3. h.item[b] < k
    BY <1>1, <1>3 DEF Has
  <2>4. \A n \in Ids : Has(h.item[b], d, n) <=> Has(h.item[b], c, n) \/ n = k
    BY <2>1 DEF Has
  <2> HIDE DEF d
  <2>5. \A j \in DOMAIN d : h.item[b] < d[j] /\ Hash(d[j]) = b
    BY <1>1, <2>1, <2>3 DEF OrderedBucket
  <2>6. \A i, j \in DOMAIN d : i < j => d[i] < d[j]
    BY <1>1, <2>1, <2>2 DEF OrderedBucket
  <2>7. OrderedBucket(b, h.item[b], d)
    BY <1>1, <1>3, <2>1, <2>5, <2>6 DEF OrderedBucket
  <2>8. h.item = [h.item EXCEPT ![b] = h.item[b]]
    BY <1>1
  <2>9. HtInsert(h, k) = With(h, b, h.item[b], d, h.count, h.freed)
    BY <1>3, <2>8, InsertIs DEF With, d
  <2>10. QED
    BY <1>3, <2>4, <2>7, <2>9
<1>4. QED
  BY <1>2, <1>3

\* A bucket without its item: the next one takes its place.
LEMMA BucketTail ==
  ASSUME NEW b \in Buckets, NEW it, NEW ch, OrderedBucket(b, it, ch), ch # <<>>
  PROVE  /\ OrderedBucket(b, Head(ch), Tail(ch)) /\ Head(ch) \in Ids
         /\ \A n \in Ids : Has(Head(ch), Tail(ch), n) <=> Has(it, ch, n) /\ n # it
<1>1. /\ ch \in Seq(Ids) /\ DOMAIN ch = 1..Len(ch) /\ Len(ch) \in Nat \ {0}
      /\ Head(ch) = ch[1] /\ Tail(ch) \in Seq(Ids) /\ DOMAIN Tail(ch) = 1..Len(ch) - 1
      /\ \A j \in 1..Len(ch) - 1 : Tail(ch)[j] = ch[j + 1]
  BY DEF OrderedBucket
<1>2. /\ it \in Ids \cup {0} /\ \A j \in DOMAIN ch : ch[j] \in Ids /\ it < ch[j] /\ Hash(ch[j]) = b
      /\ \A i, j \in DOMAIN ch : i < j => ch[i] < ch[j]
  BY <1>1 DEF OrderedBucket
<1>3. /\ ch[1] \in Ids /\ ch[1] # 0 /\ Hash(ch[1]) = b /\ it < ch[1]
      /\ \A j \in 1..Len(ch) - 1 : ch[1] < ch[j + 1] /\ Hash(ch[j + 1]) = b
      /\ \A i, j \in 1..Len(ch) - 1 : i < j => ch[i + 1] < ch[j + 1]
  BY <1>1, <1>2 DEF Ids
<1>4. OrderedBucket(b, Head(ch), Tail(ch))
  BY <1>1, <1>3 DEF OrderedBucket
<1>5. ASSUME NEW n \in Ids
      PROVE  Has(Head(ch), Tail(ch), n) <=> Has(it, ch, n) /\ n # it
  <2>1. ASSUME NEW j \in 1..Len(ch), ch[j] = n, j # 1
        PROVE  Tail(ch)[j - 1] = n /\ j - 1 \in 1..Len(ch) - 1
    BY <1>1, <2>1
  <2>2. ASSUME NEW j \in 1..Len(ch) - 1, Tail(ch)[j] = n
        PROVE  ch[j + 1] = n /\ j + 1 \in 1..Len(ch)
    BY <1>1, <2>2
  <2>3. \A j \in 1..Len(ch) : ch[j] # it
    BY <1>1, <1>2 DEF Ids
  <2>4. 1 \in 1..Len(ch)
    BY <1>1
  <2>5. QED
    BY <1>1, <2>1, <2>2, <2>3, <2>4 DEF Has
<1>6. QED
  BY <1>1, <1>3, <1>4, <1>5

\* A bucket whose chain is cut off behind entry i, or before the first.
LEMMA BucketCut ==
  ASSUME NEW b \in Buckets, NEW it, NEW ch, OrderedBucket(b, it, ch), NEW i \in DOMAIN ch
  PROVE  /\ OrderedBucket(b, it, SubSeq(ch, 1, i)) /\ OrderedBucket(b, it, <<>>)
         /\ \A n \in Ids : Has(it, SubSeq(ch, 1, i), n) <=> Has(it, ch, n) /\ n <= ch[i]
         /\ \A n \in Ids : Has(it, <<>>, n) <=> Has(it, ch, n) /\ n < ch[1]
<1> DEFINE c == SubSeq(ch, 1, i)
<1>1. /\ ch \in Seq(Ids) /\ DOMAIN ch = 1..Len(ch) /\ Len(ch) \in Nat /\ i \in 1..Len(ch)
  BY DEF OrderedBucket
<1>2. /\ it \in Ids \cup {0} /\ \A j \in DOMAIN ch : ch[j] \in Ids /\ it < ch[j] /\ Hash(ch[j]) = b
      /\ \A j, l \in DOMAIN ch : j < l => ch[j] < ch[l]
      /\ it # 0 /\ Hash(it) = b
  BY <1>1 DEF OrderedBucket
<1>3. c \in Seq(Ids) /\ DOMAIN c = 1..i /\ \A j \in 1..i : c[j] = ch[j]
  BY <1>1, SubSeqProperties
<1> HIDE DEF c
<1>4. OrderedBucket(b, it, c)
  BY <1>1, <1>2, <1>3 DEF OrderedBucket
<1>5. OrderedBucket(b, it, <<>>)
  BY <1>2 DEF OrderedBucket
<1>6. \A j \in DOMAIN ch : /\ ch[j] \in Nat /\ it \in Nat
                           /\ ch[j] <= ch[i] => j <= i
                           /\ j <= i => ch[j] <= ch[i]
                           /\ ~(ch[j] < ch[1]) /\ it < ch[1] /\ it < ch[i]
  BY <1>1, <1>2 DEF Ids
<1>7. ASSUME NEW n \in Ids
      PROVE  Has(it, c, n) <=> Has(it, ch, n) /\ n <= ch[i]
  BY <1>1, <1>3, <1>6, <1>7 DEF Has
<1>8. ASSUME NEW n \in Ids
      PROVE  Has(it, <<>>, n) <=> Has(it, ch, n) /\ n < ch[1]
  BY <1>1, <1>6, <1>8 DEF Has
<1>9. QED
  BY <1>4, <1>5, <1>7, <1>8 DEF c

\* What a deletion makes of the bucket of its key: no entry is added, those before the
\* key stay, and a key that is alone leaves an empty bucket and is the only one freed.
LEMMA DeleteBucket ==
  ASSUME NEW h \in Tables, Ordered(h), NEW k \in Ids, NEW b \in Buckets, b = Hash(k)
  PROVE  \E it, ch, f :
           /\ OrderedBucket(b, it, ch) /\ f \subseteq Ids
           /\ h.item[b] = 0 => it = 0
           /\ \A n \in Ids : Has(it, ch, n) => Has(h.item[b], h.chain[b], n)
           /\ \A n \in Ids : Has(h.item[b], h.chain[b], n) /\ n < k => Has(it, ch, n)
           /\ (\A n \in Ids : Has(h.item[b], h.chain[b], n) <=> n = k) =>
                it = 0 /\ ch = <<>> /\ f = h.freed \cup {k}
           /\ HtDelete(h, k) =
                With(h, b, it, ch,
                     IF h.item[b] # 0 /\ it = 0 THEN h.count - 1 ELSE h.count, f)
<1> DEFINE i0 == h.item[b]
           c0 == h.chain[b]
           Deleted(it, ch, f) ==
             /\ OrderedBucket(b, it, ch) /\ f \subseteq Ids
             /\ i0 = 0 => it = 0
             /\ \A n \in Ids : Has(it, ch, n) => Has(i0, c0, n)
             /\ \A n \in Ids : Has(i0, c0, n) /\ n < k => Has(it, ch, n)
             /\ (\A n \in Ids : Has(i0, c0, n) <=> n = k) =>
                  it = 0 /\ ch = <<>> /\ f = h.freed \cup {k}
             /\ HtDelete(h, k) =
                  With(h, b, it, ch, IF i0 # 0 /\ it = 0 THEN h.count - 1 ELSE h.count, f)
<1>1. /\ h.item \in [Buckets -> Ids \cup {0}] /\ h.chain \in [Buckets -> Seq(Ids)]
      /\ h.count \in Int /\ h.freed \subseteq Ids /\ h = [item |-> h.item, chain |-> h.chain,
                                                   count |-> h.count, freed |-> h.freed]
      /\ OrderedBucket(b, i0, c0) /\ 0 \notin Ids
  BY DEF Ordered, Tables, Ids
<1>2. h.item = [h.item EXCEPT ![b] = i0] /\ h.chain = [h.chain EXCEPT ![b] = c0]
  BY <1>1
<1>3. /\ i0 \in Ids \cup {0} /\ c0 \in Seq(Ids)
      /\ i0 = 0 => c0 = <<>>
      /\ DOMAIN c0 = 1..Len(c0) /\ Len(c0) \in Nat
      /\ \A j \in DOMAIN c0 : c0[j] \in Ids /\ i0 < c0[j]
  <2>1. /\ i0 \in Ids \cup {0} /\ c0 \in Seq(Ids)
        /\ i0 = 0 => c0 = <<>>
        /\ \A j \in DOMAIN c0 : i0 < c0[j]
    BY <1>1 DEF OrderedBucket
  <2>2. QED
    BY <2>1
<1>4. ASSUME i0 = k /\ c0 = <<>>
      PROVE  \E it, ch, f : Deleted(it, ch, f)
  <2>1. HtDelete(h, k) = With(h, b, 0, <<>>, h.count - 1, h.freed \cup {k})
    BY <1>1, <1>2, <1>4, DeleteIs DEF With
  <2>2. OrderedBucket(b, 0, <<>>)
    BY DEF OrderedBucket
  <2>3. \A n \in Ids : ~Has(0, <<>>, n) /\ (Has(i0, c0, n) <=> n = k)
    BY <1>1, <1>4 DEF Has
  <2>4. Deleted(0, <<>>, h.freed \cup {k})
    BY <1>1, <1>4, <2>1, <2>2, <2>3 DEF Ids
  <2>5. QED
    BY <2>4
<1>5. ASSUME i0 = k /\ c0 # <<>>
      PROVE  \E it, ch, f : Deleted(it, ch, f)
  <2>1. HtDelete(h, k) = With(h, b, Head(c0), Tail(c0), h.count, h.freed \cup {k, Head(c0)})
    BY <1>1, <1>5, DeleteIs DEF With
  <2>2. /\ OrderedBucket(b, Head(c0), Tail(c0)) /\ Head(c0) \in Ids
        /\ \A n \in Ids : Has(Head(c0), Tail(c0), n) <=> Has(i0, c0, n) /\ n # i0
    BY <1>1, <1>5, BucketTail
  <2>3. Has(i0, c0, Head(c0)) /\ Head(c0) # k /\ Head(c0) # 0
    BY <1>1, <1>3, <1>5, <2>2 DEF Has
  <2>4. Deleted(Head(c0), Tail(c0), h.freed \cup {k, Head(c0)})
    BY <1>1, <1>5, <2>1, <2>2, <2>3 DEF Ids
  <2>5. QED
    BY <2>4
<1>6. ASSUME i0 # k, 1 \in DOMAIN c0, c0[1] = k,
             HtDelete(h, k) = [item |-> h.item, chain |-> [h.chain EXCEPT ![b] = <<>>],
                               count |-> h.count, freed |-> h.freed \cup ToSet(c0)]
      PROVE  \E it, ch, f : Deleted(it, ch, f)
  <2>1. HtDelete(h, k) = With(h, b, i0, <<>>, h.count, h.freed \cup ToSet(c0))
    BY <1>2, <1>6 DEF With
  <2>2. /\ OrderedBucket(b, i0, <<>>)
        /\ \A n \in Ids : Has(i0, <<>>, n) <=> Has(i0, c0, n) /\ n < k
    BY <1>1, <1>6, BucketCut
  <2>3. ToSet(c0) \subseteq Ids /\ i0 \in Ids /\ Has(i0, c0, i0)
    <3>1. c0 # <<>>
      BY <1>6
    <3>2. QED
      BY <1>3, <3>1 DEF ToSet, Has
  <2>4. Deleted(i0, <<>>, h.freed \cup ToSet(c0))
    BY <1>1, <1>6, <2>1, <2>2, <2>3
  <2>5. QED
    BY <2>4
<1>7. ASSUME i0 # k, NEW i \in DOMAIN c0 \ {1}, c0[i] = k,
             HtDelete(h, k) =
               [item |-> h.item, chain |-> [h.chain EXCEPT ![b] = SubSeq(c0, 1, i)],
                count |-> h.count, freed |-> h.freed \cup {k}]
      PROVE  \E it, ch, f : Deleted(it, ch, f)
  <2>1. HtDelete(h, k) = With(h, b, i0, SubSeq(c0, 1, i), h.count, h.freed \cup {k})
    BY <1>2, <1>7 DEF With
  <2>2. /\ OrderedBucket(b, i0, SubSeq(c0, 1, i))
        /\ \A n \in Ids : Has(i0, SubSeq(c0, 1, i), n) <=> Has(i0, c0, n) /\ n <= k
    BY <1>1, <1>7, BucketCut
  <2>3. i0 \in Ids /\ Has(i0, c0, i0)
    <3>1. c0 # <<>>
      BY <1>7
    <3>2. QED
      BY <1>3, <3>1 DEF Has
  <2>4. \A n \in Ids : n < k => n <= k
    BY DEF Ids
  <2>5. Deleted(i0, SubSeq(c0, 1, i), h.freed \cup {k})
    BY <1>1, <1>7, <2>1, <2>2, <2>3, <2>4
  <2>6. QED
    BY <2>5
<1>8. ASSUME i0 # k /\ k \notin ToSet(c0) /\ HtDelete(h, k) = h
      PROVE  \E it, ch, f : Deleted(it, ch, f)
  <2>1. HtDelete(h, k) = With(h, b, i0, c0, h.count, h.freed)
    BY <1>1, <1>2, <1>8 DEF With
  <2>2. ~Has(i0, c0, k)
    BY <1>8 DEF Has, ToSet
  <2>3. Deleted(i0, c0, h.freed)
    BY <1>1, <1>8, <2>1, <2>2
  <2>4. QED
    BY <2>3
<1>9. \E it, ch, f : Deleted(it, ch, f)
  <2> HIDE DEF Deleted
  <2>1. \/ i0 = k /\ c0 = <<>>
        \/ i0 = k /\ c0 # <<>>
        \/ /\ i0 # k /\ 1 \in DOMAIN c0 /\ c0[1] = k
           /\ HtDelete(h, k) = [item |-> h.item, chain |-> [h.chain EXCEPT ![b] = <<>>],
                                count |-> h.count, freed |-> h.freed \cup ToSet(c0)]
        \/ /\ i0 # k
           /\ \E i \in DOMAIN c0 \ {1} :
                /\ c0[i] = k
                /\ HtDelete(h, k) =
                     [item |-> h.item,
                      chain |-> [h.chain EXCEPT ![b] = SubSeq(c0, 1, i)],
                      count |-> h.count, freed |-> h.freed \cup {k}]
        \/ i0 # k /\ k \notin ToSet(c0) /\ HtDelete(h, k) = h
    BY ZenonT(30), DeleteIs
  <2>2. QED
    BY <1>4, <1>5, <1>6, <1>7, <1>8, <2>1
<1>10. QED
  BY <1>9

-----------------------------------------------------------------------------
(* Tables in order                                                         *)

\* The count is that of the buckets in use.
InUse(h) == {b \in Buckets : h.item[b] # 0}
Counted(h) == h.count = Cardinality(InUse(h))

\* An entry is found where its hash says.
LEMMA FoundIsIn ==
  ASSUME NEW h \in Tables, Ordered(h), NEW n \in Ids
  PROVE  /\ HtFound(h, n) <=> Has(h.item[Hash(n)], h.chain[Hash(n)], n)
         /\ \A b \in Buckets : Has(h.item[b], h.chain[b], n) => b = Hash(n)
<1>1. Hash(n) \in Buckets /\ n # 0
  BY HashIsBucket, TableAssumption DEF Ids
<1>2. ASSUME NEW b \in Buckets
      PROVE  /\ h.item[b] = 0 => h.chain[b] = <<>>
             /\ h.item[b] # 0 => Hash(h.item[b]) = b
             /\ \A j \in DOMAIN h.chain[b] : Hash(h.chain[b][j]) = b
  BY <1>2 DEF Ordered, OrderedBucket
<1>3. h.item[Hash(n)] = 0 => h.chain[Hash(n)] = <<>>
  BY <1>1, <1>2
<1>4. n \in ToSet(h.chain[Hash(n)]) <=>
        \E j \in DOMAIN h.chain[Hash(n)] : h.chain[Hash(n)][j] = n
  BY DEF ToSet
<1>5. HtFound(h, n) <=> Has(h.item[Hash(n)], h.chain[Hash(n)], n)
  BY <1>3, <1>4 DEF HtFound, Has
<1>6. ASSUME NEW b \in Buckets, Has(h.item[b], h.chain[b], n)
      PROVE  b = Hash(n)
  BY <1>1, <1>2, <1>6 DEF Has
<1>7. QED
  BY <1>5, <1>6

\* One bucket is replaced.
LEMMA WithIs ==
  ASSUME NEW h \in Tables, Ordered(h), NEW b \in Buckets, NEW it, NEW ch, NEW c \in Int,
         NEW f \in SUBSET Ids, OrderedBucket(b, it, ch)
  PROVE  LET g == With(h, b, it, ch, c, f) IN
         /\ g \in Tables /\ Ordered(g) /\ g.freed = f /\ g.count = c
         /\ g.item[b] = it /\ g.chain[b] = ch
         /\ \A a \in Buckets \ {b} : g.item[a] = h.item[a] /\ g.chain[a] = h.chain[a]
<1> DEFINE g == With(h, b, it, ch, c, f)
<1>1. /\ h.item \in [Buckets -> Ids \cup {0}] /\ h.chain \in [Buckets -> Seq(Ids)]
      /\ \A a \in Buckets : OrderedBucket(a, h.item[a], h.chain[a])
  BY DEF Ordered, Tables
<1>2. it \in Ids \cup {0} /\ ch \in Seq(Ids)
  BY DEF OrderedBucket
<1>3. /\ g.item = [h.item EXCEPT ![b] = it] /\ g.chain = [h.chain EXCEPT ![b] = ch]
      /\ g.freed = f /\ g.count = c
      /\ g = [item |-> g.item, chain |-> g.chain, count |-> g.count, freed |-> g.freed]
  BY DEF With
<1> HIDE DEF g
<1>4. /\ g.item \in [Buckets -> Ids \cup {0}] /\ g.chain \in [Buckets -> Seq(Ids)]
      /\ g.item[b] = it /\ g.chain[b] = ch
      /\ \A a \in Buckets \ {b} : g.item[a] = h.item[a] /\ g.chain[a] = h.chain[a]
  BY <1>1, <1>2, <1>3
<1>5. g \in Tables
  BY <1>3, <1>4 DEF Tables
<1>6. \A a \in Buckets : OrderedBucket(a, g.item[a], g.chain[a])
  BY <1>1, <1>4
<1>7. Ordered(g)
  BY <1>5, <1>6 DEF Ordered
<1>8. QED
  BY <1>3, <1>4, <1>5, <1>7 DEF g

\* The count of a table with another bucket.
LEMMA WithCounts ==
  ASSUME NEW h \in Tables, Counted(h), NEW b \in Buckets, NEW g \in Tables,
         \A a \in Buckets \ {b} : g.item[a] = h.item[a]
  PROVE  /\ h.count \in Nat
         /\ h.item[b] = 0 /\ g.item[b] # 0 => Cardinality(InUse(g)) = h.count + 1
         /\ h.item[b] # 0 /\ g.item[b] = 0 => Cardinality(InUse(g)) = h.count - 1
         /\ (h.item[b] = 0 <=> g.item[b] = 0) => Cardinality(InUse(g)) = h.count
<1>1. IsFiniteSet(Buckets)
  <2>1. 0 \in Int /\ Capacity - 1 \in Int
    BY TableAssumption
  <2>2. QED
    BY <2>1, FS_Interval DEF Buckets
<1>2. IsFiniteSet(InUse(h)) /\ IsFiniteSet(InUse(g))
  BY <1>1, FS_Subset DEF InUse
<1>3. Cardinality(InUse(h)) \in Nat /\ h.count = Cardinality(InUse(h))
  BY <1>2, FS_CardinalityType DEF Counted
<1>4. ASSUME h.item[b] = 0, g.item[b] # 0
      PROVE  Cardinality(InUse(g)) = h.count + 1
  <2>1. InUse(g) = InUse(h) \cup {b} /\ b \notin InUse(h)
    BY <1>4 DEF InUse
  <2>2. QED
    BY <1>2, <1>3, <2>1, FS_AddElement
<1>5. ASSUME h.item[b] # 0, g.item[b] = 0
      PROVE  Cardinality(InUse(g)) = h.count - 1
  <2>1. InUse(g) = InUse(h) \ {b} /\ b \in InUse(h)
    BY <1>5 DEF InUse
  <2>2. QED
    BY <1>2, <1>3, <2>1, FS_RemoveElement
<1>6. ASSUME h.item[b] = 0 <=> g.item[b] = 0
      PROVE  Cardinality(InUse(g)) = h.count
  <2>1. InUse(g) = InUse(h)
    BY <1>6 DEF InUse
  <2>2. QED
    BY <1>3, <2>1
<1>7. QED
  BY <1>3, <1>4, <1>5, <1>6

\* ht_insert of a key larger than those of the table adds it, and nothing else.
LEMMA Insertion ==
  ASSUME NEW h \in Tables, Ordered(h), Counted(h), NEW k \in Ids,
         \A n \in Ids : HtFound(h, n) => n < k
  PROVE  LET g == HtInsert(h, k) IN
         /\ g \in Tables /\ Ordered(g) /\ Counted(g) /\ g.freed = h.freed
         /\ \A n \in Ids : HtFound(g, n) <=> HtFound(h, n) \/ n = k
<1> DEFINE g == HtInsert(h, k)
<1>1. PICK b \in Buckets : b = Hash(k)
  BY HashIsBucket, TableAssumption DEF Ids
<1>2. \A n \in Ids : Has(h.item[b], h.chain[b], n) => n < k
  BY FoundIsIn
<1>3. PICK it, ch :
        /\ OrderedBucket(b, it, ch) /\ it # 0
        /\ \A n \in Ids : Has(it, ch, n) <=> Has(h.item[b], h.chain[b], n) \/ n = k
        /\ g = With(h, b, it, ch, IF h.item[b] = 0 THEN h.count + 1 ELSE h.count, h.freed)
  BY <1>1, <1>2, InsertBucket
<1>4. PICK c \in Int : c = IF h.item[b] = 0 THEN h.count + 1 ELSE h.count
  BY DEF Tables
<1>5. h.freed \in SUBSET Ids
  BY DEF Tables
<1>6. /\ g \in Tables /\ Ordered(g) /\ g.freed = h.freed /\ g.count = c
      /\ g.item[b] = it /\ g.chain[b] = ch
      /\ \A a \in Buckets \ {b} : g.item[a] = h.item[a] /\ g.chain[a] = h.chain[a]
  BY <1>3, <1>4, <1>5, WithIs
<1> HIDE DEF g
<1>7. Counted(g)
  BY <1>3, <1>4, <1>6, WithCounts DEF Counted
<1>8. ASSUME NEW n \in Ids
      PROVE  HtFound(g, n) <=> HtFound(h, n) \/ n = k
  <2>1. Hash(n) \in Buckets
    BY HashIsBucket DEF Ids
  <2>2. CASE Hash(n) = b
    BY <1>3, <1>6, <2>2, FoundIsIn
  <2>3. CASE Hash(n) # b
    BY <1>1, <1>6, <2>1, <2>3, FoundIsIn
  <2>4. QED
    BY <2>2, <2>3
<1>9. QED
  BY <1>6, <1>7, <1>8 DEF g

\* ht_delete adds nothing, takes away no entry before the key, and of a key alone in
\* its bucket that one.
LEMMA Deletion ==
  ASSUME NEW h \in Tables, Ordered(h), Counted(h), NEW k \in Ids
  PROVE  LET g == HtDelete(h, k) IN
         /\ g \in Tables /\ Ordered(g) /\ Counted(g)
         /\ \A n \in Ids : HtFound(g, n) => HtFound(h, n)
         /\ \A n \in Ids : HtFound(h, n) /\ (n < k \/ Hash(n) # Hash(k)) => HtFound(g, n)
         /\ (\A n \in Ids : HtFound(h, n) /\ Hash(n) = Hash(k) <=> n = k) =>
              ~HtFound(g, k) /\ g.freed = h.freed \cup {k}
<1> DEFINE g == HtDelete(h, k)
<1>1. PICK b \in Buckets : b = Hash(k)
  BY HashIsBucket, TableAssumption DEF Ids
<1>2. PICK it, ch, f :
        /\ OrderedBucket(b, it, ch) /\ f \subseteq Ids
        /\ h.item[b] = 0 => it = 0
        /\ \A n \in Ids : Has(it, ch, n) => Has(h.item[b], h.chain[b], n)
        /\ \A n \in Ids : Has(h.item[b], h.chain[b], n) /\ n < k => Has(it, ch, n)
        /\ (\A n \in Ids : Has(h.item[b], h.chain[b], n) <=> n = k) =>
             it = 0 /\ ch = <<>> /\ f = h.freed \cup {k}
        /\ g = With(h, b, it, ch, IF h.item[b] # 0 /\ it = 0 THEN h.count - 1 ELSE h.count, f)
  BY <1>1, DeleteBucket, ZenonT(40)
<1>3. PICK c \in Int : c = IF h.item[b] # 0 /\ it = 0 THEN h.count - 1 ELSE h.count
  BY DEF Tables
<1>4. /\ g \in Tables /\ Ordered(g) /\ g.freed = f /\ g.count = c
      /\ g.item[b] = it /\ g.chain[b] = ch
      /\ \A a \in Buckets \ {b} : g.item[a] = h.item[a] /\ g.chain[a] = h.chain[a]
  BY <1>2, <1>3, WithIs
<1> HIDE DEF g
<1>5. Counted(g)
  BY <1>2, <1>3, <1>4, WithCounts DEF Counted
<1>6. ASSUME NEW n \in Ids
      PROVE  /\ HtFound(g, n) => HtFound(h, n)
             /\ HtFound(h, n) /\ (n < k \/ Hash(n) # Hash(k)) => HtFound(g, n)
  <2>1. Hash(n) \in Buckets
    BY HashIsBucket DEF Ids
  <2>2. CASE Hash(n) = b
    BY <1>1, <1>2, <1>4, <2>2, FoundIsIn
  <2>3. CASE Hash(n) # b
    BY <1>1, <1>4, <2>1, <2>3, FoundIsIn
  <2>4. QED
    BY <2>2, <2>3
<1>7. ASSUME \A n \in Ids : HtFound(h, n) /\ Hash(n) = Hash(k) <=> n = k
      PROVE  ~HtFound(g, k) /\ g.freed = h.freed \cup {k}
  <2>1. \A n \in Ids : Has(h.item[b], h.chain[b], n) <=> n = k
    BY <1>1, <1>7, FoundIsIn
  <2>2. it = 0 /\ ch = <<>> /\ f = h.freed \cup {k}
    BY <1>2, <2>1
  <2>3. ~Has(0, <<>>, k)
    BY DEF Has, Ids
  <2>4. QED
    BY <1>1, <1>4, <2>2, <2>3, FoundIsIn
<1>8. QED
  BY <1>4, <1>5, <1>6, <1>7 DEF g

-----------------------------------------------------------------------------
(* The table of the GUI                                                    *)

Kinds == {"PRODUCT", "PATCH", "CARTON_BOX"}

\* The table is in order, its count is right, and its entries are objects that were
\* created.
TableInv ==
  /\ kind \in Seq(Kinds) /\ Len(kind) <= MaxId
  /\ Table \in Tables /\ Ordered(Table) /\ Counted(Table)
  /\ \A n \in Ids : HtFound(Table, n) => n <= Len(kind)

LEMMA InitTableInv == Init => TableInv
<1> SUFFICES ASSUME Init PROVE TableInv
  OBVIOUS
<1>1. /\ Table = [item |-> [b \in Buckets |-> 0], chain |-> [b \in Buckets |-> <<>>],
                  count |-> 0, freed |-> {}]
      /\ kind = <<>>
  BY DEF Init, Table
<1>2. Table \in Tables
  BY <1>1 DEF Tables
<1>3. Ordered(Table)
  BY <1>1, <1>2 DEF Ordered, OrderedBucket
<1>4. InUse(Table) = {}
  BY <1>1 DEF InUse
<1>5. Counted(Table)
  BY <1>1, <1>4, FS_EmptySet DEF Counted
<1>6. \A n \in Ids : ~HtFound(Table, n)
  <2>1. \A n \in Ids : Hash(n) \in Buckets /\ n # 0
    BY HashIsBucket DEF Ids
  <2>2. QED
    BY <1>1, <2>1 DEF HtFound
<1>7. kind \in Seq(Kinds) /\ Len(kind) <= MaxId
  BY <1>1, TableAssumption
<1>8. QED
  BY <1>2, <1>3, <1>5, <1>6, <1>7 DEF TableInv

\* The objects are numbered from 1 on.
LEMMA ObjectsAreIds ==
  ASSUME TableInv
  PROVE  /\ Len(kind) \in Nat /\ DOMAIN kind = 1..Len(kind) /\ DOMAIN kind \subseteq Ids
         /\ Unboxed \subseteq Ids
<1>1. Len(kind) \in Nat /\ DOMAIN kind = 1..Len(kind) /\ Len(kind) <= MaxId
  BY DEF TableInv
<1>2. DOMAIN kind \subseteq Ids
  BY <1>1, TableAssumption DEF Ids
<1>3. QED
  BY <1>1, <1>2 DEF Unboxed, Of

\* The next object enters the table.
LEMMA InsertedIs ==
  ASSUME TableInv, NextId \in Ids
  PROVE  /\ Inserted \in Tables /\ Ordered(Inserted) /\ Counted(Inserted)
         /\ Inserted.freed = freed
         /\ \A n \in Ids : HtFound(Inserted, n) <=> HtFound(Table, n) \/ n = NextId
<1>1. Table \in Tables /\ Ordered(Table) /\ Counted(Table) /\ Len(kind) \in Nat
  BY DEF TableInv
<1>2. \A n \in Ids : HtFound(Table, n) => n < NextId
  BY <1>1 DEF TableInv, NextId, Ids
<1>3. Table.freed = freed
  BY DEF Table
<1>4. QED
  BY <1>1, <1>2, <1>3, Insertion DEF Inserted

\* Two patches become a box: their ids are those of earlier objects.
LEMMA BoxedIs ==
  ASSUME TableInv, NextId \in Ids, NEW p \in Ids, NEW q \in Ids
  PROVE  /\ HtDelete(Inserted, p) \in Tables /\ Ordered(HtDelete(Inserted, p))
         /\ Counted(HtDelete(Inserted, p))
         /\ HtDelete(HtDelete(Inserted, p), q) \in Tables
         /\ Ordered(HtDelete(HtDelete(Inserted, p), q))
         /\ Counted(HtDelete(HtDelete(Inserted, p), q))
         /\ \A n \in Ids : HtFound(HtDelete(Inserted, p), n) => HtFound(Inserted, n)
         /\ \A n \in Ids : HtFound(HtDelete(HtDelete(Inserted, p), q), n) =>
                             HtFound(HtDelete(Inserted, p), n)
<1>1. Inserted \in Tables /\ Ordered(Inserted) /\ Counted(Inserted)
  BY InsertedIs
<1>2. PICK g \in Tables : g = HtDelete(Inserted, p)
  BY <1>1, Deletion
<1>3. Ordered(g) /\ Counted(g) /\ \A n \in Ids : HtFound(g, n) => HtFound(Inserted, n)
  BY <1>1, <1>2, Deletion
<1>4. PICK e \in Tables : e = HtDelete(g, q)
  BY <1>3, Deletion
<1>5. Ordered(e) /\ Counted(e) /\ \A n \in Ids : HtFound(e, n) => HtFound(g, n)
  BY <1>3, <1>4, Deletion
<1>6. QED
  BY <1>2, <1>3, <1>4, <1>5

\* What a message that creates an object does to the table, the objects and the boxes.
Grows(k, h) ==
  /\ Intact /\ NextId \in Ids
  /\ \A n \in Unboxed : NextId <= n + Waiting
  /\ Table' = h /\ kind' = Append(kind, k)

LEMMA CreatedIs ==
  ASSUME NEW k, NEW l, NEW i, NEW h \in Tables, Created(k, l, i, h)
  PROVE  Grows(k, h) /\ Table' \in Tables
<1>1. Table' = h
  <2>1. h = [item |-> h.item, chain |-> h.chain, count |-> h.count, freed |-> h.freed]
    BY DEF Tables
  <2>2. QED
    BY <2>1 DEF Created, BecomesTable, Table
<1>2. QED
  BY <1>1 DEF Created, Grows

\* A step of the GUI creates an object, or changes nothing of the table.
LEMMA TableStep ==
  ASSUME TableInv, [AnimationNext]_allVars
  PROVE  \/ /\ \E k \in {"PRODUCT", "PATCH"} : Grows(k, Inserted)
            /\ boxed' = boxed
            /\ coords' = [coords EXCEPT ![NextId] = [x |-> Entry.x + NextId, y |-> Entry.y]]
         \/ \E p, q \in Unboxed :
              /\ p < q /\ Grows("CARTON_BOX", HtDelete(HtDelete(Inserted, p), q))
              /\ boxed' = boxed \cup {p, q}
              /\ \E l \in BoxPlaces : coords' = [coords EXCEPT ![NextId] = Spot(l, 10)]
         \/ /\ Intact /\ UNCHANGED <<Table, kind, boxed>>
            /\ coords' = [k \in Ids |->
                 IF item[Hash(k)] = k
                   THEN MovedTimes(1 + Len(chain[Hash(k)]), coords[k], Target(k))
                   ELSE coords[k]]
         \/ UNCHANGED <<Table, kind, boxed, coords>>
<1>1. CASE ObjectAppears
  <2>1. NextId \in Ids
    BY <1>1 DEF ObjectAppears, ProductCreated, PatchCreated, Created
  <2>2. Inserted \in Tables
    BY <2>1, InsertedIs
  <2>3. \E k \in {"PRODUCT", "PATCH"} : Grows(k, Inserted)
    BY <1>1, <2>2, CreatedIs DEF ObjectAppears, ProductCreated, PatchCreated
  <2>4. boxed' = boxed
    BY <1>1 DEF ObjectAppears, ProductCreated, PatchCreated
  <2>5. coords' = [coords EXCEPT ![NextId] = [x |-> Entry.x + NextId, y |-> Entry.y]]
    BY <1>1 DEF ObjectAppears, Appears
  <2>6. QED
    BY <2>3, <2>4, <2>5
<1>2. CASE BoxAppears
  <2>1. PICK p \in Unboxed, q \in Unboxed :
          /\ p < q
          /\ Created("CARTON_BOX", StorageArea, 8, HtDelete(HtDelete(Inserted, p), q))
          /\ boxed' = boxed \cup {p, q}
    BY <1>2 DEF BoxAppears, BoxCreated
  <2>2. NextId \in Ids
    BY <2>1 DEF Created
  <2>3. p \in Ids /\ q \in Ids
    BY ObjectsAreIds
  <2>4. HtDelete(HtDelete(Inserted, p), q) \in Tables
    BY <2>2, <2>3, BoxedIs
  <2>5. Grows("CARTON_BOX", HtDelete(HtDelete(Inserted, p), q))
    BY <2>1, <2>4, CreatedIs
  <2>6. \E l \in BoxPlaces : coords' = [coords EXCEPT ![NextId] = Spot(l, 10)]
    BY <1>2 DEF BoxAppears, Appears
  <2>7. QED
    BY <2>1, <2>5, <2>6
<1>3. CASE (ObjectMoved \/ TruckMoves) /\ UNCHANGED drawn
  BY <1>3 DEF ObjectMoved, TruckMoves, Table, drawn
<1>4. CASE Frame
  BY <1>4 DEF Frame, vars, Table
<1>5. CASE UNCHANGED allVars
  BY <1>5 DEF allVars, drawn, vars, Table
<1>6. QED
  BY <1>1, <1>2, <1>3, <1>4, <1>5 DEF AnimationNext

LEMMA NextTableInv == TableInv /\ [AnimationNext]_allVars => TableInv'
<1> SUFFICES ASSUME TableInv, [AnimationNext]_allVars PROVE TableInv'
  OBVIOUS
<1>1. kind \in Seq(Kinds) /\ Len(kind) \in Nat /\ NextId = Len(kind) + 1
  BY DEF TableInv, NextId
<1>2. ASSUME NEW k \in Kinds, NEW h, Grows(k, h), Ordered(h), Counted(h),
             \A n \in Ids : HtFound(h, n) => HtFound(Inserted, n)
      PROVE  TableInv'
  <2>1. kind' \in Seq(Kinds) /\ Len(kind') = Len(kind) + 1
    BY <1>1, <1>2 DEF Grows
  <2>2. Len(kind') <= MaxId
    BY <1>1, <1>2, <2>1 DEF Grows, Ids
  <2>3. Table' = h /\ h \in Tables
    BY <1>2 DEF Grows, Ordered
  <2>4. \A n \in Ids : HtFound(Table', n) => n <= Len(kind')
    <3>1. NextId \in Ids /\ \A n \in Ids : HtFound(Table, n) => n <= Len(kind)
      BY <1>2 DEF Grows, TableInv
    <3>2. \A n \in Ids : HtFound(Inserted, n) => HtFound(Table, n) \/ n = NextId
      BY <3>1, InsertedIs
    <3>3. QED
      BY <1>1, <1>2, <2>1, <2>3, <3>1, <3>2 DEF Ids
  <2>5. QED
    BY <1>2, <2>1, <2>2, <2>3, <2>4 DEF TableInv
<1>3. ASSUME UNCHANGED <<Table, kind>>
      PROVE  TableInv'
  BY <1>3 DEF TableInv
<1>4. ASSUME NEW k \in {"PRODUCT", "PATCH"}, Grows(k, Inserted)
      PROVE  TableInv'
  <2>1. Ordered(Inserted) /\ Counted(Inserted)
    BY <1>4, InsertedIs DEF Grows
  <2>2. QED
    BY <1>2, <1>4, <2>1 DEF Kinds
<1>5. ASSUME NEW p \in Unboxed, NEW q \in Unboxed,
             Grows("CARTON_BOX", HtDelete(HtDelete(Inserted, p), q))
      PROVE  TableInv'
  <2>1. p \in Ids /\ q \in Ids
    BY ObjectsAreIds
  <2>2. NextId \in Ids
    BY <1>5 DEF Grows
  <2>3. QED
    BY <1>2, <1>5, <2>1, <2>2, BoxedIs DEF Kinds
<1>6. QED
  BY <1>3, <1>4, <1>5, TableStep

-----------------------------------------------------------------------------
(* Objects that are not moved                                              *)

\* The object is where it appeared.
Unmoved(k) ==
  \/ coords[k] = [x |-> Entry.x + k, y |-> Entry.y]
  \/ kind[k] = "CARTON_BOX" /\ \E l \in BoxPlaces : coords[k] = Spot(l, 10)

\* An object whose id collides with that of an earlier one in the table is not moved.
BehindEntryStays ==
  \A n, k \in DOMAIN kind : n < k /\ Hash(n) = Hash(k) /\ HtFound(Table, n) => Unmoved(k)

StaysInv == TableInv /\ coords = [k \in Ids |-> coords[k]] /\ BehindEntryStays

\* The first entry of a bucket is the earliest.
LEMMA FirstIsEarliest ==
  ASSUME TableInv, NEW n \in Ids, NEW k \in Ids, n < k, Hash(n) = Hash(k), HtFound(Table, n)
  PROVE  item[Hash(k)] # k
<1>1. Table \in Tables /\ Ordered(Table) /\ Table.item = item /\ Table.chain = chain
  BY DEF TableInv, Table
<1>2. PICK b \in Buckets : b = Hash(k)
  BY HashIsBucket DEF Ids
<1>3. Has(item[b], chain[b], n)
  BY <1>1, <1>2, FoundIsIn
<1>4. \A j \in DOMAIN chain[b] : item[b] < chain[b][j]
  BY <1>1 DEF Ordered, OrderedBucket
<1>5. item[b] = n \/ item[b] < n
  BY <1>3, <1>4 DEF Has
<1>6. QED
  BY <1>2, <1>5 DEF Ids

\* A new object is where it appears, and the others where they were.
LEMMA NewObjectStays ==
  ASSUME StaysInv, TableInv', NEW k, NEW h, Grows(k, h), NEW c,
         coords' = [coords EXCEPT ![NextId] = c],
         \A n \in Ids : HtFound(h, n) => HtFound(Inserted, n),
         \/ c = [x |-> Entry.x + NextId, y |-> Entry.y]
         \/ k = "CARTON_BOX" /\ \E l \in BoxPlaces : c = Spot(l, 10)
  PROVE  StaysInv'
<1>1. /\ TableInv /\ coords = [n \in Ids |-> coords[n]]
      /\ NextId \in Ids /\ Table' = h /\ kind' = Append(kind, k)
  BY DEF StaysInv, Grows
<1>2. /\ Len(kind) \in Nat /\ DOMAIN kind = 1..Len(kind) /\ DOMAIN kind \subseteq Ids
      /\ kind \in Seq(Kinds) /\ NextId = Len(kind) + 1
  BY <1>1, ObjectsAreIds DEF TableInv, NextId
<1>3. /\ DOMAIN kind' = DOMAIN kind \cup {NextId} /\ kind'[NextId] = k
      /\ \A n \in DOMAIN kind : kind'[n] = kind[n] /\ n < NextId
  BY <1>1, <1>2
<1>4. /\ coords' = [n \in Ids |-> coords'[n]] /\ coords'[NextId] = c
      /\ \A n \in DOMAIN kind : coords'[n] = coords[n]
  BY <1>1, <1>2, <1>3
<1>5. ASSUME NEW n \in DOMAIN kind', NEW o \in DOMAIN kind', n < o, Hash(n) = Hash(o),
             HtFound(h, n)
      PROVE  Unmoved(o)'
  <2>1. CASE o = NextId
    BY <1>3, <1>4, <2>1 DEF Unmoved
  <2>2. CASE o # NextId
    <3>1. o \in DOMAIN kind /\ n \in DOMAIN kind
      <4>1. o \in DOMAIN kind /\ n < NextId
        BY <1>2, <1>3, <1>5, <2>2
      <4>2. QED
        BY <1>2, <1>3, <1>5, <4>1
    <3>2. HtFound(Table, n)
      BY <1>1, <1>2, <1>3, <1>5, <3>1, InsertedIs
    <3>3. Unmoved(o)
      BY <1>5, <3>1, <3>2 DEF StaysInv, BehindEntryStays
    <3>4. QED
      BY <1>3, <1>4, <3>1, <3>3 DEF Unmoved
  <2>3. QED
    BY <2>1, <2>2
<1>6. BehindEntryStays'
  BY <1>1, <1>5 DEF BehindEntryStays
<1>7. QED
  BY <1>4, <1>6 DEF StaysInv

LEMMA NextStaysInv == StaysInv /\ [AnimationNext]_allVars => StaysInv'
<1> SUFFICES ASSUME StaysInv, [AnimationNext]_allVars PROVE StaysInv'
  OBVIOUS
<1>1. TableInv /\ TableInv' /\ DOMAIN kind \subseteq Ids
  BY NextTableInv, ObjectsAreIds DEF StaysInv
<1>2. ASSUME NEW k \in {"PRODUCT", "PATCH"}, Grows(k, Inserted),
             coords' = [coords EXCEPT ![NextId] = [x |-> Entry.x + NextId, y |-> Entry.y]]
      PROVE  StaysInv'
  BY <1>1, <1>2, NewObjectStays
<1>3. ASSUME NEW p \in Unboxed, NEW q \in Unboxed, NEW l \in BoxPlaces,
             Grows("CARTON_BOX", HtDelete(HtDelete(Inserted, p), q)),
             coords' = [coords EXCEPT ![NextId] = Spot(l, 10)]
      PROVE  StaysInv'
  <2>1. p \in Ids /\ q \in Ids /\ NextId \in Ids
    BY <1>1, <1>3, ObjectsAreIds DEF Grows
  <2>2. \A n \in Ids : HtFound(HtDelete(HtDelete(Inserted, p), q), n) => HtFound(Inserted, n)
    BY <1>1, <2>1, BoxedIs
  <2>3. QED
    BY <1>1, <1>3, <2>2, NewObjectStays
<1>4. ASSUME UNCHANGED <<Table, kind>>,
             coords' = [k \in Ids |->
               IF item[Hash(k)] = k
                 THEN MovedTimes(1 + Len(chain[Hash(k)]), coords[k], Target(k))
                 ELSE coords[k]]
      PROVE  StaysInv'
  <2>1. \A k \in Ids : item[Hash(k)] # k => coords'[k] = coords[k]
    BY <1>4
  <2>2. coords' = [k \in Ids |-> coords'[k]]
    BY <1>4
  <2>3. ASSUME NEW n \in DOMAIN kind, NEW k \in DOMAIN kind, n < k, Hash(n) = Hash(k),
               HtFound(Table, n)
        PROVE  Unmoved(k)'
    <3>1. item[Hash(k)] # k
      BY <1>1, <2>3, FirstIsEarliest
    <3>2. Unmoved(k)
      BY <2>3 DEF StaysInv, BehindEntryStays
    <3>3. QED
      BY <1>1, <1>4, <2>1, <3>1, <3>2 DEF Unmoved
  <2>4. BehindEntryStays'
    BY <1>4, <2>3 DEF BehindEntryStays
  <2>5. QED
    BY <1>1, <2>2, <2>4 DEF StaysInv
<1>5. ASSUME UNCHANGED <<Table, kind, coords>>
      PROVE  StaysInv'
  BY <1>1, <1>5 DEF StaysInv, BehindEntryStays, Unmoved
<1>6. QED
  BY <1>1, <1>2, <1>3, <1>4, <1>5, TableStep

LEMMA InitStaysInv == AnimationInit => StaysInv
<1> SUFFICES ASSUME AnimationInit PROVE StaysInv
  OBVIOUS
<1>1. TableInv
  BY InitTableInv DEF AnimationInit
<1>2. coords = [k \in Ids |-> coords[k]] /\ kind = <<>>
  BY DEF AnimationInit, Init
<1>3. QED
  BY <1>1, <1>2 DEF StaysInv, BehindEntryStays

-----------------------------------------------------------------------------
(* The table without collisions                                            *)

\* No id collides with that of a patch.
NoCollision == \A p \in Of("PATCH"), k \in DOMAIN kind : Hash(p) = Hash(k) => p = k

\* The table holds the objects that are not in a box, and only others were freed.
Exact ==
  /\ freed \subseteq boxed
  /\ \A k \in DOMAIN kind : HtFound(Table, k) <=> k \notin boxed

ExactInv == TableInv /\ boxed \subseteq DOMAIN kind /\ (NoCollision => Exact)

\* A patch alone in its bucket is deleted, and nothing else.
LEMMA DeletesAlone ==
  ASSUME NEW h \in Tables, Ordered(h), Counted(h), NEW p \in Ids,
         \A n \in Ids : HtFound(h, n) /\ Hash(n) = Hash(p) <=> n = p
  PROVE  /\ HtDelete(h, p).freed = h.freed \cup {p}
         /\ \A n \in Ids : HtFound(HtDelete(h, p), n) <=> HtFound(h, n) /\ n # p
<1>1. PICK g \in Tables : g = HtDelete(h, p)
  BY Deletion
<1>2. ~HtFound(g, p) /\ g.freed = h.freed \cup {p}
  BY <1>1, Deletion
<1>3. \A n \in Ids : HtFound(g, n) => HtFound(h, n)
  BY <1>1, Deletion
<1>4. \A n \in Ids : HtFound(h, n) /\ Hash(n) # Hash(p) => HtFound(g, n)
  BY <1>1, Deletion
<1>5. QED
  BY <1>1, <1>2, <1>3, <1>4

LEMMA NextExactInv == ExactInv /\ [AnimationNext]_allVars => ExactInv'
<1> SUFFICES ASSUME ExactInv, [AnimationNext]_allVars PROVE ExactInv'
  OBVIOUS
<1>1. /\ TableInv /\ TableInv'
      /\ Len(kind) \in Nat /\ DOMAIN kind = 1..Len(kind) /\ DOMAIN kind \subseteq Ids
      /\ kind \in Seq(Kinds) /\ NextId = Len(kind) + 1 /\ boxed \subseteq DOMAIN kind
  BY NextTableInv, ObjectsAreIds DEF ExactInv, TableInv, NextId
<1>2. ASSUME NEW k, NEW h, Grows(k, h)
      PROVE  /\ DOMAIN kind' = DOMAIN kind \cup {NextId} /\ NextId \in Ids
             /\ \A n \in DOMAIN kind : kind'[n] = kind[n] /\ n # NextId
             /\ Table' = h /\ freed' = h.freed
             /\ \A n \in Ids : HtFound(Inserted, n) <=> HtFound(Table, n) \/ n = NextId
             /\ Inserted.freed = freed
             /\ NoCollision' => NoCollision /\ Exact
  <2>1. /\ DOMAIN kind' = DOMAIN kind \cup {NextId} /\ NextId \in Ids
        /\ \A n \in DOMAIN kind : kind'[n] = kind[n] /\ n # NextId
    BY <1>1, <1>2 DEF Grows
  <2>2. NoCollision' => NoCollision
    BY <2>1 DEF NoCollision, Of
  <2>3. Table' = h /\ Table'.freed = freed'
    BY <1>2 DEF Grows, Table
  <2>4. QED
    BY <1>1, <2>1, <2>2, <2>3, InsertedIs DEF ExactInv
<1>3. ASSUME NEW k, Grows(k, Inserted), boxed' = boxed
      PROVE  ExactInv'
  <2>1. boxed' \subseteq DOMAIN kind'
    BY <1>1, <1>2, <1>3
  <2>2. ASSUME NoCollision'
        PROVE  Exact'
    <3>1. Exact
      BY <1>2, <1>3, <2>2
    <3>2. freed' \subseteq boxed'
      BY <1>2, <1>3, <3>1 DEF Exact
    <3>3. ASSUME NEW n \in DOMAIN kind'
          PROVE  HtFound(Table', n) <=> n \notin boxed'
      BY <1>1, <1>2, <1>3, <3>1, <3>3 DEF Exact
    <3>4. QED
      BY <3>2, <3>3 DEF Exact
  <2>3. QED
    BY <1>1, <2>1, <2>2 DEF ExactInv
<1>4. ASSUME NEW p \in Unboxed, NEW q \in Unboxed, p < q, boxed' = boxed \cup {p, q},
             Grows("CARTON_BOX", HtDelete(HtDelete(Inserted, p), q))
      PROVE  ExactInv'
  <2>1. /\ p \in DOMAIN kind /\ q \in DOMAIN kind /\ p \in Ids /\ q \in Ids /\ NextId \in Ids
        /\ p # q /\ p \notin boxed /\ q \notin boxed /\ p \in Of("PATCH") /\ q \in Of("PATCH")
    BY <1>1, <1>2, <1>4 DEF Unboxed, Of
  <2>2. Inserted \in Tables /\ Ordered(Inserted) /\ Counted(Inserted)
    BY <1>1, <2>1, InsertedIs
  <2>3. PICK g \in Tables : g = HtDelete(Inserted, p) /\ Ordered(g) /\ Counted(g)
    BY <1>1, <2>1, BoxedIs
  <2>4. boxed' \subseteq DOMAIN kind'
    BY <1>1, <1>2, <1>4, <2>1
  <2>5. ASSUME NoCollision'
        PROVE  Exact'
    <3>1. Exact
      BY <1>2, <1>4, <2>5
    <3>2. ASSUME NEW n \in Ids, HtFound(Inserted, n)
          PROVE  n \in DOMAIN kind'
      <4>1. n <= Len(kind) \/ n = NextId
        BY <1>1, <1>2, <1>4, <3>2 DEF TableInv
      <4>2. QED
        BY <1>1, <1>2, <1>4, <4>1 DEF Ids
    <3>3. ASSUME NEW r \in {p, q}, NEW n \in DOMAIN kind', Hash(n) = Hash(r)
          PROVE  n = r
      <4>1. r \in DOMAIN kind' /\ kind'[r] = "PATCH"
        BY <1>2, <1>4, <2>1 DEF Of
      <4>2. QED
        BY <2>5, <3>3, <4>1 DEF NoCollision, Of
    <3>4. HtFound(Inserted, p) /\ HtFound(Inserted, q)
      BY <1>2, <1>4, <2>1, <3>1 DEF Exact
    <3>5. \A n \in Ids : HtFound(Inserted, n) /\ Hash(n) = Hash(p) <=> n = p
      BY <3>2, <3>3, <3>4
    <3>6. /\ g.freed = freed \cup {p}
          /\ \A n \in Ids : HtFound(g, n) <=> HtFound(Inserted, n) /\ n # p
      BY <1>2, <1>4, <2>1, <2>2, <2>3, <3>5, DeletesAlone
    <3>7. \A n \in Ids : HtFound(g, n) /\ Hash(n) = Hash(q) <=> n = q
      BY <2>1, <3>2, <3>3, <3>4, <3>6
    <3>8. /\ HtDelete(g, q).freed = freed \cup {p, q}
          /\ \A n \in Ids : HtFound(HtDelete(g, q), n) <=> HtFound(Inserted, n) /\ n \notin {p, q}
      BY <2>1, <2>3, <3>6, <3>7, DeletesAlone
    <3>9. Table' = HtDelete(g, q) /\ freed' = HtDelete(g, q).freed
      BY <1>2, <1>4, <2>3
    <3>10. freed' \subseteq boxed'
      BY <1>4, <3>1, <3>8, <3>9 DEF Exact
    <3>11. ASSUME NEW n \in DOMAIN kind'
           PROVE  HtFound(Table', n) <=> n \notin boxed'
      <4>1. HtFound(Inserted, n) <=> n \notin boxed
        BY <1>1, <1>2, <1>4, <3>1 DEF Exact
      <4>2. n \in Ids
        BY <1>1, <1>2, <1>4
      <4>3. QED
        BY <1>4, <3>8, <3>9, <4>1, <4>2
    <3>12. QED
      BY <3>10, <3>11 DEF Exact
  <2>6. QED
    BY <1>1, <2>4, <2>5 DEF ExactInv
<1>5. ASSUME UNCHANGED <<Table, kind, boxed>>
      PROVE  ExactInv'
  <2>1. freed' = freed
    BY <1>5 DEF Table
  <2>2. QED
    BY <1>1, <1>5, <2>1 DEF ExactInv, NoCollision, Exact, Of
<1>6. \/ \E k \in {"PRODUCT", "PATCH"} : Grows(k, Inserted) /\ boxed' = boxed
      \/ \E p, q \in Unboxed : /\ p < q /\ boxed' = boxed \cup {p, q}
                              /\ Grows("CARTON_BOX", HtDelete(HtDelete(Inserted, p), q))
      \/ UNCHANGED <<Table, kind, boxed>>
  BY <1>1, TableStep
<1>7. QED
  BY <1>3, <1>4, <1>5, <1>6

LEMMA InitExactInv == Init => ExactInv
<1> SUFFICES ASSUME Init PROVE ExactInv
  OBVIOUS
<1>1. kind = <<>> /\ freed = {} /\ boxed = {}
  BY DEF Init
<1>2. QED
  BY <1>1, InitTableInv DEF ExactInv, Exact

\* What the invariant says of the entries.
LEMMA ExactIsExact == ExactInv => ExactWithoutCollision
<1> SUFFICES ASSUME ExactInv, NoCollision PROVE DeletesOneObject
  BY DEF ExactWithoutCollision, NoCollision
<1>1. Exact /\ TableInv /\ boxed \subseteq DOMAIN kind /\ DOMAIN kind \subseteq Ids
  BY ObjectsAreIds DEF ExactInv
<1>2. ASSUME NEW b \in Buckets, NEW n \in freed, n \in {item[b]} \cup ToSet(chain[b])
      PROVE  FALSE
  <2>1. n \in boxed /\ n \in Ids /\ n \in DOMAIN kind
    BY <1>1 DEF Exact
  <2>2. Table \in Tables /\ Ordered(Table) /\ Table.item = item /\ Table.chain = chain
    BY <1>1 DEF TableInv, Table
  <2>3. Has(item[b], chain[b], n)
    BY <1>2 DEF Has, ToSet
  <2>4. HtFound(Table, n)
    BY <2>1, <2>2, <2>3, FoundIsIn
  <2>5. QED
    BY <1>1, <2>1, <2>4 DEF Exact
<1>3. Intact
  BY <1>2 DEF Intact
<1>4. QED
  BY <1>1, <1>3 DEF DeletesOneObject, Exact

-----------------------------------------------------------------------------
(* Spots and steps                                                         *)

\* The steps of the code are those of MovedTimes: a further step of length t on the
\* way to d, or its half vertically, makes one of length s + t.
LEMMA TowardComposes ==
  ASSUME NEW p \in Int, NEW d \in Int, NEW s \in Nat, NEW t \in Nat
  PROVE  Toward(Toward(p, d, s), d, t) = Toward(p, d, s + t)
<1>1. CASE p = d
  BY <1>1 DEF Toward, Abs
<1>2. CASE p > d
  BY <1>2 DEF Toward, Abs
<1>3. CASE p < d
  BY <1>3 DEF Toward, Abs
<1>4. QED
  BY <1>1, <1>2, <1>3

\* A step ends between its ends, and no farther from d.
LEMMA TowardBetween ==
  ASSUME NEW p \in Int, NEW d \in Int, NEW s \in Nat
  PROVE  /\ Toward(p, d, s) \in Int
         /\ \/ p <= Toward(p, d, s) /\ Toward(p, d, s) <= d
            \/ d <= Toward(p, d, s) /\ Toward(p, d, s) <= p
         /\ Abs(Toward(p, d, s) - d) <= Abs(p - d)
BY DEF Toward, Abs

\* Every spot of a location is in the room between its left end and its right end.
LEMMA SpotInside ==
  ASSUME NEW l \in DOMAIN Place, NEW i \in Nat
  PROVE  /\ Spot(l, i) \in [x : Int, y : Int]
         /\ Place[l].x <= Spot(l, i).x /\ Spot(l, i).x < Place[l].x + Place[l].width
<1>1. /\ Place[l].x \in Int /\ Place[l].y \in Int /\ Place[l].width \in Nat
      /\ Place[l].height \in Nat /\ Place[l].width >= Padding
      /\ Padding \in Nat /\ Padding > 0 /\ Margin \in Nat
  BY SpaceAssumption
<1>2. PICK w \in Nat, p \in Nat : w = Place[l].width /\ p = Padding /\ p > 0 /\ w >= p
  BY <1>1
<1>3. PICK m \in Nat : m = w \div p /\ m >= 1 /\ m * p <= w
  <2>1. /\ w \div p \in Int /\ w = p * (w \div p) + (w % p)
        /\ 0 <= (w % p) /\ (w % p) < p /\ (w % p) \in Int
    <3>1. w \div p \in Int /\ (w % p) \in 0..p - 1
      BY <1>2
    <3>2. w = p * (w \div p) + (w % p)
      BY <1>2
    <3>3. QED
      BY <1>2, <3>1, <3>2
  <2>2. PICK m \in Int, e \in Int : m = w \div p /\ w = p * m + e /\ 0 <= e /\ e < p
    <3>1. PICK m \in Int, e \in Int : m = w \div p /\ e = (w % p)
      BY <2>1
    <3>2. w = p * m + e /\ 0 <= e /\ e < p
      BY <2>1, <3>1
    <3>3. QED
      BY <3>1, <3>2
  <2>3. p * m <= w /\ w < p * m + p
    <3>1. p * m \in Int
      BY <1>2, <2>2
    <3>2. QED
      BY <1>2, <2>2, <3>1
  <2>4. m >= 1
    <3>1. ASSUME m <= 0
          PROVE  FALSE
      <4>1. p * m <= 0
        BY <1>2, <2>2, <3>1
      <4>2. QED
        BY <1>2, <2>3, <4>1
    <3>2. QED
      BY <2>2, <3>1
  <2>5. QED
    BY <1>2, <2>2, <2>3, <2>4
<1>4. (i % m) \in 0..m - 1 /\ i \div m \in Int
  BY <1>3
<1>5. PICK c \in 1..m, r \in Int : c = m - (i % m) /\ r = i \div m
  BY <1>3, <1>4
<1>6. c * p \in Nat /\ c * p <= m * p /\ c * p > 0
  BY <1>2, <1>3, <1>5
<1>7. Spot(l, i) = [x |-> Place[l].x + Place[l].width - c * Padding,
                    y |-> Place[l].y - Margin + Place[l].height - r * Padding]
  BY <1>2, <1>3, <1>5 DEF Spot
<1>8. r * Padding \in Int /\ c * Padding = c * p
  BY <1>1, <1>2, <1>5
<1>9. Place[l].x + Place[l].width - c * Padding \in Int
  BY <1>1, <1>6, <1>8
<1>10. Place[l].y - Margin + Place[l].height - r * Padding \in Int
  BY <1>1, <1>8
<1>11. /\ Place[l].x <= Place[l].x + Place[l].width - c * Padding
       /\ Place[l].x + Place[l].width - c * Padding < Place[l].x + Place[l].width
  BY <1>1, <1>2, <1>3, <1>6, <1>8
<1>12. QED
  BY <1>7, <1>9, <1>10, <1>11

LEMMA SpotOnScreen ==
  ASSUME NEW l \in DOMAIN Place, NEW i \in Nat
  PROVE  OnScreen(Spot(l, i))
<1>1. Place[l].x \in Int /\ Place[l].width \in Nat
  BY SpaceAssumption
<1>2. Place[l].x \in LeftEnds /\ Place[l].x + Place[l].width \in RightEnds
  BY DEF LeftEnds, RightEnds
<1>3. /\ Spot(l, i).x \in Int
      /\ Place[l].x <= Spot(l, i).x /\ Spot(l, i).x < Place[l].x + Place[l].width
  BY SpotInside
<1>4. Spot(l, i).x <= Place[l].x + Place[l].width
  BY <1>1, <1>3
<1>5. QED
  BY <1>2, <1>3, <1>4, SpotInside DEF OnScreen

\* Objects appear on the screen.
LEMMA EntryOnScreen ==
  ASSUME NEW k \in Ids
  PROVE  OnScreen([x |-> Entry.x + k, y |-> Entry.y])
<1>1. Entry.x \in Int /\ Entry.y \in Int /\ k \in Nat /\ k >= 1 /\ k <= MaxId /\ MaxId \in Nat
  BY SpaceAssumption, TableAssumption DEF Ids
<1>2. Entry.x \in LeftEnds /\ Entry.x + MaxId \in RightEnds
  BY DEF LeftEnds, RightEnds
<1>3. Entry.x + k \in Int /\ Entry.x <= Entry.x + k /\ Entry.x + k <= Entry.x + MaxId
  BY <1>1
<1>4. QED
  BY <1>1, <1>2, <1>3 DEF OnScreen

\* On the way between two points of the screen an object is on the screen.
LEMMA MovedOnScreen ==
  ASSUME NEW n \in Nat, NEW c, NEW d, OnScreen(c), OnScreen(d)
  PROVE  /\ OnScreen(MovedTimes(n, c, d))
         /\ Abs(MovedTimes(n, c, d).x - d.x) <= Abs(c.x - d.x)
         /\ Abs(MovedTimes(n, c, d).y - d.y) <= Abs(c.y - d.y)
<1>1. c.x \in Int /\ c.y \in Int /\ d.x \in Int /\ d.y \in Int
  BY DEF OnScreen
<1>2. PICK a \in RightEnds, e \in LeftEnds : c.x <= a /\ e <= c.x
  BY DEF OnScreen
<1>3. PICK b \in RightEnds, f \in LeftEnds : d.x <= b /\ f <= d.x
  BY DEF OnScreen
<1>4. a \in Int /\ b \in Int /\ e \in Int /\ f \in Int
  BY SpaceAssumption, TableAssumption DEF LeftEnds, RightEnds
<1>5. PICK s \in Nat, t \in Nat : s = n * Step /\ t = n * (Step \div 2)
  <2>1. Step \in Nat /\ Step \div 2 \in Nat
    BY SpaceAssumption
  <2>2. QED
    BY <2>1
<1>6. PICK x \in Int, y \in Int :
        /\ MovedTimes(n, c, d) = [x |-> x, y |-> y]
        /\ (c.x <= x /\ x <= d.x) \/ (d.x <= x /\ x <= c.x)
        /\ Abs(x - d.x) <= Abs(c.x - d.x) /\ Abs(y - d.y) <= Abs(c.y - d.y)
  <2>1. MovedTimes(n, c, d) = [x |-> Toward(c.x, d.x, s), y |-> Toward(c.y, d.y, t)]
    BY <1>5 DEF MovedTimes
  <2>2. PICK x \in Int, y \in Int : x = Toward(c.x, d.x, s) /\ y = Toward(c.y, d.y, t)
    BY <1>1, TowardBetween
  <2>3. QED
    BY <1>1, <2>1, <2>2, TowardBetween
<1>7. (e <= x \/ f <= x) /\ (x <= a \/ x <= b)
  BY <1>1, <1>2, <1>3, <1>4, <1>6
<1>8. OnScreen([x |-> x, y |-> y])
  BY <1>2, <1>3, <1>7 DEF OnScreen
<1>9. QED
  BY <1>6, <1>8

-----------------------------------------------------------------------------
(* Where things are drawn                                                  *)

\* Every object has a place, and is drawn on the screen.
ScreenInv ==
  /\ TableInv /\ boxed \subseteq Ids
  /\ location \in [Ids -> 0..Truck] /\ index \in [Ids -> 0..10] /\ moves \in [Ids -> 0..4]
  /\ truck \in [Trucks -> {"PARKED", "LEFT"}] /\ distance \in [Trucks -> 0..Away]
  /\ coords = [k \in Ids |-> coords[k]]
  /\ \A k \in DOMAIN kind : location[k] \in DOMAIN Place /\ OnScreen(coords[k])

\* The places and indices of a route.
LEMMA RouteIs ==
  ASSUME NEW k \in Kinds
  PROVE  /\ Len(Route(k)) \in 0..4
         /\ \A j \in 1..Len(Route(k)) : /\ Route(k)[j][1] \in Line..Truck
                                        /\ Route(k)[j][2] \subseteq 0..10
<1> USE DEF Line, Patching, Printer, Container, StorageArea, Truck
<1>1. CASE k = "PRODUCT"
  <2>1. Route(k) = <<<<Line, {3}>>, <<Patching, {0}>>>>
    BY <1>1 DEF Route
  <2>2. QED
    BY <2>1
<1>2. CASE k = "PATCH"
  <2>1. Route(k) =
          <<<<Patching, {3}>>, <<Printer, {7}>>, <<Printer, {3}>>, <<Container, {3, 8}>>>>
    BY <1>2 DEF Route
  <2>2. QED
    BY <2>1
<1>3. CASE k = "CARTON_BOX"
  <2>1. Route(k) = <<<<StorageArea, {0}>>, <<Truck, {0}>>>>
    BY <1>3 DEF Route
  <2>2. QED
    BY <2>1
<1>4. QED
  BY <1>1, <1>2, <1>3 DEF Kinds

LEMMA PlacesAre == DOMAIN Place = Line..Truck /\ Line..Truck = 1..6 /\ 0..Truck = 0..6
BY SpaceAssumption DEF Line, Truck

LEMMA InitScreenInv == AnimationInit => ScreenInv
<1> SUFFICES ASSUME AnimationInit PROVE ScreenInv
  OBVIOUS
<1>1. TableInv
  BY InitTableInv DEF AnimationInit
<1>2. /\ kind = <<>> /\ boxed = {}
      /\ location = [k \in Ids |-> 0] /\ index = [k \in Ids |-> 0] /\ moves = [k \in Ids |-> 0]
      /\ truck = [n \in Trucks |-> "PARKED"]
  BY DEF AnimationInit, Init
<1>3. coords = [k \in Ids |-> Entry] /\ distance = [n \in Trucks |-> Away] /\ Away \in Nat
  BY SpaceAssumption DEF AnimationInit
<1>4. distance \in [Trucks -> 0..Away] /\ coords = [k \in Ids |-> coords[k]]
  BY <1>3
<1>5. QED
  BY <1>1, <1>2, <1>4, PlacesAre DEF ScreenInv

\* A new object has a place and is on the screen.
LEMMA AppearKeepsScreen ==
  ASSUME ScreenInv, TableInv', NEW k, NEW l \in DOMAIN Place, NEW i \in 0..10, NEW h,
         Created(k, l, i, h), NEW c, OnScreen(c), Appears(c), boxed' \subseteq Ids
  PROVE  ScreenInv'
<1>1. /\ DOMAIN kind' = DOMAIN kind \cup {NextId} /\ NextId \in Ids /\ NextId \notin DOMAIN kind
      /\ DOMAIN kind \subseteq Ids
  BY ObjectsAreIds DEF ScreenInv, Created, NextId, TableInv
<1>2. /\ location' = [location EXCEPT ![NextId] = l] /\ index' = [index EXCEPT ![NextId] = i]
      /\ coords' = [coords EXCEPT ![NextId] = c] /\ UNCHANGED <<moves, truck, distance>>
  BY DEF Created, Appears
<1>3. /\ location \in [Ids -> 0..Truck] /\ index \in [Ids -> 0..10]
      /\ coords = [n \in Ids |-> coords[n]]
      /\ \A n \in DOMAIN kind : location[n] \in DOMAIN Place /\ OnScreen(coords[n])
  BY DEF ScreenInv
<1>4. l \in 0..Truck
  BY PlacesAre
<1>5. location' \in [Ids -> 0..Truck] /\ index' \in [Ids -> 0..10]
  BY <1>2, <1>3, <1>4
<1>6. /\ coords' = [n \in Ids |-> coords'[n]] /\ coords'[NextId] = c
      /\ \A n \in DOMAIN kind : coords'[n] = coords[n]
  BY <1>1, <1>2, <1>3
<1>7. location'[NextId] = l /\ \A n \in DOMAIN kind : location'[n] = location[n]
  BY <1>1, <1>2, <1>3
<1>8. \A n \in DOMAIN kind' : location'[n] \in DOMAIN Place /\ OnScreen(coords'[n])
  BY <1>1, <1>3, <1>6, <1>7
<1>9. moves' \in [Ids -> 0..4] /\ truck' \in [Trucks -> {"PARKED", "LEFT"}]
      /\ distance' \in [Trucks -> 0..Away]
  BY <1>2 DEF ScreenInv
<1>10. QED
  BY <1>5, <1>6, <1>8, <1>9 DEF ScreenInv

LEMMA MessagesKeepScreen ==
  ASSUME ScreenInv, TableInv', ObjectMoved \/ TruckMoves, UNCHANGED drawn
  PROVE  ScreenInv'
<1>1. CASE ObjectMoved
  <2>1. PICK k, j, i :
          /\ k \in DOMAIN kind /\ j \in 1..Len(Route(kind[k])) /\ i \in Route(kind[k])[j][2]
          /\ j = moves[k] + 1 /\ moves' = [moves EXCEPT ![k] = @ + 1]
          /\ \/ /\ location' = [location EXCEPT ![k] = Route(kind[k])[j][1]]
                /\ index' = [index EXCEPT ![k] = i]
             \/ UNCHANGED <<location, index>>
    <3>1. PICK k \in {n \in DOMAIN kind : moves[n] < Len(Route(kind[n]))} :
            \E i \in Route(kind[k])[moves[k] + 1][2] :
              /\ moves' = [moves EXCEPT ![k] = @ + 1]
              /\ \/ /\ location' = [location EXCEPT ![k] = Route(kind[k])[moves[k] + 1][1]]
                    /\ index' = [index EXCEPT ![k] = i]
                 \/ UNCHANGED <<location, index>>
      BY <1>1 DEF ObjectMoved
    <3>2. kind[k] \in Kinds /\ k \in Ids
      BY ObjectsAreIds DEF ScreenInv, TableInv
    <3>3. moves \in [Ids -> 0..4]
      BY DEF ScreenInv
    <3>4. moves[k] + 1 \in 1..Len(Route(kind[k]))
      BY <3>2, <3>3, RouteIs
    <3>5. QED
      BY <3>1, <3>4
  <2>2. kind[k] \in Kinds /\ k \in Ids /\ DOMAIN kind \subseteq Ids
    BY <2>1, ObjectsAreIds DEF ScreenInv, TableInv
  <2>3. /\ j \in 1..4 /\ Route(kind[k])[j][1] \in DOMAIN Place /\ i \in 0..10
    BY <2>1, <2>2, RouteIs, PlacesAre
  <2>4. PICK l \in DOMAIN Place : l = Route(kind[k])[j][1]
    BY <2>3
  <2>5. l \in 0..Truck
    BY PlacesAre
  <2>6. /\ location \in [Ids -> 0..Truck] /\ index \in [Ids -> 0..10] /\ moves \in [Ids -> 0..4]
        /\ \A n \in DOMAIN kind : location[n] \in DOMAIN Place
    BY DEF ScreenInv
  <2>7. moves' \in [Ids -> 0..4]
    BY <2>1, <2>2, <2>3, <2>6
  <2>8. location' \in [Ids -> 0..Truck] /\ index' \in [Ids -> 0..10]
    <3>1. /\ [location EXCEPT ![k] = l] \in [Ids -> 0..Truck]
          /\ [index EXCEPT ![k] = i] \in [Ids -> 0..10]
      BY <2>2, <2>3, <2>5, <2>6
    <3>2. QED
      BY <2>1, <2>4, <2>6, <3>1
  <2>9. \A n \in DOMAIN kind : location'[n] \in DOMAIN Place
    BY <2>1, <2>2, <2>4, <2>6
  <2>10. UNCHANGED <<kind, boxed, truck, coords, distance>>
    BY <1>1 DEF ObjectMoved, drawn
  <2>11. QED
    BY <2>7, <2>8, <2>9, <2>10 DEF ScreenInv
<1>2. CASE TruckMoves
  <2>1. truck' \in [Trucks -> {"PARKED", "LEFT"}]
    BY <1>2 DEF TruckMoves, ScreenInv, Trucks
  <2>2. UNCHANGED <<kind, boxed, location, index, moves, coords, distance>>
    BY <1>2 DEF TruckMoves, drawn
  <2>3. QED
    BY <2>1, <2>2 DEF ScreenInv
<1>3. QED
  BY <1>1, <1>2

\* A frame draws things on the screen, no farther from where they belong.
LEMMA FrameIs ==
  ASSUME ScreenInv, Frame
  PROVE  /\ \A k \in DOMAIN kind :
              /\ OnScreen(coords'[k])
              /\ Abs(coords'[k].x - Target(k).x) <= Abs(coords[k].x - Target(k).x)
              /\ Abs(coords'[k].y - Target(k).y) <= Abs(coords[k].y - Target(k).y)
         /\ coords' = [k \in Ids |-> coords'[k]]
         /\ distance' \in [Trucks -> 0..Away]
         /\ \A n \in Trucks : Abs(distance'[n] - Parking(truck[n])) <=
                              Abs(distance[n] - Parking(truck[n]))
<1>1. coords' = [k \in Ids |-> IF item[Hash(k)] = k
                                THEN MovedTimes(1 + Len(chain[Hash(k)]), coords[k], Target(k))
                                ELSE coords[k]]
  BY DEF Frame
<1>2. ASSUME NEW k \in DOMAIN kind
      PROVE  /\ OnScreen(coords'[k])
             /\ Abs(coords'[k].x - Target(k).x) <= Abs(coords[k].x - Target(k).x)
             /\ Abs(coords'[k].y - Target(k).y) <= Abs(coords[k].y - Target(k).y)
  <2>1. k \in Ids /\ OnScreen(coords[k]) /\ location[k] \in DOMAIN Place /\ index[k] \in Nat
    <3>1. k \in Ids /\ index \in [Ids -> 0..10]
      BY ObjectsAreIds DEF ScreenInv
    <3>2. QED
      BY <3>1 DEF ScreenInv
  <2>2. OnScreen(Target(k))
    BY <2>1, SpotOnScreen DEF Target
  <2>3. CASE item[Hash(k)] = k
    <3>1. Hash(k) \in Buckets
      BY <2>1, HashIsBucket DEF Ids
    <3>2. 1 + Len(chain[Hash(k)]) \in Nat
      BY <3>1 DEF ScreenInv, TableInv, Tables, Table
    <3>3. coords'[k] = MovedTimes(1 + Len(chain[Hash(k)]), coords[k], Target(k))
      BY <1>1, <2>1, <2>3
    <3>4. QED
      BY <2>1, <2>2, <3>2, <3>3, MovedOnScreen
  <2>4. CASE item[Hash(k)] # k
    <3>1. coords'[k] = coords[k]
      BY <1>1, <2>1, <2>4
    <3>2. coords[k].x - Target(k).x \in Int /\ coords[k].y - Target(k).y \in Int
      BY <2>1, <2>2 DEF OnScreen
    <3>3. QED
      BY <2>1, <3>1, <3>2 DEF Abs
  <2>5. QED
    BY <2>3, <2>4
<1>3. coords' = [k \in Ids |-> coords'[k]]
  BY <1>1
<1>4. ASSUME NEW n \in Trucks
      PROVE  /\ distance'[n] \in 0..Away
             /\ Abs(distance'[n] - Parking(truck[n])) <= Abs(distance[n] - Parking(truck[n]))
  <2>1. distance'[n] = Toward(distance[n], Parking(truck[n]), TruckStep)
    BY DEF Frame, TrucksMove
  <2>2. distance[n] \in 0..Away /\ Away \in Nat /\ TruckStep \in Nat
    BY SpaceAssumption DEF ScreenInv
  <2>3. Parking(truck[n]) \in 0..Away
    BY <2>2 DEF Parking
  <2>4. PICK p \in 0..Away, d \in 0..Away : p = distance[n] /\ d = Parking(truck[n])
    BY <2>2, <2>3
  <2>5. p \in Int /\ d \in Int
    BY <2>2, <2>4
  <2>6. PICK e \in Int : e = Toward(p, d, TruckStep)
    BY <2>2, <2>5, TowardBetween
  <2>7. /\ (p <= e /\ e <= d) \/ (d <= e /\ e <= p)
        /\ Abs(e - d) <= Abs(p - d)
    BY <2>2, <2>5, <2>6, TowardBetween
  <2>8. e \in 0..Away
    BY <2>2, <2>4, <2>6, <2>7
  <2>9. QED
    BY <2>1, <2>4, <2>6, <2>7, <2>8
<1>5. distance' = [n \in Trucks |-> distance'[n]]
  BY DEF Frame, TrucksMove
<1>6. distance' \in [Trucks -> 0..Away]
  BY <1>4, <1>5
<1>7. QED
  BY <1>2, <1>3, <1>4, <1>6

LEMMA NextScreenInv == ScreenInv /\ [AnimationNext]_allVars => ScreenInv'
<1> SUFFICES ASSUME ScreenInv, [AnimationNext]_allVars PROVE ScreenInv'
  OBVIOUS
<1>1. TableInv /\ TableInv'
  BY NextTableInv DEF ScreenInv
<1>2. CASE ObjectAppears
  <2>1. PICK k \in {"PRODUCT", "PATCH"}, l \in {Line, Patching} :
          Created(k, l, 0, Inserted) /\ boxed' = boxed
    BY <1>2 DEF ObjectAppears, ProductCreated, PatchCreated
  <2>2. NextId \in Ids
    BY <2>1 DEF Created
  <2>3. OnScreen([x |-> Entry.x + NextId, y |-> Entry.y])
    BY <2>2, EntryOnScreen
  <2>4. Appears([x |-> Entry.x + NextId, y |-> Entry.y])
    BY <1>2 DEF ObjectAppears
  <2>5. l \in DOMAIN Place /\ boxed' \subseteq Ids
    BY <2>1, PlacesAre DEF Line, Patching, ScreenInv
  <2>6. QED
    BY <1>1, <2>1, <2>3, <2>4, <2>5, AppearKeepsScreen
<1>3. CASE BoxAppears
  <2>1. PICK p \in Unboxed, q \in Unboxed :
          /\ Created("CARTON_BOX", StorageArea, 8, HtDelete(HtDelete(Inserted, p), q))
          /\ boxed' = boxed \cup {p, q}
    BY <1>3 DEF BoxAppears, BoxCreated
  <2>2. PICK l \in BoxPlaces : Appears(Spot(l, 10))
    BY <1>3 DEF BoxAppears
  <2>3. OnScreen(Spot(l, 10))
    BY SpaceAssumption, SpotOnScreen
  <2>4. boxed' \subseteq Ids /\ StorageArea \in DOMAIN Place
    BY <1>1, <2>1, ObjectsAreIds, PlacesAre DEF ScreenInv, StorageArea
  <2>5. QED
    BY <1>1, <2>1, <2>2, <2>3, <2>4, AppearKeepsScreen
<1>4. CASE (ObjectMoved \/ TruckMoves) /\ UNCHANGED drawn
  BY <1>1, <1>4, MessagesKeepScreen
<1>5. CASE Frame
  <2>1. /\ \A k \in DOMAIN kind : OnScreen(coords'[k])
        /\ coords' = [k \in Ids |-> coords'[k]] /\ distance' \in [Trucks -> 0..Away]
    BY <1>5, FrameIs
  <2>2. UNCHANGED vars
    BY <1>5 DEF Frame
  <2>3. QED
    BY <1>1, <2>1, <2>2 DEF ScreenInv, vars
<1>6. CASE UNCHANGED allVars
  BY <1>1, <1>6 DEF ScreenInv, allVars, vars, drawn
<1>7. QED
  BY <1>2, <1>3, <1>4, <1>5, <1>6 DEF AnimationNext

-----------------------------------------------------------------------------
(* The theorems                                                            *)

LEMMA TableInvHolds == AnimationSpec => []TableInv
<1>1. AnimationInit => TableInv
  BY InitTableInv DEF AnimationInit
<1>2. QED
  BY <1>1, NextTableInv, PTL DEF AnimationSpec

LEMMA ScreenInvHolds == AnimationSpec => []ScreenInv
BY InitScreenInv, NextScreenInv, PTL DEF AnimationSpec

\* Every variable keeps its type: every entry of the table is an id, and everything is
\* drawn between the left ends and the right ends of the locations and of the row where
\* objects appear, wherever those are.
THEOREM AnimationTypeCorrect == AnimationSpec => []TypeOK
<1>1. ScreenInv => TypeOK
  <2> SUFFICES ASSUME ScreenInv PROVE TypeOK
    OBVIOUS
  <2>1. Table \in Tables /\ Counted(Table) /\ kind \in Seq(Kinds)
    BY DEF ScreenInv, TableInv
  <2>2. /\ item \in [Buckets -> Ids \cup {0}] /\ freed \subseteq Ids
        /\ \A b \in Buckets : chain[b] \in Seq(Ids)
    BY <2>1 DEF Tables, Table
  <2>3. \A b \in Buckets : ToSet(chain[b]) \subseteq Ids
    BY <2>2 DEF ToSet
  <2>4. ToSet(kind) \subseteq {"PRODUCT", "PATCH", "CARTON_BOX"}
    BY <2>1 DEF ToSet, Kinds
  <2>5. count \in Nat
    <3>1. IsFiniteSet(Buckets)
      BY FS_Interval, TableAssumption DEF Buckets
    <3>2. IsFiniteSet(InUse(Table))
      BY <3>1, FS_Subset DEF InUse
    <3>3. Cardinality(InUse(Table)) \in Nat
      BY <3>2, FS_CardinalityType
    <3>4. QED
      BY <2>1, <3>3 DEF Counted, Table
  <2>6. QED
    BY <2>2, <2>3, <2>4, <2>5 DEF ScreenInv, TypeOK
<1>2. QED
  BY <1>1, ScreenInvHolds, PTL

\* The count of the table is that of the buckets in use, so that ht_insert never finds
\* the table full.
THEOREM CountIsRight == AnimationSpec => []CountOfBuckets
<1>1. TableInv => CountOfBuckets
  BY DEF TableInv, Counted, InUse, CountOfBuckets, Table
<1>2. QED
  BY <1>1, TableInvHolds, PTL

\* As long as no id collides with that of a patch, ht_delete takes away the patch and
\* nothing else.
THEOREM ExactTable == AnimationSpec => []ExactWithoutCollision
<1>1. AnimationInit => ExactInv
  BY InitExactInv DEF AnimationInit
<1>2. QED
  BY <1>1, NextExactInv, ExactIsExact, PTL DEF AnimationSpec

\* No frame looks at an object whose id collides with that of an earlier one which is in
\* the table.
THEOREM BehindAnyEntry == AnimationSpec => []BehindEntryStays
<1>1. StaysInv => BehindEntryStays
  BY DEF StaysInv
<1>2. QED
  BY <1>1, InitStaysInv, NextStaysInv, PTL DEF AnimationSpec

\* A frame takes nothing that is drawn farther from where it belongs.
FramesApproach ==
  Frame =>
    /\ \A k \in DOMAIN kind :
         /\ Abs(coords'[k].x - Target(k).x) <= Abs(coords[k].x - Target(k).x)
         /\ Abs(coords'[k].y - Target(k).y) <= Abs(coords[k].y - Target(k).y)
    /\ \A n \in Trucks : Abs(distance'[n] - Parking(truck[n])) <=
                         Abs(distance[n] - Parking(truck[n]))

THEOREM FrameApproaches == AnimationSpec => [][FramesApproach]_allVars
<1>1. ScreenInv => FramesApproach
  BY FrameIs DEF FramesApproach
<1>2. QED
  BY <1>1, ScreenInvHolds, PTL

=============================================================================
