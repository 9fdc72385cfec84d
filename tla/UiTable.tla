------------------------------- MODULE UiTable -------------------------------
(***************************************************************************)
(* The objects the GUI shows, in the hash table of ui/hash_table.h, and the *)
(* messages of the simulation that create, move and delete them.           *)
(*                                                                         *)
(* A bucket is an item and a chain of further items of the same hash.  An  *)
(* entry stands for its key: the table never holds two entries of one key, *)
(* because the ids of objects come from one counter.  A record that was    *)
(* freed but is still linked is an entry like any other, and its key is in *)
(* freed: reading it again is undefined, and the model stops there.        *)
(*                                                                         *)
(* The simulation deletes patches only: when two of them become a box.     *)
(* Products are listed in the message that a patch moved, where the GUI     *)
(* does not look at the list, and the message that a truck left lists      *)
(* nothing.  So the table grows, and after CAPACITY ids buckets collide.   *)
(*                                                                         *)
(* Animation adds where the objects are drawn.                             *)
(***************************************************************************)
EXTENDS Naturals, Sequences, FiniteSets, SequencesExt

CONSTANTS
  Capacity,   \* CAPACITY, the number of buckets (2000)
  PatchSize,  \* products of a patch (10)
  Waiting,    \* BOUND on the ids given away while a patch waits for its box
  MaxProducts, \* BOUND on the products
  MaxId       \* BOUND on the ids

ASSUME TableAssumption == Capacity \in Nat \ {0} /\ Waiting \in Nat /\ MaxId \in Nat

Ids == 1..MaxId
Buckets == 0..Capacity - 1
Hash(k) == k % Capacity
Trucks == 1..3

\* enum Location, as far as an object can be compared with another place.
Line == 1
Patching == 2
Printer == 3
Container == 4
StorageArea == 5
Truck == 6

\* Where the simulation moves an object of a kind, in order: the place and the
\* indices one of which it names.  3 stands for the employees of a line behind the
\* first one, 7 for the one who finished the tenth product of the patch; a mover
\* draws an index from 0 to 10, which is below or above that; a porter names the
\* type of the box, here the first one.
Route(k) ==
  CASE k = "PRODUCT" -> <<<<Line, {3}>>, <<Patching, {0}>>>>
    [] k = "PATCH" ->
         <<<<Patching, {3}>>, <<Printer, {7}>>, <<Printer, {3}>>, <<Container, {3, 8}>>>>
    [] k = "CARTON_BOX" -> <<<<StorageArea, {0}>>, <<Truck, {0}>>>>

VARIABLES
  item,     \* the first entry of each bucket, 0 when there is none
  chain,    \* the overflow bucket: further entries
  count,    \* count of the table
  freed,    \* keys of entries that were freed
  location, \* location_index of each object
  index,    \* index_in_queue of each object
  moves,    \* how often the simulation moved each object
  kind,     \* kind of each object that was created, in the order of the ids
  boxed,    \* patches that are in a box: their deletion was asked for
  truck     \* where each truck is headed for

vars == <<item, chain, count, freed, location, index, moves, kind, boxed, truck>>

Init ==
  /\ item = [b \in Buckets |-> 0]
  /\ chain = [b \in Buckets |-> <<>>]
  /\ count = 0
  /\ freed = {}
  /\ location = [k \in Ids |-> 0] /\ index = [k \in Ids |-> 0]
  /\ moves = [k \in Ids |-> 0]
  /\ kind = <<>>
  /\ boxed = {}
  /\ truck = [n \in Trucks |-> "PARKED"]

-----------------------------------------------------------------------------
(* The hash table, as operators on a table [item, chain, count, freed]     *)

Table == [item |-> item, chain |-> chain, count |-> count, freed |-> freed]
BecomesTable(h) ==
  item' = h.item /\ chain' = h.chain /\ count' = h.count /\ freed' = h.freed

\* MUTANT of HtInsert: an entry of a chain is counted as well.
HtInsertCounting(h, k) ==
  LET b == Hash(k) IN
  IF h.item[b] = 0 THEN [h EXCEPT !.item[b] = k, !.count = @ + 1]
                   ELSE [h EXCEPT !.chain[b] = Append(@, k), !.count = @ + 1]

\* ht_insert of a key that is not in the table.  It exits when the bucket is empty
\* and the count is that of the buckets, which CountOfBuckets excludes.
HtInsert(h, k) ==
  LET b == Hash(k) IN
  IF h.item[b] = 0 THEN [h EXCEPT !.item[b] = k, !.count = @ + 1]
                   ELSE [h EXCEPT !.chain[b] = Append(@, k)]

\* ht_search: the entry is found.
HtFound(h, k) ==
  h.item[Hash(k)] = k \/ (h.item[Hash(k)] # 0 /\ k \in ToSet(h.chain[Hash(k)]))

\* MUTANT of DeleteItem: the entry is freed and stays in the table.
DeleteItemLinked(h, b) ==
  [h EXCEPT !.count = @ - 1, !.freed = @ \cup {h.item[b]}]

\* The key is the first entry of its bucket.  The next one in the chain takes its
\* place, and is freed with the node it was in.
DeleteItem(h, b) ==
  IF h.chain[b] = <<>>
  THEN [h EXCEPT !.item[b] = 0, !.count = @ - 1, !.freed = @ \cup {h.item[b]}]
  ELSE [h EXCEPT !.item[b] = Head(h.chain[b]), !.chain[b] = Tail(@),
                 !.freed = @ \cup {h.item[b], Head(h.chain[b])}]

\* The key is entry i of the chain.  The whole chain is freed with the first one.
\* Another one is freed without the node before it being told (prev is set to
\* curr), and the rest of the chain is cut off.
DeleteFromChain(h, b, i) ==
  IF i = 1
  THEN [h EXCEPT !.chain[b] = <<>>, !.freed = @ \cup ToSet(h.chain[b])]
  ELSE [h EXCEPT !.chain[b] = SubSeq(@, 1, i), !.freed = @ \cup {h.chain[b][i]}]

\* ht_delete
HtDelete(h, k) ==
  LET b == Hash(k) IN
  CASE h.item[b] = k -> DeleteItem(h, b)
    [] h.item[b] # k /\ k \in ToSet(h.chain[b]) ->
         DeleteFromChain(h, b, CHOOSE i \in DOMAIN h.chain[b] : h.chain[b][i] = k)
    [] OTHER -> h

-----------------------------------------------------------------------------
(* read_and_handle_msg_queue                                               *)

\* No entry that is still linked was freed.
Intact == \A b \in Buckets : freed \cap ({item[b]} \cup ToSet(chain[b])) = {}

NextId == Len(kind) + 1

Of(k) == {n \in DOMAIN kind : kind[n] = k}
\* Patches that wait for a box.
Unboxed == Of("PATCH") \ boxed

\* The table with the next object.
Inserted == HtInsert(Table, NextId)

\* OBJECT_CREATED: insert the object, then delete the ids of the message, which
\* leaves the table h.
Created(k, l, i, h) ==
  /\ Intact /\ NextId \in Ids
  /\ \A p \in Unboxed : NextId <= p + Waiting
  /\ BecomesTable(h)
  /\ kind' = Append(kind, k)
  /\ location' = [location EXCEPT ![NextId] = l]
  /\ index' = [index EXCEPT ![NextId] = i]
  /\ UNCHANGED <<moves, truck>>

ProductCreated ==
  /\ Cardinality(Of("PRODUCT")) < MaxProducts
  /\ Created("PRODUCT", Line, 0, Inserted)
  /\ UNCHANGED boxed

\* A patch is announced with its first finished product, when those before it are
\* full and were told of.
PatchCreated ==
  /\ Cardinality(Of("PATCH")) * PatchSize < Cardinality({n \in Of("PRODUCT") : moves[n] > 0})
  /\ \A p \in Of("PATCH") : moves[p] > 0
  /\ Created("PATCH", Patching, 0, Inserted)
  /\ UNCHANGED boxed

\* Two patches become a box when they were printed; the message that one of them
\* came to its container may be late.
BoxCreated ==
  \E p, q \in Unboxed :
    /\ p < q /\ moves[p] >= 3 /\ moves[q] >= 3
    /\ Created("CARTON_BOX", StorageArea, 8, HtDelete(HtDelete(Inserted, p), q))
    /\ boxed' = boxed \cup {p, q}

\* OBJECT_MOVED: an unknown object is reported and ignored, and so is a move to an
\* earlier place.  Lower indices are accepted everywhere: the clause against them asks
\* for a place above a screen coordinate, -125, which as an unsigned number, as the
\* places are, no place is above.
ObjectMoved ==
  \E k \in {n \in DOMAIN kind : moves[n] < Len(Route(kind[n]))} :
    LET place == Route(kind[k])[moves[k] + 1][1] IN
    \E i \in Route(kind[k])[moves[k] + 1][2] :
      /\ Intact
      /\ moves' = [moves EXCEPT ![k] = @ + 1]
      /\ \/ /\ HtFound(Table, k) /\ place >= location[k]
            /\ location' = [location EXCEPT ![k] = place]
            /\ index' = [index EXCEPT ![k] = i]
         \/ /\ ~HtFound(Table, k) \/ place < location[k]
            /\ UNCHANGED <<location, index>>
      /\ UNCHANGED <<item, chain, count, freed, kind, boxed, truck>>

\* TRUCK_LEFT, TRUCK_RETURNED: insertToTrucks sends index 0 and no ids.
TruckMoves ==
  /\ \E n \in {0}, d \in {"LEFT", "PARKED"} :
       truck' = [truck EXCEPT ![IF n \in {1, 2} THEN n ELSE 3] = d]
  /\ UNCHANGED <<item, chain, count, freed, location, index, moves, kind, boxed>>

Next == ProductCreated \/ PatchCreated \/ BoxCreated \/ ObjectMoved \/ TruckMoves

Spec == Init /\ [][Next]_vars

-----------------------------------------------------------------------------
\* "Deletes an item from the table": the entries of the table are the objects that
\* were created and not deleted, none of them freed, whatever ids collide.  False,
\* see the README.
DeletesOneObject ==
  Intact /\ \A k \in DOMAIN kind : HtFound(Table, k) <=> k \notin boxed
=============================================================================
