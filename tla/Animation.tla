------------------------------ MODULE Animation ------------------------------
(***************************************************************************)
(* Where the GUI draws the objects of UiTable and the trucks.  Every frame  *)
(* handles the messages that are there, which are the actions of UiTable,   *)
(* and then takes the drawn things a step towards the spots where they      *)
(* belong: the loop goes over the buckets of the table and moves the first  *)
(* entry of a bucket again for each entry of its chain, and those never.    *)
(*                                                                         *)
(* Coordinates are whole numbers, as the constants of the code are.         *)
(*                                                                         *)
(* Left out: what the objects look like, the rolling gates.                 *)
(***************************************************************************)
EXTENDS UiTable, Integers

CONSTANTS
  Place,      \* coordinates, width and height of each location
  Padding,    \* PADDING_BETWEEN_OBJECTS (35)
  Margin,     \* from the top of a location to its first row (30)
  Step,       \* STEP_SIZE (30), vertically half of it
  TruckStep,  \* TRUCK_STEP_SIZE (5)
  Away,       \* LEFT_TRUCK_X_DISTANCE (200)
  Entry,      \* where an object appears, its id added to x (-1000, 500)
  BoxPlaces   \* locations a box may appear in, see BoxAppears

ASSUME SpaceAssumption ==
  /\ Padding \in Nat \ {0} /\ Step \in Nat \ {0} /\ TruckStep \in Nat \ {0}
  /\ Margin \in Nat /\ Away \in Nat /\ Entry \in [x : Int, y : Int]
  /\ Place \in [Line..Truck -> [x : Int, y : Int, width : Nat, height : Nat]]
  /\ \A l \in DOMAIN Place : Place[l].width >= Padding
  /\ BoxPlaces \subseteq DOMAIN Place

VARIABLES
  coords,    \* current_coords of each object
  distance   \* truck_1_x_distance, truck_2_x_distance, truck_3_x_distance

drawn == <<coords, distance>>
allVars == <<vars, drawn>>

\* get_queue_location_coords_for_index: rows from the top, each from the left.
Spot(l, i) ==
  LET q == Place[l]
      perRow == q.width \div Padding
      row == i \div perRow
      column == perRow - (i % perRow)
  IN [x |-> q.x + q.width - column * Padding,
      y |-> q.y - Margin + q.height - row * Padding]

AnimationInit ==
  /\ Init
  /\ coords = [k \in Ids |-> Entry]
  /\ distance = [n \in Trucks |-> Away]

-----------------------------------------------------------------------------
Appears(c) == coords' = [coords EXCEPT ![NextId] = c] /\ UNCHANGED distance

\* create_item_obj
ObjectAppears ==
  /\ ProductCreated \/ PatchCreated
  /\ Appears([x |-> Entry.x + NextId, y |-> Entry.y])

\* A box comes out of location CONTAINER_A + 1 - type: the container of type A,
\* for type B the printer, for type C its place of patching.
BoxAppears == BoxCreated /\ \E l \in BoxPlaces : Appears(Spot(l, 10))

Abs(n) == IF n < 0 THEN -n ELSE n

\* MUTANT of Toward: a last step that is too long is taken all the same.
TowardPast(p, d, s) == IF p = d THEN d ELSE IF p > d THEN p - s ELSE p + s

\* A step of length s from p to d, or to d itself when it is nearer.
Toward(p, d, s) == IF Abs(p - d) < s THEN d ELSE IF p > d THEN p - s ELSE p + s

\* update_item_location, n times on the way to d: n steps are one of n lengths.
MovedTimes(n, c, d) ==
  [x |-> Toward(c.x, d.x, n * Step), y |-> Toward(c.y, d.y, n * (Step \div 2))]

Target(k) == Spot(location[k], index[k])
Parking(d) == IF d = "PARKED" THEN 0 ELSE Away

TrucksMove ==
  distance' = [n \in Trucks |-> Toward(distance[n], Parking(truck[n]), TruckStep)]

\* update_moving_items_locations and update_truck_locations
Frame ==
  /\ Intact
  /\ coords' = [k \in Ids |->
                 IF item[Hash(k)] = k
                   THEN MovedTimes(1 + Len(chain[Hash(k)]), coords[k], Target(k))
                   ELSE coords[k]]
  /\ TrucksMove
  /\ UNCHANGED vars

AnimationNext ==
  \/ ObjectAppears
  \/ BoxAppears
  \/ (ObjectMoved \/ TruckMoves) /\ UNCHANGED drawn
  \/ Frame

\* Every frame asks GLUT for the next one.
AnimationSpec ==
  AnimationInit /\ [][AnimationNext]_allVars /\ WF_allVars(Frame)

-----------------------------------------------------------------------------
\* Between the left ends and the right ends of the locations and of where objects appear.
LeftEnds == {Entry.x} \cup {Place[l].x : l \in DOMAIN Place}
RightEnds == {Entry.x + MaxId} \cup {Place[l].x + Place[l].width : l \in DOMAIN Place}
OnScreen(c) ==
  /\ c \in [x : Int, y : Int]
  /\ \E left \in LeftEnds : left <= c.x
  /\ \E right \in RightEnds : c.x <= right

TypeOK ==
  /\ item \in [Buckets -> Ids \cup {0}]
  /\ \A b \in Buckets : ToSet(chain[b]) \subseteq Ids
  /\ count \in Nat /\ freed \subseteq Ids
  /\ location \in [Ids -> 0..Truck] /\ index \in [Ids -> 0..10] /\ moves \in [Ids -> 0..4]
  /\ ToSet(kind) \subseteq {"PRODUCT", "PATCH", "CARTON_BOX"} /\ boxed \subseteq Ids
  /\ truck \in [Trucks -> {"PARKED", "LEFT"}]
  /\ \A k \in DOMAIN kind : OnScreen(coords[k])
  /\ distance \in [Trucks -> 0..Away]

\* The count of the table, kept by insertions and deletions of two kinds each, is
\* that of the buckets in use: an insertion never finds the table full and exits.
CountOfBuckets == count = Cardinality({b \in Buckets : item[b] # 0})

\* As long as no id collides with that of a patch, the table holds the objects that
\* were created and not deleted: the errors of ht_delete need a chain.
ExactWithoutCollision ==
  (\A p \in Of("PATCH"), k \in DOMAIN kind : Hash(p) = Hash(k) => p = k)
    => DeletesOneObject

\* The first object of a bucket comes to rest at the spot of the last message about it, and
\* the trucks where they are headed for, whatever the length of the last step and
\* however often a frame moves an object.
EverythingArrives ==
  /\ \A k \in Ids :
       <>[](item[Hash(k)] = k /\ Intact) => <>[](k \in DOMAIN kind /\ coords[k] = Target(k))
  /\ \A n \in Trucks, d \in {"PARKED", "LEFT"} :
       <>[](truck[n] = d /\ Intact) => <>[](distance[n] = Parking(d))
=============================================================================
