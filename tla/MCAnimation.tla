----------------------------- MODULE MCAnimation -----------------------------
(* Small instances of Animation for TLC.                                   *)
EXTENDS Animation

\* The locations of a type in the order of the program, from the line to the road of
\* the truck, in units of about 100 pixels; a patch has a row of its own.
At(x, y, width, height) == [x |-> x, y |-> y, width |-> width, height |-> height]
SmallPlaces ==
  [l \in 1..Truck |->
     CASE l = Line -> At(-12, 1, 4, 1)
       [] l = Patching -> At(-7, -2, 1, 1)
       [] l = Printer -> At(-5, 0, 3, 1)
       [] l = Container -> At(-1, -2, 2, 1)
       [] l = StorageArea -> At(2, -2, 2, 5)
       [] l = Truck -> At(4, -2, 5, 1)]

\* Objects appear above the line, near its left end.
MCEntry == [x |-> -10, y |-> 5]

\* A box of type C: it appears in the place of patching.
PatchingPlace == {Patching}
=============================================================================
