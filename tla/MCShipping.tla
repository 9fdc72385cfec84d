----------------------------- MODULE MCShipping -----------------------------
(* Small instances of Shipping for TLC.                                    *)
EXTENDS Shipping, TLC

CONSTANTS p1, p2, l1, l2

TwoPorters == {p1, p2}
OnePorter == {p1}
TwoLoaders == {l1, l2}

\* As many of each type; twice or more of the first one.
Each(n) == [t \in Types |-> n]
One == Each(1)
Two == Each(2)
Three == Each(3)
TwoOne == [t \in Types |-> IF t = 1 THEN 2 ELSE 1]

\* For safety runs: no guard and no property reads what was delivered.
WhatIsRead == <<fillVars, queueVars, truckQ, truckMutex, truckCount, turnVars, torn,
                storage_area_box_count, localVars>>

\* Porters are interchangeable, and so are loaders.  Only for safety runs.
ThreadSymmetry == Permutations(Porters) \cup Permutations(Loaders)
=============================================================================
