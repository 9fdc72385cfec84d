----------------------------- MODULE MCPacking -----------------------------
(* Small instances of Packing for TLC.                                     *)
EXTENDS Packing

CONSTANTS m1, m2

TwoMovers == {m1, m2}

\* Patches for two boxes of the first type, for one of the others.
FourAndTwo == [t \in Types |-> IF t = 1 THEN 4 ELSE 2]
=============================================================================
