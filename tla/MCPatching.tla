----------------------------- MODULE MCPatching -----------------------------
(* Small instances of Patching for TLC.                                    *)
EXTENDS Patching

\* Products for two patches of the first type, for one of the others.
TwoPatchesAndOne == [t \in Types |-> IF t = 1 THEN 2 * PatchSize ELSE PatchSize]

\* Who finishes a product: of type A one of the employees 4 to 7, here the last, of
\* the other types the last.  Their indices are above 3, the one the printer ends with.
LastOfLines == [t \in Types |-> IF t = 1 THEN {7} ELSE {5}]
=============================================================================
