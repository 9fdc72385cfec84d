------------------------------- MODULE Batches -------------------------------
(***************************************************************************)
(* What a stage of the factory promises: of each chocolate type it makes    *)
(* batches of the things that come in, in the order they came, and the n-th *)
(* batch goes out once, after the things it is made of.                     *)
(*                                                                         *)
(* Patching implements it (ten products become a patch), Packing implements *)
(* it (two patches become a box).  How many threads carry the things, what  *)
(* they lock and when they are suspended is left to them.                   *)
(***************************************************************************)
EXTENDS Naturals, Sequences

CONSTANTS
  Types,      \* chocolate types
  Need(_),    \* how many things have come in when the n-th batch goes out
  Batch(_, _) \* the n-th batch of type t

VARIABLES
  in,         \* things of each type that came in
  out         \* batches of each type that went out, oldest first

Init ==
  /\ in = [t \in Types |-> 0]
  /\ out = [t \in Types |-> <<>>]

ComesIn(t) ==
  /\ in' = [in EXCEPT ![t] = @ + 1]
  /\ UNCHANGED out

GoesOut(t) ==
  LET n == Len(out[t]) + 1 IN
  /\ in[t] >= Need(n)
  /\ out' = [out EXCEPT ![t] = Append(@, Batch(t, n))]
  /\ UNCHANGED in

Next == \E t \in Types : ComesIn(t) \/ GoesOut(t)

Spec == Init /\ [][Next]_<<in, out>>
=============================================================================
