------------------------------ MODULE BoxFifo ------------------------------
(***************************************************************************)
(* What the way from the filling threads to the trucks promises: of each    *)
(* chocolate type the boxes are loaded in the order they were filled, each  *)
(* one once and none out of nothing.  Shipping implements it with two       *)
(* queues and the hands of the porters.                                    *)
(***************************************************************************)
EXTENDS Naturals, Sequences

CONSTANT Types  \* chocolate types

VARIABLES
  made,         \* boxes of each type that were filled
  waiting       \* those that no loader has taken, oldest first

Init ==
  /\ made = [t \in Types |-> 0]
  /\ waiting = [t \in Types |-> <<>>]

IsFilled(t) ==
  /\ made' = [made EXCEPT ![t] = @ + 1]
  /\ waiting' = [waiting EXCEPT ![t] = Append(@, <<t, made[t] + 1>>)]

IsTaken(t) ==
  /\ waiting[t] # <<>>
  /\ waiting' = [waiting EXCEPT ![t] = Tail(@)]
  /\ UNCHANGED made

Next == \E t \in Types : IsFilled(t) \/ IsTaken(t)

Spec == Init /\ [][Next]_<<made, waiting>>
=============================================================================
