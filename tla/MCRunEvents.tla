---------------------------- MODULE MCRunEvents ----------------------------
(* TLC instances of RunEvents: two agent loops of one run.                 *)
EXTENDS RunEvents, TLC

CONSTANTS w1, w2

Two == {w1, w2}
TwoThenOne == w1 :> 2 @@ w2 :> 1
One == [w \in Two |-> 1]
=============================================================================
