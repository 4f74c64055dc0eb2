------------------------------ MODULE MCStream ------------------------------
(* TLC instances of Stream: a turn of the node itself and, in the wider one, *)
(* a turn inside an iteration.                                              *)
EXTENDS Stream, TLC

CONSTANTS plain, inner, c1, c2

Short == plain :> 2 @@ inner :> 1
Both ==
    {[turns |-> {plain}, clients |-> {c1}],
     [turns |-> {inner}, clients |-> {c1, c2}]}

One == {[turns |-> {plain}, clients |-> {c1}]}
=============================================================================
