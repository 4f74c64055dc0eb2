----------------------------- MODULE MCFlowRun -----------------------------
(* TLC instances of FlowRun: three nodes and two task slots. *)
EXTENDS FlowRun, TLC

CONSTANTS a, b, c, k1, k2

\* a, then b and c in parallel.
FanOut == [checkpoints |-> {}, succs |-> a :> {{b, c}} @@ b :> {{}} @@ c :> {{}}]

\* a, then b, through the checkpoint c or not.
Approval == [checkpoints |-> {c}, succs |-> a :> {{b}, {c}} @@ b :> {{}} @@ c :> {{b}}]

\* a, then the checkpoint c, then b.
Line == [checkpoints |-> {c}, succs |-> a :> {{c}} @@ b :> {{}} @@ c :> {{b}}]

MCDefinitions == {FanOut, Approval}
OneLine == {Line}
=============================================================================
