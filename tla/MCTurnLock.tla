---------------------------- MODULE MCTurnLock ----------------------------
(* TLC instances of TurnLock: three requests on two conversations of one user. *)
EXTENDS TurnLock, TLC

CONSTANTS t1, t2, t3, c1, c2, u1

MCTurns == {t1, t2, t3}
MCConvs == {c1, c2}
MCUsers == {u1}
MCOwnerOf == c1 :> u1 @@ c2 :> u1

\* Two requests compete for c1, the third runs on c2.
MCConvOf == t1 :> c1 @@ t2 :> c1 @@ t3 :> c2
=============================================================================
