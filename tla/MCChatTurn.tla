----------------------------- MODULE MCChatTurn -----------------------------
(* TLC instances of ChatTurn: two gated tool calls, two free ones. *)
EXTENDS ChatTurn, TLC

CONSTANTS r1, r2, c1, c2, c3, c4

\* What follows once the lock has run out under a live request is not explored:
\* every property of the run is about the turns before.
InTime == ~overran
=============================================================================
