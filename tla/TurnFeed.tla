------------------------------ MODULE TurnFeed ------------------------------
(***************************************************************************)
(* What the event stream of a run promises its clients about the text of   *)
(* an assistant turn ("Zero-loss reconnect contract", engine/websocket.py):*)
(* a client sees the chunks of a turn from the first one on, with no hole, *)
(* although it connects at any time. Two things may leave a hole: the turn *)
(* is over, so that its text is in the stored message; or the client is    *)
(* blind, connected without the subscription and the snapshot it needs.    *)
(***************************************************************************)
EXTENDS Naturals

CONSTANTS Clients, Turns

VARIABLES
    made,    \* how many chunks each turn has produced
    over,    \* the turns whose chunks are no longer kept for newcomers
    blind,   \* the clients the promise does not cover
    view     \* the chunks each client has of each turn

feedVars == <<made, over, blind, view>>

Init ==
    /\ made = [t \in Turns |-> 0]
    /\ over = [t \in Turns |-> FALSE]
    /\ blind = [c \in Clients |-> FALSE]
    /\ view = [c \in Clients |-> [t \in Turns |-> {}]]

Produce(t) ==
    /\ ~over[t]
    /\ made' = [made EXCEPT ![t] = @ + 1]
    /\ UNCHANGED <<over, blind, view>>

End(t) ==
    /\ over' = [over EXCEPT ![t] = TRUE]
    /\ UNCHANGED <<made, blind, view>>

\* A client receives chunks of one turn. What it has is then a prefix of the
\* turn, unless the turn is over or the client is blind.
Receive(c, t) ==
    /\ \E s \in SUBSET (1..made[t]) :
          /\ view[c][t] \subseteq s
          /\ over[t] \/ blind[c] \/ \E k \in 0..made[t] : s = 1..k
          /\ view' = [view EXCEPT ![c][t] = s]
    /\ UNCHANGED <<made, over, blind>>

\* A full backfill of every turn at once: what it adds to a turn completes it.
Backfill(c) ==
    /\ \E S \in SUBSET Turns :
          view' = [view EXCEPT ![c] = [t \in Turns |-> IF t \in S THEN 1..made[t] ELSE @[t]]]
    /\ UNCHANGED <<made, over, blind>>

\* A client connects again, or finds itself blind.
Connect(c) ==
    /\ \E b \in BOOLEAN : blind' = [blind EXCEPT ![c] = b]
    /\ UNCHANGED <<made, over, view>>

Next ==
    \/ \E t \in Turns : Produce(t) \/ End(t)
    \/ \E c \in Clients : Backfill(c) \/ Connect(c) \/ \E t \in Turns : Receive(c, t)

Spec == Init /\ [][Next]_feedVars
=============================================================================
