---------------------------- MODULE MCIteration ----------------------------
(* TLC instances of Iteration: the two sources, the walk in order and under  *)
(* the semaphore with each error policy, and configurations that do not hold. *)
EXTENDS Iteration, TLC

CONSTANTS own, before, after, trigger

Walk == [source |-> "scratchpad", execution |-> "parallel", on_error |-> Junk,
         on_no_yield |-> Junk, max_iterations |-> 3, concurrency |-> 2,
         agent |-> "found", inherit |-> {before}, sources |-> {"loads"},
         collection |-> "jobs", carry |-> "empty", stash |-> "ok"]
Loop == [Walk EXCEPT !.source = Junk, !.inherit = {}, !.carry = "cursor"]

Good ==
    {Walk, [Walk EXCEPT !.on_error = "cancel_siblings", !.concurrency = -1],
     [Walk EXCEPT !.execution = Junk, !.max_iterations = 2],
     [Loop EXCEPT !.max_iterations = Junk],
     [Loop EXCEPT !.on_no_yield = "error", !.carry = "empty", !.max_iterations = 9]}

Broken ==
    {[Walk EXCEPT !.inherit = {n}] : n \in {own, after, trigger}}
        \cup {[Walk EXCEPT !.collection = Junk],
              [Walk EXCEPT !.stash = "bad_schema", !.execution = "sequential"], [Loop EXCEPT !.carry = Junk],
              [Loop EXCEPT !.agent = "unknown"],
              [Loop EXCEPT !.stash = "bad_dedup"], [Loop EXCEPT !.sources = {"raises"}]}

AllConfigs == Good \cup Broken
Continue == {Walk}

\* Records 1 to 3 are new, 4 is known to the checker, 5 lacks a field the
\* checker reads, 6 breaks the schema. The agent has ids for 1 and 4.
HashOf == [p \in 1..6 |-> IF p > 3 THEN 3 ELSE p]
ExplicitOf == [p \in 1..6 |-> IF p = 1 THEN 2 ELSE IF p = 4 THEN 3 ELSE NoId]

Batches ==
    {[records |-> <<5, 3, 4, 1>>, explicit |-> TRUE],
     [records |-> <<1, 2, 1>>, explicit |-> FALSE],
     [records |-> <<2, 6>>, explicit |-> FALSE]}
Full == {[records |-> <<1, 2, 3>>, explicit |-> FALSE]}
Order == <<trigger, before, own, after>>
============================================================================
