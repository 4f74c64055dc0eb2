----------------------------- MODULE Iteration -----------------------------
(***************************************************************************)
(* An iterative ai_agent node of a run (engine/nodes.py,                   *)
(* engine/iteration.py), the scratchpad its records live in                *)
(* (services/scratchpad.py), and the stash_records tool that fills it      *)
(* (mcp/system_tools/stash_records.py, dedup/node_config.py).              *)
(*                                                                         *)
(* The node either lets its agent drive the loop (source agent_yield: one  *)
(* turn after another) or walks a snapshot of the scratchpad's ids, one    *)
(* task per record, in order or under a semaphore. A step ends at an       *)
(* await: any Redis or database call may raise there, a cancelled task     *)
(* gets its CancelledError there, and the worker may die anywhere, after   *)
(* which the run is executed again from this node.                         *)
(*                                                                         *)
(* Ids are numbers, so that sorting them is <.                             *)
(***************************************************************************)
EXTENDS Integers, Sequences, FiniteSets, SequencesExt, FiniteSetsExt

CONSTANTS
    Ids,           \* record ids
    Payloads,      \* records
    Explicit,      \* the id the agent has for a record, or NoId
    Hash,          \* the id its canonical JSON hashes to
    NoId,
    Malformed,     \* records that break the node's record_schema
    Unmapped,      \* records that lack a field the dedup checker needs
    Known,         \* records the checker knows already
    Calls,         \* stash_records calls: [records, explicit]
    Configs,       \* node configurations, as their authors wrote them
    Junk,          \* an absent or mistyped setting
    DEFAULT_MAX_ITERATIONS, ITERATION_HARD_CEILING,
    DEFAULT_ITERATION_CONCURRENCY, ConcurrencyMax,
    NodeOrder,     \* the definition's node ids, in order; Own is this node
    Own, AgentNodes,
    MaxCalls,      \* bound: stash_records calls
    MaxTroubles    \* bound: faults, aborts, crashes and lapses of one behaviour

ASSUME IterationAssumption ==
    /\ IsFiniteSet(Ids) /\ Ids \subseteq Nat /\ NoId \notin Ids
    /\ Explicit \in [Payloads -> Ids \cup {NoId}] /\ Hash \in [Payloads -> Ids]
    /\ Malformed \cup Unmapped \cup Known \subseteq Payloads
    /\ Calls \subseteq [records : Seq(Payloads), explicit : BOOLEAN]
    /\ {DEFAULT_MAX_ITERATIONS, ITERATION_HARD_CEILING,
        DEFAULT_ITERATION_CONCURRENCY} \subseteq Nat \ {0}
    /\ ConcurrencyMax \in Int
    /\ MaxCalls \in Nat /\ MaxTroubles \in Nat

VARIABLES
    cfg,       \* the node's configuration
    recs,      \* scratchpad records: id -> payload
    index,     \* the collection's SET of ids
    call,      \* the stash_records call in progress
    told,      \* history: ids a call reported stashed or already_stashed
    ran,       \* history: ids whose agent run ended
    lapsed,    \* history: ids whose record reached its TTL
    node,      \* "waiting", "looping", "draining", "completed", "failed"
    bounded,   \* the ids of the snapshot this execution walks
    pc,        \* where the task of each id is
    out,       \* how it ended
    ev,        \* the last lifecycle event of its iteration in this execution
    marked,    \* tasks with a CancelledError on its way
    permits,   \* the semaphore
    cut,       \* history: iterations whose closing or opening emit was lost
    left,      \* history: records of iterations that a dead worker left open
    items,     \* agent_yield: the turns that were accepted, in order
    turn,      \* agent_yield: iteration_index
    result,    \* agent_yield: "iterations" of the node's output
    abort,     \* abort:{run} exists
    used       \* bounds spent

pad == <<recs, index, told, lapsed>>
tasks == <<pc, out, ev, marked, permits, cut>>
loop == <<node, bounded>>
yield == <<items, turn, result>>
vars == <<cfg, pad, call, ran, loop, tasks, yield, abort, used, left>>

Ended == {"completed", "failed"}
NoCall == [new |-> <<>>, ids |-> {}, at |-> 0]
Outcomes == {"none", "processed", "skipped_missing", "skipped_aborted",
             "error", "abort", "cancelled"}
Places == {"idle", "queued", "entered", "fetching", "starting", "agent",
           "dropping", "unlisting", "closing", "failing", "over"}

TypeOK ==
    /\ cfg \in Configs
    /\ DOMAIN recs \subseteq Ids /\ Range(recs) \subseteq Payloads
    /\ {index, told, ran, lapsed, bounded, marked, cut, left} \subseteq SUBSET Ids
    /\ DOMAIN call.new \subseteq Nat /\ Range(call.new) \subseteq Ids \X Payloads
    /\ call.at \in Nat /\ call.ids \subseteq Ids
    /\ node \in {"waiting", "looping", "draining"} \cup Ended
    /\ pc \in [Ids -> Places]
    /\ out \in [Ids -> Outcomes]
    /\ ev \in [Ids -> {"none", "started", "completed", "failed"}]
    /\ permits \in Nat
    /\ items \in Seq(Nat) /\ turn \in Nat /\ result \in Int
    /\ abort \in BOOLEAN
    /\ used \in [{"calls", "troubles"} -> Nat]

\* Records with an iteration that the timeline shows as started and not closed.
\* An iteration has an id of its own each time its record is taken up.
Open == {i \in Ids : ev[i] = "started"} \cup left

Spend(what) == used' = [used EXCEPT ![what] = @ + 1]
NoTasks ==
    /\ pc' = [i \in Ids |-> "idle"] /\ out' = [i \in Ids |-> "none"]
    /\ ev' = [i \in Ids |-> "none"] /\ marked' = {} /\ permits' = 0 /\ cut' = {}

Init ==
    /\ cfg \in Configs
    /\ recs = <<>> /\ index = {} /\ call = NoCall
    /\ told = {} /\ ran = {} /\ lapsed = {}
    /\ node = "waiting" /\ bounded = {}
    /\ pc = [i \in Ids |-> "idle"] /\ out = [i \in Ids |-> "none"]
    /\ ev = [i \in Ids |-> "none"] /\ marked = {} /\ permits = 0 /\ cut = {}
    /\ items = <<>> /\ turn = 0 /\ result = -1
    /\ abort = FALSE
    /\ used = [x \in {"calls", "troubles"} |-> 0]
    /\ left = {}

-----------------------------------------------------------------------------
(* Configuration *)

\* Zero, negative and mistyped values fall back to the default.
Clamped(raw, default, ceiling) ==
    Min({IF raw # Junk /\ raw > 0 THEN raw ELSE default, ceiling})

resolve_max_iterations(raw) ==
    Clamped(raw, DEFAULT_MAX_ITERATIONS, ITERATION_HARD_CEILING)

resolve_iteration_concurrency(raw) ==
    Clamped(raw, DEFAULT_ITERATION_CONCURRENCY, Max({1, ConcurrencyMax}))

\* The other settings: an unknown token is the default.
Token(raw, valid, default) == IF raw \in valid THEN raw ELSE default

Source(c) == Token(c.source, {"agent_yield", "scratchpad"}, "agent_yield")
Parallel(c) == Token(c.execution, {"sequential", "parallel"}, "sequential") = "parallel"
OnError(c) == Token(c.on_error, {"continue", "cancel_siblings"}, "continue")
OnNoYield(c) == Token(c.on_no_yield, {"treat_as_done", "error"}, "treat_as_done")

\* _validate_inheritable_nodes: agents declared before this node.
Position(n) == Max({0} \cup {k \in DOMAIN NodeOrder : NodeOrder[k] = n})
Inheritable(inherited) ==
    \A n \in inherited :
        /\ n # Own /\ Position(n) # 0
        /\ n \in AgentNodes
        /\ Position(n) < Position(Own)

\* Every source the agent requires has a binding that resolves and a loader that
\* returns an object.
ContextLoads(c) == \A s \in c.sources : s = "loads"

CollectionNamed(c) == c.collection # Junk
CarryValid(c) == c.carry # Junk

\* What must hold before the first turn.
Preamble(c) ==
    /\ c.agent = "found"
    /\ Inheritable(c.inherit)
    /\ ContextLoads(c)
    /\ IF Source(c) = "scratchpad" THEN CollectionNamed(c) ELSE CarryValid(c)

\* What every turn checks again: the node's stash.record_schema and stash.dedup.
StashSchemaHolds(c) == c.stash # "bad_schema"
StashDedupHolds(c) == c.stash # "bad_dedup"
StashConfigHolds(c) == StashSchemaHolds(c) /\ StashDedupHolds(c)

-----------------------------------------------------------------------------
(* stash_records *)

\* The records that have every field the checker needs, by position, and the
\* list of them that is sent on: record k is its Place(records, k)-th.
Mapped(records) == {k \in DOMAIN records : records[k] \notin Unmapped}
Place(records, k) == Cardinality({j \in Mapped(records) : j <= k})
Forwarded(records) ==
    [m \in 1..Cardinality(Mapped(records)) |->
        records[CHOOSE k \in Mapped(records) : Place(records, k) = m]]

\* Seeded fault: the results of the checker are matched with the records by
\* position, though only the mapped records were sent to it.
VerdictsByPosition(records) ==
    LET sent == Forwarded(records)
    IN [k \in DOMAIN records |->
           IF k \in DOMAIN sent THEN sent[k] \in Known ELSE k \notin Mapped(records)]

\* build_call_context_checker: records that lack a mapped field are refused
\* here, the others are sent on and the checker's results spliced back in, one
\* after the other; TRUE is a verdict against the record.
Verdicts(records) ==
    LET results == [m \in DOMAIN Forwarded(records) |-> Forwarded(records)[m] \in Known]
    IN [k \in DOMAIN records |->
           IF k \notin Mapped(records) THEN TRUE ELSE results[Place(records, k)]]

\* Survivors, with their own explicit id if the call gave ids at all. A filtered
\* list is given by the positions it keeps of the call's records.
Survivors(c) == {k \in DOMAIN c.records : ~Verdicts(c.records)[k]}

compute_target_ids(c) ==
    [k \in Survivors(c) |->
        LET p == c.records[k]
        IN IF c.explicit /\ Explicit[p] # NoId THEN Explicit[p] ELSE Hash[p]]

\* The first record of each id that the collection does not list yet.
NewRecords(c) ==
    LET target == compute_target_ids(c)
        fresh == {k \in Survivors(c) :
                     /\ target[k] \notin index
                     /\ \A j \in Survivors(c) : target[j] = target[k] => k <= j}
    IN [k \in fresh |-> <<target[k], c.records[k]>>]

\* _validate_records_against_schema finds nothing to object to.
StashedShape(records) == Range(records) \cap Malformed = {}

\* The handler, up to the read of the index. A call with a malformed record is
\* answered with an error and stores nothing.
StashCall(c) ==
    /\ call = NoCall /\ used.calls < MaxCalls
    /\ Spend("calls")
    /\ call' = IF ~StashedShape(c.records) THEN NoCall
               ELSE [new |-> NewRecords(c), ids |-> Range(compute_target_ids(c)), at |-> 1]
    /\ UNCHANGED <<cfg, pad, ran, loop, tasks, yield, abort, left>>

\* stash_batch: SET of one record after the other ...
StashSet ==
    /\ \E k \in DOMAIN call.new :
          /\ k >= call.at /\ \A j \in DOMAIN call.new : j < k => j < call.at
          /\ recs' = [x \in DOMAIN recs \cup {call.new[k][1]} |->
                         IF x = call.new[k][1] THEN call.new[k][2] ELSE recs[x]]
          /\ lapsed' = lapsed \ {call.new[k][1]}
          /\ call' = [call EXCEPT !.at = k + 1]
    /\ UNCHANGED <<cfg, index, told, ran, loop, tasks, yield, abort, used, left>>

\* ... then SADD of all of them (and the TTL of the index), then the answer.
StashIndex ==
    /\ call # NoCall /\ \A k \in DOMAIN call.new : k < call.at
    /\ index' = index \cup {call.new[k][1] : k \in DOMAIN call.new}
    /\ told' = told \cup call.ids
    /\ ran' = ran \ {call.new[k][1] : k \in DOMAIN call.new}
    /\ call' = NoCall
    /\ UNCHANGED <<cfg, recs, lapsed, loop, tasks, yield, abort, used, left>>

\* Redis fails: the agent is handed a tool error.
StashFails ==
    /\ call # NoCall /\ used.troubles < MaxTroubles
    /\ Spend("troubles")
    /\ call' = NoCall
    /\ UNCHANGED <<cfg, pad, ran, loop, tasks, yield, abort, left>>

\* A record has its own TTL, set when it was stored; the index's is renewed by
\* every later call.
RecordExpires(x) ==
    /\ x \in DOMAIN recs /\ used.troubles < MaxTroubles
    /\ Spend("troubles")
    /\ recs' = [y \in DOMAIN recs \ {x} |-> recs[y]]
    /\ lapsed' = lapsed \cup {x}
    /\ UNCHANGED <<cfg, index, told, call, ran, loop, tasks, yield, abort, left>>

-----------------------------------------------------------------------------
(* The node *)

\* The ids the walk takes: the first max_iterations of the sorted index.
Snapshot ==
    {x \in index : Cardinality({y \in index : y < x}) < resolve_max_iterations(cfg.max_iterations)}

\* execute and _run_ai_agent_iterative: a configuration that does not hold
\* raises; one task is created per id of the snapshot. The sequential walk is one permit and, in
\* Acquire, no further step after an error.
StartNode ==
    /\ node = "waiting"
    /\ node' = IF Preamble(cfg) THEN "looping" ELSE "failed"
    /\ bounded' = IF Preamble(cfg) /\ Source(cfg) = "scratchpad" THEN Snapshot ELSE {}
    /\ pc' = [i \in Ids |-> IF i \in bounded' THEN "queued" ELSE "idle"]
    /\ permits' = IF Parallel(cfg) THEN resolve_iteration_concurrency(cfg.concurrency) ELSE 1
    /\ items' = <<>> /\ turn' = 0 /\ result' = -1
    /\ UNCHANGED <<cfg, pad, call, ran, out, ev, marked, cut, abort, used, left>>

Failed(i) == pc[i] = "over" /\ out[i] \in {"error", "abort"}

\* gather has every result. An error is an outcome in continue mode; an abort
\* is raised, in cancel_siblings mode any exception is (CancelSiblings).
WalkEnds ==
    /\ node = "looping" /\ Source(cfg) = "scratchpad" /\ Parallel(cfg)
    /\ \A i \in bounded : pc[i] = "over"
    /\ OnError(cfg) = "cancel_siblings" => ~\E i \in bounded : Failed(i)
    /\ node' = IF \E i \in bounded : out[i] = "abort" THEN "failed" ELSE "completed"
    /\ UNCHANGED <<cfg, pad, call, ran, bounded, tasks, yield, abort, used, left>>

\* The sequential walk ends with its last record, or with the first exception.
SequenceEnds ==
    /\ node = "looping" /\ Source(cfg) = "scratchpad" /\ ~Parallel(cfg)
    /\ \/ /\ \E i \in bounded : Failed(i)
          /\ node' = "failed"
       \/ /\ \A i \in bounded : pc[i] = "over" /\ ~Failed(i)
          /\ node' = "completed"
    /\ UNCHANGED <<cfg, pad, call, ran, bounded, tasks, yield, abort, used, left>>

\* cancel_siblings: gather raised the first exception; every task that is not
\* done is cancelled.
CancelSiblings ==
    /\ node = "looping" /\ Parallel(cfg) /\ OnError(cfg) = "cancel_siblings"
    /\ \E i \in bounded : Failed(i)
    /\ node' = "draining"
    /\ marked' = {i \in bounded : pc[i] # "over"}
    /\ UNCHANGED <<cfg, pad, call, ran, bounded, pc, out, ev, permits, cut, yield, abort, used, left>>

\* Seeded fault: the node re-raises without waiting for the cancelled tasks.
DrainedAtOnce ==
    /\ node = "draining"
    /\ node' = "failed"
    /\ UNCHANGED <<cfg, pad, call, ran, bounded, tasks, yield, abort, used, left>>

\* _cancel_and_drain waits for all of them; then the exception goes on.
Drained ==
    /\ node = "draining"
    /\ \A i \in bounded : pc[i] = "over"
    /\ node' = "failed"
    /\ UNCHANGED <<cfg, pad, call, ran, bounded, tasks, yield, abort, used, left>>

-----------------------------------------------------------------------------
(* One record: _execute_single_scratchpad_iteration *)

Runs(i, place) == pc[i] = place /\ i \notin marked
Goto(i, place) == pc' = [pc EXCEPT ![i] = place]

\* Seeded fault: a task that raised keeps its permit.
OverKeepingPermit(i, how) ==
    /\ Goto(i, "over")
    /\ out' = [out EXCEPT ![i] = how]
    /\ permits' = IF how \in {"error", "abort"} THEN permits ELSE permits + 1
    /\ marked' = marked \ {i}

\* The task returns or raises; async with releases its permit.
Over(i, how) ==
    /\ Goto(i, "over")
    /\ out' = [out EXCEPT ![i] = how]
    /\ permits' = permits + 1
    /\ marked' = marked \ {i}

still == <<cfg, call, loop, yield, abort, left>>

\* The semaphore is first come, first served.
Acquire(i) ==
    /\ Runs(i, "queued") /\ permits > 0
    /\ \A j \in bounded : j < i => pc[j] # "queued"
    /\ ~Parallel(cfg) => ~\E j \in bounded : Failed(j)
    /\ Goto(i, "entered")
    /\ permits' = permits - 1
    /\ UNCHANGED <<still, pad, ran, out, ev, marked, cut, used>>

CheckAbort(i) ==
    /\ Runs(i, "entered")
    /\ IF abort THEN Over(i, "skipped_aborted")
                ELSE Goto(i, "fetching") /\ UNCHANGED <<out, permits, marked>>
    /\ UNCHANGED <<still, pad, ran, ev, cut, used>>

Fetch(i) ==
    /\ Runs(i, "fetching")
    /\ IF i \notin DOMAIN recs THEN Over(i, "skipped_missing")
       ELSE Goto(i, "starting") /\ UNCHANGED <<out, permits, marked>>
    /\ UNCHANGED <<still, pad, ran, ev, cut, used>>

EmitStarted(i) ==
    /\ Runs(i, "starting")
    /\ Goto(i, "agent")
    /\ ev' = [ev EXCEPT ![i] = "started"]
    /\ UNCHANGED <<still, pad, ran, out, marked, permits, cut, used>>

\* AgentRunner.run returns ...
AgentEnds(i) ==
    /\ Runs(i, "agent") /\ StashConfigHolds(cfg)
    /\ Goto(i, "dropping")
    /\ ran' = ran \cup {i}
    /\ UNCHANGED <<still, pad, out, ev, marked, permits, cut, used>>

\* ... raises, or finds the abort key: except BaseException.
AgentRaises(i) ==
    /\ Runs(i, "agent") /\ StashConfigHolds(cfg)
    /\ \/ used.troubles < MaxTroubles /\ Spend("troubles") /\ out' = [out EXCEPT ![i] = "error"]
       \/ abort /\ out' = [out EXCEPT ![i] = "abort"] /\ UNCHANGED used
    /\ Goto(i, "failing")
    /\ UNCHANGED <<still, pad, ran, ev, marked, permits, cut>>

\* The stash configuration is read inside the try as well.
StashConfigRaises(i) ==
    /\ Runs(i, "agent") /\ ~StashConfigHolds(cfg)
    /\ out' = [out EXCEPT ![i] = "error"]
    /\ Goto(i, "failing")
    /\ UNCHANGED <<still, pad, ran, ev, marked, permits, cut, used>>

\* ScratchpadStore.drop: DEL of the record, then SREM from the index.
DropRecord(i) ==
    /\ Runs(i, "dropping")
    /\ Goto(i, "unlisting")
    /\ recs' = [x \in DOMAIN recs \ {i} |-> recs[x]]
    /\ UNCHANGED <<still, index, told, lapsed, ran, out, ev, marked, permits, cut, used>>

DropIndex(i) ==
    /\ Runs(i, "unlisting")
    /\ Goto(i, "closing")
    /\ index' = index \ {i}
    /\ UNCHANGED <<still, recs, told, lapsed, ran, out, ev, marked, permits, cut, used>>

EmitCompleted(i) ==
    /\ Runs(i, "closing")
    /\ Over(i, "processed")
    /\ ev' = [ev EXCEPT ![i] = "completed"]
    /\ UNCHANGED <<still, pad, ran, cut, used>>

\* Seeded fault: the record is dropped on the way out of a failed run too.
EmitFailedAndDrop(i) ==
    /\ Runs(i, "failing")
    /\ Over(i, out[i])
    /\ ev' = [ev EXCEPT ![i] = "failed"]
    /\ recs' = [x \in DOMAIN recs \ {i} |-> recs[x]] /\ index' = index \ {i}
    /\ UNCHANGED <<still, told, lapsed, ran, cut, used>>

EmitFailed(i) ==
    /\ Runs(i, "failing")
    /\ Over(i, out[i])
    /\ ev' = [ev EXCEPT ![i] = "failed"]
    /\ UNCHANGED <<still, pad, ran, cut, used>>

\* An emit that is interrupted has stored its event or has not.
MaybeEmitted(i, e) == cut' = cut \cup {i} /\ \E x \in {ev[i], e} : ev' = [ev EXCEPT ![i] = x]

\* So has the DEL or the SREM of the drop.
MaybeDropped(i) ==
    /\ recs' \in IF pc[i] = "dropping" THEN {recs, [x \in DOMAIN recs \ {i} |-> recs[x]]}
                 ELSE {recs}
    /\ index' \in IF pc[i] = "unlisting" THEN {index, index \ {i}} ELSE {index}
    /\ UNCHANGED <<told, lapsed>>

\* An exception at the await the task is at. Before the try, and in the last
\* emit, nothing catches it; the body turns it into iteration_failed.
Interrupted(i, how) ==
    \/ /\ pc[i] \in {"entered", "fetching"}
       /\ Over(i, how)
       /\ UNCHANGED <<ev, cut, pad>>
    \/ /\ pc[i] \in {"starting", "closing"}
       /\ Over(i, how)
       /\ MaybeEmitted(i, IF pc[i] = "starting" THEN "started" ELSE "completed")
       /\ UNCHANGED pad
    \/ /\ pc[i] \in {"dropping", "unlisting"}
       /\ Goto(i, "failing") /\ out' = [out EXCEPT ![i] = how]
       /\ marked' = marked \ {i}
       /\ MaybeDropped(i)
       /\ UNCHANGED <<ev, permits, cut>>
    \/ /\ pc[i] = "failing"
       /\ Over(i, out[i])
       /\ MaybeEmitted(i, "failed")
       /\ UNCHANGED pad

\* Redis or the database fails it.
StepRaises(i) ==
    /\ i \notin marked /\ used.troubles < MaxTroubles
    /\ Spend("troubles")
    /\ Interrupted(i, "error")
    /\ UNCHANGED <<still, ran>>

\* Seeded fault: except Exception, which a CancelledError passes.
CancelArrivesUncaught(i) ==
    /\ i \in marked
    /\ Over(i, "cancelled")
    /\ UNCHANGED <<still, pad, ran, ev, cut, used>>

\* The CancelledError of a sibling's failure. A task that waits for a permit
\* has none to release; the rollback before iteration_failed swallows it.
CancelArrives(i) ==
    /\ i \in marked
    /\ \/ Interrupted(i, "cancelled")
       \/ /\ pc[i] = "queued"
          /\ Goto(i, "over") /\ out' = [out EXCEPT ![i] = "cancelled"]
          /\ marked' = marked \ {i}
          /\ UNCHANGED <<pad, ev, permits, cut>>
       \/ /\ pc[i] = "agent"
          /\ Goto(i, "failing") /\ out' = [out EXCEPT ![i] = "cancelled"]
          /\ marked' = marked \ {i}
          /\ UNCHANGED <<pad, ev, permits, cut>>
       \/ /\ pc[i] = "failing"
          /\ marked' = marked \ {i}
          /\ UNCHANGED <<pad, pc, out, ev, permits, cut>>
    /\ UNCHANGED <<still, ran, used>>

-----------------------------------------------------------------------------
(* agent_yield *)

\* What a turn ends with: yield_iteration with every field of the carry
\* ("done", "more"), without a declared one ("short"), with a carry that is no
\* object ("malformed"), or no yield at all ("none").
TurnEnds == {"done", "more", "short", "malformed", "none"}

Accepted(end) == end \in {"done", "more"} \/ (end = "short" /\ cfg.carry = "empty")

LoopDone(n) == result' = n /\ node' = "completed"

\* One pass of the for loop: break, else or the next index. Only accepted turns
\* append; a turn without a usable yield ends the loop, or raises.
YieldTurn(end) ==
    /\ node = "looping" /\ Source(cfg) = "agent_yield" /\ StashConfigHolds(cfg)
    /\ IF ~Accepted(end)
       THEN IF OnNoYield(cfg) = "error" THEN node' = "failed" /\ UNCHANGED yield
            ELSE LoopDone(turn) /\ UNCHANGED <<items, turn>>
       ELSE /\ items' = Append(items, turn)
            /\ IF end = "done" \/ turn + 1 = resolve_max_iterations(cfg.max_iterations)
               THEN LoopDone(turn + 1) /\ UNCHANGED turn
               ELSE turn' = turn + 1 /\ UNCHANGED <<result, node>>
    /\ UNCHANGED <<cfg, pad, call, ran, bounded, tasks, abort, used, left>>

\* The agent of the turn raises or finds the abort key, or the stash
\* configuration does not hold.
YieldRaises ==
    /\ node = "looping" /\ Source(cfg) = "agent_yield"
    /\ \/ abort /\ UNCHANGED used
       \/ ~StashConfigHolds(cfg) /\ UNCHANGED used
       \/ used.troubles < MaxTroubles /\ Spend("troubles")
    /\ node' = "failed"
    /\ UNCHANGED <<cfg, pad, call, ran, bounded, tasks, yield, abort, left>>

-----------------------------------------------------------------------------
(* The rest of the run *)

Abort ==
    /\ ~abort /\ used.troubles < MaxTroubles
    /\ Spend("troubles")
    /\ abort' = TRUE
    /\ UNCHANGED <<cfg, pad, call, ran, loop, tasks, yield, left>>

\* The worker dies: its tasks and calls with it. Redis stays, and so does what
\* was emitted; the next execution opens iterations of its own.
Crash ==
    /\ node \notin Ended /\ used.troubles < MaxTroubles
    /\ Spend("troubles")
    /\ node' = "waiting" /\ bounded' = {}
    /\ call' = NoCall
    /\ left' = Open
    /\ NoTasks
    /\ UNCHANGED <<cfg, pad, ran, yield, abort>>

TaskStep(i) ==
    \/ Acquire(i) \/ CheckAbort(i) \/ Fetch(i) \/ EmitStarted(i) \/ AgentEnds(i)
    \/ StashConfigRaises(i)
    \/ DropRecord(i) \/ DropIndex(i) \/ EmitCompleted(i) \/ EmitFailed(i) \/ CancelArrives(i)

Progress ==
    \/ StartNode \/ WalkEnds \/ SequenceEnds \/ CancelSiblings \/ Drained
    \/ \E i \in Ids : TaskStep(i)
    \/ \E end \in TurnEnds : YieldTurn(end)
    \/ YieldRaises

Next ==
    \/ Progress
    \/ \E c \in Calls : StashCall(c)
    \/ StashSet \/ StashIndex \/ StashFails
    \/ \E x \in Ids : RecordExpires(x)
    \/ \E i \in Ids : AgentRaises(i) \/ StepRaises(i)
    \/ Abort \/ Crash

Spec == Init /\ [][Next]_vars

\* The event loop of a live worker goes on, and an agent's run ends: its turns
\* and its HTTP calls are bounded. Nothing is assumed of faults.
FairSpec == Spec /\ WF_vars(Progress)

-----------------------------------------------------------------------------
(* Properties *)

\* stash_records never stores a record its checker objected to, and stores
\* every record under its own id: positions survive the two filters.
StoredAsChecked ==
    \A x \in DOMAIN recs :
        /\ recs[x] \notin Malformed \cup Unmapped \cup Known
        /\ x \in {Explicit[recs[x]], Hash[recs[x]]}

\* A record a call reported as stashed or already_stashed waits in the
\* collection until an agent run on it has ended, whatever fails, is cancelled,
\* aborted or crashes meanwhile; only its own TTL takes it away.
NoRecordLost ==
    \A x \in told : x \in DOMAIN recs \cap index \/ x \in ran \/ x \in lapsed

\* When the node has ended, every iteration that was started was closed by
\* iteration_completed or iteration_failed, a failing or cancelled one too. The
\* exceptions are an emit that itself failed or was cancelled, and the
\* iterations of a dead worker: their records are taken up again under new ids,
\* and nobody closes them.
StartedIsClosed ==
    node \in Ended => Open \subseteq cut \cup left

\* Refuted by Iteration_crash.cfg: every iteration of a node that has ended is
\* closed unless an emit of its own was interrupted.
EveryIterationCloses ==
    node \in Ended => Open \subseteq cut

\* A node that has completed or failed left no task of its own behind: nothing
\* of it emits, runs an agent or drops a record after node_failed.
NoOrphanIteration ==
    node \in Ended /\ Parallel(cfg) => \A i \in bounded : pc[i] = "over"

\* The node comes to an end: no task waits for a permit that never comes back.
NodeEnds == <>(node \in Ended)

\* "as soon as any task raises AbortSignalError, we cancel everything else":
\* no agent run ends normally after a sibling has raised it.
AbortCancelsSiblings ==
    [][\A i \in Ids : (\E j \in Ids : pc[j] = "over" /\ out[j] = "abort") => ~AgentEnds(i)]_vars
=============================================================================
