------------------------------ MODULE FlowRun ------------------------------
(***************************************************************************)
(* One flow run: its row (FlowRun.status, FlowRun.state), its Redis keys   *)
(* (run_state, the abort key), the Celery tasks that execute it            *)
(* (tasks.py over FlowRunner, engine/runner.py) and the HTTP handlers that *)
(* resume and abort it (routers/runs.py).                                  *)
(*                                                                         *)
(* A run's state is the set of nodes whose output it holds. The graph runs *)
(* in LangGraph supersteps: the nodes of one superstep run in parallel,    *)
(* each yields one update, and the next superstep holds their successors.  *)
(* Tasks are acknowledged late: one whose worker dies is delivered again.  *)
(* A database write or a Redis command is one step.                        *)
(***************************************************************************)
EXTENDS Naturals, FiniteSets

CONSTANTS
    Nodes,        \* the nodes of the flow
    Entry,        \* its entry_point
    Definitions,  \* definitions of it: the human_checkpoint nodes, and for each
                  \* node the successor sets its edges may select ({}: END)
    Tasks,        \* slots for the Celery tasks of this run
    Trigger,      \* the slot of the run_flow task enqueued with the row
    NoState,      \* an absent run_state key
    MaxFaults,    \* bound: worker deaths, and errors outside _execute's try
    MaxAborts     \* bound: abort requests

ASSUME FlowRunAssumption ==
    /\ Entry \in Nodes
    /\ Definitions \subseteq [checkpoints : SUBSET Nodes,
                               succs : [Nodes -> SUBSET SUBSET Nodes]]
    /\ Trigger \in Tasks
    /\ MaxFaults \in Nat /\ MaxAborts \in Nat

VARIABLES
    definition, \* Flow.definition, which every execution loads
    status,    \* FlowRun.status
    dbState,   \* FlowRun.state["outputs"]
    cache,     \* run_state:{run}, or NoState
    abortKey,  \* abort:{run} exists
    pc,        \* where each task is
    kind,      \* run_flow or resume_flow
    seen,      \* FlowRun.status in the task's session (its identity map)
    todo,      \* the nodes in flight in the task's superstep
    next,      \* the nodes of the superstep after it, so far
    base,      \* the outputs channel the superstep's nodes read
    mem,       \* final_state["outputs"] of the task
    abortPc,   \* where the abort request is
    faults, aborts,
    lost,      \* history: an execution ended without a status and without a retry
    doubled    \* history: two tasks have executed the run at the same time

row == <<status, dbState>>
keys == <<cache, abortKey>>
task == <<pc, kind, seen, todo, next, base, mem>>
bounds == <<faults, aborts>>
history == <<lost, doubled>>
vars == <<definition, row, keys, task, abortPc, bounds, history>>

Statuses == {"pending", "running", "paused", "completed", "failed"}
Terminal == {"completed", "failed"}
Executing == {"start", "refresh", "build", "prime", "persist", "nodes",
              "pausing", "hold", "failing", "completing", "cleanup", "ack"}
Pcs == {"none", "queued"} \cup Executing

TypeOK ==
    /\ definition \in Definitions
    /\ status \in Statuses
    /\ dbState \subseteq Nodes
    /\ cache \in (SUBSET Nodes) \cup {NoState}
    /\ abortKey \in BOOLEAN
    /\ pc \in [Tasks -> Pcs]
    /\ kind \in [Tasks -> {"run", "resume"}]
    /\ seen \in [Tasks -> Statuses]
    /\ todo \in [Tasks -> SUBSET Nodes]
    /\ next \in [Tasks -> SUBSET Nodes]
    /\ base \in [Tasks -> SUBSET Nodes]
    /\ mem \in [Tasks -> SUBSET Nodes]
    /\ abortPc \in {"idle", "set", "mark"}
    /\ faults \in 0..MaxFaults
    /\ aborts \in 0..MaxAborts
    /\ lost \in BOOLEAN /\ doubled \in BOOLEAN

\* create_flow_run committed the row and run_flow is enqueued for it.
Init ==
    /\ definition \in Definitions
    /\ status = "pending" /\ dbState = {}
    /\ cache = NoState /\ abortKey = FALSE
    /\ pc = [k \in Tasks |-> IF k = Trigger THEN "queued" ELSE "none"]
    /\ kind = [k \in Tasks |-> IF k = Trigger THEN "run" ELSE "resume"]
    /\ seen = [k \in Tasks |-> "pending"]
    /\ todo = [k \in Tasks |-> {}] /\ next = [k \in Tasks |-> {}]
    /\ base = [k \in Tasks |-> {}] /\ mem = [k \in Tasks |-> {}]
    /\ abortPc = "idle"
    /\ faults = 0 /\ aborts = 0
    /\ lost = FALSE /\ doubled = FALSE

Checkpoints == definition.checkpoints
Succs == definition.succs

Goto(k, label) == pc' = [pc EXCEPT ![k] = label]

\* The task's process is done with the run: nothing of its memory is left.
Leave(k, label) ==
    /\ Goto(k, label)
    /\ seen' = [seen EXCEPT ![k] = "pending"]
    /\ todo' = [todo EXCEPT ![k] = {}]
    /\ next' = [next EXCEPT ![k] = {}]
    /\ base' = [base EXCEPT ![k] = {}]
    /\ mem' = [mem EXCEPT ![k] = {}]

\* The graph has raised: what is left of it is final_state.
Stop(k, label) ==
    /\ Goto(k, label)
    /\ todo' = [todo EXCEPT ![k] = {}]
    /\ next' = [next EXCEPT ![k] = {}]
    /\ base' = [base EXCEPT ![k] = {}]

\* set_run_status in the session of task k: the ORM updates the row only when
\* the status differs from the one the session loaded.
Assigned(k, new) == IF seen[k] = new THEN status ELSE new

-----------------------------------------------------------------------------
(* FlowRunner.run, FlowRunner.resume: up to the graph *)

\* A worker takes the task and loads the run. run() executes it whatever its
\* status; resume() raises ValueError unless it is paused, and the task is over.
Load(k) ==
    /\ pc[k] = "queued"
    /\ kind[k] = "run" \/ status = "paused"
    /\ seen' = [seen EXCEPT ![k] = status]
    /\ Goto(k, "start")
    /\ doubled' = (doubled \/ \E j \in Tasks \ {k} : pc[j] \in Executing)
    /\ UNCHANGED <<definition, row, keys, kind, todo, next, base, mem, abortPc,
                   bounds, lost>>

LoadRefused(k) ==
    /\ pc[k] = "queued"
    /\ kind[k] = "resume" /\ status # "paused"
    /\ Goto(k, "none")
    /\ UNCHANGED <<definition, row, keys, kind, seen, todo, next, base, mem,
                   abortPc, bounds, history>>

\* set_run_status(running), its commit. (resume has saved the answer before.)
Start(k) ==
    /\ pc[k] = "start"
    /\ status' = Assigned(k, "running")
    /\ Goto(k, "refresh")
    /\ UNCHANGED <<definition, dbState, keys, kind, seen, todo, next, base, mem,
                   abortPc, bounds, history>>

\* set_run_status's db.refresh: what the session knows of the row from here on.
Refresh(k) ==
    /\ pc[k] = "refresh"
    /\ seen' = [seen EXCEPT ![k] = status]
    /\ mem' = [mem EXCEPT ![k] = dbState]
    /\ Goto(k, "build")
    /\ UNCHANGED <<definition, row, keys, kind, todo, next, base, abortPc,
                   bounds, history>>

\* _build_initial_state: the run_state key if it is there, else the row. The
\* graph is compiled with a new checkpointer: it starts at the entry point.
Build(k) ==
    /\ pc[k] = "build"
    /\ LET initial == IF cache = NoState THEN mem[k] ELSE cache
       IN /\ mem' = [mem EXCEPT ![k] = initial]
          /\ base' = [base EXCEPT ![k] = initial]
    /\ todo' = [todo EXCEPT ![k] = {Entry}]
    /\ next' = [next EXCEPT ![k] = {}]
    /\ Goto(k, "prime")
    /\ UNCHANGED <<definition, row, keys, kind, seen, abortPc, bounds, history>>

\* Seeded fault: the snapshot is not refreshed, only set when there is none.
PersistOnce(k) ==
    /\ pc[k] \in {"prime", "persist"}
    /\ cache' = IF cache = NoState THEN mem[k] ELSE cache
    /\ Goto(k, IF todo[k] = {} THEN "completing" ELSE "nodes")
    /\ UNCHANGED <<definition, row, abortKey, kind, seen, todo, next, base, mem,
                   abortPc, bounds, history>>

\* _persist_run_state, before the graph and after every event. The graph is
\* over when no node is left to run.
Persist(k) ==
    /\ pc[k] \in {"prime", "persist"}
    /\ cache' = mem[k]
    /\ Goto(k, IF todo[k] = {} THEN "completing" ELSE "nodes")
    /\ UNCHANGED <<definition, row, abortKey, kind, seen, todo, next, base, mem,
                   abortPc, bounds, history>>

-----------------------------------------------------------------------------
(* The graph *)

\* Seeded fault: a plain dict update, the last writer's outputs win.
MergeClobbers(left, right) == right

\* _merge_state on the outputs: key by key.
Merge(left, right) == left \cup right

\* A node of the superstep is done: execute returned the outputs it read plus
\* its own. The runner finds no abort key and merges them. The edges of the node
\* select its successors; after the last node the next superstep is due.
NodeYields(k, n) ==
    /\ pc[k] = "nodes" /\ n \in todo[k] \ Checkpoints
    /\ ~abortKey
    /\ \E s \in Succs[n] :
          LET merged == Merge(mem[k], base[k] \cup {n})
              last == todo[k] = {n}
          IN /\ mem' = [mem EXCEPT ![k] = merged]
             /\ todo' = [todo EXCEPT ![k] = IF last THEN next[k] \cup s ELSE @ \ {n}]
             /\ next' = [next EXCEPT ![k] = IF last THEN {} ELSE @ \cup s]
             /\ base' = [base EXCEPT ![k] = IF last THEN merged ELSE @]
    /\ Goto(k, "persist")
    /\ UNCHANGED <<definition, row, keys, kind, seen, abortPc, bounds, history>>

\* The event finds the abort key: AbortSignalError, the update is dropped.
NodeAborted(k, n) ==
    /\ pc[k] = "nodes" /\ n \in todo[k] \ Checkpoints
    /\ abortKey
    /\ Stop(k, "failing")
    /\ UNCHANGED <<definition, row, keys, kind, seen, mem, abortPc, bounds,
                   history>>

\* The node raises (an abort inside its LLM stream too): NodeExecutionError,
\* and the other nodes of the superstep are cancelled.
NodeFails(k, n) ==
    /\ pc[k] = "nodes" /\ n \in todo[k]
    /\ Stop(k, "failing")
    /\ UNCHANGED <<definition, row, keys, kind, seen, mem, abortPc, bounds,
                   history>>

\* _run_human_checkpoint raises HumanCheckpointInterrupt.
NodeInterrupts(k, n) ==
    /\ pc[k] = "nodes" /\ n \in todo[k] \cap Checkpoints
    /\ Stop(k, "pausing")
    /\ UNCHANGED <<definition, row, keys, kind, seen, mem, abortPc, bounds,
                   history>>

-----------------------------------------------------------------------------
(* The end of _execute *)

\* set_run_status(new, state=final_state).
EndWith(k, new, label) ==
    /\ status' = Assigned(k, new)
    /\ dbState' = mem[k]
    /\ Goto(k, label)
    /\ UNCHANGED <<definition, keys, kind, seen, todo, next, base, mem, abortPc,
                   bounds, history>>

Pause(k) == pc[k] = "pausing" /\ EndWith(k, "paused", "hold")

\* Seeded fault: the error is logged, the status is left alone.
FailSilently(k) ==
    /\ pc[k] = "failing"
    /\ Goto(k, "cleanup")
    /\ UNCHANGED <<definition, row, keys, kind, seen, todo, next, base, mem,
                   abortPc, bounds, history>>

Fail(k) == pc[k] = "failing" /\ EndWith(k, "failed", "cleanup")

Complete(k) == pc[k] = "completing" /\ EndWith(k, "completed", "cleanup")

\* A pause keeps the snapshot.
Hold(k) ==
    /\ pc[k] = "hold"
    /\ cache' = mem[k]
    /\ Goto(k, "ack")
    /\ UNCHANGED <<definition, row, abortKey, kind, seen, todo, next, base, mem,
                   abortPc, bounds, history>>

\* _cleanup_run_keys: one DELETE of both keys.
Cleanup(k) ==
    /\ pc[k] = "cleanup"
    /\ cache' = NoState /\ abortKey' = FALSE
    /\ Goto(k, "ack")
    /\ UNCHANGED <<definition, row, kind, seen, todo, next, base, mem, abortPc,
                   bounds, history>>

\* The task returned: it is acknowledged and its slot is free.
Ack(k) ==
    /\ pc[k] = "ack"
    /\ Leave(k, "none")
    /\ UNCHANGED <<definition, row, keys, kind, abortPc, bounds, history>>

-----------------------------------------------------------------------------
(* Failures of the worker and of its stores *)

\* The worker dies: task_acks_late and task_reject_on_worker_lost put the task
\* back in its queue. A resume_flow delivered again to a running run is refused.
Crash(k) ==
    /\ pc[k] \in Executing /\ faults < MaxFaults
    /\ faults' = faults + 1
    /\ Leave(k, "queued")
    /\ lost' = (lost \/ (kind[k] = "resume" /\ status = "running"))
    /\ UNCHANGED <<definition, row, keys, kind, abortPc, aborts, doubled>>

\* A call outside _execute's try, or in one of its except clauses, raises: the
\* task fails, and a failed task is acknowledged.
ErrorEscapes(k) ==
    /\ pc[k] \in {"start", "refresh", "build", "prime", "pausing", "hold", "failing",
                  "completing"}
    /\ faults < MaxFaults
    /\ faults' = faults + 1
    /\ Leave(k, "none")
    /\ lost' = TRUE
    /\ UNCHANGED <<definition, row, keys, kind, abortPc, aborts, doubled>>

\* The snapshot cannot be written inside the try: the run fails.
PersistFails(k) ==
    /\ pc[k] = "persist" /\ faults < MaxFaults
    /\ faults' = faults + 1
    /\ Stop(k, "failing")
    /\ UNCHANGED <<definition, row, keys, kind, seen, mem, abortPc, aborts, history>>

\* An emit of the task loses its sequence to another writer and rolls back: that
\* expires what the session had loaded, and set_run_status reads the row again.
Rollback(k) ==
    /\ \/ pc[k] = "start" /\ kind[k] = "resume"
       \/ pc[k] \in {"build", "nodes", "failing", "completing"}
    /\ seen' = [seen EXCEPT ![k] = status]
    /\ UNCHANGED <<definition, row, keys, pc, kind, todo, next, base, mem, abortPc,
                   bounds, history>>

\* run_stream_key_ttl_seconds and run_abort_key_ttl_seconds run out.
ExpireCache ==
    /\ cache # NoState
    /\ cache' = NoState
    /\ UNCHANGED <<definition, row, abortKey, task, abortPc, bounds, history>>

ExpireAbort ==
    /\ abortKey
    /\ abortKey' = FALSE
    /\ UNCHANGED <<definition, row, cache, task, abortPc, bounds, history>>

-----------------------------------------------------------------------------
(* routers/runs.py *)

\* POST /runs/{run}/resume enqueues resume_flow whatever the status.
ResumeRequest(k) ==
    /\ pc[k] = "none"
    /\ kind' = [kind EXCEPT ![k] = "resume"]
    /\ Goto(k, "queued")
    /\ UNCHANGED <<definition, row, keys, seen, todo, next, base, mem, abortPc,
                   bounds, history>>

\* POST /runs/{run}/abort: a run that is over is left as it is ...
AbortRead ==
    /\ abortPc = "idle" /\ aborts < MaxAborts
    /\ aborts' = aborts + 1
    /\ abortPc' = IF status \in Terminal THEN "idle" ELSE "set"
    /\ UNCHANGED <<definition, row, keys, task, faults, history>>

\* ... the others get the abort key ...
AbortSet ==
    /\ abortPc = "set"
    /\ abortKey' = TRUE
    /\ abortPc' = "mark"
    /\ UNCHANGED <<definition, row, cache, task, bounds, history>>

\* ... and the status. state=run.state assigns the state the session loaded:
\* no update of the column.
AbortMark ==
    /\ abortPc = "mark"
    /\ status' = "failed"
    /\ abortPc' = "idle"
    /\ UNCHANGED <<definition, dbState, keys, task, bounds, history>>

-----------------------------------------------------------------------------
NodeStep(k) ==
    \E n \in Nodes :
        NodeYields(k, n) \/ NodeAborted(k, n) \/ NodeFails(k, n) \/ NodeInterrupts(k, n)

TaskStep(k) ==
    \/ Load(k) \/ LoadRefused(k) \/ Start(k) \/ Refresh(k) \/ Build(k) \/ Persist(k)
    \/ NodeStep(k)
    \/ Pause(k) \/ Fail(k) \/ Complete(k) \/ Hold(k) \/ Cleanup(k) \/ Ack(k)

AbortStep == AbortRead \/ AbortSet \/ AbortMark

Next ==
    \/ \E k \in Tasks :
          \/ TaskStep(k) \/ ResumeRequest(k)
          \/ Crash(k) \/ ErrorEscapes(k) \/ PersistFails(k) \/ Rollback(k)
    \/ AbortStep
    \/ ExpireCache \/ ExpireAbort

Spec == Init /\ [][Next]_vars

\* A worker takes every queued task and, while it lives, runs it to its end.
FairSpec == Spec /\ \A k \in Tasks : WF_vars(TaskStep(k))

\* Moreover somebody answers.
AnsweredSpec == FairSpec /\ \A k \in Tasks : WF_vars(ResumeRequest(k))

-----------------------------------------------------------------------------
(* Properties *)

\* Some task will still write the status of the run: it executes it, or is a
\* queued run_flow, which executes whatever it finds.
Driven ==
    \E k \in Tasks :
        \/ pc[k] \in Executing \ {"cleanup", "hold", "ack"}
        \/ pc[k] = "queued" /\ kind[k] = "run"

\* "a crash mid-run can recover from the Redis snapshot" (README.md:1150): a
\* run whose row says running always has a task that will finish it.
RunningIsDriven == status = "running" => Driven

\* That holds until a resumed execution crashes, or an error escapes _execute.
RunningIsDrivenUnlessLost == ~lost => RunningIsDriven

\* Under those conditions no run stays running (or pending) for ever, whatever
\* aborts, resumes, deaths and expiries meet it.
RunningEnds == status \in {"pending", "running"} ~> status \notin {"pending", "running"} \/ lost

\* A set of outputs that takes the flow from its entry point to END.
CoversAPath(outputs) ==
    \E path \in SUBSET outputs :
        /\ Entry \in path
        /\ \A n \in path : \E s \in Succs[n] : s \subseteq path

\* Unless two tasks executed it at once, a run marked completed has, in its row,
\* an output of every node of a full execution (_merge_state, EndWith): nothing
\* is lost to parallel branches, a crash, an expired snapshot or an abort.
CompletedCoversAPath == status = "completed" /\ ~doubled => CoversAPath(dbState)

\* Whichever source the next execution of a paused run starts from, snapshot or
\* row (_build_initial_state), it has the outputs the row was paused with.
SnapshotNotBehindRow ==
    status = "paused" /\ ~doubled /\ cache # NoState => dbState \subseteq cache

\* "A subsequent resume() call ... continues from the checkpoint"
\* (engine/nodes.py:71): a paused run that is answered whenever it asks
\* does not stay paused at its checkpoint for ever.
AnsweredRunFinishes == status = "paused" ~> status \in Terminal
=============================================================================
