--------------------------- MODULE FlowRunProofs ---------------------------
(***************************************************************************)
(* Proofs about FlowRun, for any flow definitions, any number of tasks,    *)
(* faults and aborts.                                                      *)
(***************************************************************************)
EXTENDS FlowRun, TLAPS

USE DEF row, keys, task, bounds, history

\* Every step keeps the row, the keys and the tasks typed.
LEMMA TypeStep == TypeOK /\ [Next]_vars => TypeOK'
<1> SUFFICES ASSUME TypeOK, [Next]_vars PROVE TypeOK'
    OBVIOUS
<1> USE FlowRunAssumption DEF TypeOK, Statuses, Terminal, Pcs, Executing, Goto
<1>1. ASSUME NEW k \in Tasks, TaskStep(k) PROVE TypeOK'
    <2>1. CASE Load(k) BY <2>1 DEF Load
    <2>2. CASE LoadRefused(k) BY <2>2 DEF LoadRefused
    <2>3. CASE Start(k) BY <2>3 DEF Start, Assigned
    <2>4. CASE Refresh(k) BY <2>4 DEF Refresh
    <2>5. CASE Build(k)
        <3>1. cache # NoState => cache \in SUBSET Nodes
            OBVIOUS
        <3> QED BY <2>5, <3>1 DEF Build
    <2>6. CASE Persist(k) BY <2>6 DEF Persist
    <2>7. ASSUME NEW n \in Nodes, NodeYields(k, n) PROVE TypeOK'
        <3>1. PICK s \in Succs[n] :
                  LET merged == Merge(mem[k], base[k] \cup {n})
                      last == todo[k] = {n}
                  IN /\ mem' = [mem EXCEPT ![k] = merged]
                     /\ todo' = [todo EXCEPT ![k] = IF last THEN next[k] \cup s ELSE @ \ {n}]
                     /\ next' = [next EXCEPT ![k] = IF last THEN {} ELSE @ \cup s]
                     /\ base' = [base EXCEPT ![k] = IF last THEN merged ELSE @]
            BY <2>7 DEF NodeYields
        <3>2. s \subseteq Nodes
            BY <2>7 DEF Succs
        <3>3. /\ mem[k] \subseteq Nodes /\ base[k] \subseteq Nodes
              /\ todo[k] \subseteq Nodes /\ next[k] \subseteq Nodes
            OBVIOUS
        <3>4. Merge(mem[k], base[k] \cup {n}) \subseteq Nodes
            BY <2>7, <3>3 DEF Merge
        <3>5. /\ mem' \in [Tasks -> SUBSET Nodes] /\ base' \in [Tasks -> SUBSET Nodes]
            BY <3>1, <3>3, <3>4
        <3>6. /\ todo' \in [Tasks -> SUBSET Nodes] /\ next' \in [Tasks -> SUBSET Nodes]
            BY <3>1, <3>2, <3>3
        <3>7. pc' \in [Tasks -> Pcs]
            BY <2>7 DEF NodeYields
        <3> QED BY <2>7, <3>5, <3>6, <3>7 DEF NodeYields
    <2>8. ASSUME NEW n \in Nodes, NodeAborted(k, n) \/ NodeFails(k, n) \/ NodeInterrupts(k, n)
          PROVE TypeOK'
        BY <2>8 DEF NodeAborted, NodeFails, NodeInterrupts, Stop
    <2>9. CASE Pause(k) BY <2>9 DEF Pause, EndWith, Assigned
    <2>10. CASE Fail(k) BY <2>10 DEF Fail, EndWith, Assigned
    <2>11. CASE Complete(k) BY <2>11 DEF Complete, EndWith, Assigned
    <2>12. CASE Hold(k) BY <2>12 DEF Hold
    <2>13. CASE Cleanup(k)
        <3>1. abortKey' \in BOOLEAN
            BY <2>13, Zenon DEF Cleanup
        <3> QED BY <2>13, <3>1 DEF Cleanup
    <2>14. CASE Ack(k) BY <2>14 DEF Ack, Leave
    <2> QED BY <1>1, <2>1, <2>2, <2>3, <2>4, <2>5, <2>6, <2>7, <2>8, <2>9, <2>10,
               <2>11, <2>12, <2>13, <2>14 DEF TaskStep, NodeStep
<1>2. ASSUME NEW k \in Tasks, Crash(k) PROVE TypeOK'
    BY <1>2 DEF Crash, Leave
<1>3. ASSUME NEW k \in Tasks, ErrorEscapes(k) PROVE TypeOK'
    BY <1>3 DEF ErrorEscapes, Leave
<1>4. ASSUME NEW k \in Tasks, ResumeRequest(k) PROVE TypeOK'
    BY <1>4 DEF ResumeRequest
<1>8. ASSUME NEW k \in Tasks, PersistFails(k) \/ Rollback(k) PROVE TypeOK'
    BY <1>8 DEF PersistFails, Rollback, Stop
<1>5. CASE AbortStep
    <2>1. CASE AbortRead BY <2>1 DEF AbortRead
    <2>2. CASE AbortSet
        <3>1. abortKey' \in BOOLEAN
            BY <2>2, Zenon DEF AbortSet
        <3> QED BY <2>2, <3>1 DEF AbortSet
    <2>3. CASE AbortMark BY <2>3 DEF AbortMark
    <2> QED BY <1>5, <2>1, <2>2, <2>3 DEF AbortStep
<1>6. CASE ExpireCache \/ ExpireAbort
    <2>1. abortKey' \in BOOLEAN
        BY <1>6, Zenon DEF ExpireCache, ExpireAbort
    <2> QED BY <1>6, <2>1 DEF ExpireCache, ExpireAbort
<1>7. CASE UNCHANGED vars
    BY <1>7 DEF vars
<1> QED BY <1>1, <1>2, <1>3, <1>4, <1>5, <1>6, <1>7, <1>8 DEF Next

\* The row and the task that create_flow_run leaves behind are typed.
LEMMA InitType == Init => TypeOK
<1> SUFFICES ASSUME Init PROVE TypeOK
    OBVIOUS
<1>1. abortKey \in BOOLEAN /\ lost \in BOOLEAN /\ doubled \in BOOLEAN
    BY Zenon DEF Init
<1>2. status \in Statuses /\ dbState \subseteq Nodes /\ cache \in (SUBSET Nodes) \cup {NoState}
    BY DEF Init, Statuses
<1> QED BY <1>1, <1>2, FlowRunAssumption DEF Init, TypeOK, Statuses, Pcs, Executing

\* Type correctness of the run's row, keys and tasks.
THEOREM TypeCorrect == Spec => []TypeOK
BY InitType, TypeStep, PTL DEF Spec

-----------------------------------------------------------------------------
(* A running run is driven. Driven is not inductive: a task whose session    *)
(* loaded another status may skip its final UPDATE, so it is not enough that *)
(* some task executes. The task that matters is one whose final write will   *)
(* reach the row: it has yet to start, or its session saw the run running.   *)

Sure(k) ==
    \/ pc[k] = "queued" /\ kind[k] = "run"
    \/ pc[k] \in {"start", "refresh"}
    \/ /\ pc[k] \in {"build", "prime", "persist", "nodes", "pausing", "failing", "completing"}
       /\ seen[k] = "running"

DrivenInv == ~lost /\ status = "running" => \E k \in Tasks : Sure(k)

\* Every step leaves a running run with a task that is sure to end it.
LEMMA DrivenStep == TypeOK /\ DrivenInv /\ [Next]_vars => DrivenInv'
<1> SUFFICES ASSUME TypeOK, DrivenInv, [Next]_vars, ~lost', status' = "running"
             PROVE \E k \in Tasks : Sure(k)'
    BY DEF DrivenInv
<1> USE DEF Goto
<1> DEFINE Goal == \E k \in Tasks : Sure(k)'
<1>typ. /\ pc \in [Tasks -> Pcs] /\ kind \in [Tasks -> {"run", "resume"}]
        /\ seen \in [Tasks -> Statuses]
    BY DEF TypeOK
\* A task that was sure, and that the step does not touch, still is.
<1>keep. ASSUME NEW k \in Tasks, NEW j \in Tasks, j # k, Sure(j),
                pc'[j] = pc[j], kind'[j] = kind[j], seen'[j] = seen[j]
         PROVE Goal
    BY <1>keep DEF Sure
<1>1. ASSUME NEW k \in Tasks, TaskStep(k) PROVE Goal
    <2>0. ~lost
        BY <1>1 DEF TaskStep, NodeStep, Load, LoadRefused, Start, Refresh, Build, Persist,
               NodeYields, NodeAborted, NodeFails, NodeInterrupts, Pause, Fail, Complete,
               EndWith, Hold, Cleanup, Ack
    <2>1. CASE Load(k)
        BY <1>typ, <2>1 DEF Load, Sure
    <2>2. CASE Start(k)
        BY <1>typ, <2>2 DEF Start, Sure
    <2>3. ASSUME ~Start(k), ~Load(k) PROVE status = "running"
        BY <1>1, <2>3 DEF TaskStep, NodeStep, LoadRefused, Refresh, Build, Persist,
               NodeYields, NodeAborted, NodeFails, NodeInterrupts, Pause, Fail, Complete,
               EndWith, Assigned, Hold, Cleanup, Ack
    <2>4. ASSUME ~Start(k), ~Load(k), NEW j \in Tasks, Sure(j), j # k PROVE Goal
        <3>1. pc'[j] = pc[j] /\ kind'[j] = kind[j] /\ seen'[j] = seen[j]
            BY <1>1, <1>typ, <2>4 DEF TaskStep, NodeStep, LoadRefused, Refresh, Build,
                   Persist, NodeYields, NodeAborted, NodeFails, NodeInterrupts, Stop, Pause,
                   Fail, Complete, EndWith, Hold, Cleanup, Ack, Leave
        <3> QED BY <1>keep, <2>4, <3>1
    <2>5. ASSUME ~Start(k), ~Load(k), Sure(k) PROVE Goal
        <3>1. CASE Refresh(k)
            BY <1>typ, <2>3, <2>5, <3>1 DEF Refresh, Sure
        <3>2. CASE Build(k) \/ Persist(k) \/ NodeStep(k)
            BY <1>typ, <2>5, <3>2 DEF Build, Persist, NodeStep, NodeYields, NodeAborted,
                   NodeFails, NodeInterrupts, Stop, Sure
        <3>3. CASE Pause(k) \/ Fail(k) \/ Complete(k)
            BY <2>5, <3>3 DEF Pause, Fail, Complete, EndWith, Assigned, Sure
        <3>4. CASE LoadRefused(k) \/ Hold(k) \/ Cleanup(k) \/ Ack(k)
            BY <2>5, <3>4 DEF LoadRefused, Hold, Cleanup, Ack, Sure
        <3> QED BY <1>1, <2>5, <3>1, <3>2, <3>3, <3>4 DEF TaskStep
    <2> QED BY <2>0, <2>1, <2>2, <2>3, <2>4, <2>5 DEF DrivenInv
<1>2. ASSUME NEW k \in Tasks, Crash(k) PROVE Goal
    <2>1. ~lost /\ status = "running" /\ kind[k] = "run"
        BY <1>2, <1>typ DEF Crash
    <2>2. pc'[k] = "queued" /\ kind'[k] = "run"
        BY <1>2, <1>typ, <2>1 DEF Crash, Leave
    <2> QED BY <2>2 DEF Sure
<1>3. ASSUME NEW k \in Tasks, ErrorEscapes(k) PROVE Goal
    BY <1>3 DEF ErrorEscapes
<1>4. ASSUME NEW k \in Tasks, ResumeRequest(k) PROVE Goal
    <2>1. PICK j \in Tasks : Sure(j)
        BY <1>4 DEF ResumeRequest, DrivenInv
    <2>2. j # k
        BY <1>4, <2>1 DEF ResumeRequest, Sure
    <2> QED BY <1>4, <1>typ, <1>keep, <2>1, <2>2 DEF ResumeRequest
<1>7. ASSUME NEW k \in Tasks, PersistFails(k) \/ Rollback(k) PROVE Goal
    <2>1. PICK j \in Tasks : Sure(j)
        BY <1>7 DEF PersistFails, Rollback, DrivenInv
    <2>2. CASE j # k
        BY <1>7, <1>typ, <1>keep, <2>1, <2>2 DEF PersistFails, Rollback, Stop
    <2>3. CASE j = k
        BY <1>7, <1>typ, <2>1, <2>3 DEF PersistFails, Rollback, Stop, Sure
    <2> QED BY <2>2, <2>3
<1>5. CASE AbortStep \/ ExpireCache \/ ExpireAbort
    BY <1>5 DEF AbortStep, AbortRead, AbortSet, AbortMark, ExpireCache, ExpireAbort,
           DrivenInv, Sure
<1>6. CASE UNCHANGED vars
    BY <1>6 DEF vars, DrivenInv, Sure
<1> QED BY <1>1, <1>2, <1>3, <1>4, <1>5, <1>6, <1>7 DEF Next

\* What "a crash mid-run can recover" (README.md:1150) amounts to: as long as no
\* resumed execution dies and no error escapes _execute, a run whose row says
\* running has a task that will write its end, whatever the definition, however
\* many tasks overlap, and whatever is aborted or expires.
THEOREM RunningHasADriver == Spec => []RunningIsDrivenUnlessLost
<1>1. Init => DrivenInv
    BY DEF Init, DrivenInv
<1>2. DrivenInv => RunningIsDrivenUnlessLost
    BY DEF DrivenInv, RunningIsDrivenUnlessLost, RunningIsDriven, Driven, Sure, Executing
<1> QED BY <1>1, <1>2, InitType, TypeStep, DrivenStep, PTL DEF Spec
-----------------------------------------------------------------------------
(* What the outputs of a run are worth. Until two tasks execute it at once,  *)
(* the one task that does owns the row and the snapshot: nobody else can     *)
(* pause or complete the run under it, and an abort only ever fails it.      *)

AtMostOne ==
    \A j, k \in Tasks : pc[j] \in Executing /\ pc[k] \in Executing => j = k

\* Before its final write the run is neither paused nor completed under task k.
Undecided(k) ==
    /\ pc[k] = "start" /\ seen[k] = "running" => status \notin {"paused", "completed"}
    /\ pc[k] \in {"refresh", "build", "prime", "persist", "nodes", "pausing", "failing",
                  "completing"} => status \notin {"paused", "completed"}
    /\ pc[k] = "hold" => status # "completed"
    /\ pc[k] = "cleanup" => status # "paused"

\* The snapshot, once primed, is the task's own, and a held row has its outputs.
OwnSnapshot(k) ==
    /\ pc[k] \in {"nodes", "pausing", "hold"} => cache \in {NoState, mem[k]}
    /\ pc[k] = "hold" => dbState = mem[k]

Owned ==
    ~doubled => AtMostOne /\ \A k \in Tasks : Undecided(k) /\ OwnSnapshot(k)

\* The nodes that have an output, with those that are still due, make up an
\* execution from the entry point: a path has the successors one edge selected.
Due(k) == todo[k] \cup next[k]

PathSoFar(k) ==
    \E path \in SUBSET mem[k] :
        /\ Entry \in path \cup Due(k)
        /\ \A n \in path : \E s \in Succs[n] : s \subseteq path \cup Due(k)

GraphInv ==
    \A k \in Tasks :
        /\ todo[k] = {} => next[k] = {}
        /\ pc[k] = "completing" => todo[k] = {}
        /\ pc[k] \in {"prime", "persist", "nodes", "completing"} => PathSoFar(k)

OutputsInv ==
    /\ Owned
    /\ GraphInv
    /\ SnapshotNotBehindRow
    /\ CompletedCoversAPath

\* The steps of one task that executes the run, its deaths and errors included.
Runs(k) ==
    \/ Start(k) \/ Refresh(k) \/ Build(k) \/ Persist(k) \/ NodeStep(k)
    \/ Pause(k) \/ Fail(k) \/ Complete(k) \/ Hold(k) \/ Cleanup(k) \/ Ack(k)
    \/ Crash(k) \/ ErrorEscapes(k) \/ PersistFails(k) \/ Rollback(k)

\* A step of an executing task moves no other task, brings none into execution
\* and leaves the doubled history alone.
LEMMA RunsFrame ==
    ASSUME TypeOK, NEW k \in Tasks, Runs(k)
    PROVE  /\ pc[k] \in Executing
           /\ \A j \in Tasks \ {k} :
                 pc'[j] = pc[j] /\ seen'[j] = seen[j] /\ todo'[j] = todo[j]
                 /\ next'[j] = next[j] /\ mem'[j] = mem[j]
           /\ doubled' = doubled /\ definition' = definition
<1> USE DEF TypeOK, Goto, Executing
<1>1. CASE Start(k) \/ Refresh(k) \/ Build(k) \/ Persist(k)
    BY <1>1 DEF Start, Refresh, Build, Persist
<1>2. CASE NodeStep(k)
    <2>1. ASSUME NEW n \in Nodes, NodeYields(k, n)
          PROVE /\ pc[k] = "nodes" /\ doubled' = doubled /\ definition' = definition
                /\ \A j \in Tasks \ {k} :
                      pc'[j] = pc[j] /\ seen'[j] = seen[j] /\ todo'[j] = todo[j]
                      /\ next'[j] = next[j] /\ mem'[j] = mem[j]
        BY <2>1 DEF NodeYields
    <2> QED BY <1>2, <2>1 DEF NodeStep, NodeAborted, NodeFails, NodeInterrupts, Stop
<1>3. CASE Pause(k) \/ Fail(k) \/ Complete(k) \/ Hold(k) \/ Cleanup(k)
    BY <1>3 DEF Pause, Fail, Complete, EndWith, Hold, Cleanup
<1>4. CASE Ack(k) \/ Crash(k) \/ ErrorEscapes(k) \/ PersistFails(k) \/ Rollback(k)
    BY <1>4 DEF Ack, Crash, ErrorEscapes, Leave, PersistFails, Rollback, Stop
<1> QED BY <1>1, <1>2, <1>3, <1>4 DEF Runs

\* Every step is one of an executing task, one that only moves a queued task, or
\* one of the endpoints and of the expiring keys.
LEMMA StepCases ==
    ASSUME [Next]_vars
    PROVE  \/ \E k \in Tasks : Runs(k) \/ Load(k) \/ LoadRefused(k) \/ ResumeRequest(k)
           \/ AbortStep \/ ExpireCache \/ ExpireAbort \/ UNCHANGED vars
BY DEF Next, TaskStep, Runs

\* While one task executes the run at a time, its steps keep the run undecided
\* until its own final write, and the snapshot its own.
LEMMA OwnedStep == TypeOK /\ Owned /\ [Next]_vars => Owned'
<1> SUFFICES ASSUME TypeOK, Owned, [Next]_vars, ~doubled'
             PROVE AtMostOne' /\ \A j \in Tasks : Undecided(j)' /\ OwnSnapshot(j)'
    BY DEF Owned
<1> USE DEF Goto
<1>typ. /\ pc \in [Tasks -> Pcs] /\ seen \in [Tasks -> Statuses]
        /\ mem \in [Tasks -> SUBSET Nodes] /\ status \in Statuses
    BY DEF TypeOK
<1>0. ~doubled
    <2>1. ASSUME NEW k \in Tasks, Load(k) PROVE ~doubled
        BY <2>1 DEF Load
    <2>2. ASSUME NEW k \in Tasks, LoadRefused(k) \/ ResumeRequest(k) PROVE ~doubled
        BY <2>2 DEF LoadRefused, ResumeRequest
    <2> QED BY StepCases, RunsFrame, <2>1, <2>2 DEF AbortStep, AbortRead, AbortSet,
               AbortMark, ExpireCache, ExpireAbort, vars
<1>own. AtMostOne /\ \A j \in Tasks : Undecided(j) /\ OwnSnapshot(j)
    BY <1>0 DEF Owned
\* A task that does not execute the run says nothing about it.
<1>idle. ASSUME NEW j \in Tasks, pc'[j] \notin Executing
         PROVE Undecided(j)' /\ OwnSnapshot(j)'
    BY <1>idle DEF Undecided, OwnSnapshot, Executing
<1>1. ASSUME NEW k \in Tasks, Runs(k)
      PROVE AtMostOne' /\ \A j \in Tasks : Undecided(j)' /\ OwnSnapshot(j)'
    <2>1. pc[k] \in Executing /\ \A j \in Tasks \ {k} : pc'[j] = pc[j]
        BY <1>1, RunsFrame
    <2>2. \A j \in Tasks \ {k} : pc'[j] \notin Executing
        BY <1>own, <2>1 DEF AtMostOne
    <2>3. AtMostOne'
        BY <2>2 DEF AtMostOne
    <2>4. Undecided(k)
        BY <1>own
    <2>5. OwnSnapshot(k)
        BY <1>own
    <2>6. Undecided(k)' /\ OwnSnapshot(k)'
        <3>1. CASE Start(k)
            BY <1>typ, <2>4, <3>1 DEF Start, Assigned, Undecided, OwnSnapshot
        <3>2. CASE Refresh(k) \/ Build(k)
            BY <1>typ, <2>4, <3>2 DEF Refresh, Build, Undecided, OwnSnapshot
        <3>3. CASE Persist(k)
            BY <1>typ, <2>4, <3>3 DEF Persist, Undecided, OwnSnapshot
        <3>4. ASSUME NEW n \in Nodes, NodeYields(k, n) PROVE Undecided(k)' /\ OwnSnapshot(k)'
            BY <1>typ, <2>4, <3>4 DEF NodeYields, Undecided, OwnSnapshot
        <3>5. ASSUME NEW n \in Nodes,
                     NodeAborted(k, n) \/ NodeFails(k, n) \/ NodeInterrupts(k, n)
              PROVE Undecided(k)' /\ OwnSnapshot(k)'
            BY <1>typ, <2>4, <2>5, <3>5 DEF NodeAborted, NodeFails, NodeInterrupts, Stop,
                   Undecided, OwnSnapshot
        <3>6. CASE Pause(k)
            BY <1>typ, <2>4, <2>5, <3>6 DEF Pause, EndWith, Assigned, Undecided, OwnSnapshot
        <3>7. CASE Fail(k) \/ Complete(k)
            BY <1>typ, <2>4, <3>7 DEF Fail, Complete, EndWith, Assigned, Undecided, OwnSnapshot
        <3>8. CASE Hold(k) \/ Cleanup(k)
            BY <1>typ, <3>8 DEF Hold, Cleanup, Undecided, OwnSnapshot
        <3>9. CASE Ack(k) \/ Crash(k) \/ ErrorEscapes(k)
            BY <1>typ, <3>9 DEF Ack, Crash, ErrorEscapes, Leave, Undecided, OwnSnapshot
        <3>10. CASE PersistFails(k) \/ Rollback(k)
            BY <1>typ, <2>4, <2>5, <3>10 DEF PersistFails, Rollback, Stop, Undecided, OwnSnapshot
        <3> QED BY <1>1, <3>1, <3>2, <3>3, <3>4, <3>5, <3>6, <3>7, <3>8, <3>9, <3>10
                DEF Runs, NodeStep
    <2> QED BY <1>idle, <2>2, <2>3, <2>6
<1>2. ASSUME NEW k \in Tasks, Load(k)
      PROVE AtMostOne' /\ \A j \in Tasks : Undecided(j)' /\ OwnSnapshot(j)'
    <2>1. \A j \in Tasks \ {k} : pc[j] \notin Executing /\ pc'[j] = pc[j]
        BY <1>2, <1>typ DEF Load
    <2>2. AtMostOne'
        BY <2>1 DEF AtMostOne
    <2>3. Undecided(k)' /\ OwnSnapshot(k)'
        BY <1>2, <1>typ DEF Load, Undecided, OwnSnapshot
    <2> QED BY <1>idle, <2>1, <2>2, <2>3
<1>3. ASSUME NEW k \in Tasks, LoadRefused(k) \/ ResumeRequest(k)
      PROVE AtMostOne' /\ \A j \in Tasks : Undecided(j)' /\ OwnSnapshot(j)'
    <2>1. pc'[k] \notin Executing /\ \A j \in Tasks \ {k} : pc'[j] = pc[j]
        BY <1>3, <1>typ DEF LoadRefused, ResumeRequest, Executing
    <2>2. AtMostOne'
        BY <1>own, <2>1 DEF AtMostOne
    <2>3. ASSUME NEW j \in Tasks, j # k PROVE Undecided(j)' /\ OwnSnapshot(j)'
        BY <1>3, <1>own, <2>1, <2>3 DEF LoadRefused, ResumeRequest, Undecided, OwnSnapshot
    <2> QED BY <1>idle, <2>1, <2>2, <2>3
<1>4. CASE AbortStep \/ ExpireCache \/ ExpireAbort
    <2>1. pc' = pc /\ seen' = seen /\ mem' = mem /\ dbState' = dbState
          /\ status' \in {status, "failed"} /\ cache' \in {cache, NoState}
        BY <1>4 DEF AbortStep, AbortRead, AbortSet, AbortMark, ExpireCache, ExpireAbort
    <2>2. AtMostOne'
        BY <1>own, <2>1 DEF AtMostOne
    <2>3. ASSUME NEW j \in Tasks PROVE Undecided(j)' /\ OwnSnapshot(j)'
        BY <1>own, <2>1 DEF Undecided, OwnSnapshot
    <2> QED BY <2>2, <2>3
<1>5. CASE UNCHANGED vars
    BY <1>own, <1>5 DEF vars, AtMostOne, Undecided, OwnSnapshot
<1> QED BY StepCases, <1>1, <1>2, <1>3, <1>4, <1>5

\* Whatever branches run in parallel, the outputs a task has merged and the nodes
\* still due in its supersteps make up an execution from the entry point.
LEMMA GraphStep == TypeOK /\ GraphInv /\ [Next]_vars => GraphInv'
<1> SUFFICES ASSUME TypeOK, GraphInv, [Next]_vars PROVE GraphInv'
    OBVIOUS
<1> USE DEF Goto
<1> DEFINE G(k) ==
        /\ todo[k] = {} => next[k] = {}
        /\ pc[k] = "completing" => todo[k] = {}
        /\ pc[k] \in {"prime", "persist", "nodes", "completing"} => PathSoFar(k)
<1>typ. /\ pc \in [Tasks -> Pcs] /\ todo \in [Tasks -> SUBSET Nodes]
        /\ next \in [Tasks -> SUBSET Nodes] /\ mem \in [Tasks -> SUBSET Nodes]
    BY DEF TypeOK
<1>inv. \A k \in Tasks : G(k)
    BY DEF GraphInv
<1>keep. ASSUME NEW j \in Tasks, pc'[j] = pc[j], todo'[j] = todo[j], next'[j] = next[j],
                mem'[j] = mem[j], definition' = definition
         PROVE G(j)'
    BY <1>inv, <1>keep DEF PathSoFar, Due, Succs
<1>1. ASSUME NEW k \in Tasks, Runs(k) PROVE \A j \in Tasks : G(j)'
    <2>1. \A j \in Tasks \ {k} : G(j)'
        BY <1>1, <1>keep, RunsFrame
    <2>inv. G(k)
        BY <1>inv
    <2>2. G(k)'
        <3>1. CASE Start(k) \/ Refresh(k)
            BY <1>typ, <2>inv, <3>1 DEF Start, Refresh
        <3>2. CASE Build(k)
            <4>1. todo'[k] = {Entry} /\ next'[k] = {} /\ pc'[k] = "prime"
                BY <1>typ, <3>2 DEF Build
            <4>2. PathSoFar(k)'
                BY <4>1 DEF PathSoFar, Due
            <4> QED BY <4>1, <4>2
        <3>3. CASE Persist(k)
            <4>1. todo' = todo /\ next' = next /\ mem' = mem /\ definition' = definition
                  /\ pc[k] \in {"prime", "persist"}
                  /\ pc'[k] \in {"nodes", "completing"}
                  /\ (pc'[k] = "completing" => todo[k] = {})
                BY <1>typ, <3>3 DEF Persist
            <4>2. PathSoFar(k)'
                BY <2>inv, <4>1 DEF PathSoFar, Due, Succs
            <4> QED BY <2>inv, <4>1, <4>2
        <3>4. ASSUME NEW n \in Nodes, NodeYields(k, n) PROVE G(k)'
            <4>1. PICK s \in Succs[n] :
                      LET merged == Merge(mem[k], base[k] \cup {n})
                          last == todo[k] = {n}
                      IN /\ mem' = [mem EXCEPT ![k] = merged]
                         /\ todo' = [todo EXCEPT ![k] = IF last THEN next[k] \cup s ELSE @ \ {n}]
                         /\ next' = [next EXCEPT ![k] = IF last THEN {} ELSE @ \cup s]
                         /\ base' = [base EXCEPT ![k] = IF last THEN merged ELSE @]
                BY <3>4 DEF NodeYields
            <4>2. /\ pc[k] = "nodes" /\ pc'[k] = "persist" /\ n \in todo[k]
                  /\ definition' = definition
                BY <1>typ, <3>4 DEF NodeYields
            <4>3. mem'[k] = mem[k] \cup base[k] \cup {n}
                BY <1>typ, <4>1 DEF Merge
            <4>4. (todo[k] \cup next[k] \cup s) \ {n} \subseteq Due(k)'
                BY <1>typ, <4>1 DEF Due
            <4>5. todo'[k] = {} => next'[k] = {}
                <5>1. CASE todo[k] = {n}
                    BY <1>typ, <4>1, <5>1
                <5>2. CASE todo[k] # {n}
                    BY <1>typ, <4>1, <4>2, <5>2
                <5> QED BY <5>1, <5>2
            <4>6. PICK path \in SUBSET mem[k] :
                      /\ Entry \in path \cup Due(k)
                      /\ \A m \in path : \E t \in Succs[m] : t \subseteq path \cup Due(k)
                BY <2>inv, <4>2 DEF PathSoFar
            <4> DEFINE longer == path \cup {n}
            <4>7. longer \in SUBSET mem'[k]
                BY <4>3
            <4>8. path \cup Due(k) \cup s \subseteq longer \cup Due(k)'
                BY <4>4 DEF Due
            <4>9. Entry \in longer \cup Due(k)'
                BY <4>6, <4>8
            <4>10. ASSUME NEW m \in longer
                   PROVE \E t \in Succs[m] : t \subseteq longer \cup Due(k)'
                <5>1. CASE m = n
                    <6>1. s \subseteq longer \cup Due(k)'
                        BY <4>8
                    <6> QED BY <4>1, <5>1, <6>1
                <5>2. CASE m \in path
                    <6>1. PICK t \in Succs[m] : t \subseteq path \cup Due(k)
                        BY <4>6, <5>2
                    <6>2. t \subseteq longer \cup Due(k)'
                        BY <4>8, <6>1
                    <6> QED BY <6>2
                <5> QED BY <5>1, <5>2
            <4>11. Succs' = Succs
                BY <4>2 DEF Succs
            <4>12. PathSoFar(k)'
                <5> HIDE DEF longer
                <5> QED BY <4>7, <4>9, <4>10, <4>11 DEF PathSoFar
            <4> QED BY <4>2, <4>5, <4>12
        <3>5. CASE \/ \E n \in Nodes :
                        NodeAborted(k, n) \/ NodeFails(k, n) \/ NodeInterrupts(k, n)
                   \/ PersistFails(k)
            BY <1>typ, <3>5 DEF NodeAborted, NodeFails, NodeInterrupts, PersistFails, Stop
        <3>6. CASE Pause(k) \/ Fail(k) \/ Complete(k) \/ Hold(k) \/ Cleanup(k)
            BY <1>typ, <2>inv, <3>6 DEF Pause, Fail, Complete, EndWith, Hold, Cleanup
        <3>7. CASE Ack(k) \/ Crash(k) \/ ErrorEscapes(k)
            BY <1>typ, <3>7 DEF Ack, Crash, ErrorEscapes, Leave
        <3>8. CASE Rollback(k)
            BY <1>keep, <3>8 DEF Rollback
        <3> QED BY <1>1, <3>1, <3>2, <3>3, <3>4, <3>5, <3>6, <3>7, <3>8 DEF Runs, NodeStep
    <2> QED BY <2>1, <2>2
<1>2. ASSUME NEW k \in Tasks, Load(k) \/ LoadRefused(k) \/ ResumeRequest(k)
      PROVE \A j \in Tasks : G(j)'
    <2>1. /\ todo' = todo /\ next' = next /\ mem' = mem /\ definition' = definition
          /\ pc'[k] \in {"start", "none", "queued"}
          /\ \A j \in Tasks \ {k} : pc'[j] = pc[j]
        BY <1>2, <1>typ DEF Load, LoadRefused, ResumeRequest
    <2>2. G(k)'
        BY <1>inv, <2>1
    <2> QED BY <1>keep, <2>1, <2>2
<1>3. ASSUME AbortStep \/ ExpireCache \/ ExpireAbort \/ UNCHANGED vars
      PROVE \A j \in Tasks : G(j)'
    <2>1. pc' = pc /\ todo' = todo /\ next' = next /\ mem' = mem /\ definition' = definition
        BY <1>3 DEF AbortStep, AbortRead, AbortSet, AbortMark, ExpireCache, ExpireAbort, vars
    <2> QED BY <1>keep, <2>1
<1>4. \A j \in Tasks : G(j)'
    BY StepCases, <1>1, <1>2, <1>3
<1> QED BY <1>4 DEF GraphInv

\* The row of a paused or completed run keeps what it was paused or completed
\* with, and the snapshot of a paused one is not behind it.
LEMMA OutputsStep == TypeOK /\ OutputsInv /\ [Next]_vars => OutputsInv'
<1> SUFFICES ASSUME TypeOK, OutputsInv, [Next]_vars PROVE OutputsInv'
    OBVIOUS
<1> USE DEF Goto
<1>typ. /\ pc \in [Tasks -> Pcs] /\ seen \in [Tasks -> Statuses]
        /\ mem \in [Tasks -> SUBSET Nodes] /\ status \in Statuses
    BY DEF TypeOK
<1>inv. Owned /\ GraphInv /\ SnapshotNotBehindRow /\ CompletedCoversAPath
    BY DEF OutputsInv
<1>1. Owned' /\ GraphInv'
    BY <1>inv, OwnedStep, GraphStep
<1> DEFINE Kept == SnapshotNotBehindRow' /\ CompletedCoversAPath'
\* A step that changes no output of the row, and does not newly pause or
\* complete the run, keeps both; it may drop the snapshot.
<1>keep. ASSUME definition' = definition, dbState' = dbState, doubled' = doubled,
                status' \in {status, "running", "failed"}, cache' \in {cache, NoState}
         PROVE Kept
    BY <1>inv, <1>keep DEF SnapshotNotBehindRow, CompletedCoversAPath, CoversAPath, Succs
<1>2. ASSUME NEW k \in Tasks, Runs(k) PROVE Kept
    <2>1. ~doubled => Undecided(k) /\ OwnSnapshot(k)
        BY <1>inv DEF Owned
    <2>2. CASE Start(k)
        BY <1>keep, <2>2 DEF Start, Assigned
    <2>3. CASE Refresh(k) \/ Build(k) \/ Rollback(k)
        BY <1>keep, <2>3 DEF Refresh, Build, Rollback
    <2>4. CASE Persist(k)
        <3>1. ~doubled => status \notin {"paused", "completed"}
            BY <2>1, <2>4 DEF Persist, Undecided
        <3> QED BY <2>4, <3>1 DEF Persist, SnapshotNotBehindRow, CompletedCoversAPath
    <2>5. CASE NodeStep(k)
        <3>1. ASSUME NEW n \in Nodes, NodeYields(k, n) PROVE Kept
            BY <1>keep, <3>1 DEF NodeYields
        <3> QED BY <1>keep, <2>5, <3>1 DEF NodeStep, NodeAborted, NodeFails, NodeInterrupts
    <2>6. CASE Pause(k)
        <3>1. /\ dbState' = mem[k] /\ cache' = cache /\ doubled' = doubled
              /\ status' \in {status, "paused"} /\ pc[k] = "pausing"
            BY <2>6 DEF Pause, EndWith, Assigned
        <3>2. ~doubled => cache \in {NoState, mem[k]} /\ status # "completed"
            BY <2>1, <3>1 DEF Undecided, OwnSnapshot
        <3> QED BY <3>1, <3>2 DEF SnapshotNotBehindRow, CompletedCoversAPath
    <2>7. CASE Fail(k)
        <3>1. /\ doubled' = doubled /\ status' \in {status, "failed"} /\ pc[k] = "failing"
            BY <2>7 DEF Fail, EndWith, Assigned
        <3>2. ~doubled => status \notin {"paused", "completed"}
            BY <2>1, <3>1 DEF Undecided
        <3> QED BY <3>1, <3>2 DEF SnapshotNotBehindRow, CompletedCoversAPath
    <2>8. CASE Complete(k)
        <3>1. /\ dbState' = mem[k] /\ doubled' = doubled /\ definition' = definition
              /\ status' \in {status, "completed"} /\ pc[k] = "completing"
            BY <2>8 DEF Complete, EndWith, Assigned
        <3>2. ~doubled => status \notin {"paused", "completed"}
            BY <2>1, <3>1 DEF Undecided
        <3>3. todo[k] = {} /\ next[k] = {} /\ PathSoFar(k)
            BY <1>inv, <3>1 DEF GraphInv
        <3>4. Due(k) = {}
            BY <3>3 DEF Due
        <3>5. CoversAPath(mem[k])
            BY <3>3, <3>4 DEF PathSoFar, CoversAPath
        <3>6. CoversAPath(dbState)'
            BY <3>1, <3>5 DEF CoversAPath, Succs
        <3> QED BY <3>1, <3>2, <3>6 DEF SnapshotNotBehindRow, CompletedCoversAPath
    <2>9. CASE Hold(k)
        <3>1. /\ cache' = mem[k] /\ dbState' = dbState /\ doubled' = doubled
              /\ status' = status /\ definition' = definition /\ pc[k] = "hold"
            BY <2>9 DEF Hold
        <3>2. ~doubled => dbState = mem[k]
            BY <2>1, <3>1 DEF OwnSnapshot
        <3> QED BY <1>inv, <3>1, <3>2
                DEF SnapshotNotBehindRow, CompletedCoversAPath, CoversAPath, Succs
    <2>10. CASE Cleanup(k) \/ Ack(k) \/ Crash(k) \/ ErrorEscapes(k) \/ PersistFails(k)
        BY <1>keep, <2>10 DEF Cleanup, Ack, Crash, ErrorEscapes, PersistFails
    <2> QED BY <1>2, <2>2, <2>3, <2>4, <2>5, <2>6, <2>7, <2>8, <2>9, <2>10 DEF Runs
<1>3. ASSUME NEW k \in Tasks, Load(k) PROVE Kept
    <2>1. /\ definition' = definition /\ dbState' = dbState /\ status' = status
          /\ cache' = cache /\ (~doubled' => ~doubled)
        BY <1>3 DEF Load
    <2> QED BY <1>inv, <2>1 DEF SnapshotNotBehindRow, CompletedCoversAPath, CoversAPath, Succs
<1>4. ASSUME NEW k \in Tasks, LoadRefused(k) \/ ResumeRequest(k) PROVE Kept
    BY <1>keep, <1>4 DEF LoadRefused, ResumeRequest
<1>5. ASSUME AbortStep \/ ExpireCache \/ ExpireAbort \/ UNCHANGED vars PROVE Kept
    BY <1>keep, <1>5 DEF AbortStep, AbortRead, AbortSet, AbortMark, ExpireCache,
           ExpireAbort, vars
<1> QED BY StepCases, <1>1, <1>2, <1>3, <1>4, <1>5 DEF OutputsInv

\* A run nobody has taken yet has no outputs, and none are due.
LEMMA OutputsInit == Init => OutputsInv
<1> SUFFICES ASSUME Init PROVE OutputsInv
    OBVIOUS
<1>1. \A k \in Tasks : pc[k] \in {"queued", "none"}
    BY DEF Init
<1>2. Owned
    BY <1>1 DEF Owned, AtMostOne, Undecided, OwnSnapshot, Executing
<1>3. GraphInv
    BY <1>1 DEF Init, GraphInv
<1> QED BY <1>2, <1>3 DEF Init, OutputsInv, SnapshotNotBehindRow, CompletedCoversAPath

\* Outputs are not lost: for every flow definition, with any number of tasks,
\* deaths, errors, aborts and expiries, a run that no two tasks executed at once
\* and that _execute marked completed has an output of every node on a full
\* execution of its graph.
THEOREM CompletedRunCoversAPath == Spec => []CompletedCoversAPath
<1>1. OutputsInv => CompletedCoversAPath
    BY DEF OutputsInv
<1> QED BY <1>1, InitType, TypeStep, OutputsInit, OutputsStep, PTL DEF Spec

\* A paused run resumes from no less than it was paused with: when
\* _build_initial_state finds a snapshot it holds every output of the row, for
\* every definition, and whatever crashed or expired before.
THEOREM PausedSnapshotIsCurrent == Spec => []SnapshotNotBehindRow
<1>1. OutputsInv => SnapshotNotBehindRow
    BY DEF OutputsInv
<1> QED BY <1>1, InitType, TypeStep, OutputsInit, OutputsStep, PTL DEF Spec
=============================================================================
