----------------------------- MODULE Schedules -----------------------------
(***************************************************************************)
(* One flow's schedules and the runs they start (src/luna_core/tasks.py,    *)
(* services/scheduling.py, services/flow.py, routers/flows.py).             *)
(*                                                                         *)
(* Users save their rules into the flow's definition, beat queues a sweep   *)
(* every minute, the sweep queues a trigger for each due rule, the trigger  *)
(* creates the run's row and queues its execution.  Workers take tasks from *)
(* the queue in any order, since one may be slower than another; a task     *)
(* whose worker dies is delivered again (acks_late).                        *)
(* The clock counts minutes; a task may run any number of them late.  A     *)
(* rule is valid, its inputs fit the flow, and a cron expression is the set *)
(* of its fire times, in UTC.                                               *)
(***************************************************************************)
EXTENDS Naturals, Sequences, FiniteSets, FiniteSetsExt, Bags

CONSTANTS
  Users, Workers,
  Crons,          \* cron expressions
  Fires,          \* the fire times of a cron expression
  NoUser,         \* the owner of a rule that was saved before owners existed
  MaxTime, MaxRows, MaxManual, MaxQueue,   \* bounds
  MaxUpsets       \* bound on the edits and the deaths of processes together

ASSUME SchedulesAssumption ==
  /\ NoUser \notin Users
  /\ Fires \in [Crons -> SUBSET Nat]
  /\ MaxTime \in Nat /\ MaxRows \in Nat /\ MaxManual \in Nat /\ MaxQueue \in Nat
  /\ MaxUpsets \in Nat

VARIABLES
  now,     \* the clock
  flow,    \* [st, active, scheduled, rules]: "there" or "deleted", is_active, whether
           \* trigger.type is "schedule", and trigger.schedules
  queue,   \* the Celery queue, a bag of tasks
  wk,      \* per worker, the sweep it is in, or the row it created and not queued
  put,     \* per user, the update_flow it is in: the rules it read, what it saves
  rows,    \* the flow's runs, in the order of their creation
  api,     \* a row that the run endpoint has committed and not queued yet, or 0
  upsets,  \* the edits made and the processes that died
  hist     \* for the properties: [saved] each user's last saved rules, [since] the
           \* last change of the flow, [swept] the last sweep's clock, [stale] a
           \* save on top of another one it had not read, [orphans] rows whose
           \* creator died

scheduleVars == <<now, flow, queue, wk, put, rows, api, upsets, hist>>

Rule(u, c) == [owner |-> u, cron |-> c]
Free == [kind |-> "free"]

-----------------------------------------------------------------------------
(* The definition. *)

\* The elements at the positions in K, in their order.
Filtered(s, K) ==
  [m \in 1..Cardinality(K) |-> s[CHOOSE k \in K : Cardinality({j \in K : j <= k}) = m]]

Owned(rules, u) == Filtered(rules, {k \in DOMAIN rules : rules[k].owner = u})

\* Seeded fault: the caller's rules replace the whole list.
MergedAlone(existing, mine, u) == mine

\* _merge_user_schedules: the caller's rules, then the others' that have an owner.
Merged(existing, mine, u) ==
  mine \o Filtered(existing, {k \in DOMAIN existing : existing[k].owner \notin {u, NoUser}})

\* A flow that was created by one user and saved by another, or one with a rule
\* from before rules had owners.
FirstRules ==
  {<<Rule(NoUser, c)>> : c \in Crons} \cup
  {<<Rule(u, c), Rule(v, d)>> : u \in Users, v \in Users, c \in Crons, d \in Crons}

ScheduleInit ==
  /\ now = 0
  /\ \E rules \in FirstRules :
       /\ Len(rules) = 2 => rules[1].owner # rules[2].owner
       /\ flow = [st |-> "there", active |-> TRUE, scheduled |-> TRUE, rules |-> rules]
       /\ hist = [saved |-> [u \in Users |-> Owned(rules, u)], since |-> 0, swept |-> 0,
                  stale |-> FALSE, orphans |-> {}]
  /\ queue = EmptyBag
  /\ wk = [w \in Workers |-> Free]
  /\ put = [u \in Users |-> Free]
  /\ rows = <<>>
  /\ api = 0
  /\ upsets = 0

\* update_flow reads the row: 404 when it is gone.  The payload holds the
\* caller's rules, stamped with its id, and the trigger's type.
UpdateReads(u, mine, scheduled) ==
  /\ put[u] = Free /\ flow.st = "there" /\ upsets < MaxUpsets
  /\ put' = [put EXCEPT ![u] = [kind |-> "put", read |-> flow.rules, mine |-> mine,
                                scheduled |-> scheduled]]
  /\ upsets' = upsets + 1
  /\ UNCHANGED <<now, flow, queue, wk, rows, api, hist>>

\* The merged definition is written over whatever the row holds by then.
UpdateCommits(u) ==
  LET p == put[u]
      new == Merged(p.read, p.mine, u)
  IN /\ p # Free
     /\ put' = [put EXCEPT ![u] = Free]
     /\ IF flow.st = "there"
        THEN /\ flow' = [flow EXCEPT !.rules = new, !.scheduled = p.scheduled]
             /\ hist' = [hist EXCEPT
                  !.saved[u] = p.mine, !.since = now,
                  !.stale = @ \/ p.read # flow.rules]
        ELSE UNCHANGED <<flow, hist>>
     /\ UNCHANGED <<now, queue, wk, rows, api, upsets>>

\* update_flow with is_active alone.
SetActive ==
  /\ flow.st = "there" /\ upsets < MaxUpsets
  /\ flow' = [flow EXCEPT !.active = ~@]
  /\ upsets' = upsets + 1
  /\ hist' = [hist EXCEPT !.since = now]
  /\ UNCHANGED <<now, queue, wk, put, rows, api>>

\* delete_flow: the row and, by cascade, its runs.
Delete ==
  /\ flow.st = "there" /\ upsets < MaxUpsets
  /\ flow' = [flow EXCEPT !.st = "deleted"]
  /\ rows' = <<>>
  /\ upsets' = upsets + 1
  /\ UNCHANGED <<now, queue, wk, put, api, hist>>

-----------------------------------------------------------------------------
(* Runs. *)

\* create_flow_run: the flow is there and active, and the row is committed.
CanCreate == flow.st = "there" /\ flow.active
Row(source, rule, owner, slot, seen) ==
  [source |-> source, rule |-> rule, owner |-> owner, slot |-> slot, at |-> now,
   seen |-> seen, st |-> "pending"]
RunTask(i) == [kind |-> "run", row |-> i]

Room == BagCardinality(queue) < MaxQueue

\* The bag with one more, and with one less, of a task.
More(bag, task) ==
  [x \in DOMAIN bag \cup {task} |->
     IF x \notin DOMAIN bag THEN 1 ELSE IF x = task THEN bag[x] + 1 ELSE bag[x]]
Less(bag, task) ==
  [x \in {y \in DOMAIN bag : y # task \/ bag[y] > 1} |->
     IF x = task THEN bag[x] - 1 ELSE bag[x]]

Sent(task) == Room /\ queue' = More(queue, task)
Taken(w, task) == wk[w] = Free /\ queue' = Less(queue, task)

\* POST /flows/{id}/run commits the row ...
Trigger ==
  /\ api = 0 /\ CanCreate /\ Len(rows) < MaxRows
  /\ Cardinality({i \in DOMAIN rows : rows[i].source = "manual"}) < MaxManual
  /\ rows' = Append(rows, Row("manual", 0, NoUser, 0, 0))
  /\ api' = Len(rows) + 1
  /\ UNCHANGED <<now, flow, queue, wk, put, upsets, hist>>

\* Seeded fault: the worker is asked to create the run it executes.
ManualTaskAgain(i) == [kind |-> "trigger", rule |-> 1, owner |-> NoUser, slot |-> 0, seen |-> i]

\* The worker is handed the id of the existing row.
ManualTask(i) == RunTask(i)

\* ... and queues its execution.
TriggerQueues ==
  /\ api # 0
  /\ Sent(ManualTask(api))
  /\ api' = 0
  /\ UNCHANGED <<now, flow, wk, put, rows, upsets, hist>>

\* The API process dies in between.
ApiDies ==
  /\ api # 0 /\ upsets < MaxUpsets
  /\ hist' = [hist EXCEPT !.orphans = @ \cup {api}]
  /\ api' = 0
  /\ upsets' = upsets + 1
  /\ UNCHANGED <<now, flow, queue, wk, put, rows>>

\* trigger_scheduled_run creates the row, or fails ...
CreateScheduled(w, t) ==
  /\ t.kind = "trigger" /\ Taken(w, t)
  /\ IF CanCreate
     THEN /\ Len(rows) < MaxRows
          /\ rows' = Append(rows, Row("schedule", t.rule, t.owner, t.slot, t.seen))
          /\ wk' = [wk EXCEPT ![w] = [kind |-> "created", row |-> Len(rows) + 1, task |-> t]]
     ELSE UNCHANGED <<rows, wk>>
  /\ UNCHANGED <<now, flow, put, api, upsets, hist>>

\* ... and queues its execution.
QueueScheduled(w) ==
  /\ wk[w].kind = "created"
  /\ Sent(RunTask(wk[w].row))
  /\ wk' = [wk EXCEPT ![w] = Free]
  /\ UNCHANGED <<now, flow, put, rows, api, upsets, hist>>

\* run_flow hands the row, if it is still there, to FlowRunner.run.
RunFlow(w, t) ==
  /\ t.kind = "run" /\ Taken(w, t)
  /\ rows' = [i \in DOMAIN rows |-> IF i = t.row THEN [rows[i] EXCEPT !.st = "started"] ELSE rows[i]]
  /\ UNCHANGED <<now, flow, wk, put, api, upsets, hist>>

-----------------------------------------------------------------------------
(* The sweep. *)

Scheduled == {i \in DOMAIN rows : rows[i].source = "schedule"}

\* Seeded fault: every rule asks for any scheduled run.
LastFireOfAny(i) == {rows[j].at : j \in Scheduled}

\* _last_scheduled_fire: rule 0 asks for any scheduled run, the others for
\* their own.
LastFire(i) == {rows[j].at : j \in {k \in Scheduled : i = 1 \/ rows[k].rule = i}}

\* Seeded fault: a fire time that equals the last run's clock is due again.
NextFireAgain(cron, base) == {s \in Fires[cron] : s + 1 > base}

\* croniter.get_next: the fire times strictly after base; the first is next.
NextFire(cron, base) == {s \in Fires[cron] : s > base}

\* next_fire_utc <= now.
Due(next, t) == next # {} /\ Min(next) <= t

\* scheduler_tick reads the clock and the flow.
SweepBegins(w, t) ==
  /\ t.kind = "tick" /\ Taken(w, t)
  /\ wk' = [wk EXCEPT ![w] =
       IF flow.st = "there" /\ flow.active /\ flow.scheduled /\ flow.rules # <<>>
       THEN [kind |-> "sweep", t |-> now, i |-> 1, rules |-> flow.rules, since |-> hist.since]
       ELSE Free]
  /\ UNCHANGED <<now, flow, put, rows, api, upsets, hist>>

\* One rule: skipped without an owner, else due when its next fire after the
\* last one (or after the minute before) is not in the future.
SweepRule(w) ==
  LET s == wk[w]
      rule == s.rules[s.i]
      base == IF LastFire(s.i) # {} THEN Max(LastFire(s.i))
              ELSE s.t - 1
      next == NextFire(rule.cron, base)
      last == s.i = Len(s.rules)
  IN /\ s.kind = "sweep"
     /\ IF rule.owner # NoUser /\ Due(next, s.t)
        THEN Sent([kind |-> "trigger", rule |-> s.i, owner |-> rule.owner,
                   slot |-> Min(next), seen |-> Len(rows)])
        ELSE UNCHANGED queue
     /\ wk' = [wk EXCEPT ![w] = IF last THEN Free ELSE [s EXCEPT !.i = @ + 1]]
     /\ hist' = IF last /\ s.since = hist.since THEN [hist EXCEPT !.swept = Max({@, s.t})] ELSE hist
     /\ UNCHANGED <<now, flow, put, rows, api, upsets>>

-----------------------------------------------------------------------------
(* Beat, the queue and the clock. *)

\* Beat queues a sweep every minute, if it is up.
Clock ==
  /\ now < MaxTime
  /\ now' = now + 1
  /\ \/ UNCHANGED queue
     \/ Sent([kind |-> "tick"])
  /\ UNCHANGED <<flow, wk, put, rows, api, upsets, hist>>

\* A worker dies and its task goes back to the queue.
WorkerDies(w) ==
  LET s == wk[w]
      task == IF s.kind = "sweep" THEN [kind |-> "tick"] ELSE s.task
  IN /\ s # Free /\ upsets < MaxUpsets
     /\ upsets' = upsets + 1
     /\ hist' = IF s.kind = "sweep" THEN hist ELSE [hist EXCEPT !.orphans = @ \cup {s.row}]
     /\ Sent(task)
     /\ wk' = [wk EXCEPT ![w] = Free]
     /\ UNCHANGED <<now, flow, put, rows, api>>

ScheduleNext ==
  \/ \E u \in Users :
       \/ \E c \in Crons : UpdateReads(u, <<Rule(u, c)>>, TRUE)
       \/ \E scheduled \in BOOLEAN : UpdateReads(u, <<>>, scheduled)
       \/ UpdateCommits(u)
  \/ SetActive \/ Delete
  \/ Trigger \/ TriggerQueues \/ ApiDies
  \/ \E w \in Workers :
       \/ \E t \in BagToSet(queue) : SweepBegins(w, t) \/ CreateScheduled(w, t) \/ RunFlow(w, t)
       \/ SweepRule(w) \/ QueueScheduled(w) \/ WorkerDies(w)
  \/ Clock

ScheduleSpec == ScheduleInit /\ [][ScheduleNext]_scheduleVars

-----------------------------------------------------------------------------

(* update_flow, "a write from one user never destroys another user's
   schedules": each user's rules are the ones it saved last, unless a save was
   merged into rules that another save had replaced in between. *)
EachUserKeepsItsRules ==
  ~hist.stale => \A u \in Users : Owned(flow.rules, u) = hist.saved[u]

(* dispatch_due_runs and _last_scheduled_fire: two runs of a user's rule are
   never for the same slot, unless the second was dispatched before the first
   one's row was there (a sweep that overtakes the trigger it repeats, or a
   trigger delivered twice), or saves moved the rule to a later index, under
   which its first run is not found. *)
OneRunPerSlot ==
  \A i, j \in Scheduled :
    (i < j /\ rows[i].owner = rows[j].owner /\ rows[i].slot = rows[j].slot)
      => (rows[j].seen < i \/ rows[j].rule \notin {1, rows[i].rule})

Outstanding == BagToSet(queue) \cup {wk[w] : w \in Workers}

\* The slots that sweeps have reached since the flow last changed, of a rule
\* that has run before.
Reached(i) ==
  {s \in Fires[flow.rules[i].cron] :
     /\ flow.st = "there" /\ flow.active /\ flow.scheduled /\ flow.rules[i].owner # NoUser
     /\ hist.since < s /\ s <= hist.swept
     /\ \E j \in Scheduled : rows[j].rule = i /\ rows[j].at < s}

\* A slot is followed by a run of one of these rules, or its trigger is queued.
Answered(i, s, rules) ==
  \/ \E j \in Scheduled : rows[j].rule \in rules /\ rows[j].at >= s
  \/ \E t \in Outstanding : t.kind = "trigger" /\ t.rule = i

(* dispatch_due_runs: once a rule has run, every later slot that a sweep has
   reached is followed by a run of that rule, or its trigger is on its way,
   however late sweeps and triggers are.  For the first rule, which counts every
   scheduled run as its own, a run of any rule. *)
NoSlotIsForgotten ==
  \A i \in DOMAIN flow.rules : \A s \in Reached(i) :
    Answered(i, s, IF i = 1 THEN Nat ELSE {i})

(* _last_scheduled_fire, "Most recent scheduled FlowRun for flow_id matching
   this rule": every rule's slot is followed by a run of that rule. *)
EveryRuleIsAnswered ==
  \A i \in DOMAIN flow.rules : \A s \in Reached(i) : Answered(i, s, {i})

(* trigger and trigger_scheduled_run_task commit the row before they queue its
   execution: a pending row has its task on the way, whatever is redelivered,
   unless the process that committed it died before it queued the task. *)
PendingRunIsDriven ==
  \A i \in DOMAIN rows :
    \/ rows[i].st # "pending" \/ api = i \/ i \in hist.orphans
    \/ \E t \in Outstanding : t.kind \in {"run", "created"} /\ t.row = i
=============================================================================
