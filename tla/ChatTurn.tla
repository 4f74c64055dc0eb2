------------------------------ MODULE ChatTurn ------------------------------
(***************************************************************************)
(* The turns of one conversation: the send, decision and abort handlers    *)
(* (routers/conversations.py), the agent loop they run under the turn lock *)
(* (engine/agent.py, engine/chat.py) and the tool approvals that suspend   *)
(* and resume it (services/tool_approval.py).                              *)
(*                                                                         *)
(* A message row is its kind and the tool calls it holds or answers; what  *)
(* the model says is a choice. The turn lock is abstract here (TurnLock    *)
(* models it): it has one holder, is given back at the end of a request,   *)
(* and runs out under a request that died, or that takes too long.         *)
(* Every database commit, Redis command, LLM stream and tool call is one   *)
(* step.                                                                   *)
(***************************************************************************)
EXTENDS Naturals, Sequences, FiniteSets

CONSTANTS
    Requests,     \* slots for the HTTP requests in progress
    Calls,        \* tool_use ids the model may produce, each at most once
    Gated,        \* those of tools that require approval
    Plans,        \* the sets of calls it may make in one message
    NoReq,        \* nobody holds the turn lock
    Ghost,        \* a request that died holds it
    MaxIters,     \* MAX_TOOL_ITERATIONS
    MaxHops,      \* MAX_HANDOFF_HOPS
    MaxSends,     \* bound: messages the user sends
    MaxUpsets     \* bound: abort requests, requests that die, LLM and tool errors

ASSUME ChatTurnAssumption ==
    /\ Calls # {}
    /\ Gated \subseteq Calls /\ Plans \subseteq SUBSET Calls
    /\ NoReq \notin Requests /\ Ghost \notin Requests /\ NoReq # Ghost
    /\ MaxIters \in Nat /\ MaxHops \in Nat /\ MaxSends \in Nat /\ MaxUpsets \in Nat

VARIABLES
    thread,     \* conversation_messages by sequence: [kind, calls]
    approval,   \* tool_approvals.status by tool_use_id ("none": no row)
    runs,       \* how often each tool call was executed
    abortKey,   \* abort:{conversation} exists
    holder,     \* the turn lock
    pc,         \* where each request is
    kind,       \* send or decide
    arg,        \* a decision's approval and verdict
    batch,      \* the tool calls of the step the request works on
    left,       \* those of them it has still to execute
    denied,     \* those it found rejected
    resumed,    \* it resumes a suspended turn
    iter,       \* LLM calls of the loop
    hops,       \* handoffs followed
    sends, upsets,
    overran,    \* history: the lock ran out under a live request
    broken,     \* history: a request died or raised half-way
    idleKey,    \* history: the abort key there is was set while no turn ran
    misfired    \* history: such a key stopped a turn

store == <<thread, approval, runs>>
local == <<kind, arg, batch, left, denied, resumed, iter, hops>>
bounds == <<sends, upsets>>
history == <<overran, broken, idleKey, misfired>>
vars == <<store, abortKey, holder, pc, local, bounds, history>>

Kinds == {"user", "assistant", "results", "partial"}
Verdicts == {"approved", "rejected", "corrected"}  \* corrected: rejected with a reason
Pcs == {"idle", "check", "clear", "user", "llm", "stream", "suspend", "tools",
        "handoff", "stopped", "promote", "decide", "cascade", "count", "load", "release"}

Rows == [kind : Kinds, calls : SUBSET Calls]

TypeOK ==
    /\ thread \in Seq(Rows)
    /\ approval \in [Calls -> {"none", "pending"} \cup Verdicts]
    /\ runs \in [Calls -> Nat]
    /\ abortKey \in BOOLEAN
    /\ holder \in Requests \cup {NoReq, Ghost}
    /\ pc \in [Requests -> Pcs]
    /\ kind \in [Requests -> {"send", "decide"}]
    /\ arg \in [Requests -> Calls \X Verdicts]
    /\ batch \in [Requests -> SUBSET Calls]
    /\ left \in [Requests -> SUBSET Calls]
    /\ denied \in [Requests -> SUBSET Calls]
    /\ resumed \in [Requests -> BOOLEAN]
    /\ iter \in [Requests -> Nat]
    /\ hops \in [Requests -> 0..MaxHops]
    /\ sends \in 0..MaxSends /\ upsets \in 0..MaxUpsets
    /\ overran \in BOOLEAN /\ broken \in BOOLEAN
    /\ idleKey \in BOOLEAN /\ misfired \in BOOLEAN

NoArg == CHOOSE x \in Calls \X Verdicts : TRUE

Init ==
    /\ thread = <<>>
    /\ approval = [c \in Calls |-> "none"]
    /\ runs = [c \in Calls |-> 0]
    /\ abortKey = FALSE /\ holder = NoReq
    /\ pc = [r \in Requests |-> "idle"]
    /\ kind = [r \in Requests |-> "send"]
    /\ arg = [r \in Requests |-> NoArg]
    /\ batch = [r \in Requests |-> {}]
    /\ left = [r \in Requests |-> {}]
    /\ denied = [r \in Requests |-> {}]
    /\ resumed = [r \in Requests |-> FALSE]
    /\ iter = [r \in Requests |-> 0]
    /\ hops = [r \in Requests |-> 0]
    /\ sends = 0 /\ upsets = 0
    /\ overran = FALSE /\ broken = FALSE /\ idleKey = FALSE /\ misfired = FALSE

Goto(r, label) == pc' = [pc EXCEPT ![r] = label]
NoAbortKey == abortKey' = FALSE /\ idleKey' = FALSE
Row(k, cs) == [kind |-> k, calls |-> cs]
Pending == {c \in Calls : approval[c] = "pending"}

\* The calls the model has already produced.
Used == UNION {thread[i].calls : i \in 1..Len(thread)}

\* The rows the model is sent, by their places in the thread: partial ones are
\* skipped (_history_rows).
IsSent(row) == row.kind # "partial"
Sent == {i \in 1..Len(thread) : IsSent(thread[i])}

\* The last of them.
IsLast(i, places) == \A j \in places : j <= i
LastSent == IF Sent = {} THEN Row("user", {})
            ELSE thread[CHOOSE i \in Sent : IsLast(i, Sent)]

-----------------------------------------------------------------------------
(* send *)

\* The turn lock is free and is taken; a request that finds it taken is refused
\* with nothing stored.
BeginSend(r) ==
    /\ pc[r] = "idle" /\ holder = NoReq /\ sends < MaxSends
    /\ holder' = r
    /\ sends' = sends + 1
    /\ kind' = [kind EXCEPT ![r] = "send"]
    /\ Goto(r, "check")
    /\ UNCHANGED <<store, abortKey, arg, batch, left, denied, resumed, iter, hops,
                   upsets, history>>

\* Seeded fault: approvals still pending do not stop a new message.
CheckNothing(r) ==
    /\ pc[r] = "check"
    /\ Goto(r, "clear")
    /\ UNCHANGED <<store, abortKey, holder, local, bounds, history>>

\* count_pending > 0: refused, approvals_pending.
CheckPending(r) ==
    /\ pc[r] = "check"
    /\ Goto(r, IF Pending # {} THEN "release" ELSE "clear")
    /\ UNCHANGED <<store, abortKey, holder, local, bounds, history>>

\* The agent is resolved, then a stale abort flag is cleared.
ClearAbort(r) ==
    /\ pc[r] = "clear"
    /\ NoAbortKey
    /\ Goto(r, "user")
    /\ UNCHANGED <<store, holder, local, bounds, overran, broken, misfired>>

\* AgentRunner.run saves the user's message.
SaveUser(r) ==
    /\ pc[r] = "user"
    /\ thread' = Append(thread, Row("user", {}))
    /\ Goto(r, "llm")
    /\ UNCHANGED <<approval, runs, abortKey, holder, local, bounds, history>>

-----------------------------------------------------------------------------
(* The agent loop *)

\* The provider checks the abort key before each chunk: none yet.
Chunk(r) ==
    /\ pc[r] = "llm" /\ iter[r] < MaxIters /\ ~abortKey
    /\ Goto(r, "stream")
    /\ UNCHANGED <<store, abortKey, holder, local, bounds, history>>

\* The loop is over its cap: AgentRunnerError.
TooManyIterations(r) ==
    /\ pc[r] = "llm" /\ iter[r] = MaxIters
    /\ Goto(r, "release")
    /\ UNCHANGED <<store, abortKey, holder, local, bounds, history>>

\* The key is there: what was streamed is saved as a partial row, and
\* AbortSignalError ends the turn. Only send catches it.
Stopped(r) ==
    /\ pc[r] \in {"llm", "stream"} /\ iter[r] < MaxIters
    /\ abortKey
    /\ thread' = IF pc[r] = "stream" THEN Append(thread, Row("partial", {})) ELSE thread
    /\ Goto(r, IF kind[r] = "send" THEN "stopped" ELSE "release")
    /\ misfired' = (misfired \/ idleKey)
    /\ UNCHANGED <<approval, runs, abortKey, holder, local, bounds, overran, broken, idleKey>>

\* The stream ends in an answer without tool calls.
Answer(r) ==
    /\ pc[r] = "stream"
    /\ thread' = Append(thread, Row("assistant", {}))
    /\ Goto(r, "handoff")
    /\ UNCHANGED <<approval, runs, abortKey, holder, local, bounds, history>>

\* The stream ends in tool calls. One that requires approval suspends the whole
\* step, otherwise they are executed.
CallTools(r, cs) ==
    /\ pc[r] = "stream"
    /\ cs # {} /\ cs \cap Used = {}
    /\ thread' = Append(thread, Row("assistant", cs))
    /\ batch' = [batch EXCEPT ![r] = cs]
    /\ left' = [left EXCEPT ![r] = cs]
    /\ denied' = [denied EXCEPT ![r] = {}]
    /\ iter' = [iter EXCEPT ![r] = @ + 1]
    /\ Goto(r, IF cs \cap Gated # {} THEN "suspend" ELSE "tools")
    /\ UNCHANGED <<approval, runs, abortKey, holder, kind, arg, resumed, hops, bounds,
                   history>>

\* Seeded fault: only the first of the gated calls gets an approval row.
SuspendFirst(r) ==
    /\ pc[r] = "suspend"
    /\ approval' = [c \in Calls |->
                      IF c = CHOOSE d \in batch[r] \cap Gated : TRUE
                      THEN "pending" ELSE approval[c]]
    /\ Goto(r, "release")
    /\ UNCHANGED <<thread, runs, abortKey, holder, local, bounds, history>>

\* create_pending_approvals: one commit for all gated calls. The request returns
\* awaiting_approval. (_words_beside_approval may have put text into the same
\* assistant row first; it adds no row, and no error of it escapes.)
Suspend(r) ==
    /\ pc[r] = "suspend"
    /\ approval' = [c \in Calls |->
                      IF c \in batch[r] \cap Gated THEN "pending" ELSE approval[c]]
    /\ Goto(r, "release")
    /\ UNCHANGED <<thread, runs, abortKey, holder, local, bounds, history>>

\* _execute_tool_uses: a call runs, unless its approval was rejected.
Execute(r, c) ==
    /\ pc[r] = "tools" /\ c \in left[r] \ denied[r]
    /\ runs' = [runs EXCEPT ![c] = @ + 1]
    /\ left' = [left EXCEPT ![r] = @ \ {c}]
    /\ UNCHANGED <<thread, approval, abortKey, holder, pc, kind, arg, batch, denied,
                   resumed, iter, hops, bounds, history>>

Deny(r, c) ==
    /\ pc[r] = "tools" /\ c \in left[r] \cap denied[r]
    /\ left' = [left EXCEPT ![r] = @ \ {c}]
    /\ UNCHANGED <<store, abortKey, holder, pc, kind, arg, batch, denied, resumed,
                   iter, hops, bounds, history>>

\* _should_reinvoke: not when every call was rejected without a reason.
ShouldReinvoke(r) ==
    \/ ~(batch[r] \subseteq denied[r])
    \/ \E c \in batch[r] : approval[c] = "corrected"

\* Seeded fault: a rejected call gets no result.
SaveExecuted(r) ==
    /\ pc[r] = "tools" /\ left[r] = {}
    /\ thread' = Append(thread, Row("results", batch[r] \ denied[r]))
    /\ Goto(r, "llm")
    /\ resumed' = [resumed EXCEPT ![r] = FALSE]
    /\ UNCHANGED <<approval, runs, abortKey, holder, kind, arg, batch, left, denied,
                   iter, hops, bounds, history>>

\* The results are saved; the loop goes on, or ends with a terminal tool. A
\* resumed turn starts a new loop if the model is to see the results.
SaveResults(r) ==
    /\ pc[r] = "tools" /\ left[r] = {}
    /\ thread' = Append(thread, Row("results", batch[r]))
    /\ \/ resumed[r] /\ Goto(r, IF ShouldReinvoke(r) THEN "llm" ELSE "handoff")
       \/ ~resumed[r] /\ Goto(r, "llm")
       \/ ~resumed[r] /\ Goto(r, "handoff")
    /\ resumed' = [resumed EXCEPT ![r] = FALSE]
    /\ UNCHANGED <<approval, runs, abortKey, holder, kind, arg, batch, left, denied,
                   iter, hops, bounds, history>>

\* _follow_handoffs: another agent goes on with the same history ...
Handoff(r) ==
    /\ pc[r] = "handoff" /\ hops[r] < MaxHops
    /\ hops' = [hops EXCEPT ![r] = @ + 1]
    /\ iter' = [iter EXCEPT ![r] = 0]
    /\ Goto(r, "llm")
    /\ UNCHANGED <<store, abortKey, holder, kind, arg, batch, left, denied, resumed,
                   bounds, history>>

\* ... or the turn is over.
Complete(r) ==
    /\ pc[r] = "handoff"
    /\ Goto(r, "release")
    /\ UNCHANGED <<store, abortKey, holder, local, bounds, history>>

\* send's except AbortSignalError: the flag is dropped ...
DropFlag(r) ==
    /\ pc[r] = "stopped"
    /\ NoAbortKey
    /\ Goto(r, "promote")
    /\ UNCHANGED <<store, holder, local, bounds, overran, broken, misfired>>

\* ... and finalize_partial_messages promotes every partial row.
Promote(r) ==
    /\ pc[r] = "promote"
    /\ thread' = [i \in 1..Len(thread) |->
                    IF thread[i].kind = "partial" THEN Row("assistant", {}) ELSE thread[i]]
    /\ Goto(r, "release")
    /\ UNCHANGED <<approval, runs, abortKey, holder, local, bounds, history>>

\* The end of conversation_turn; the request's memory is gone.
Leave(r) ==
    /\ Goto(r, "idle")
    /\ kind' = [kind EXCEPT ![r] = "send"]
    /\ arg' = [arg EXCEPT ![r] = NoArg]
    /\ batch' = [batch EXCEPT ![r] = {}]
    /\ left' = [left EXCEPT ![r] = {}]
    /\ denied' = [denied EXCEPT ![r] = {}]
    /\ resumed' = [resumed EXCEPT ![r] = FALSE]
    /\ iter' = [iter EXCEPT ![r] = 0]
    /\ hops' = [hops EXCEPT ![r] = 0]

Release(r) ==
    /\ pc[r] = "release"
    /\ holder' = IF holder = r THEN NoReq ELSE holder
    /\ Leave(r)
    /\ UNCHANGED <<store, abortKey, bounds, history>>

-----------------------------------------------------------------------------
(* decide_tool_approval *)

\* A verdict on an approval the conversation has, taken under the lock.
BeginDecide(r, c, v) ==
    /\ pc[r] = "idle" /\ holder = NoReq
    /\ approval[c] # "none"
    /\ holder' = r
    /\ kind' = [kind EXCEPT ![r] = "decide"]
    /\ arg' = [arg EXCEPT ![r] = <<c, v>>]
    /\ Goto(r, "decide")
    /\ UNCHANGED <<store, abortKey, batch, left, denied, resumed, iter, hops, bounds,
                   history>>

\* Seeded fault: the UPDATE without WHERE status = 'pending'.
DecideAnyway(r) ==
    /\ pc[r] = "decide"
    /\ approval' = [approval EXCEPT ![arg[r][1]] = arg[r][2]]
    /\ Goto(r, IF arg[r][2] = "corrected" THEN "cascade" ELSE "count")
    /\ UNCHANGED <<thread, runs, abortKey, holder, local, bounds, history>>

\* decide: UPDATE ... WHERE status = 'pending', or 409.
Decide(r) ==
    /\ pc[r] = "decide"
    /\ IF arg[r][1] \in Pending
       THEN /\ approval' = [approval EXCEPT ![arg[r][1]] = arg[r][2]]
            /\ Goto(r, IF arg[r][2] = "corrected" THEN "cascade" ELSE "count")
       ELSE /\ approval' = approval
            /\ Goto(r, "release")
    /\ UNCHANGED <<thread, runs, abortKey, holder, local, bounds, history>>

\* reject_pending_with_reason: the reason goes to every sibling.
Cascade(r) ==
    /\ pc[r] = "cascade"
    /\ approval' = [c \in Calls |-> IF c \in Pending THEN "corrected" ELSE approval[c]]
    /\ Goto(r, "count")
    /\ UNCHANGED <<thread, runs, abortKey, holder, local, bounds, history>>

\* Seeded fault: every approval of the conversation counts, decided or not.
CountRows(r) ==
    /\ pc[r] = "count"
    /\ Goto(r, IF \E c \in Calls : approval[c] # "none" THEN "release" ELSE "load")
    /\ UNCHANGED <<store, abortKey, holder, local, bounds, history>>

\* More approvals of this turn still pending: keep waiting.
Count(r) ==
    /\ pc[r] = "count"
    /\ Goto(r, IF Pending # {} THEN "release" ELSE "load")
    /\ UNCHANGED <<store, abortKey, holder, local, bounds, history>>

\* ChatRunner.resume: the history must end with the calls to resume; the
\* decisions are read once.
Load(r) ==
    /\ pc[r] = "load"
    /\ IF LastSent.kind = "assistant" /\ LastSent.calls # {}
       THEN /\ batch' = [batch EXCEPT ![r] = LastSent.calls]
            /\ left' = [left EXCEPT ![r] = LastSent.calls]
            /\ denied' = [denied EXCEPT ![r] =
                            {c \in LastSent.calls : approval[c] \in {"rejected", "corrected"}}]
            /\ resumed' = [resumed EXCEPT ![r] = TRUE]
            /\ Goto(r, "tools")
       ELSE /\ Goto(r, "release")
            /\ UNCHANGED <<batch, left, denied, resumed>>
    /\ UNCHANGED <<store, abortKey, holder, kind, arg, iter, hops, bounds, history>>

-----------------------------------------------------------------------------
(* abort_turn, failures and time *)

\* POST /abort sets the key, whether or not a turn runs.
Abort ==
    /\ upsets < MaxUpsets
    /\ upsets' = upsets + 1
    /\ abortKey' = TRUE
    /\ idleKey' = (\A r \in Requests : pc[r] = "idle")
    /\ UNCHANGED <<store, holder, pc, local, sends, overran, broken, misfired>>

\* run_abort_key_ttl_seconds.
AbortExpires ==
    /\ abortKey
    /\ NoAbortKey
    /\ UNCHANGED <<store, holder, pc, local, bounds, overran, broken, misfired>>

\* The LLM call fails: a partial row if anything was streamed, then the router
\* tries again, or the error escapes the request.
LlmFails(r) ==
    /\ pc[r] \in {"llm", "stream"} /\ iter[r] < MaxIters /\ upsets < MaxUpsets
    /\ upsets' = upsets + 1
    /\ thread' = IF pc[r] = "stream" THEN Append(thread, Row("partial", {})) ELSE thread
    /\ \E next \in {"llm", "release"} : Goto(r, next)
    /\ UNCHANGED <<approval, runs, abortKey, holder, local, sends, history>>

\* A tool raises: the results of the step are never saved.
ToolRaises(r) ==
    /\ pc[r] = "tools" /\ left[r] # {} /\ upsets < MaxUpsets
    /\ upsets' = upsets + 1
    /\ broken' = TRUE
    /\ Goto(r, "release")
    /\ UNCHANGED <<store, abortKey, holder, local, sends, overran, idleKey, misfired>>

\* The process dies: the lock stays until it runs out.
Die(r) ==
    /\ pc[r] # "idle" /\ upsets < MaxUpsets
    /\ upsets' = upsets + 1
    /\ broken' = TRUE
    /\ holder' = IF holder = r THEN Ghost ELSE holder
    /\ Leave(r)
    /\ UNCHANGED <<store, abortKey, sends, overran, idleKey, misfired>>

\* chat_turn_lock_seconds.
LockExpires ==
    /\ holder # NoReq
    /\ holder' = NoReq
    /\ overran' = (overran \/ holder # Ghost)
    /\ UNCHANGED <<store, abortKey, pc, local, bounds, broken, idleKey, misfired>>

-----------------------------------------------------------------------------
TurnStep(r) ==
    \/ CheckPending(r) \/ ClearAbort(r) \/ SaveUser(r)
    \/ Chunk(r) \/ TooManyIterations(r) \/ Stopped(r) \/ Answer(r)
    \/ \E cs \in Plans : CallTools(r, cs)
    \/ Suspend(r) \/ SaveResults(r)
    \/ \E c \in Calls : Execute(r, c) \/ Deny(r, c)
    \/ Handoff(r) \/ Complete(r) \/ DropFlag(r) \/ Promote(r) \/ Release(r)
    \/ Decide(r) \/ Cascade(r) \/ Count(r) \/ Load(r)

Next ==
    \/ \E r \in Requests :
          \/ BeginSend(r) \/ \E c \in Calls, v \in Verdicts : BeginDecide(r, c, v)
          \/ TurnStep(r)
          \/ LlmFails(r) \/ ToolRaises(r) \/ Die(r)
    \/ Abort \/ AbortExpires \/ LockExpires

Spec == Init /\ [][Next]_vars

\* A request that was begun is carried on while its process lives.
FairSpec == Spec /\ \A r \in Requests : WF_vars(TurnStep(r))

-----------------------------------------------------------------------------
(* Properties *)

\* "Nothing in this turn executes until the user decides" (engine/agent.py:363):
\* a call that requires approval has been executed only if it was approved.
OnlyApprovedRun == \A c \in Gated : runs[c] > 0 => approval[c] = "approved"

\* That holds, whatever dies, fails, is stopped or is decided twice, until the
\* lock runs out under a live turn: resume executes a call without a decision.
OnlyApprovedRunUnlessOverran == ~overran => OnlyApprovedRun

\* "so a double-click or a racing request can't resolve the same approval twice"
\* (services/tool_approval.py:5): no call is executed twice, unless the lock
\* ran out under a live turn.
RunsOnce == ~overran => \A c \in Calls : runs[c] <= 1

\* "every pending row belongs to the one suspended turn"
\* (services/tool_approval.py:165): a pending approval is for a call of the
\* message the history ends with, so that deciding it can resume the turn.
PendingIsLast == ~overran => Pending \subseteq LastSent.calls

\* In the history the model is sent, tool results follow the message that made
\* the calls, and answer exactly those (engine/agent.py:701): the shape a
\* provider accepts. No row that is sent lies between the two.
ResultsFollowCalls ==
    ~overran =>
        \A i \in Sent : thread[i].kind = "results" =>
            \E j \in Sent :
                /\ j < i /\ \A k \in Sent : k < i => k <= j
                /\ thread[j] = Row("assistant", thread[i].calls)

\* The intent to execute a gated call is durable (services/tool_approval.py:1):
\* once the last approval of the turn is decided, an approved call is executed,
\* unless a request died or a tool raised, or the lock ran out.
ApprovedEventuallyRuns ==
    \A c \in Gated :
        approval[c] = "approved" /\ Pending = {} ~> runs[c] > 0 \/ broken \/ overran

\* "A no-op if nothing is running" (routers/conversations.py:534): an abort
\* requested while no turn ran never stops a later one.
IdleAbortIsANoOp == ~misfired
=============================================================================
