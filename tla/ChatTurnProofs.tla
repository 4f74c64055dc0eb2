--------------------------- MODULE ChatTurnProofs ---------------------------
(***************************************************************************)
(* Proofs about ChatTurn, for any requests, tool calls, plans and bounds.  *)
(***************************************************************************)
EXTENDS ChatTurn, TLAPS

USE DEF store, local, bounds, history

\* A row the code writes is a row.
LEMMA RowType == \A k \in Kinds, cs \in SUBSET Calls : Row(k, cs) \in Rows
BY DEF Row, Rows

\* Appending a row keeps the thread a sequence of rows.
LEMMA AppendType ==
    ASSUME TypeOK, NEW k \in Kinds, NEW cs \in SUBSET Calls
    PROVE  Append(thread, Row(k, cs)) \in Seq(Rows)
BY RowType DEF TypeOK

\* What a request that decides nothing has in its argument.
LEMMA NoArgType == NoArg \in Calls \X Verdicts
<1>1. PICK c \in Calls : TRUE
    BY ChatTurnAssumption
<1>2. <<c, "approved">> \in Calls \X Verdicts
    BY <1>1 DEF Verdicts
<1> QED BY <1>2 DEF NoArg

\* The places of the thread that have been sent have a last one.
LastExists == Sent # {} => \E i \in Sent : IsLast(i, Sent)

\* The last row sent is a row.
LEMMA LastType ==
    ASSUME TypeOK, LastExists
    PROVE  LastSent \in Rows
<1>1. CASE Sent = {}
    BY <1>1, RowType DEF LastSent, Kinds
<1>2. CASE Sent # {}
    <2>1. (CHOOSE i \in Sent : IsLast(i, Sent)) \in Sent
        BY <1>2 DEF LastExists
    <2>2. \A i \in Sent : thread[i] \in Rows
        BY DEF TypeOK, Sent
    <2> QED BY <1>2, <2>1, <2>2 DEF LastSent
<1> QED BY <1>1, <1>2

\* A row of another kind than partial becomes the last one sent.
LEMMA AppendSent ==
    ASSUME TypeOK, NEW k \in Kinds \ {"partial"}, NEW cs \in SUBSET Calls,
           thread' = Append(thread, Row(k, cs))
    PROVE  LastExists' /\ LastSent' = Row(k, cs) /\ Used' = Used \cup cs
<1>1. /\ Len(thread) \in Nat /\ Len(thread') = Len(thread) + 1
      /\ thread'[Len(thread) + 1] = Row(k, cs)
      /\ \A i \in 1..Len(thread) : thread'[i] = thread[i]
    BY RowType DEF TypeOK
<1>2. Len(thread) + 1 \in Sent' /\ \A i \in Sent' : i <= Len(thread) + 1
    BY <1>1 DEF Sent, IsSent, Row
<1>3. IsLast(Len(thread) + 1, Sent')
    BY <1>2 DEF IsLast
<1>4. \A i \in Sent' : IsLast(i, Sent') => i = Len(thread) + 1
    BY <1>1, <1>2 DEF IsLast, Sent
<1>5. (CHOOSE i \in Sent' : IsLast(i, Sent')) = Len(thread) + 1
    BY <1>2, <1>3, <1>4
<1>6. Used' = Used \cup cs
    BY <1>1 DEF Used, Row
<1> QED BY <1>1, <1>2, <1>3, <1>5, <1>6 DEF LastExists, LastSent

\* A partial row is not sent.
LEMMA AppendPartial ==
    ASSUME TypeOK, LastExists, thread' = Append(thread, Row("partial", {}))
    PROVE  LastExists' /\ LastSent' = LastSent /\ Used' = Used
<1>1. /\ Len(thread) \in Nat /\ Len(thread') = Len(thread) + 1
      /\ thread'[Len(thread) + 1] = Row("partial", {})
      /\ \A i \in 1..Len(thread) : thread'[i] = thread[i]
    BY RowType DEF TypeOK, Kinds
<1>2. Sent' = Sent
    BY <1>1 DEF Sent, IsSent, Row
<1>3. Sent # {} => (CHOOSE i \in Sent : IsLast(i, Sent)) \in Sent
    BY DEF LastExists
<1>4. \A i \in Sent : thread'[i] = thread[i]
    BY <1>1 DEF Sent
<1>5. LastSent' = LastSent
    BY <1>2, <1>3, <1>4 DEF LastSent
<1>6. Used' = Used
    BY <1>1 DEF Used, Row
<1> QED BY <1>2, <1>5, <1>6 DEF LastExists

\* After the promotion of the partial rows every row is sent.
LEMMA PromoteSends ==
    ASSUME TypeOK, NEW r \in Requests, Promote(r)
    PROVE  LastExists'
<1>1. Len(thread) \in Nat /\ thread \in Seq(Rows)
    BY DEF TypeOK
<1>2. Len(thread') = Len(thread) /\ \A i \in 1..Len(thread) : thread'[i].kind # "partial"
    BY <1>1 DEF Promote, Row
<1>3. Sent' = 1..Len(thread)
    BY <1>1, <1>2 DEF Sent, IsSent
<1> QED BY <1>1, <1>3 DEF LastExists, IsLast

TypeInv == TypeOK /\ LastExists

\* Every step keeps the conversation, the approvals and the requests typed.
LEMMA TypeStep == TypeInv /\ [Next]_vars => TypeOK'
<1> SUFFICES ASSUME TypeOK, LastExists, [Next]_vars PROVE TypeOK'
    BY DEF TypeInv
<1>0. /\ \A cs \in SUBSET Calls : /\ Append(thread, Row("user", cs)) \in Seq(Rows)
                                  /\ Append(thread, Row("assistant", cs)) \in Seq(Rows)
                                  /\ Append(thread, Row("results", cs)) \in Seq(Rows)
                                  /\ Append(thread, Row("partial", cs)) \in Seq(Rows)
    BY AppendType DEF Kinds
<1>arg. NoArg \in Calls \X Verdicts
    BY NoArgType
<1>last. LastSent.calls \in SUBSET Calls
    BY LastType DEF Rows
<1> USE ChatTurnAssumption DEF TypeOK, Pcs, Goto
<1>1. ASSUME NEW r \in Requests, TurnStep(r) PROVE TypeOK'
    <2>1. CASE CheckPending(r) BY <2>1 DEF CheckPending
    <2>2. CASE ClearAbort(r) BY <2>2, Zenon DEF ClearAbort, NoAbortKey
    <2>3. CASE SaveUser(r) BY <1>0, <2>3 DEF SaveUser
    <2>4. CASE Chunk(r) BY <2>4 DEF Chunk
    <2>5. CASE TooManyIterations(r) BY <2>5 DEF TooManyIterations
    <2>6. CASE Stopped(r)
        <3>1. thread' \in Seq(Rows)
            BY <1>0, <2>6 DEF Stopped
        <3>2. pc' \in [Requests -> Pcs] /\ misfired' \in BOOLEAN
            BY <2>6 DEF Stopped
        <3> QED BY <2>6, <3>1, <3>2 DEF Stopped
    <2>7. CASE Answer(r) BY <1>0, <2>7 DEF Answer
    <2>8. ASSUME NEW cs \in Plans, CallTools(r, cs) PROVE TypeOK'
        <3>1. cs \in SUBSET Calls
            BY <2>8
        <3>2. thread' \in Seq(Rows)
            BY <1>0, <2>8, <3>1 DEF CallTools
        <3>3. iter' \in [Requests -> Nat]
            BY <2>8 DEF CallTools
        <3> QED BY <2>8, <3>1, <3>2, <3>3 DEF CallTools
    <2>9. CASE Suspend(r) BY <2>9 DEF Suspend
    <2>10. CASE SaveResults(r)
        <3>1. thread' \in Seq(Rows)
            BY <1>0, <2>10 DEF SaveResults
        <3>2. pc' \in [Requests -> Pcs] /\ resumed' \in [Requests -> BOOLEAN]
            BY <2>10 DEF SaveResults
        <3> QED BY <2>10, <3>1, <3>2 DEF SaveResults
    <2>11. ASSUME NEW c \in Calls, Execute(r, c) \/ Deny(r, c) PROVE TypeOK'
        <3>1. left[r] \ {c} \in SUBSET Calls /\ runs[c] + 1 \in Nat
            OBVIOUS
        <3>2. CASE Execute(r, c)
            BY <3>1, <3>2 DEF Execute
        <3>3. CASE Deny(r, c)
            BY <3>1, <3>3 DEF Deny
        <3> QED BY <2>11, <3>2, <3>3
    <2>12. CASE Handoff(r)
        <3>1. hops' \in [Requests -> 0..MaxHops]
            BY <2>12 DEF Handoff
        <3> QED BY <2>12, <3>1 DEF Handoff
    <2>13. CASE Complete(r) BY <2>13 DEF Complete
    <2>14. CASE DropFlag(r) BY <2>14, Zenon DEF DropFlag, NoAbortKey
    <2>15. CASE Promote(r)
        <3>1. thread' \in Seq(Rows)
            BY <2>15, RowType DEF Promote, Kinds
        <3> QED BY <2>15, <3>1 DEF Promote
    <2>16. CASE Release(r)
        <3>1. arg' \in [Requests -> Calls \X Verdicts]
            BY <1>arg, <2>16 DEF Release, Leave
        <3> QED BY <2>16, <3>1 DEF Release, Leave
    <2>17. CASE Decide(r)
        <3>1. arg[r][1] \in Calls /\ arg[r][2] \in Verdicts
            OBVIOUS
        <3>2. approval' \in [Calls -> {"none", "pending"} \cup Verdicts]
            <4>1. \/ approval' = approval
                  \/ approval' = [approval EXCEPT ![arg[r][1]] = arg[r][2]]
                BY <2>17 DEF Decide
            <4> QED BY <3>1, <4>1
        <3>3. pc' \in [Requests -> Pcs]
            <4>1. \E l \in {"cascade", "count", "release"} : pc' = [pc EXCEPT ![r] = l]
                BY <2>17 DEF Decide
            <4> QED BY <4>1
        <3> QED BY <2>17, <3>2, <3>3 DEF Decide
    <2>18. CASE Cascade(r) BY <2>18 DEF Cascade, Verdicts
    <2>19. CASE Count(r) BY <2>19 DEF Count
    <2>20. CASE Load(r)
        <3>1. {c \in LastSent.calls : approval[c] \in {"rejected", "corrected"}} \in SUBSET Calls
            BY <1>last
        <3>2. CASE LastSent.kind = "assistant" /\ LastSent.calls # {}
            <4>1. /\ batch' = [batch EXCEPT ![r] = LastSent.calls]
                  /\ left' = [left EXCEPT ![r] = LastSent.calls]
                  /\ resumed' = [resumed EXCEPT ![r] = TRUE]
                  /\ pc' = [pc EXCEPT ![r] = "tools"]
                  /\ denied' = [denied EXCEPT ![r] =
                        {c \in LastSent.calls : approval[c] \in {"rejected", "corrected"}}]
                BY <2>20, <3>2 DEF Load
            <4>2. denied' \in [Requests -> SUBSET Calls]
                BY <3>1, <4>1
            <4> QED BY <1>last, <2>20, <4>1, <4>2 DEF Load
        <3>3. CASE ~(LastSent.kind = "assistant" /\ LastSent.calls # {})
            <4>1. pc' = [pc EXCEPT ![r] = "release"] /\ UNCHANGED <<batch, left, denied, resumed>>
                BY <2>20, <3>3 DEF Load
            <4> QED BY <2>20, <4>1 DEF Load
        <3> QED BY <3>2, <3>3
    <2> QED BY <1>1, <2>1, <2>2, <2>3, <2>4, <2>5, <2>6, <2>7, <2>8, <2>9, <2>10, <2>11,
               <2>12, <2>13, <2>14, <2>15, <2>16, <2>17, <2>18, <2>19, <2>20 DEF TurnStep
<1>2. ASSUME NEW r \in Requests, BeginSend(r) PROVE TypeOK'
    BY <1>2 DEF BeginSend
<1>3. ASSUME NEW r \in Requests, NEW c \in Calls, NEW v \in Verdicts, BeginDecide(r, c, v)
      PROVE TypeOK'
    <2>1. arg' \in [Requests -> Calls \X Verdicts]
        BY <1>3 DEF BeginDecide
    <2> QED BY <1>3, <2>1 DEF BeginDecide
<1>4. ASSUME NEW r \in Requests, LlmFails(r) PROVE TypeOK'
    <2>1. thread' \in Seq(Rows)
        BY <1>0, <1>4 DEF LlmFails
    <2>2. pc' \in [Requests -> Pcs]
        BY <1>4 DEF LlmFails
    <2>3. upsets' \in 0..MaxUpsets
        BY <1>4 DEF LlmFails
    <2> QED BY <1>4, <2>1, <2>2, <2>3 DEF LlmFails
<1>5. ASSUME NEW r \in Requests, ToolRaises(r) PROVE TypeOK'
    BY <1>5 DEF ToolRaises
<1>6. ASSUME NEW r \in Requests, Die(r) PROVE TypeOK'
    <2>1. arg' \in [Requests -> Calls \X Verdicts]
        BY <1>arg, <1>6 DEF Die, Leave
    <2> QED BY <1>6, <2>1 DEF Die, Leave
<1>7. CASE Abort BY <1>7 DEF Abort
<1>8. CASE AbortExpires BY <1>8, Zenon DEF AbortExpires, NoAbortKey
<1>9. CASE LockExpires BY <1>9 DEF LockExpires
<1>10. CASE UNCHANGED vars BY <1>10 DEF vars
<1> QED BY <1>1, <1>2, <1>3, <1>4, <1>5, <1>6, <1>7, <1>8, <1>9, <1>10 DEF Next

\* Every step leaves the thread a last row sent.
LEMMA LastStep == TypeInv /\ [Next]_vars => LastExists'
<1> SUFFICES ASSUME TypeOK, LastExists, [Next]_vars PROVE LastExists'
    BY DEF TypeInv
<1>keep. ASSUME thread' = thread PROVE LastExists'
    BY <1>keep DEF LastExists, Sent, IsLast, IsSent
<1>part. ASSUME thread' = Append(thread, Row("partial", {})) \/ thread' = thread
         PROVE LastExists'
    BY <1>keep, <1>part, AppendPartial
<1>1. ASSUME NEW r \in Requests, TurnStep(r) PROVE LastExists'
    <2>1. CASE SaveUser(r) BY <2>1, AppendSent DEF SaveUser, Kinds
    <2>2. CASE Stopped(r) BY <1>part, <2>2 DEF Stopped
    <2>3. CASE Answer(r) BY <2>3, AppendSent DEF Answer, Kinds
    <2>4. ASSUME NEW cs \in Plans, CallTools(r, cs) PROVE LastExists'
        BY <2>4, AppendSent, ChatTurnAssumption DEF CallTools, Kinds
    <2>5. CASE SaveResults(r)
        <3>1. batch[r] \in SUBSET Calls
            BY DEF TypeOK
        <3>2. thread' = Append(thread, Row("results", batch[r]))
            BY <2>5 DEF SaveResults
        <3> QED BY <3>1, <3>2, AppendSent DEF Kinds
    <2>6. CASE Promote(r) BY <2>6, PromoteSends
    <2>7. CASE \/ CheckPending(r) \/ ClearAbort(r) \/ Chunk(r) \/ TooManyIterations(r)
               \/ Suspend(r) \/ Handoff(r) \/ Complete(r) \/ DropFlag(r) \/ Release(r)
               \/ Decide(r) \/ Cascade(r) \/ Count(r) \/ Load(r)
               \/ \E c \in Calls : Execute(r, c) \/ Deny(r, c)
        BY <1>keep, <2>7 DEF CheckPending, ClearAbort, Chunk, TooManyIterations, Suspend,
               Handoff, Complete, DropFlag, Release, Decide, Cascade, Count, Load, Execute, Deny
    <2> QED BY <1>1, <2>1, <2>2, <2>3, <2>4, <2>5, <2>6, <2>7 DEF TurnStep
<1>2. ASSUME NEW r \in Requests, LlmFails(r) PROVE LastExists'
    BY <1>part, <1>2 DEF LlmFails
<1>3. ASSUME NEW r \in Requests,
             \/ BeginSend(r) \/ ToolRaises(r) \/ Die(r)
             \/ \E c \in Calls, v \in Verdicts : BeginDecide(r, c, v)
      PROVE LastExists'
    BY <1>keep, <1>3 DEF BeginSend, ToolRaises, Die, BeginDecide
<1>4. CASE Abort \/ AbortExpires \/ LockExpires \/ UNCHANGED vars
    BY <1>keep, <1>4 DEF Abort, AbortExpires, LockExpires, vars
<1> QED BY <1>1, <1>2, <1>3, <1>4 DEF Next

\* An empty conversation is typed.
LEMMA InitType == Init => TypeInv
<1> SUFFICES ASSUME Init PROVE TypeInv
    OBVIOUS
<1>1. NoArg \in Calls \X Verdicts
    BY NoArgType
<1>2. /\ overran \in BOOLEAN /\ broken \in BOOLEAN /\ idleKey \in BOOLEAN
      /\ misfired \in BOOLEAN /\ abortKey \in BOOLEAN
    BY Zenon DEF Init
<1>3. thread \in Seq(Rows) /\ Sent = {}
    BY DEF Init, Sent
<1> QED BY <1>1, <1>2, <1>3, ChatTurnAssumption DEF Init, TypeInv, TypeOK, LastExists, Pcs

\* Type correctness of the conversation, its approvals and its requests.
THEOREM TypeCorrect == Spec => []TypeOK
BY InitType, TypeStep, LastStep, PTL DEF Spec, TypeInv

-----------------------------------------------------------------------------
(* The invariant behind the approvals. While the lock has not run out under  *)
(* a live request, one request at most is at work; while it is inside the    *)
(* loop nothing is pending; and as long as something is pending, or a        *)
(* decision is on its way to the resume, the history ends with a suspended   *)
(* step: none of its calls has run and each gated one has its approval row.  *)

\* Only the holder of the lock is at work.
HolderWorks == \A r \in Requests : pc[r] # "idle" => holder = r

PartialEmpty == \A i \in 1..Len(thread) : thread[i].kind = "partial" => thread[i].calls = {}

\* What was approved or executed is a call the model has made.
CallsAreMade == \A c \in Calls : approval[c] # "none" \/ runs[c] > 0 => c \in Used

\* Where a request may not meet a pending approval.
AtWork == {"clear", "user", "llm", "stream", "suspend", "tools", "handoff",
           "stopped", "promote", "load"}
NothingPending == \A r \in Requests : pc[r] \in AtWork => Pending = {}

LastIsPending == Pending \subseteq LastSent.calls

\* A step about to be suspended is the last of the history, and untouched.
SuspendsTheLast ==
    \A r \in Requests : pc[r] = "suspend" =>
        /\ batch[r] = LastSent.calls
        /\ \A c \in batch[r] : runs[c] = 0 /\ approval[c] = "none"

\* Somebody waits for a decision, or a decision is on its way to the resume.
Resuming == {"cascade", "count", "load"}
Waiting == Pending # {} \/ \E r \in Requests : pc[r] \in Resuming
LastIsSuspended ==
    Waiting =>
        \A c \in LastSent.calls :
            runs[c] = 0 /\ (c \in Gated => approval[c] # "none")

\* What a request has still to execute has not run and may run.
LeftMayRun ==
    \A r \in Requests : pc[r] = "tools" =>
        \A c \in left[r] :
            /\ runs[c] = 0 /\ c \in Used
            /\ c \in Gated \ denied[r] => approval[c] = "approved"

RanOnce == \A c \in Calls : runs[c] <= 1

Approvals ==
    /\ HolderWorks /\ PartialEmpty /\ CallsAreMade /\ NothingPending /\ LastIsPending
    /\ SuspendsTheLast /\ LastIsSuspended /\ LeftMayRun /\ OnlyApprovedRun /\ RanOnce

ApprovalInv == TypeInv /\ (~overran => Approvals)

\* The conversation's rows after one more.
LEMMA AppendRow ==
    ASSUME TypeOK, LastExists, PartialEmpty, NEW k \in Kinds, NEW cs \in SUBSET Calls,
           k = "partial" => cs = {},
           thread' = Append(thread, Row(k, cs))
    PROVE  PartialEmpty' /\ Used' = Used \cup cs
<1>1. /\ Len(thread) \in Nat /\ Len(thread') = Len(thread) + 1
      /\ thread'[Len(thread) + 1] = Row(k, cs)
      /\ \A i \in 1..Len(thread) : thread'[i] = thread[i]
    BY RowType DEF TypeOK
<1>2. PartialEmpty'
    BY <1>1 DEF PartialEmpty, Row
<1>3. CASE k = "partial"
    BY <1>2, <1>3, AppendPartial
<1>4. CASE k # "partial"
    BY <1>2, <1>4, AppendSent
<1> QED BY <1>3, <1>4

\* The calls of the last row sent have been made.
LEMMA LastIsUsed ==
    ASSUME TypeOK, LastExists
    PROVE  LastSent.calls \subseteq Used
<1>1. CASE Sent = {}
    BY <1>1 DEF LastSent, Row
<1>2. CASE Sent # {}
    <2>1. (CHOOSE i \in Sent : IsLast(i, Sent)) \in Sent
        BY <1>2 DEF LastExists
    <2>2. \A i \in Sent : thread[i].calls \subseteq Used
        BY DEF Sent, Used
    <2> QED BY <1>2, <2>1, <2>2 DEF LastSent
<1> QED BY <1>1, <1>2

\* Every step keeps the approvals and the history in agreement.
LEMMA ApprovalStep ==
    ASSUME TypeOK, LastExists, Approvals, [Next]_vars, ~overran, ~overran', TypeOK'
    PROVE  Approvals'
<1> USE DEF Goto
<1>typ. /\ pc \in [Requests -> Pcs] /\ pc' \in [Requests -> Pcs]
        /\ approval \in [Calls -> {"none", "pending"} \cup Verdicts]
        /\ approval' \in [Calls -> {"none", "pending"} \cup Verdicts]
        /\ runs \in [Calls -> Nat] /\ runs' \in [Calls -> Nat]
        /\ left \in [Requests -> SUBSET Calls] /\ batch \in [Requests -> SUBSET Calls]
        /\ denied \in [Requests -> SUBSET Calls]
    BY DEF TypeOK
<1>last. LastSent.calls \in SUBSET Calls
    BY LastType DEF Rows
<1>same. ASSUME thread' = thread
         PROVE  LastSent' = LastSent /\ Used' = Used /\ PartialEmpty'
    BY <1>same DEF Approvals, PartialEmpty, LastSent, Sent, IsSent, IsLast, Used
<1>pend. ASSUME approval' = approval PROVE Pending' = Pending
    BY <1>pend DEF Pending
\* The request that works is the only one.
<1>only. ASSUME NEW r \in Requests, pc[r] # "idle"
         PROVE  holder = r /\ \A q \in Requests \ {r} : pc[q] = "idle"
    BY <1>only DEF Approvals, HolderWorks
\* A step that stores nothing, and does not enter the tools.
<1>quiet. ASSUME NEW r \in Requests,
                 thread' = thread, approval' = approval, runs' = runs,
                 \A q \in Requests \ {r} : pc'[q] = "idle",
                 pc'[r] # "idle" => holder' = r,
                 pc'[r] \notin {"suspend", "tools"},
                 pc'[r] \in AtWork => Pending = {},
                 pc'[r] \in Resuming => Waiting
          PROVE  Approvals'
    <2>1. LastSent' = LastSent /\ Used' = Used /\ Pending' = Pending /\ PartialEmpty'
        BY <1>same, <1>pend, <1>quiet
    <2>2. HolderWorks'
        BY <1>quiet DEF HolderWorks
    <2>3. NothingPending'
        BY <1>quiet, <2>1 DEF NothingPending, AtWork
    <2>4. Waiting' => Waiting
        BY <1>quiet, <2>1 DEF Waiting, Resuming
    <2>5. SuspendsTheLast' /\ LeftMayRun'
        BY <1>quiet DEF SuspendsTheLast, LeftMayRun
    <2>6. LastIsPending' /\ LastIsSuspended'
        BY <1>quiet, <2>1, <2>4 DEF Approvals, LastIsPending, LastIsSuspended
    <2>7. CallsAreMade' /\ OnlyApprovedRun' /\ RanOnce'
        BY <1>quiet, <2>1 DEF Approvals, CallsAreMade, OnlyApprovedRun, RanOnce
    <2> QED BY <2>1, <2>2, <2>3, <2>5, <2>6, <2>7 DEF Approvals
\* A step of the loop that saves a row and goes on.
<1>saves. ASSUME NEW r \in Requests, NEW k \in Kinds, NEW cs \in SUBSET Calls,
                 k = "partial" => cs = {},
                 thread' = Append(thread, Row(k, cs)), approval' = approval, runs' = runs,
                 \A q \in Requests \ {r} : pc'[q] = "idle",
                 pc'[r] # "idle" => holder' = r,
                 pc'[r] \notin {"suspend", "tools"} \cup Resuming,
                 Pending = {}
          PROVE  Approvals'
    <2>1. PartialEmpty' /\ Used' = Used \cup cs
        BY <1>saves, AppendRow DEF Approvals
    <2>2. Pending' = {}
        BY <1>saves, <1>pend
    <2>3. HolderWorks'
        BY <1>saves DEF HolderWorks
    <2>4. ~Waiting'
        BY <1>saves, <2>2 DEF Waiting, Resuming
    <2>5. SuspendsTheLast' /\ LeftMayRun'
        BY <1>saves DEF SuspendsTheLast, LeftMayRun
    <2>6. NothingPending' /\ LastIsPending' /\ LastIsSuspended'
        BY <2>2, <2>4 DEF NothingPending, LastIsPending, LastIsSuspended
    <2>7. CallsAreMade' /\ OnlyApprovedRun' /\ RanOnce'
        BY <1>saves, <2>1 DEF Approvals, CallsAreMade, OnlyApprovedRun, RanOnce
    <2> QED BY <2>1, <2>3, <2>5, <2>6, <2>7 DEF Approvals
\* A step that ends a stream, with or without a partial row.
<1>cut. ASSUME NEW r \in Requests,
               thread' = thread \/ thread' = Append(thread, Row("partial", {})),
               approval' = approval, runs' = runs, holder = r, holder' = holder,
               \A q \in Requests \ {r} : pc'[q] = "idle",
               pc'[r] \in {"llm", "stopped", "release"},
               Pending = {}
        PROVE  Approvals'
    <2>1. "partial" \in Kinds /\ {} \in SUBSET Calls
        BY DEF Kinds
    <2>2. pc'[r] \notin {"suspend", "tools"} \cup Resuming
        BY <1>cut DEF Resuming
    <2>3. CASE thread' = thread
        BY <1>cut, <1>quiet, <2>2, <2>3
    <2>4. CASE thread' = Append(thread, Row("partial", {}))
        BY <1>cut, <1>saves, <2>1, <2>2, <2>4
    <2> QED BY <1>cut, <2>3, <2>4
\* A step that decides pending approvals, on the way to the resume.
<1>decided. ASSUME NEW r \in Requests, thread' = thread, runs' = runs,
                   holder = r, holder' = holder, Waiting,
                   \A q \in Requests \ {r} : pc'[q] = "idle",
                   \A q \in Requests : pc'[q] \in {"idle", "cascade", "count"},
                   \A c \in Calls : approval'[c] = approval[c]
                                    \/ (approval[c] = "pending" /\ approval'[c] \in Verdicts)
            PROVE  Approvals'
    <2>1. LastSent' = LastSent /\ Used' = Used /\ PartialEmpty'
        BY <1>same, <1>decided
    <2>2. Pending' \subseteq Pending
        BY <1>typ, <1>decided DEF Pending, Verdicts
    <2>3. HolderWorks' /\ NothingPending' /\ SuspendsTheLast' /\ LeftMayRun'
        BY <1>decided DEF HolderWorks, NothingPending, AtWork, SuspendsTheLast, LeftMayRun
    <2>4. LastIsPending'
        BY <2>1, <2>2 DEF Approvals, LastIsPending
    <2>5. LastIsSuspended'
        BY <1>last, <1>decided, <2>1 DEF Approvals, LastIsSuspended, Verdicts
    <2>6. CallsAreMade' /\ RanOnce'
        BY <1>decided, <2>1 DEF Approvals, CallsAreMade, RanOnce
    <2>7. OnlyApprovedRun'
        BY <1>decided, ChatTurnAssumption DEF Approvals, OnlyApprovedRun
    <2> QED BY <2>1, <2>3, <2>4, <2>5, <2>6, <2>7 DEF Approvals
<1>1. ASSUME NEW r \in Requests, TurnStep(r) PROVE Approvals'
    <2>0. pc[r] # "idle"
        BY <1>1 DEF TurnStep, CheckPending, ClearAbort, SaveUser, Chunk, TooManyIterations,
               Stopped, Answer, CallTools, Suspend, SaveResults, Execute, Deny, Handoff,
               Complete, DropFlag, Promote, Release, Decide, Cascade, Count, Load
    <2>h. holder = r /\ \A q \in Requests \ {r} : pc[q] = "idle"
        BY <1>only, <2>0
    <2>np. pc[r] \in AtWork => Pending = {}
        BY DEF Approvals, NothingPending
    <2>1. CASE ClearAbort(r) \/ Chunk(r) \/ TooManyIterations(r) \/ Handoff(r) \/ Complete(r)
               \/ DropFlag(r)
        <3>1. /\ thread' = thread /\ approval' = approval /\ runs' = runs /\ holder' = holder
              /\ pc[r] \in AtWork
              /\ \E l \in {"user", "stream", "release", "llm", "promote"} :
                    pc' = [pc EXCEPT ![r] = l]
            BY <2>1 DEF ClearAbort, Chunk, TooManyIterations, Handoff, Complete, DropFlag, AtWork
        <3> QED BY <1>typ, <1>quiet, <2>h, <2>np, <3>1 DEF Resuming
    <2>2. CASE CheckPending(r)
        <3>1. /\ thread' = thread /\ approval' = approval /\ runs' = runs /\ holder' = holder
              /\ pc' = [pc EXCEPT ![r] = IF Pending # {} THEN "release" ELSE "clear"]
            BY <2>2 DEF CheckPending
        <3> QED BY <1>typ, <1>quiet, <2>h, <3>1 DEF Resuming, AtWork
    <2>3. CASE Count(r)
        <3>1. /\ thread' = thread /\ approval' = approval /\ runs' = runs /\ holder' = holder
              /\ pc[r] = "count"
              /\ pc' = [pc EXCEPT ![r] = IF Pending # {} THEN "release" ELSE "load"]
            BY <2>3 DEF Count
        <3>2. Waiting
            BY <3>1 DEF Waiting, Resuming
        <3> QED BY <1>typ, <1>quiet, <2>h, <3>1, <3>2 DEF AtWork
    <2>4. CASE Release(r)
        <3>1. /\ thread' = thread /\ approval' = approval /\ runs' = runs
              /\ pc' = [pc EXCEPT ![r] = "idle"]
            BY <2>4 DEF Release, Leave
        <3> QED BY <1>typ, <1>quiet, <2>h, <3>1 DEF Resuming, AtWork
    <2>5. CASE SaveUser(r)
        <3>1. /\ thread' = Append(thread, Row("user", {})) /\ approval' = approval
              /\ runs' = runs /\ holder' = holder /\ pc' = [pc EXCEPT ![r] = "llm"]
              /\ Pending = {}
            BY <2>np, <2>5 DEF SaveUser, AtWork
        <3> QED BY <1>typ, <1>saves, <2>h, <3>1 DEF Resuming, Kinds
    <2>6. CASE Answer(r)
        <3>1. /\ thread' = Append(thread, Row("assistant", {})) /\ approval' = approval
              /\ runs' = runs /\ holder' = holder /\ pc' = [pc EXCEPT ![r] = "handoff"]
              /\ Pending = {}
            BY <2>np, <2>6 DEF Answer, AtWork
        <3> QED BY <1>typ, <1>saves, <2>h, <3>1 DEF Resuming, Kinds
    <2>7. CASE SaveResults(r)
        <3>1. /\ thread' = Append(thread, Row("results", batch[r])) /\ approval' = approval
              /\ runs' = runs /\ holder' = holder /\ batch[r] \in SUBSET Calls
              /\ \E l \in {"llm", "handoff"} : pc' = [pc EXCEPT ![r] = l]
              /\ Pending = {}
            BY <1>typ, <2>np, <2>7 DEF SaveResults, AtWork
        <3> QED BY <1>typ, <1>saves, <2>h, <3>1 DEF Resuming, Kinds
    <2>8. CASE Stopped(r)
        <3>1. /\ approval' = approval /\ runs' = runs /\ holder' = holder
              /\ \E l \in {"stopped", "release"} : pc' = [pc EXCEPT ![r] = l]
              /\ Pending = {}
              /\ thread' = thread \/ thread' = Append(thread, Row("partial", {}))
            BY <2>np, <2>8 DEF Stopped, AtWork
        <3>2. pc'[r] \in {"stopped", "release"} /\ \A q \in Requests \ {r} : pc'[q] = "idle"
            BY <1>typ, <2>h, <3>1
        <3> QED BY <1>cut, <2>h, <3>1, <3>2
    <2>9. ASSUME NEW cs \in Plans, CallTools(r, cs) PROVE Approvals'
        <3>1. /\ thread' = Append(thread, Row("assistant", cs))
              /\ approval' = approval /\ runs' = runs /\ holder' = holder
              /\ cs \in SUBSET Calls /\ cs \cap Used = {} /\ Pending = {}
              /\ batch'[r] = cs /\ left'[r] = cs
              /\ pc'[r] = IF cs \cap Gated # {} THEN "suspend" ELSE "tools"
              /\ \A q \in Requests \ {r} : pc'[q] = "idle"
            BY <1>typ, <2>h, <2>np, <2>9, ChatTurnAssumption DEF CallTools, AtWork
        <3>2. PartialEmpty' /\ Used' = Used \cup cs
            BY <3>1, AppendRow DEF Approvals, Kinds
        <3>3. LastSent' = Row("assistant", cs)
            BY <3>1, AppendSent DEF Kinds
        <3>4. \A c \in cs : runs[c] = 0 /\ approval[c] = "none"
            BY <1>typ, <3>1 DEF Approvals, CallsAreMade
        <3>5. Pending' = {} /\ ~Waiting'
            BY <1>pend, <3>1 DEF Waiting, Resuming
        <3>6. HolderWorks'
            BY <2>h, <3>1 DEF HolderWorks
        <3>7. SuspendsTheLast'
            BY <3>1, <3>3, <3>4 DEF SuspendsTheLast, Row
        <3>8. LeftMayRun'
            BY <3>1, <3>2, <3>4 DEF LeftMayRun
        <3>9. NothingPending' /\ LastIsPending' /\ LastIsSuspended'
            BY <3>5 DEF NothingPending, LastIsPending, LastIsSuspended
        <3>10. CallsAreMade' /\ OnlyApprovedRun' /\ RanOnce'
            BY <3>1, <3>2 DEF Approvals, CallsAreMade, OnlyApprovedRun, RanOnce
        <3> QED BY <3>2, <3>6, <3>7, <3>8, <3>9, <3>10 DEF Approvals
    <2>10. CASE Suspend(r)
        <3>1. /\ thread' = thread /\ runs' = runs /\ holder' = holder
              /\ approval' = [c \in Calls |->
                    IF c \in batch[r] \cap Gated THEN "pending" ELSE approval[c]]
              /\ pc' = [pc EXCEPT ![r] = "release"] /\ Pending = {}
            BY <2>np, <2>10 DEF Suspend, AtWork
        <3>2. /\ batch[r] = LastSent.calls
              /\ \A c \in batch[r] : runs[c] = 0 /\ approval[c] = "none"
            BY <2>10 DEF Suspend, Approvals, SuspendsTheLast
        <3>3. LastSent' = LastSent /\ Used' = Used /\ PartialEmpty'
            BY <1>same, <3>1
        <3>4. Pending' = batch[r] \cap Gated
            BY <1>typ, <3>1, ChatTurnAssumption DEF Pending
        <3>5. \A q \in Requests : pc'[q] \in {"idle", "release"}
            BY <1>typ, <2>h, <3>1
        <3>6. HolderWorks'
            BY <1>typ, <2>h, <3>1 DEF HolderWorks
        <3>7. LastSent.calls \subseteq Used
            BY LastIsUsed
        <3>8. CallsAreMade'
            BY <1>typ, <3>1, <3>2, <3>3, <3>7 DEF Approvals, CallsAreMade
        <3>9. OnlyApprovedRun' /\ RanOnce'
            BY <1>typ, <3>1, <3>2, ChatTurnAssumption DEF Approvals, OnlyApprovedRun, RanOnce
        <3>10. LastIsPending' /\ LastIsSuspended'
            BY <1>typ, <1>last, <3>1, <3>2, <3>3, <3>4 DEF LastIsPending, LastIsSuspended
        <3>11. NothingPending' /\ SuspendsTheLast' /\ LeftMayRun'
            BY <3>5 DEF NothingPending, AtWork, SuspendsTheLast, LeftMayRun
        <3> QED BY <3>3, <3>6, <3>8, <3>9, <3>10, <3>11 DEF Approvals
    <2>11. ASSUME NEW c \in Calls, Execute(r, c) PROVE Approvals'
        <3>1. /\ thread' = thread /\ approval' = approval /\ holder' = holder /\ pc' = pc
              /\ runs' = [runs EXCEPT ![c] = @ + 1]
              /\ left' = [left EXCEPT ![r] = @ \ {c}]
              /\ denied' = denied /\ batch' = batch
              /\ pc[r] = "tools" /\ c \in left[r] \ denied[r] /\ Pending = {}
            BY <2>np, <2>11 DEF Execute, AtWork
        <3>2. runs[c] = 0 /\ c \in Used /\ (c \in Gated => approval[c] = "approved")
            BY <3>1 DEF Approvals, LeftMayRun
        <3>3. LastSent' = LastSent /\ Used' = Used /\ PartialEmpty' /\ Pending' = {}
            BY <1>same, <1>pend, <3>1
        <3>4. ~Waiting'
            BY <2>h, <3>1, <3>3 DEF Waiting, Resuming
        <3>5. HolderWorks' /\ NothingPending' /\ LastIsPending' /\ LastIsSuspended'
            BY <3>1, <3>3, <3>4 DEF Approvals, HolderWorks, NothingPending, LastIsPending,
                   LastIsSuspended
        <3>6. SuspendsTheLast'
            BY <2>h, <3>1 DEF SuspendsTheLast
        <3>7. LeftMayRun'
            BY <1>typ, <2>h, <3>1, <3>3 DEF Approvals, LeftMayRun
        <3>8. CallsAreMade' /\ OnlyApprovedRun' /\ RanOnce'
            BY <1>typ, <3>1, <3>2, <3>3, ChatTurnAssumption
               DEF Approvals, CallsAreMade, OnlyApprovedRun, RanOnce
        <3> QED BY <3>3, <3>5, <3>6, <3>7, <3>8 DEF Approvals
    <2>12. ASSUME NEW c \in Calls, Deny(r, c) PROVE Approvals'
        <3>1. /\ thread' = thread /\ approval' = approval /\ holder' = holder /\ pc' = pc
              /\ runs' = runs
              /\ left' = [left EXCEPT ![r] = @ \ {c}]
              /\ denied' = denied /\ batch' = batch
              /\ pc[r] = "tools" /\ Pending = {}
            BY <2>np, <2>12 DEF Deny, AtWork
        <3>3. LastSent' = LastSent /\ Used' = Used /\ PartialEmpty' /\ Pending' = {}
            BY <1>same, <1>pend, <3>1
        <3>4. ~Waiting'
            BY <2>h, <3>1, <3>3 DEF Waiting, Resuming
        <3>5. HolderWorks' /\ NothingPending' /\ LastIsPending' /\ LastIsSuspended'
            BY <3>1, <3>3, <3>4 DEF Approvals, HolderWorks, NothingPending, LastIsPending,
                   LastIsSuspended
        <3>6. SuspendsTheLast'
            BY <2>h, <3>1 DEF SuspendsTheLast
        <3>7. LeftMayRun'
            BY <1>typ, <2>h, <3>1, <3>3 DEF Approvals, LeftMayRun
        <3>8. CallsAreMade' /\ OnlyApprovedRun' /\ RanOnce'
            BY <3>1, <3>3 DEF Approvals, CallsAreMade, OnlyApprovedRun, RanOnce
        <3> QED BY <3>3, <3>5, <3>6, <3>7, <3>8 DEF Approvals
    <2>13. CASE Promote(r)
        <3>1. /\ approval' = approval /\ runs' = runs /\ holder' = holder
              /\ pc' = [pc EXCEPT ![r] = "release"] /\ Pending = {}
              /\ thread' = [i \in 1..Len(thread) |->
                    IF thread[i].kind = "partial" THEN Row("assistant", {}) ELSE thread[i]]
            BY <2>np, <2>13 DEF Promote, AtWork
        <3>2. Len(thread') = Len(thread) /\ Len(thread) \in Nat
            BY <3>1 DEF TypeOK
        <3>3. \A i \in 1..Len(thread) : thread'[i].kind # "partial" /\ thread'[i].calls = thread[i].calls
            BY <3>1 DEF Approvals, PartialEmpty, Row
        <3>4. PartialEmpty' /\ Used' = Used
            BY <3>2, <3>3 DEF PartialEmpty, Used
        <3>5. Pending' = {}
            BY <1>pend, <3>1
        <3>6. \A q \in Requests : pc'[q] \in {"idle", "release"}
            BY <1>typ, <2>h, <3>1
        <3>7. HolderWorks'
            BY <1>typ, <2>h, <3>1 DEF HolderWorks
        <3>8. ~Waiting'
            BY <3>5, <3>6 DEF Waiting, Resuming
        <3>9. /\ NothingPending' /\ LastIsPending' /\ LastIsSuspended'
              /\ SuspendsTheLast' /\ LeftMayRun'
            BY <3>5, <3>6, <3>8 DEF NothingPending, LastIsPending, LastIsSuspended,
                   SuspendsTheLast, LeftMayRun
        <3>10. CallsAreMade' /\ OnlyApprovedRun' /\ RanOnce'
            BY <3>1, <3>4 DEF Approvals, CallsAreMade, OnlyApprovedRun, RanOnce
        <3> QED BY <3>4, <3>7, <3>9, <3>10 DEF Approvals
    <2>14. CASE Decide(r)
        <3>0. arg[r][1] \in Calls /\ arg[r][2] \in Verdicts
            BY DEF TypeOK
        <3>1. CASE arg[r][1] \notin Pending
            <4>1. /\ thread' = thread /\ approval' = approval /\ runs' = runs
                  /\ holder' = holder /\ pc' = [pc EXCEPT ![r] = "release"]
                BY <2>14, <3>1 DEF Decide
            <4> QED BY <1>typ, <1>quiet, <2>h, <4>1 DEF Resuming, AtWork
        <3>2. CASE arg[r][1] \in Pending
            <4>1. /\ thread' = thread /\ runs' = runs /\ holder' = holder
                  /\ approval' = [approval EXCEPT ![arg[r][1]] = arg[r][2]]
                  /\ \E l \in {"cascade", "count"} : pc' = [pc EXCEPT ![r] = l]
                BY <2>14, <3>2 DEF Decide
            <4>2. \A c \in Calls : approval'[c] = approval[c]
                                   \/ (approval[c] = "pending" /\ approval'[c] \in Verdicts)
                BY <1>typ, <3>0, <3>2, <4>1 DEF Pending
            <4>3. Waiting
                BY <3>2 DEF Waiting
            <4>4. \A q \in Requests : pc'[q] \in {"idle", "cascade", "count"}
                BY <1>typ, <2>h, <4>1
            <4> QED BY <1>decided, <1>typ, <2>h, <4>1, <4>2, <4>3, <4>4
        <3> QED BY <3>1, <3>2
    <2>15. CASE Cascade(r)
        <3>1. /\ thread' = thread /\ runs' = runs /\ holder' = holder /\ pc[r] = "cascade"
              /\ approval' = [c \in Calls |-> IF c \in Pending THEN "corrected" ELSE approval[c]]
              /\ pc' = [pc EXCEPT ![r] = "count"]
            BY <2>15 DEF Cascade
        <3>2. \A c \in Calls : approval'[c] = approval[c]
                               \/ (approval[c] = "pending" /\ approval'[c] \in Verdicts)
            BY <3>1 DEF Pending, Verdicts
        <3>3. Waiting
            BY <3>1 DEF Waiting, Resuming
        <3>4. \A q \in Requests : pc'[q] \in {"idle", "cascade", "count"}
            BY <1>typ, <2>h, <3>1
        <3> QED BY <1>decided, <1>typ, <2>h, <3>1, <3>2, <3>3, <3>4
    <2>16. CASE Load(r)
        <3>0. /\ thread' = thread /\ approval' = approval /\ runs' = runs /\ holder' = holder
              /\ pc[r] = "load" /\ Pending = {}
            BY <2>np, <2>16 DEF Load, AtWork
        <3>1. CASE ~(LastSent.kind = "assistant" /\ LastSent.calls # {})
            <4>1. pc' = [pc EXCEPT ![r] = "release"]
                BY <2>16, <3>1 DEF Load
            <4> QED BY <1>typ, <1>quiet, <2>h, <3>0, <4>1 DEF Resuming, AtWork
        <3>2. CASE LastSent.kind = "assistant" /\ LastSent.calls # {}
            <4>1. /\ left' = [left EXCEPT ![r] = LastSent.calls]
                  /\ denied' = [denied EXCEPT ![r] =
                        {c \in LastSent.calls : approval[c] \in {"rejected", "corrected"}}]
                  /\ pc' = [pc EXCEPT ![r] = "tools"]
                BY <2>16, <3>2 DEF Load
            <4>2. \A c \in LastSent.calls :
                      runs[c] = 0 /\ c \in Used /\ (c \in Gated => approval[c] # "none")
                <5>1. Waiting
                    BY <3>0 DEF Waiting, Resuming
                <5> QED BY <5>1, LastIsUsed DEF Approvals, LastIsSuspended
            <4>3. LastSent' = LastSent /\ Used' = Used /\ PartialEmpty' /\ Pending' = {}
                BY <1>same, <1>pend, <3>0
            <4>4. \A q \in Requests : pc'[q] # "idle" => q = r /\ pc'[q] = "tools"
                BY <1>typ, <2>h, <4>1
            <4>5. ~Waiting' /\ SuspendsTheLast'
                BY <4>3, <4>4 DEF Waiting, Resuming, SuspendsTheLast
            <4>6. /\ HolderWorks' /\ NothingPending' /\ LastIsPending' /\ LastIsSuspended'
                BY <2>h, <3>0, <4>3, <4>4, <4>5 DEF HolderWorks, NothingPending, LastIsPending,
                       LastIsSuspended
            <4>7. \A c \in LastSent.calls : c \in Gated =>
                      approval[c] \in {"approved", "rejected", "corrected"}
                BY <1>typ, <1>last, <3>0, <4>2 DEF Pending, Verdicts
            <4>8. left'[r] = LastSent.calls /\ \A c \in LastSent.calls :
                      c \notin denied'[r] => approval[c] \notin {"rejected", "corrected"}
                BY <1>typ, <4>1
            <4>9. LeftMayRun'
                BY <3>0, <4>2, <4>3, <4>4, <4>7, <4>8 DEF LeftMayRun
            <4>10. CallsAreMade' /\ OnlyApprovedRun' /\ RanOnce'
                BY <3>0, <4>3 DEF Approvals, CallsAreMade, OnlyApprovedRun, RanOnce
            <4> QED BY <4>3, <4>5, <4>6, <4>9, <4>10 DEF Approvals
        <3> QED BY <3>1, <3>2
    <2> QED BY <1>1, <2>1, <2>2, <2>3, <2>4, <2>5, <2>6, <2>7, <2>8, <2>9, <2>10, <2>11,
               <2>12, <2>13, <2>14, <2>15, <2>16 DEF TurnStep
<1>2. ASSUME NEW r \in Requests, BeginSend(r) PROVE Approvals'
    <2>1. /\ thread' = thread /\ approval' = approval /\ runs' = runs
          /\ holder = NoReq /\ holder' = r /\ pc' = [pc EXCEPT ![r] = "check"]
        BY <1>2 DEF BeginSend
    <2>2. \A q \in Requests : pc[q] = "idle"
        BY <2>1, ChatTurnAssumption DEF Approvals, HolderWorks
    <2> QED BY <1>typ, <1>quiet, <2>1, <2>2 DEF Resuming, AtWork
<1>3. ASSUME NEW r \in Requests, NEW c \in Calls, NEW v \in Verdicts, BeginDecide(r, c, v)
      PROVE Approvals'
    <2>1. /\ thread' = thread /\ approval' = approval /\ runs' = runs
          /\ holder = NoReq /\ holder' = r /\ pc' = [pc EXCEPT ![r] = "decide"]
        BY <1>3 DEF BeginDecide
    <2>2. \A q \in Requests : pc[q] = "idle"
        BY <2>1, ChatTurnAssumption DEF Approvals, HolderWorks
    <2> QED BY <1>typ, <1>quiet, <2>1, <2>2 DEF Resuming, AtWork
<1>4. ASSUME NEW r \in Requests, LlmFails(r) PROVE Approvals'
    <2>1. /\ approval' = approval /\ runs' = runs /\ holder' = holder
          /\ \E l \in {"llm", "release"} : pc' = [pc EXCEPT ![r] = l]
          /\ thread' = thread \/ thread' = Append(thread, Row("partial", {}))
          /\ pc[r] \in {"llm", "stream"}
        BY <1>4 DEF LlmFails
    <2>2. Pending = {} /\ holder = r /\ \A q \in Requests \ {r} : pc[q] = "idle"
        BY <1>only, <2>1 DEF Approvals, NothingPending, AtWork
    <2>3. pc'[r] \in {"llm", "release"} /\ \A q \in Requests \ {r} : pc'[q] = "idle"
        BY <1>typ, <2>1, <2>2
    <2> QED BY <1>cut, <2>1, <2>2, <2>3
<1>5. ASSUME NEW r \in Requests, ToolRaises(r) \/ Die(r) PROVE Approvals'
    <2>1. /\ thread' = thread /\ approval' = approval /\ runs' = runs /\ pc[r] # "idle"
          /\ \/ pc' = [pc EXCEPT ![r] = "release"] /\ holder' = holder
             \/ pc' = [pc EXCEPT ![r] = "idle"]
        BY <1>5 DEF ToolRaises, Die, Leave
    <2>2. holder = r /\ \A q \in Requests \ {r} : pc[q] = "idle"
        BY <1>only, <2>1
    <2> QED BY <1>typ, <1>quiet, <2>1, <2>2 DEF Resuming, AtWork
<1>6. CASE Abort \/ AbortExpires \/ LockExpires \/ UNCHANGED vars
    <2>1. /\ thread' = thread /\ approval' = approval /\ runs' = runs /\ pc' = pc
          /\ batch' = batch /\ left' = left /\ denied' = denied
        BY <1>6 DEF Abort, AbortExpires, LockExpires, vars
    <2>2. HolderWorks'
        <3>1. CASE LockExpires
            BY <3>1, ChatTurnAssumption DEF LockExpires, Approvals, HolderWorks
        <3>2. CASE Abort \/ AbortExpires \/ UNCHANGED vars
            BY <3>2 DEF Abort, AbortExpires, vars, Approvals, HolderWorks
        <3> QED BY <1>6, <3>1, <3>2
    <2>3. LastSent' = LastSent /\ Used' = Used /\ PartialEmpty' /\ Pending' = Pending
        BY <1>same, <1>pend, <2>1
    <2>4. Waiting' = Waiting
        BY <2>1, <2>3 DEF Waiting
    <2> QED BY <2>1, <2>2, <2>3, <2>4
            DEF Approvals, CallsAreMade, NothingPending, LastIsPending, SuspendsTheLast,
                LastIsSuspended, LeftMayRun, OnlyApprovedRun, RanOnce
<1> QED BY <1>1, <1>2, <1>3, <1>4, <1>5, <1>6 DEF Next

\* Time runs out under a live request for good.
LEMMA OverranStays == [Next]_vars /\ overran => overran'
<1> SUFFICES ASSUME [Next]_vars, overran PROVE overran'
    OBVIOUS
<1>1. ASSUME NEW r \in Requests, TurnStep(r) PROVE overran' = overran
    BY <1>1 DEF TurnStep, CheckPending, ClearAbort, SaveUser, Chunk, TooManyIterations, Stopped,
           Answer, CallTools, Suspend, SaveResults, Execute, Deny, Handoff, Complete, DropFlag,
           Promote, Release, Decide, Cascade, Count, Load
<1>2. ASSUME NEW r \in Requests,
             \/ BeginSend(r) \/ \E c \in Calls, v \in Verdicts : BeginDecide(r, c, v)
             \/ LlmFails(r) \/ ToolRaises(r) \/ Die(r)
      PROVE  overran' = overran
    BY <1>2 DEF BeginSend, BeginDecide, LlmFails, ToolRaises, Die
<1>3. CASE Abort \/ AbortExpires \/ UNCHANGED vars
    BY <1>3 DEF Abort, AbortExpires, vars
<1>4. CASE LockExpires
    BY <1>4 DEF LockExpires
<1> QED BY <1>1, <1>2, <1>3, <1>4 DEF Next

\* Nothing is pending in an empty conversation.
LEMMA ApprovalInit == Init => ApprovalInv
<1> SUFFICES ASSUME Init PROVE Approvals
    BY InitType DEF ApprovalInv
<1>1. Pending = {} /\ Len(thread) = 0 /\ ~Waiting
    BY DEF Init, Pending, Waiting, Resuming
<1> QED BY <1>1, ChatTurnAssumption
        DEF Init, Approvals, HolderWorks, PartialEmpty, CallsAreMade, NothingPending,
            LastIsPending, SuspendsTheLast, LastIsSuspended, LeftMayRun, OnlyApprovedRun,
            RanOnce

\* The approval invariant is kept by every step ...
LEMMA ApprovalKept == ApprovalInv /\ [Next]_vars => ApprovalInv'
BY TypeStep, LastStep, ApprovalStep, OverranStays DEF ApprovalInv, TypeInv

\* ... and holds of every behaviour.
LEMMA ApprovalInvariant == Spec => []ApprovalInv
BY ApprovalInit, ApprovalKept, PTL DEF Spec

-----------------------------------------------------------------------------
(* The shape of the history. Nothing comes between a step's calls and its    *)
(* results in the thread, not even a partial row that a later stop would     *)
(* promote: from the moment the calls are stored until they are resumed, the *)
(* thread ends with them.                                                    *)

ResultsAdjacent ==
    \A i \in 1..Len(thread) : thread[i].kind = "results" =>
        i > 1 /\ thread[i - 1] = Row("assistant", thread[i].calls)

\* The last row stored is one that is sent.
EndsSent == Len(thread) > 0 /\ IsSent(thread[Len(thread)])

\* A step is suspended, about to be, or on its way to the resume.
Suspended == Waiting \/ \E r \in Requests : pc[r] = "suspend"

\* A request that executes calls executes those of the last row stored.
WorksOnTheLast ==
    \A r \in Requests : pc[r] = "tools" =>
        Len(thread) > 0 /\ thread[Len(thread)] = Row("assistant", batch[r])

ShapeParts == ResultsAdjacent /\ (Suspended => EndsSent) /\ WorksOnTheLast
ShapeInv == ApprovalInv /\ (~overran => ShapeParts)

\* Whatever row is stored next, its neighbours fit when it holds no results, or
\* those of the last row.
LEMMA AppendFits ==
    ASSUME TypeOK, ResultsAdjacent, NEW k \in Kinds, NEW cs \in SUBSET Calls,
           thread' = Append(thread, Row(k, cs)),
           k = "results" => Len(thread) > 0 /\ thread[Len(thread)] = Row("assistant", cs)
    PROVE  /\ ResultsAdjacent'
           /\ Len(thread') > 0 /\ thread'[Len(thread')] = Row(k, cs)
<1>1. /\ Len(thread) \in Nat /\ Len(thread') = Len(thread) + 1
      /\ thread'[Len(thread) + 1] = Row(k, cs)
      /\ \A i \in 1..Len(thread) : thread'[i] = thread[i]
    BY RowType DEF TypeOK
<1>2. Row(k, cs).kind = k /\ Row(k, cs).calls = cs
    BY DEF Row
<1>3. ASSUME NEW i \in 1..Len(thread'), thread'[i].kind = "results"
      PROVE  i > 1 /\ thread'[i - 1] = Row("assistant", thread'[i].calls)
    <2>1. CASE i = Len(thread) + 1
        <3>1. k = "results" /\ thread'[i].calls = cs
            BY <1>1, <1>2, <1>3, <2>1
        <3>2. i > 1 /\ i - 1 = Len(thread) /\ i - 1 \in 1..Len(thread)
            BY <1>1, <2>1, <3>1
        <3>3. thread'[i - 1] = thread[Len(thread)]
            BY <1>1, <3>2
        <3> QED BY <3>1, <3>2, <3>3
    <2>2. CASE i # Len(thread) + 1
        <3>1. i \in 1..Len(thread) /\ thread'[i] = thread[i]
            BY <1>1, <2>2
        <3>2. i > 1 /\ thread[i - 1] = Row("assistant", thread[i].calls)
            BY <1>3, <3>1 DEF ResultsAdjacent
        <3>3. i - 1 \in 1..Len(thread)
            BY <1>1, <3>1, <3>2
        <3> QED BY <1>1, <3>1, <3>2, <3>3
    <2> QED BY <2>1, <2>2
<1>4. ResultsAdjacent'
    BY <1>3 DEF ResultsAdjacent
<1> QED BY <1>1, <1>4

\* If the last row stored is sent, it is the last row sent.
LEMMA EndIsLastSent ==
    ASSUME TypeOK, EndsSent
    PROVE  LastSent = thread[Len(thread)]
<1>1. Len(thread) \in Nat /\ Len(thread) \in Sent /\ \A i \in Sent : i \in Nat /\ i <= Len(thread)
    BY DEF TypeOK, EndsSent, Sent
<1>2. (CHOOSE i \in Sent : IsLast(i, Sent)) = Len(thread)
    BY <1>1 DEF IsLast
<1> QED BY <1>1, <1>2 DEF LastSent

\* The inductive step of ShapeInv, until the lock runs out.
LEMMA ShapeStep ==
    ASSUME TypeInv, Approvals, TypeOK', Approvals', ShapeParts, [Next]_vars
    PROVE  ShapeParts'
<1>typ. TypeOK /\ TypeOK' /\ LastExists /\ DOMAIN pc = Requests /\ DOMAIN batch = Requests
    BY DEF TypeInv, TypeOK
<1>only. ASSUME NEW r \in Requests, pc[r] # "idle"
         PROVE  \A q \in Requests \ {r} : pc[q] = "idle"
    BY <1>only DEF Approvals, HolderWorks
\* Steps that store no row, and begin neither a suspension nor a tool step.
<1>quiet. ASSUME thread' = thread, Suspended' => Suspended,
                 \A q \in Requests : pc'[q] = "tools" => pc[q] = "tools" /\ batch'[q] = batch[q]
          PROVE  ShapeParts'
    <2>1. ResultsAdjacent' /\ (Suspended' => EndsSent')
        BY <1>quiet DEF ShapeParts, ResultsAdjacent, EndsSent, IsSent
    <2>2. WorksOnTheLast'
        BY <1>quiet DEF ShapeParts, WorksOnTheLast
    <2> QED BY <2>1, <2>2 DEF ShapeParts
\* Steps after which the request neither waits nor executes.
<1>free. ASSUME NEW r \in Requests, pc[r] # "idle", Pending' = {}, ResultsAdjacent',
                \A q \in Requests : pc'[q] # "idle" =>
                    q = r /\ pc'[q] \in {"llm", "handoff", "stopped", "release"}
         PROVE  ShapeParts'
    <2>1. ~Suspended' /\ \A q \in Requests : pc'[q] # "tools"
        BY <1>free DEF Suspended, Waiting, Resuming
    <2> QED BY <1>free, <2>1 DEF ShapeParts, WorksOnTheLast
<1>1. ASSUME NEW r \in Requests, TurnStep(r) PROVE ShapeParts'
    <2>0. pc[r] # "idle"
        BY <1>1 DEF TurnStep, CheckPending, ClearAbort, SaveUser, Chunk, TooManyIterations,
               Stopped, Answer, CallTools, Suspend, SaveResults, Execute, Deny, Handoff, Complete,
               DropFlag, Promote, Release, Decide, Cascade, Count, Load
    <2>h. \A q \in Requests \ {r} : pc[q] = "idle"
        BY <1>only, <2>0
    <2>np. pc[r] \in AtWork => Pending = {}
        BY DEF Approvals, NothingPending
    <2>same. ASSUME approval' = approval PROVE Pending' = Pending
        BY <2>same DEF Pending
    <2>1. CASE \/ CheckPending(r) \/ ClearAbort(r) \/ Chunk(r) \/ TooManyIterations(r)
               \/ Handoff(r) \/ Complete(r) \/ DropFlag(r) \/ Release(r)
        <3>1. /\ thread' = thread /\ approval' = approval
              /\ \E l \in {"release", "clear", "user", "stream", "llm", "promote", "idle"} :
                    pc' = [pc EXCEPT ![r] = l]
            BY <2>1 DEF CheckPending, ClearAbort, Chunk, TooManyIterations, Handoff, Complete,
                   DropFlag, Release, Leave, Goto
        <3>2. \A q \in Requests : pc'[q] \notin {"cascade", "count", "load", "suspend", "tools"}
            BY <1>typ, <2>h, <3>1
        <3>3. Suspended' => Suspended
            BY <2>same, <3>1, <3>2 DEF Suspended, Waiting, Resuming
        <3> QED BY <1>quiet, <3>1, <3>2, <3>3
    <2>2. CASE SaveUser(r) \/ Answer(r)
        <3>1. /\ approval' = approval /\ pc[r] \in AtWork
              /\ \E l \in {"llm", "handoff"} : pc' = [pc EXCEPT ![r] = l]
              /\ \E k \in {"user", "assistant"} : thread' = Append(thread, Row(k, {}))
            BY <2>2 DEF SaveUser, Answer, Goto, AtWork
        <3>2. ResultsAdjacent'
            BY <1>typ, <3>1, AppendFits DEF ShapeParts, Kinds
        <3>3. Pending' = {} /\ \A q \in Requests : pc'[q] # "idle" =>
                    q = r /\ pc'[q] \in {"llm", "handoff"}
            BY <1>typ, <2>h, <2>np, <2>same, <3>1
        <3> QED BY <1>free, <2>0, <3>2, <3>3
    <2>3. CASE Stopped(r)
        <3>1. /\ approval' = approval /\ pc[r] \in AtWork
              /\ \E l \in {"stopped", "release"} : pc' = [pc EXCEPT ![r] = l]
              /\ thread' = thread \/ thread' = Append(thread, Row("partial", {}))
            BY <2>3 DEF Stopped, Goto, AtWork
        <3>2. ResultsAdjacent'
            <4>1. CASE thread' = thread
                BY <4>1 DEF ShapeParts, ResultsAdjacent
            <4>2. CASE thread' = Append(thread, Row("partial", {}))
                BY <1>typ, <4>2, AppendFits DEF ShapeParts, Kinds
            <4> QED BY <3>1, <4>1, <4>2
        <3>3. Pending' = {} /\ \A q \in Requests : pc'[q] # "idle" =>
                    q = r /\ pc'[q] \in {"stopped", "release"}
            BY <1>typ, <2>h, <2>np, <2>same, <3>1
        <3> QED BY <1>free, <2>0, <3>2, <3>3
    <2>4. ASSUME NEW cs \in Plans, CallTools(r, cs) PROVE ShapeParts'
        <3>1. /\ thread' = Append(thread, Row("assistant", cs))
              /\ batch' = [batch EXCEPT ![r] = cs]
              /\ \E l \in {"suspend", "tools"} : pc' = [pc EXCEPT ![r] = l]
            BY <2>4 DEF CallTools, Goto
        <3>2. /\ ResultsAdjacent'
              /\ Len(thread') > 0 /\ thread'[Len(thread')] = Row("assistant", cs)
            BY <1>typ, <3>1, AppendFits, ChatTurnAssumption DEF ShapeParts, Kinds
        <3>3. EndsSent'
            BY <3>2 DEF EndsSent, IsSent, Row
        <3>4. \A q \in Requests : pc'[q] = "tools" => batch'[q] = cs
            BY <1>typ, <2>h, <3>1
        <3>5. WorksOnTheLast'
            BY <3>2, <3>4 DEF WorksOnTheLast
        <3> QED BY <3>2, <3>3, <3>5 DEF ShapeParts
    <2>5. CASE Suspend(r)
        <3>1. thread' = thread /\ pc[r] = "suspend" /\ pc' = [pc EXCEPT ![r] = "release"]
            BY <2>5 DEF Suspend, Goto
        <3>2. Suspended /\ \A q \in Requests : pc'[q] # "tools"
            BY <1>typ, <2>h, <3>1 DEF Suspended
        <3> QED BY <1>quiet, <3>1, <3>2
    <2>6. CASE SaveResults(r)
        <3>1. /\ thread' = Append(thread, Row("results", batch[r])) /\ approval' = approval
              /\ pc[r] = "tools" /\ \E l \in {"llm", "handoff"} : pc' = [pc EXCEPT ![r] = l]
            BY <2>6 DEF SaveResults, Goto
        <3>2. Len(thread) > 0 /\ thread[Len(thread)] = Row("assistant", batch[r])
            BY <3>1 DEF ShapeParts, WorksOnTheLast
        <3>3. batch[r] \in SUBSET Calls
            BY <1>typ DEF TypeOK
        <3>4. ResultsAdjacent'
            BY <1>typ, <3>1, <3>2, <3>3, AppendFits DEF ShapeParts, Kinds
        <3>5. Pending' = {} /\ \A q \in Requests : pc'[q] # "idle" =>
                    q = r /\ pc'[q] \in {"llm", "handoff"}
            BY <1>typ, <2>h, <2>np, <2>same, <3>1 DEF AtWork
        <3> QED BY <1>free, <2>0, <3>4, <3>5
    <2>7. ASSUME NEW c \in Calls, Execute(r, c) \/ Deny(r, c) PROVE ShapeParts'
        <3>1. /\ thread' = thread /\ approval' = approval /\ pc' = pc /\ batch' = batch
            BY <2>7 DEF Execute, Deny
        <3>2. Suspended' = Suspended
            BY <2>same, <3>1 DEF Suspended, Waiting
        <3> QED BY <1>quiet, <3>1, <3>2
    <2>8. CASE Promote(r)
        <3>1. /\ approval' = approval /\ pc[r] \in AtWork /\ pc' = [pc EXCEPT ![r] = "release"]
              /\ thread' = [i \in 1..Len(thread) |->
                    IF thread[i].kind = "partial" THEN Row("assistant", {}) ELSE thread[i]]
            BY <2>8 DEF Promote, Goto, AtWork
        <3>2. Len(thread') = Len(thread) /\ Len(thread) \in Nat
            BY <1>typ, <3>1 DEF TypeOK
        <3>3. \A i \in 1..Len(thread) : thread[i].kind # "partial" => thread'[i] = thread[i]
            BY <3>1
        <3>4. \A i \in 1..Len(thread) : thread'[i].kind = "results" => thread'[i] = thread[i]
            BY <3>1 DEF Row
        <3>5. ASSUME NEW i \in 1..Len(thread'), thread'[i].kind = "results"
              PROVE  i > 1 /\ thread'[i - 1] = Row("assistant", thread'[i].calls)
            <4>1. i \in 1..Len(thread) /\ thread'[i] = thread[i]
                BY <3>2, <3>4, <3>5
            <4>2. i > 1 /\ thread[i - 1] = Row("assistant", thread[i].calls)
                BY <3>5, <4>1 DEF ShapeParts, ResultsAdjacent
            <4>3. i - 1 \in 1..Len(thread) /\ thread[i - 1].kind # "partial"
                BY <3>2, <4>1, <4>2 DEF Row
            <4> QED BY <3>3, <4>1, <4>2, <4>3
        <3>6. ResultsAdjacent'
            BY <3>5 DEF ResultsAdjacent
        <3>7. Pending' = {} /\ \A q \in Requests : pc'[q] # "idle" => q = r /\ pc'[q] = "release"
            BY <1>typ, <2>h, <2>np, <2>same, <3>1
        <3> QED BY <1>free, <2>0, <3>6, <3>7
    <2>9. CASE Decide(r)
        <3>1. /\ thread' = thread
              /\ \/ arg[r][1] \in Pending /\ \E l \in {"cascade", "count"} : pc' = [pc EXCEPT ![r] = l]
                 \/ approval' = approval /\ pc' = [pc EXCEPT ![r] = "release"]
            BY <2>9 DEF Decide, Goto
        <3>2. \A q \in Requests : pc'[q] # "tools"
            BY <1>typ, <2>h, <3>1
        <3>3. Suspended' => Suspended
            <4>1. CASE arg[r][1] \in Pending
                BY <4>1 DEF Suspended, Waiting
            <4>2. CASE approval' = approval /\ pc' = [pc EXCEPT ![r] = "release"]
                <5>1. \A q \in Requests : pc'[q] \in {"idle", "release"}
                    BY <1>typ, <2>h, <4>2
                <5> QED BY <2>same, <4>2, <5>1 DEF Suspended, Waiting, Resuming
            <4> QED BY <3>1, <4>1, <4>2
        <3> QED BY <1>quiet, <3>1, <3>2, <3>3
    <2>10. CASE Cascade(r) \/ Count(r)
        <3>1. /\ thread' = thread /\ pc[r] \in {"cascade", "count"}
              /\ \E l \in {"count", "load", "release"} : pc' = [pc EXCEPT ![r] = l]
            BY <2>10 DEF Cascade, Count, Goto
        <3>2. Suspended /\ \A q \in Requests : pc'[q] # "tools"
            BY <1>typ, <2>h, <3>1 DEF Suspended, Waiting, Resuming
        <3> QED BY <1>quiet, <3>1, <3>2
    <2>11. CASE Load(r)
        <3>1. thread' = thread /\ pc[r] = "load" /\ EndsSent
            BY <2>11 DEF Load, ShapeParts, Suspended, Waiting, Resuming
        <3>2. CASE ~(LastSent.kind = "assistant" /\ LastSent.calls # {})
            <4>1. pc' = [pc EXCEPT ![r] = "release"]
                BY <2>11, <3>2 DEF Load, Goto
            <4>2. Suspended /\ \A q \in Requests : pc'[q] # "tools"
                BY <1>typ, <2>h, <3>1, <4>1 DEF Suspended, Waiting, Resuming
            <4> QED BY <1>quiet, <3>1, <4>2
        <3>3. CASE LastSent.kind = "assistant" /\ LastSent.calls # {}
            <4>1. /\ batch' = [batch EXCEPT ![r] = LastSent.calls]
                  /\ pc' = [pc EXCEPT ![r] = "tools"]
                BY <2>11, <3>3 DEF Load, Goto
            <4>2. LastSent = thread[Len(thread)]
                BY <1>typ, <3>1, EndIsLastSent
            <4>3. LastSent = Row("assistant", LastSent.calls)
                BY <1>typ, <3>3, LastType DEF Rows, Row
            <4>4. \A q \in Requests : pc'[q] = "tools" => batch'[q] = LastSent.calls
                BY <1>typ, <2>h, <4>1
            <4>5. WorksOnTheLast'
                BY <3>1, <4>2, <4>3, <4>4 DEF WorksOnTheLast, EndsSent
            <4>6. ResultsAdjacent' /\ EndsSent'
                BY <3>1 DEF ShapeParts, ResultsAdjacent, EndsSent, IsSent
            <4> QED BY <4>5, <4>6 DEF ShapeParts
        <3> QED BY <3>2, <3>3
    <2> QED BY <1>1, <2>1, <2>2, <2>3, <2>4, <2>5, <2>6, <2>7, <2>8, <2>9, <2>10, <2>11
            DEF TurnStep
<1>2. ASSUME NEW r \in Requests,
             BeginSend(r) \/ \E c \in Calls, v \in Verdicts : BeginDecide(r, c, v)
      PROVE  ShapeParts'
    <2>1. /\ thread' = thread /\ approval' = approval /\ batch' = batch
          /\ \E l \in {"check", "decide"} : pc' = [pc EXCEPT ![r] = l]
        BY <1>2 DEF BeginSend, BeginDecide, Goto
    <2>2. \A q \in Requests : pc'[q] = pc[q] \/ pc'[q] \in {"check", "decide"}
        BY <1>typ, <2>1
    <2>3. Suspended' => Suspended
        BY <2>1, <2>2 DEF Suspended, Waiting, Resuming, Pending
    <2> QED BY <1>quiet, <2>1, <2>2, <2>3
<1>3. ASSUME NEW r \in Requests, LlmFails(r) PROVE ShapeParts'
    <2>1. /\ approval' = approval /\ pc[r] # "idle" /\ Pending = {}
          /\ \E l \in {"llm", "release"} : pc' = [pc EXCEPT ![r] = l]
          /\ thread' = thread \/ thread' = Append(thread, Row("partial", {}))
        BY <1>3 DEF LlmFails, Goto, Approvals, NothingPending, AtWork
    <2>2. ResultsAdjacent'
        <3>1. CASE thread' = thread
            BY <3>1 DEF ShapeParts, ResultsAdjacent
        <3>2. CASE thread' = Append(thread, Row("partial", {}))
            BY <1>typ, <3>2, AppendFits DEF ShapeParts, Kinds
        <3> QED BY <2>1, <3>1, <3>2
    <2>3. Pending' = {} /\ \A q \in Requests : pc'[q] # "idle" =>
                q = r /\ pc'[q] \in {"llm", "release"}
        BY <1>typ, <1>only, <2>1 DEF Pending
    <2> QED BY <1>free, <2>1, <2>2, <2>3
<1>4. ASSUME NEW r \in Requests, ToolRaises(r) \/ Die(r) PROVE ShapeParts'
    <2>1. /\ thread' = thread /\ approval' = approval
          /\ \E l \in {"release", "idle"} : pc' = [pc EXCEPT ![r] = l]
          /\ \A q \in Requests \ {r} : batch'[q] = batch[q]
        BY <1>typ, <1>4 DEF ToolRaises, Die, Leave, Goto
    <2>2. \A q \in Requests : pc'[q] \in {"release", "idle"} \/ (q # r /\ pc'[q] = pc[q])
        BY <1>typ, <2>1
    <2>3. Suspended' => Suspended
        BY <2>1, <2>2 DEF Suspended, Waiting, Resuming, Pending
    <2> QED BY <1>quiet, <2>1, <2>2, <2>3
<1>5. CASE Abort \/ AbortExpires \/ LockExpires \/ UNCHANGED vars
    <2>1. thread' = thread /\ approval' = approval /\ pc' = pc /\ batch' = batch
        BY <1>5 DEF Abort, AbortExpires, LockExpires, vars
    <2>2. Suspended' = Suspended
        BY <2>1 DEF Suspended, Waiting, Pending
    <2> QED BY <1>quiet, <2>1, <2>2
<1> QED BY <1>1, <1>2, <1>3, <1>4, <1>5 DEF Next

\* Rows that are neighbours in the thread are neighbours in the history.
LEMMA AdjacentFollow ==
    ASSUME TypeOK, ResultsAdjacent, NEW i \in Sent, thread[i].kind = "results"
    PROVE  \E j \in Sent : /\ j < i /\ \A k \in Sent : k < i => k <= j
                           /\ thread[j] = Row("assistant", thread[i].calls)
<1>1. i \in 1..Len(thread) /\ Len(thread) \in Nat /\ \A k \in Sent : k \in Nat
    BY DEF TypeOK, Sent
<1>2. i > 1 /\ thread[i - 1] = Row("assistant", thread[i].calls)
    BY <1>1 DEF ResultsAdjacent
<1>3. i - 1 \in Sent
    BY <1>1, <1>2 DEF Sent, IsSent, Row
<1>4. i - 1 < i /\ \A k \in Sent : k < i => k <= i - 1
    BY <1>1
<1> QED BY <1>2, <1>3, <1>4

-----------------------------------------------------------------------------
\* For any tool calls, plans and requests: until the lock runs out under a live
\* turn, a call that requires approval is executed only if it was approved,
\* whatever dies, fails, is stopped or is decided twice (AgentRunner.resume).
THEOREM ApprovedBeforeRun == Spec => []OnlyApprovedRunUnlessOverran
<1>1. ApprovalInv => OnlyApprovedRunUnlessOverran
    BY DEF ApprovalInv, Approvals, OnlyApprovedRunUnlessOverran
<1> QED BY <1>1, ApprovalInvariant, PTL

\* Likewise, no tool call is executed twice (tool_approval.decide).
THEOREM ExecutedOnce == Spec => []RunsOnce
<1>1. ApprovalInv => RunsOnce
    BY DEF ApprovalInv, Approvals, RanOnce, RunsOnce
<1> QED BY <1>1, ApprovalInvariant, PTL

\* Likewise, a pending approval is for a call of the message the history ends
\* with: deciding it resumes the turn that asked (count_pending before a send).
THEOREM PendingCanResume == Spec => []PendingIsLast
<1>1. ApprovalInv => PendingIsLast
    BY DEF ApprovalInv, Approvals, LastIsPending, PendingIsLast
<1> QED BY <1>1, ApprovalInvariant, PTL

\* Likewise, in the history a provider is sent, the results of a step follow the
\* message that made its calls and answer exactly those, whatever was stopped,
\* promoted, suspended or denied in between (AgentRunner._execute_tool_uses).
THEOREM ResultsAnswerCalls == Spec => []ResultsFollowCalls
<1>1. Init => ShapeInv
    <2> SUFFICES ASSUME Init PROVE ApprovalInv /\ ShapeParts
        BY DEF ShapeInv
    <2>1. ApprovalInv
        BY ApprovalInit
    <2>2. Pending = {} /\ Len(thread) = 0 /\ ~Suspended
        BY DEF Init, Pending, Suspended, Waiting, Resuming
    <2>3. ShapeParts
        BY <2>2 DEF Init, ShapeParts, ResultsAdjacent, WorksOnTheLast
    <2> QED BY <2>1, <2>3
<1>2. ShapeInv /\ [Next]_vars => ShapeInv'
    <2> SUFFICES ASSUME ShapeInv, [Next]_vars PROVE ShapeInv'
        OBVIOUS
    <2>1. ApprovalInv'
        BY ApprovalKept DEF ShapeInv
    <2>2. ASSUME ~overran' PROVE ShapeParts'
        <3>1. ~overran
            BY <2>2, OverranStays
        <3>2. TypeInv /\ Approvals /\ ShapeParts /\ TypeOK' /\ Approvals'
            BY <2>1, <2>2, <3>1 DEF ShapeInv, ApprovalInv, TypeInv
        <3> QED BY <3>2, ShapeStep
    <2> QED BY <2>1, <2>2 DEF ShapeInv
<1>3. ShapeInv => ResultsFollowCalls
    <2> SUFFICES ASSUME ShapeInv, ~overran, NEW i \in Sent, thread[i].kind = "results"
                 PROVE  \E j \in Sent : /\ j < i /\ \A k \in Sent : k < i => k <= j
                                        /\ thread[j] = Row("assistant", thread[i].calls)
        BY DEF ResultsFollowCalls
    <2>1. TypeOK /\ ResultsAdjacent
        BY DEF ShapeInv, ApprovalInv, TypeInv, ShapeParts
    <2> QED BY <2>1, AdjacentFollow
<1> QED BY <1>1, <1>2, <1>3, PTL DEF Spec
=============================================================================
