----------------------------- MODULE RunEvents -----------------------------
(***************************************************************************)
(* Event and message sequences of one run: EventEmitter (engine/emitter.py)*)
(* and the streaming turn of a provider (llm/providers/generic.py and      *)
(* _turn.py) that writes through it.                                       *)
(*                                                                         *)
(* A writer is one agent loop of the run with its own sessions: the node   *)
(* itself, or one of several parallel iterations. It emits lifecycle       *)
(* events and streams assistant turns: agent_message_started, live deltas  *)
(* that never reach the database, the message row, then                    *)
(* agent_message_completed. A persisted event takes                        *)
(* max(MAX(run_events.sequence), max_seq) + 1 and is retried on a          *)
(* unique-constraint conflict; a delta takes the started event's sequence  *)
(* plus a per-message counter. Both then SET max_seq.                      *)
(*                                                                         *)
(* The unit of interleaving is the await: the SELECT MAX, the GET of       *)
(* max_seq, the INSERT and the SET are steps of their own. Publishing on   *)
(* the channel has no state of its own and is part of the step before SET. *)
(* Any of these calls may fail, a SET also after it took effect.           *)
(***************************************************************************)
EXTENDS Naturals, FiniteSets

CONSTANTS
    Writers,     \* the agent loops that share the run
    MaxOps,      \* bound: emits and turns of each writer
    MaxDeltas,   \* bound: deltas per streamed turn
    MaxTries,    \* _EMIT_MAX_RETRIES
    MaxFaults    \* bound: failing calls, and times the mark expires

ASSUME RunEventsAssumption ==
    /\ MaxOps \in [Writers -> Nat] /\ MaxDeltas \in Nat /\ MaxFaults \in Nat
    /\ MaxTries \in Nat \ {0}

Kinds == {"event", "started", "completed"}

VARIABLES
    rows,      \* run_events: [seq, w, op, kind]
    msgRows,   \* agent_messages: [seq, w, op, partial]
    deltas,    \* the delta frames published: [seq, w, op]
    mark,      \* Redis max_seq:{run}, 0 when absent
    pc,        \* where each writer is
    op,        \* how many emits and turns it has begun
    kind,      \* the event it is emitting
    top,       \* the MAX(sequence) its last SELECT returned
    seq,       \* the sequence it allocated
    tries,     \* conflicts of the emit (or save) in progress
    base,      \* delta_seq_base of the turn it streams
    offset,    \* the turn's delta_seq counter
    faults     \* how many calls have failed so far

vars == <<rows, msgRows, deltas, mark, pc, op, kind, top, seq, tries, base, offset, faults>>
stores == <<rows, msgRows, deltas, mark>>

EventPcs == {"readDb", "readMark", "insert", "bump"}
MsgPcs == {"readMsg", "insertMsg", "readPartial", "insertPartial"}
Pcs == {"idle", "stream", "bumpDelta"} \cup EventPcs \cup MsgPcs

TypeOK ==
    /\ rows \subseteq [seq : Nat, w : Writers, op : Nat, kind : Kinds]
    /\ msgRows \subseteq [seq : Nat, w : Writers, op : Nat, partial : BOOLEAN]
    /\ deltas \subseteq [seq : Nat, w : Writers, op : Nat]
    /\ mark \in Nat
    /\ pc \in [Writers -> Pcs]
    /\ op \in [Writers -> Nat]
    /\ kind \in [Writers -> Kinds]
    /\ top \in [Writers -> Nat]
    /\ seq \in [Writers -> Nat]
    /\ tries \in [Writers -> Nat]
    /\ base \in [Writers -> Nat]
    /\ offset \in [Writers -> Nat]
    /\ faults \in Nat

Init ==
    /\ rows = {} /\ msgRows = {} /\ deltas = {}
    /\ mark = 0
    /\ pc = [w \in Writers |-> "idle"]
    /\ op = [w \in Writers |-> 0]
    /\ kind = [w \in Writers |-> "event"]
    /\ top = [w \in Writers |-> 0]
    /\ seq = [w \in Writers |-> 0]
    /\ tries = [w \in Writers |-> 0]
    /\ base = [w \in Writers |-> 0]
    /\ offset = [w \in Writers |-> 0]
    /\ faults = 0

\* n is what SELECT coalesce(max(sequence), 0) answers over a table.
IsMaxSeq(n, table) ==
    /\ \A r \in table : r.seq <= n
    /\ n = 0 \/ \E r \in table : r.seq = n

Larger(a, b) == IF a >= b THEN a ELSE b

Taken(table, n) == \E r \in table : r.seq = n

Fault == faults < MaxFaults /\ faults' = faults + 1

\* What a call of emit or save_message had in its locals is gone.
Forget(w) ==
    /\ top' = [top EXCEPT ![w] = 0]
    /\ seq' = [seq EXCEPT ![w] = 0]
    /\ tries' = [tries EXCEPT ![w] = 0]

\* The operation returns, or its error reaches the loop.
Return(w) ==
    /\ pc' = [pc EXCEPT ![w] = "idle"]
    /\ kind' = [kind EXCEPT ![w] = "event"]
    /\ base' = [base EXCEPT ![w] = 0]
    /\ offset' = [offset EXCEPT ![w] = 0]
    /\ Forget(w)

\* The turn streams on top of the sequence n.
Stream(w, n) ==
    /\ pc' = [pc EXCEPT ![w] = "stream"]
    /\ base' = [base EXCEPT ![w] = n]
    /\ offset' = [offset EXCEPT ![w] = 0]
    /\ Forget(w)
    /\ UNCHANGED kind

-----------------------------------------------------------------------------
(* EventEmitter.emit *)

\* A node, a tool call or the run itself emits a lifecycle event; a turn's
\* first chunk emits agent_message_started.
BeginEmit(w) ==
    /\ pc[w] = "idle" /\ op[w] < MaxOps[w]
    /\ op' = [op EXCEPT ![w] = @ + 1]
    /\ \E k \in {"event", "started"} : kind' = [kind EXCEPT ![w] = k]
    /\ tries' = [tries EXCEPT ![w] = 0]
    /\ pc' = [pc EXCEPT ![w] = "readDb"]
    /\ UNCHANGED <<stores, top, seq, base, offset, faults>>

\* _next_event_sequence, the SELECT.
ReadDb(w) ==
    /\ pc[w] = "readDb"
    /\ \E n \in {0} \cup {r.seq : r \in rows} :
          /\ IsMaxSeq(n, rows)
          /\ top' = [top EXCEPT ![w] = n]
    /\ pc' = [pc EXCEPT ![w] = "readMark"]
    /\ UNCHANGED <<stores, op, kind, seq, tries, base, offset, faults>>

\* Seeded fault: the Redis high-water mark is ignored.
ReadMarkDbOnly(w) ==
    /\ pc[w] = "readMark"
    /\ seq' = [seq EXCEPT ![w] = top[w] + 1]
    /\ pc' = [pc EXCEPT ![w] = "insert"]
    /\ UNCHANGED <<stores, op, kind, top, tries, base, offset, faults>>

\* Seeded fault: the database's maximum is ignored.
ReadMarkRedisOnly(w) ==
    /\ pc[w] = "readMark"
    /\ seq' = [seq EXCEPT ![w] = mark + 1]
    /\ pc' = [pc EXCEPT ![w] = "insert"]
    /\ UNCHANGED <<stores, op, kind, top, tries, base, offset, faults>>

\* _next_event_sequence, the GET of max_seq and the allocation.
ReadMark(w) ==
    /\ pc[w] = "readMark"
    /\ seq' = [seq EXCEPT ![w] = Larger(top[w], mark) + 1]
    /\ pc' = [pc EXCEPT ![w] = "insert"]
    /\ UNCHANGED <<stores, op, kind, top, tries, base, offset, faults>>

\* The INSERT commits: uq_run_events_run_sequence holds.
Insert(w) ==
    /\ pc[w] = "insert"
    /\ ~Taken(rows, seq[w])
    /\ rows' = rows \cup {[seq |-> seq[w], w |-> w, op |-> op[w], kind |-> kind[w]]}
    /\ pc' = [pc EXCEPT ![w] = "bump"]
    /\ UNCHANGED <<msgRows, deltas, mark, op, kind, top, seq, tries, base, offset, faults>>

\* Seeded fault: the sequence is allocated once, outside the retry loop.
ConflictSameSlot(w) ==
    /\ pc[w] = "insert"
    /\ Taken(rows, seq[w])
    /\ \/ /\ tries[w] + 1 < MaxTries
          /\ tries' = [tries EXCEPT ![w] = @ + 1]
          /\ UNCHANGED <<pc, kind, top, seq, base, offset>>
       \/ /\ tries[w] + 1 >= MaxTries
          /\ Return(w)
    /\ UNCHANGED <<stores, op, faults>>

\* The error escapes emit, and what handles it emits on (node_failed,
\* flow_failed). For agent_message_started the provider's _emit swallows it and
\* the turn streams on with delta_seq_base 0, unannounced.
GiveUp(w) ==
    \/ kind[w] = "started" /\ Stream(w, 0)
    \/ kind[w] # "started" /\ Return(w)

\* IntegrityError: roll back and allocate again, up to MaxTries.
Conflict(w) ==
    /\ pc[w] = "insert"
    /\ Taken(rows, seq[w])
    /\ \/ /\ tries[w] + 1 < MaxTries
          /\ tries' = [tries EXCEPT ![w] = @ + 1]
          /\ pc' = [pc EXCEPT ![w] = "readDb"]
          /\ UNCHANGED <<kind, top, seq, base, offset>>
       \/ /\ tries[w] + 1 >= MaxTries
          /\ GiveUp(w)
    /\ UNCHANGED <<stores, op, faults>>

\* Another error, of the database or of Redis, before or after the row is
\* committed.
EmitFails(w) ==
    /\ pc[w] \in EventPcs /\ Fault
    /\ GiveUp(w)
    /\ mark' \in {mark} \cup (IF pc[w] = "bump" THEN {seq[w]} ELSE {})
    /\ UNCHANGED <<rows, msgRows, deltas, op>>

\* publish, then _bump_max_seq: a plain SET of this event's sequence. After
\* agent_message_started the turn streams on top of it.
Bump(w) ==
    /\ pc[w] = "bump"
    /\ mark' = seq[w]
    /\ \/ kind[w] = "started" /\ Stream(w, seq[w])
       \/ kind[w] # "started" /\ Return(w)
    /\ UNCHANGED <<rows, msgRows, deltas, op, faults>>

-----------------------------------------------------------------------------
(* The streaming turn *)

\* _next_delta_sequence (INCR of the message's own counter) and the publish.
PublishDelta(w) ==
    /\ pc[w] = "stream" /\ offset[w] < MaxDeltas
    /\ offset' = [offset EXCEPT ![w] = @ + 1]
    /\ deltas' = deltas \cup {[seq |-> base[w] + offset[w] + 1, w |-> w, op |-> op[w]]}
    /\ pc' = [pc EXCEPT ![w] = "bumpDelta"]
    /\ UNCHANGED <<rows, msgRows, mark, op, kind, top, seq, tries, base, faults>>

\* Seeded fault: the mark is set to the message's counter, not to its sequence.
BumpDeltaCounter(w) ==
    /\ pc[w] = "bumpDelta"
    /\ mark' = offset[w]
    /\ pc' = [pc EXCEPT ![w] = "stream"]
    /\ UNCHANGED <<rows, msgRows, deltas, op, kind, top, seq, tries, base, offset, faults>>

\* publish_run_event's _bump_max_seq.
BumpDelta(w) ==
    /\ pc[w] = "bumpDelta"
    /\ mark' = base[w] + offset[w]
    /\ pc' = [pc EXCEPT ![w] = "stream"]
    /\ UNCHANGED <<rows, msgRows, deltas, op, kind, top, seq, tries, base, offset, faults>>

\* The stream is over, and save_message begins.
Save(w, next) ==
    /\ pc' = [pc EXCEPT ![w] = next]
    /\ base' = [base EXCEPT ![w] = 0]
    /\ offset' = [offset EXCEPT ![w] = 0]
    /\ UNCHANGED <<kind, top, seq, tries>>

\* The push, the INCR, the publish or the SET of a delta fails: that cuts the
\* stream, too.
DeltaFails(w) ==
    /\ pc[w] \in {"stream", "bumpDelta"} /\ Fault
    /\ Save(w, "readPartial")
    /\ UNCHANGED <<stores, op>>

\* The stream ended, or was cut by an abort or an error: the message, whole or
\* partial, is saved. A cut stream that has no text leaves no message.
EndStream(w) ==
    /\ pc[w] = "stream"
    /\ \/ Save(w, "readMsg")
       \/ offset[w] > 0 /\ Save(w, "readPartial")
       \/ offset[w] = 0 /\ Return(w)
    /\ UNCHANGED <<stores, op, faults>>

\* save_message: _next_message_sequence.
ReadMsg(w) ==
    /\ pc[w] \in {"readMsg", "readPartial"}
    /\ \E n \in {0} \cup {r.seq : r \in msgRows} :
          /\ IsMaxSeq(n, msgRows)
          /\ top' = [top EXCEPT ![w] = n]
          /\ seq' = [seq EXCEPT ![w] = n + 1]
    /\ pc' = [pc EXCEPT ![w] = IF @ = "readMsg" THEN "insertMsg" ELSE "insertPartial"]
    /\ UNCHANGED <<stores, op, kind, tries, base, offset, faults>>

\* save_message commits. A whole turn then emits agent_message_completed, a
\* partial one is over: LLMRouter tries again, or the node fails.
InsertMsg(w) ==
    /\ pc[w] \in {"insertMsg", "insertPartial"}
    /\ ~Taken(msgRows, seq[w])
    /\ msgRows' = msgRows \cup {[seq |-> seq[w], w |-> w, op |-> op[w],
                                 partial |-> pc[w] = "insertPartial"]}
    /\ \/ /\ pc[w] = "insertMsg"
          /\ pc' = [pc EXCEPT ![w] = "readDb"]
          /\ kind' = [kind EXCEPT ![w] = "completed"]
          /\ Forget(w)
          /\ UNCHANGED <<base, offset>>
       \/ pc[w] = "insertPartial" /\ Return(w)
    /\ UNCHANGED <<rows, deltas, mark, op, faults>>

\* save_message loses: again, or the error escapes. (_save_partial_blocks
\* swallows it, and raises the abort or the error that cut the stream.)
ConflictMsg(w) ==
    /\ pc[w] \in {"insertMsg", "insertPartial"}
    /\ Taken(msgRows, seq[w])
    /\ \/ /\ tries[w] + 1 < MaxTries
          /\ tries' = [tries EXCEPT ![w] = @ + 1]
          /\ pc' = [pc EXCEPT ![w] = IF @ = "insertMsg" THEN "readMsg" ELSE "readPartial"]
          /\ UNCHANGED <<kind, top, seq, base, offset>>
       \/ /\ tries[w] + 1 >= MaxTries
          /\ Return(w)
    /\ UNCHANGED <<stores, op, faults>>

\* save_message fails otherwise: the error escapes, or is swallowed likewise.
SaveFails(w) ==
    /\ pc[w] \in MsgPcs /\ Fault
    /\ Return(w)
    /\ UNCHANGED <<stores, op>>

-----------------------------------------------------------------------------
\* max_seq has a TTL that each SET renews (an hour, longer than the read timeout
\* of a stream): it runs out while no loop is in the middle of anything.
MarkExpires ==
    /\ mark > 0 /\ Fault
    /\ \A w \in Writers : pc[w] = "idle"
    /\ mark' = 0
    /\ UNCHANGED <<rows, msgRows, deltas, pc, op, kind, top, seq, tries, base, offset>>

WriterStep(w) ==
    \/ BeginEmit(w) \/ ReadDb(w) \/ ReadMark(w) \/ Insert(w) \/ Conflict(w) \/ Bump(w)
    \/ EmitFails(w)
    \/ PublishDelta(w) \/ BumpDelta(w) \/ DeltaFails(w) \/ EndStream(w)
    \/ ReadMsg(w) \/ InsertMsg(w) \/ ConflictMsg(w) \/ SaveFails(w)

Next == MarkExpires \/ \E w \in Writers : WriterStep(w)

Spec == Init /\ [][Next]_vars

-----------------------------------------------------------------------------
(* Properties *)

\* The order of a row within its writer's program: a turn emits started, then
\* completed, under one op.
Before(r1, r2) ==
    \/ r1.op < r2.op
    \/ r1.op = r2.op /\ r1.kind = "started" /\ r2.kind = "completed"

\* "Sequence numbers are monotonic per (flow_run_id, kind)" (emitter.py:153),
\* read per writer: whatever the other writers commit in between, a later
\* event of a writer sorts after its earlier ones in the timeline.
EventsInProgramOrder ==
    \A r1, r2 \in rows : r1.w = r2.w /\ Before(r1, r2) => r1.seq < r2.seq

\* "the winner's commit is now visible so the retry sees a higher MAX"
\* (emitter.py:232): no retry is spent twice on the same rival, so an emit
\* loses at most once to each event other writers committed.
RetriesPaidForByRivals ==
    \A w \in Writers :
        pc[w] \in EventPcs =>
            tries[w] <= Cardinality({r \in rows : r.w # w})

\* At most one writer has begun to emit.
Alone == \A w1, w2 \in Writers : op[w1] > 0 /\ op[w2] > 0 => w1 = w2

\* "persisted events (e.g. agent_message_completed, node_completed) never
\* collide with" live deltas (emitter.py:40), on a turn's own deltas: the
\* completed event sorts strictly above every delta of its message.
CompletedAboveDeltas ==
    \A r \in rows, d \in deltas :
        r.kind = "completed" /\ r.w = d.w /\ r.op = d.op => d.seq < r.seq

\* It holds as long as one agent loop writes to the run.
AloneCompletedAboveDeltas == Alone => CompletedAboveDeltas

\* "each call writes a value strictly greater than what was there"
\* (emitter.py:139): not even for one agent loop. Whatever fails, its SETs raise
\* the mark, but for the deltas of a turn whose agent_message_started was lost,
\* which count from 0 under what the loop wrote before.
MarkFallsOnlyUnannounced ==
    [][Alone => \/ mark' > mark
                \/ mark' = 0
                \/ \E w \in Writers : pc[w] = "bumpDelta" /\ base[w] = 0]_mark

\* The comment itself, read of one loop's SETs.
EachSetRaisesMark == [][Alone => mark' > mark \/ mark' = 0]_mark
=============================================================================
