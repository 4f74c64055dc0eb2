-------------------------- MODULE RunEventsProofs --------------------------
(***************************************************************************)
(* Proofs about RunEvents, for any number of writers, emits, deltas and    *)
(* retries.                                                                *)
(***************************************************************************)
EXTENDS RunEvents, FiniteSetTheorems, TLAPS

USE DEF stores, Forget, Return, Stream, GiveUp, Save, Fault

\* Every step keeps the tables, the mark and the writers' locals typed.
LEMMA TypeStep == TypeOK /\ [Next]_vars => TypeOK'
<1> SUFFICES ASSUME TypeOK, [Next]_vars PROVE TypeOK'
    OBVIOUS
<1> USE DEF TypeOK, Pcs, EventPcs, MsgPcs, Kinds
<1>1. ASSUME NEW w \in Writers, WriterStep(w) PROVE TypeOK'
    <2>1. CASE BeginEmit(w) BY <2>1 DEF BeginEmit
    <2>2. CASE ReadDb(w) BY <2>2 DEF ReadDb
    <2>3. CASE ReadMark(w) BY <2>3 DEF ReadMark, Larger
    <2>4. CASE Insert(w) BY <2>4 DEF Insert
    <2>5. CASE Conflict(w) BY <2>5 DEF Conflict
    <2>6. CASE Bump(w) BY <2>6 DEF Bump
    <2>7. CASE PublishDelta(w) BY <2>7 DEF PublishDelta
    <2>8. CASE BumpDelta(w) BY <2>8 DEF BumpDelta
    <2>9. CASE EndStream(w) BY <2>9 DEF EndStream
    <2>10. CASE ReadMsg(w) BY <2>10 DEF ReadMsg
    <2>11. CASE InsertMsg(w)
        <3>1. (pc[w] = "insertPartial") \in BOOLEAN
            OBVIOUS
        <3>2. [seq |-> seq[w], w |-> w, op |-> op[w], partial |-> pc[w] = "insertPartial"]
                 \in [seq : Nat, w : Writers, op : Nat, partial : BOOLEAN]
            BY <3>1, Zenon DEF InsertMsg
        <3>3. msgRows' \subseteq [seq : Nat, w : Writers, op : Nat, partial : BOOLEAN]
            BY <2>11, <3>2, Zenon DEF InsertMsg
        <3>4. /\ pc' \in [Writers -> Pcs] /\ kind' \in [Writers -> Kinds]
              /\ tries' \in [Writers -> Nat]
            BY <2>11 DEF InsertMsg
        <3> QED BY <2>11, <3>3, <3>4 DEF InsertMsg
    <2>12. CASE ConflictMsg(w) BY <2>12 DEF ConflictMsg
    <2>13. CASE EmitFails(w) BY <2>13 DEF EmitFails
    <2>14. CASE DeltaFails(w) BY <2>14 DEF DeltaFails
    <2>15. CASE SaveFails(w) BY <2>15 DEF SaveFails
    <2> QED BY <1>1, <2>1, <2>2, <2>3, <2>4, <2>5, <2>6, <2>7, <2>8, <2>9, <2>10,
               <2>11, <2>12, <2>13, <2>14, <2>15 DEF WriterStep
<1>2. CASE UNCHANGED vars
    BY <1>2 DEF vars
<1>3. CASE MarkExpires
    BY <1>3 DEF MarkExpires
<1> QED BY <1>1, <1>2, <1>3 DEF Next

\* The empty tables are typed.
LEMMA InitType == Init => TypeOK
BY DEF Init, TypeOK, Pcs, EventPcs, MsgPcs, Kinds

\* Type correctness of the run's event and message tables.
THEOREM TypeCorrect == Spec => []TypeOK
BY InitType, TypeStep, PTL DEF Spec

-----------------------------------------------------------------------------
(* Program order. A writer's SELECT runs after its own last commit, so what  *)
(* it allocates is above everything it has written, whatever the others and  *)
(* the high-water mark did in between.                                       *)

Emitting(w) == pc[w] \in {"readDb", "readMark", "insert"}

\* No row is ahead of its writer's program, and an event that opens an
\* operation is not written yet.
OpsInOrder ==
    /\ \A r \in rows : r.op <= op[r.w]
    /\ \A w \in Writers : Emitting(w) /\ kind[w] # "completed" =>
           \A r \in rows : r.w = w => r.op < op[w]
SelectSawOwnRows ==
    \A w \in Writers : pc[w] = "readMark" => \A r \in rows : r.w = w => r.seq <= top[w]
AllocatedAboveOwnRows ==
    \A w \in Writers : pc[w] = "insert" => \A r \in rows : r.w = w => r.seq < seq[w]
OrderInv ==
    TypeOK /\ OpsInOrder /\ SelectSawOwnRows /\ AllocatedAboveOwnRows /\ EventsInProgramOrder

\* The inductive step of OrderInv; only Insert adds a row.
LEMMA OrderStep == OrderInv /\ [Next]_vars => OrderInv'
<1> SUFFICES ASSUME OrderInv, [Next]_vars PROVE OrderInv'
    OBVIOUS
<1>0. TypeOK /\ TypeOK'
    BY TypeStep DEF OrderInv
<1> DEFINE Goal == /\ OpsInOrder' /\ SelectSawOwnRows'
                   /\ AllocatedAboveOwnRows' /\ EventsInProgramOrder'
<1> USE <1>0 DEF OrderInv, OpsInOrder, SelectSawOwnRows, AllocatedAboveOwnRows,
                 EventsInProgramOrder, Emitting, TypeOK, Kinds
<1>1. ASSUME NEW w \in Writers, WriterStep(w) PROVE Goal
    <2>1. CASE BeginEmit(w) BY <2>1 DEF BeginEmit
    <2>2. CASE ReadDb(w) BY <2>2 DEF ReadDb, IsMaxSeq
    <2>3. CASE ReadMark(w) BY <2>3 DEF ReadMark, Larger
    <2>4. CASE Insert(w)
        <3> DEFINE new == [seq |-> seq[w], w |-> w, op |-> op[w], kind |-> kind[w]]
        <3>1. rows' = rows \cup {new} /\ pc' = [pc EXCEPT ![w] = "bump"]
              /\ pc[w] = "insert" /\ UNCHANGED <<op, kind, top, seq>>
            BY <2>4 DEF Insert
        <3>2. OpsInOrder'
            BY <3>1
        <3>3. SelectSawOwnRows' /\ AllocatedAboveOwnRows'
            BY <3>1
        <3>4. \A r \in rows : r.w = w => r.seq < new.seq /\ ~Before(new, r)
            BY <3>1 DEF Before
        <3>5. ~Before(new, new)
            BY DEF Before
        <3>6. EventsInProgramOrder'
            BY <3>1, <3>4, <3>5
        <3> QED BY <3>2, <3>3, <3>6
    <2>5. CASE Conflict(w) BY <2>5 DEF Conflict
    <2>6. CASE Bump(w) BY <2>6 DEF Bump
    <2>7. CASE PublishDelta(w) BY <2>7 DEF PublishDelta
    <2>8. CASE BumpDelta(w) BY <2>8 DEF BumpDelta
    <2>9. CASE EndStream(w) BY <2>9 DEF EndStream
    <2>10. CASE ReadMsg(w) BY <2>10 DEF ReadMsg
    <2>11. CASE InsertMsg(w) BY <2>11 DEF InsertMsg
    <2>12. CASE ConflictMsg(w) BY <2>12 DEF ConflictMsg
    <2>13. CASE EmitFails(w) BY <2>13 DEF EmitFails
    <2>14. CASE DeltaFails(w) BY <2>14 DEF DeltaFails
    <2>15. CASE SaveFails(w) BY <2>15 DEF SaveFails
    <2> QED BY <1>1, <2>1, <2>2, <2>3, <2>4, <2>5, <2>6, <2>7, <2>8, <2>9, <2>10,
               <2>11, <2>12, <2>13, <2>14, <2>15 DEF WriterStep
<1>2. ASSUME UNCHANGED vars PROVE Goal
    BY <1>2 DEF vars
<1>3. ASSUME MarkExpires PROVE Goal
    BY <1>3 DEF MarkExpires
<1> QED BY <1>1, <1>2, <1>3 DEF Next

\* A later event of a writer sorts after its earlier ones, for any number of
\* concurrent writers and whatever the high-water mark was overwritten with.
THEOREM ProgramOrder == Spec => []EventsInProgramOrder
<1>1. Init => OrderInv
    BY InitType DEF Init, OrderInv, OpsInOrder, SelectSawOwnRows, AllocatedAboveOwnRows,
       EventsInProgramOrder, Emitting
<1>2. OrderInv => EventsInProgramOrder
    BY DEF OrderInv
<1> QED BY <1>1, <1>2, OrderStep, PTL DEF Spec

-----------------------------------------------------------------------------
(* Retries. A conflict shows the writer a rival's row at the sequence it      *)
(* allocated; its next SELECT is at or above that row, so the next conflict   *)
(* is with another one.                                                       *)

Rivals(w) == {r \in rows : r.w # w}
RivalsBelow(w, n) == {r \in rows : r.w # w /\ r.seq < n}

\* The conflicts of an emit are covered by the rivals' rows; once the writer
\* has read MAX, by those at or below what it read; once it has allocated, by
\* those below its sequence.
PaidFor ==
    \A w \in Writers :
        /\ pc[w] \in EventPcs => tries[w] <= Cardinality(Rivals(w))
        /\ pc[w] = "readMark" => tries[w] <= Cardinality(RivalsBelow(w, top[w] + 1))
        /\ pc[w] = "insert" => tries[w] <= Cardinality(RivalsBelow(w, seq[w]))
RetryInv == OrderInv /\ IsFiniteSet(rows) /\ PaidFor

\* The rows of rivals are finitely many, and more rows cover no less.
LEMMA RivalsGrow ==
    ASSUME NEW S, NEW T, IsFiniteSet(T), S \subseteq T
    PROVE  /\ IsFiniteSet(S) /\ Cardinality(S) \in Nat /\ Cardinality(T) \in Nat
           /\ Cardinality(S) <= Cardinality(T)
BY FS_Subset, FS_CardinalityType

\* The inductive step of RetryInv: a conflict counts one more rival, at the
\* sequence itself.
LEMMA RetryStep == RetryInv /\ [Next]_vars => RetryInv'
<1> SUFFICES ASSUME RetryInv, [Next]_vars PROVE IsFiniteSet(rows)' /\ PaidFor'
    BY OrderStep DEF RetryInv
<1>1. TypeOK /\ TypeOK' /\ AllocatedAboveOwnRows /\ IsFiniteSet(rows) /\ PaidFor
    BY OrderStep DEF RetryInv, OrderInv
<1>2. CASE UNCHANGED vars
    BY <1>1, <1>2 DEF vars, PaidFor, Rivals, RivalsBelow
<1>3. ASSUME NEW w \in Writers, WriterStep(w) PROVE IsFiniteSet(rows)' /\ PaidFor'
    <2>1. rows' = rows \/ Insert(w)
        BY <1>3 DEF WriterStep, BeginEmit, ReadDb, ReadMark, Conflict, Bump, EmitFails, PublishDelta, BumpDelta, DeltaFails, EndStream, ReadMsg, InsertMsg, ConflictMsg, SaveFails
    <2>2. rows \subseteq rows' /\ IsFiniteSet(rows')
        BY <1>1, <2>1, FS_AddElement DEF Insert
    <2>3. \A v \in Writers : v # w =>
             pc'[v] = pc[v] /\ tries'[v] = tries[v] /\ top'[v] = top[v] /\ seq'[v] = seq[v]
        BY <1>1, <1>3 DEF WriterStep, BeginEmit, ReadDb, ReadMark, Insert, Conflict, Bump, EmitFails, PublishDelta, BumpDelta, DeltaFails, EndStream, ReadMsg, InsertMsg, ConflictMsg, SaveFails, TypeOK
    <2>4. ASSUME NEW v \in Writers
          PROVE  /\ Cardinality(Rivals(v)) \in Nat /\ Cardinality(Rivals(v)') \in Nat
                 /\ Cardinality(Rivals(v)) <= Cardinality(Rivals(v)')
        <3>1. Rivals(v)' \subseteq rows' /\ Rivals(v) \subseteq Rivals(v)'
            BY <2>2 DEF Rivals
        <3>2. IsFiniteSet(Rivals(v)')
            BY <2>2, <3>1, RivalsGrow
        <3> QED BY <3>1, <3>2, RivalsGrow
    <2>5. ASSUME NEW v \in Writers, NEW n \in Nat
          PROVE  /\ Cardinality(RivalsBelow(v, n)) \in Nat
                 /\ Cardinality({r \in rows' : r.w # v /\ r.seq < n}) \in Nat
                 /\ Cardinality(RivalsBelow(v, n)) <= Cardinality({r \in rows' : r.w # v /\ r.seq < n})
        <3>1. /\ {r \in rows' : r.w # v /\ r.seq < n} \subseteq rows'
              /\ RivalsBelow(v, n) \subseteq {r \in rows' : r.w # v /\ r.seq < n}
            BY <2>2 DEF RivalsBelow
        <3>2. IsFiniteSet({r \in rows' : r.w # v /\ r.seq < n})
            BY <2>2, <3>1, RivalsGrow
        <3> QED BY <3>1, <3>2, RivalsGrow
    <2>6. ASSUME NEW v \in Writers, v # w
          PROVE  /\ pc'[v] \in EventPcs => tries'[v] <= Cardinality(Rivals(v)')
                 /\ pc'[v] = "readMark" => tries'[v] <= Cardinality(RivalsBelow(v, top[v] + 1)')
                 /\ pc'[v] = "insert" => tries'[v] <= Cardinality(RivalsBelow(v, seq[v])')
        <3>1. tries[v] \in Nat /\ top[v] + 1 \in Nat /\ seq[v] \in Nat
            BY <1>1 DEF TypeOK
        <3>2. /\ RivalsBelow(v, top[v] + 1)' = {r \in rows' : r.w # v /\ r.seq < top[v] + 1}
              /\ RivalsBelow(v, seq[v])' = {r \in rows' : r.w # v /\ r.seq < seq[v]}
            BY <2>3, <2>6 DEF RivalsBelow
        <3>3. pc'[v] \in EventPcs => tries'[v] <= Cardinality(Rivals(v)')
            BY <1>1, <2>3, <2>4, <2>6, <3>1 DEF PaidFor
        <3>4. pc'[v] = "readMark" => tries'[v] <= Cardinality(RivalsBelow(v, top[v] + 1)')
            BY <1>1, <2>3, <2>5, <2>6, <3>1, <3>2 DEF PaidFor
        <3>5. pc'[v] = "insert" => tries'[v] <= Cardinality(RivalsBelow(v, seq[v])')
            BY <1>1, <2>3, <2>5, <2>6, <3>1, <3>2 DEF PaidFor
        <3> QED BY <3>3, <3>4, <3>5
    <2> DEFINE Own == /\ pc'[w] \in EventPcs => tries'[w] <= Cardinality(Rivals(w)')
                      /\ pc'[w] = "readMark" => tries'[w] <= Cardinality(RivalsBelow(w, top[w] + 1)')
                      /\ pc'[w] = "insert" => tries'[w] <= Cardinality(RivalsBelow(w, seq[w])')
    <2>7. /\ pc[w] \in Pcs /\ tries[w] \in Nat /\ top[w] \in Nat /\ seq[w] \in Nat
          /\ DOMAIN pc = Writers /\ DOMAIN tries = Writers /\ DOMAIN top = Writers
          /\ DOMAIN seq = Writers
        BY <1>1 DEF TypeOK
    <2>8. ASSUME BeginEmit(w) PROVE Own
        <3>1. pc'[w] = "readDb" /\ tries'[w] = 0
            BY <2>7, <2>8 DEF BeginEmit
        <3> QED BY <2>4, <3>1
    <2>9. ASSUME ReadDb(w) PROVE Own
        <3>1. /\ pc[w] = "readDb" /\ pc'[w] = "readMark" /\ tries'[w] = tries[w] /\ rows' = rows
              /\ top'[w] \in Nat /\ \A r \in rows : r.seq <= top'[w]
            BY <1>1, <2>7, <2>9 DEF ReadDb, IsMaxSeq, TypeOK
        <3>2. \A r \in rows : r.seq \in Nat
            BY <1>1 DEF TypeOK
        <3>3. RivalsBelow(w, top[w] + 1)' = Rivals(w) /\ Rivals(w)' = Rivals(w)
            BY <3>1, <3>2 DEF RivalsBelow, Rivals
        <3>4. tries[w] <= Cardinality(Rivals(w))
            BY <1>1, <3>1 DEF PaidFor, EventPcs
        <3> QED BY <3>1, <3>3, <3>4
    <2>10. ASSUME ReadMark(w) PROVE Own
        <3>1. /\ pc[w] = "readMark" /\ pc'[w] = "insert" /\ tries'[w] = tries[w] /\ rows' = rows
              /\ seq'[w] \in Nat /\ top[w] + 1 <= seq'[w]
            BY <1>1, <2>7, <2>10 DEF ReadMark, Larger, TypeOK
        <3>2. \A r \in rows : r.seq \in Nat
            BY <1>1 DEF TypeOK
        <3>3. /\ RivalsBelow(w, top[w] + 1) \subseteq RivalsBelow(w, seq[w])'
              /\ RivalsBelow(w, seq[w])' \subseteq rows' /\ Rivals(w)' = Rivals(w)
            BY <2>7, <3>1, <3>2 DEF RivalsBelow, Rivals
        <3>4. IsFiniteSet(RivalsBelow(w, seq[w])')
            BY <2>2, <3>3, RivalsGrow
        <3>5. /\ Cardinality(RivalsBelow(w, top[w] + 1)) \in Nat
              /\ Cardinality(RivalsBelow(w, seq[w])') \in Nat
              /\ Cardinality(RivalsBelow(w, top[w] + 1)) <= Cardinality(RivalsBelow(w, seq[w])')
            BY <3>3, <3>4, RivalsGrow
        <3>6. /\ tries[w] <= Cardinality(Rivals(w))
              /\ tries[w] <= Cardinality(RivalsBelow(w, top[w] + 1))
            BY <1>1, <3>1 DEF PaidFor, EventPcs
        <3> QED BY <2>7, <3>1, <3>3, <3>5, <3>6
    <2>11. ASSUME Insert(w) PROVE Own
        <3>1. pc[w] = "insert" /\ pc'[w] = "bump" /\ tries'[w] = tries[w]
            BY <2>7, <2>11 DEF Insert
        <3>2. tries[w] <= Cardinality(Rivals(w))
            BY <1>1, <3>1 DEF PaidFor, EventPcs
        <3> QED BY <2>4, <2>7, <3>1, <3>2
    <2>12. ASSUME Conflict(w) PROVE Own
        <3>1. /\ pc[w] = "insert" /\ rows' = rows
              /\ \/ pc'[w] = "readDb" /\ tries'[w] = tries[w] + 1
                 \/ pc'[w] \in {"stream", "idle"}
            BY <1>1, <2>7, <2>12 DEF Conflict, TypeOK
        <3>2. PICK r \in rows : r.seq = seq[w]
            BY <2>12 DEF Conflict, Taken
        <3>3. r.w # w
            BY <1>1, <2>7, <3>1, <3>2 DEF AllocatedAboveOwnRows
        <3>4. /\ r \notin RivalsBelow(w, seq[w])
              /\ RivalsBelow(w, seq[w]) \cup {r} \subseteq Rivals(w)
            BY <2>7, <3>2, <3>3 DEF RivalsBelow, Rivals
        <3>5. IsFiniteSet(Rivals(w)) /\ Rivals(w)' = Rivals(w)
            BY <1>1, <3>1, RivalsGrow DEF Rivals
        <3>6. IsFiniteSet(RivalsBelow(w, seq[w]))
            BY <3>4, <3>5, RivalsGrow
        <3>7. /\ Cardinality(RivalsBelow(w, seq[w])) \in Nat
              /\ Cardinality(RivalsBelow(w, seq[w]) \cup {r})
                    = Cardinality(RivalsBelow(w, seq[w])) + 1
            BY <3>4, <3>6, FS_AddElement, FS_CardinalityType
        <3>8. /\ Cardinality(RivalsBelow(w, seq[w]) \cup {r}) <= Cardinality(Rivals(w))
              /\ Cardinality(Rivals(w)) \in Nat
            BY <3>4, <3>5, RivalsGrow
        <3>9. tries[w] <= Cardinality(RivalsBelow(w, seq[w]))
            BY <1>1, <3>1 DEF PaidFor
        <3>10. tries[w] + 1 <= Cardinality(Rivals(w))
            BY <2>7, <3>7, <3>8, <3>9
        <3> QED BY <3>1, <3>5, <3>10 DEF EventPcs
    <2>13. ASSUME \/ Bump(w) \/ EmitFails(w) \/ PublishDelta(w) \/ BumpDelta(w)
                  \/ DeltaFails(w) \/ EndStream(w)
                  \/ ReadMsg(w) \/ ConflictMsg(w) \/ SaveFails(w)
           PROVE  Own
        <3>1. pc'[w] \notin EventPcs
            BY <2>7, <2>13 DEF Bump, EmitFails, PublishDelta, BumpDelta, DeltaFails, EndStream, ReadMsg, ConflictMsg, SaveFails, EventPcs
        <3> QED BY <3>1 DEF EventPcs
    <2>14. ASSUME InsertMsg(w) PROVE Own
        <3>1. pc'[w] \in {"readDb", "idle"} /\ tries'[w] = 0
            BY <2>7, <2>14 DEF InsertMsg
        <3> QED BY <2>4, <3>1
    <2>15. Own
        BY <1>3, <2>8, <2>9, <2>10, <2>11, <2>12, <2>13, <2>14 DEF WriterStep
    <2> QED BY <2>2, <2>6, <2>15 DEF PaidFor
<1>4. CASE MarkExpires
    BY <1>1, <1>4 DEF MarkExpires, PaidFor, Rivals, RivalsBelow
<1> QED BY <1>2, <1>3, <1>4 DEF Next

\* An emit loses at most once to each event other writers committed, for any
\* number of writers: the retry loop ends when the rivals do.
THEOREM NoRivalBeatsTwice == Spec => []RetriesPaidForByRivals
<1>1. Init => RetryInv
    <2> SUFFICES ASSUME Init PROVE RetryInv
        OBVIOUS
    <2>1. OrderInv
        BY InitType DEF Init, OrderInv, OpsInOrder, SelectSawOwnRows, AllocatedAboveOwnRows,
           EventsInProgramOrder, Emitting
    <2>2. IsFiniteSet(rows) /\ PaidFor
        BY FS_EmptySet DEF Init, PaidFor, EventPcs
    <2> QED BY <2>1, <2>2 DEF RetryInv
<1>2. RetryInv => RetriesPaidForByRivals
    BY DEF RetryInv, PaidFor, Rivals, RetriesPaidForByRivals
<1> QED BY <1>1, <1>2, RetryStep, PTL DEF Spec

-----------------------------------------------------------------------------
(* One writer. As long as nobody else writes, the mark follows the writer:   *)
(* while it streams the mark is its last delta (or the started event, if     *)
(* that was not lost), and what it allocates next is above the mark.         *)

\* The sequences of the turn w is in the middle of are at most n.
TurnUpTo(w, n) == \A d \in deltas : d.w = w /\ d.op = op[w] => d.seq <= n

\* Where a single writer is in its operation fixes the mark.
MarkFollows ==
    \A w \in Writers :
        /\ pc[w] = "stream" =>
              /\ base[w] > 0 \/ offset[w] > 0 => mark = base[w] + offset[w]
              /\ TurnUpTo(w, base[w] + offset[w])
        /\ pc[w] = "bumpDelta" =>
              /\ base[w] > 0 => base[w] + offset[w] > mark
              /\ TurnUpTo(w, base[w] + offset[w])
        /\ pc[w] \in {"readMsg", "insertMsg", "readDb", "readMark", "insert", "bump"} =>
              TurnUpTo(w, mark)
        /\ pc[w] \in {"insert", "bump"} => seq[w] > mark
\* A writer that has not begun is at rest.
Untouched ==
    \A w \in Writers : op[w] = 0 => pc[w] = "idle"
\* The completed event is emitted after the turn's last delta.
StreamOver ==
    /\ \A d \in deltas : d.op <= op[d.w]
    /\ \A r \in rows : r.op <= op[r.w]
    /\ \A w \in Writers : pc[w] \in EventPcs /\ kind[w] # "completed" =>
          \A d \in deltas : d.w = w => d.op < op[w]
    /\ \A r \in rows : r.kind = "completed" /\ r.op = op[r.w] =>
          pc[r.w] \in {"bump", "idle"} /\ (pc[r.w] = "bump" => kind[r.w] = "completed")
AloneInv ==
    /\ TypeOK /\ Untouched /\ StreamOver
    /\ Alone => MarkFollows /\ CompletedAboveDeltas

\* The writers' bookkeeping in AloneInv holds whoever else writes.
LEMMA BookkeepingStep ==
    TypeOK /\ Untouched /\ StreamOver /\ [Next]_vars => Untouched' /\ StreamOver'
<1> SUFFICES ASSUME TypeOK, Untouched, StreamOver, [Next]_vars
             PROVE  Untouched' /\ StreamOver'
    OBVIOUS
<1> DEFINE Goal == Untouched' /\ StreamOver'
<1> USE DEF TypeOK, Untouched, StreamOver, Emitting, EventPcs, MsgPcs, Kinds
<1>1. ASSUME NEW w \in Writers, WriterStep(w) PROVE Goal
    <2>1. CASE BeginEmit(w) BY <2>1 DEF BeginEmit
    <2>2. CASE ReadDb(w) BY <2>2 DEF ReadDb
    <2>3. CASE ReadMark(w) BY <2>3 DEF ReadMark
    <2>4. CASE Insert(w) BY <2>4 DEF Insert
    <2>5. CASE Conflict(w) BY <2>5 DEF Conflict
    <2>6. CASE Bump(w) BY <2>6 DEF Bump
    <2>7. CASE PublishDelta(w) BY <2>7 DEF PublishDelta
    <2>8. CASE BumpDelta(w) BY <2>8 DEF BumpDelta
    <2>9. CASE EndStream(w) BY <2>9 DEF EndStream
    <2>10. CASE ReadMsg(w) BY <2>10 DEF ReadMsg
    <2>11. CASE InsertMsg(w) BY <2>11 DEF InsertMsg
    <2>12. CASE ConflictMsg(w) BY <2>12 DEF ConflictMsg
    <2>13. CASE EmitFails(w) BY <2>13 DEF EmitFails
    <2>14. CASE DeltaFails(w) BY <2>14 DEF DeltaFails
    <2>15. CASE SaveFails(w) BY <2>15 DEF SaveFails
    <2> QED BY <1>1, <2>1, <2>2, <2>3, <2>4, <2>5, <2>6, <2>7, <2>8, <2>9, <2>10, <2>11, <2>12, <2>13, <2>14, <2>15 DEF WriterStep
<1>2. ASSUME UNCHANGED vars PROVE Goal
    BY <1>2 DEF vars
<1>3. ASSUME MarkExpires PROVE Goal
    BY <1>3 DEF MarkExpires
<1> QED BY <1>1, <1>2, <1>3 DEF Next

\* The inductive step of AloneInv.
LEMMA AloneStep == AloneInv /\ [Next]_vars => AloneInv'
<1> SUFFICES ASSUME AloneInv, [Next]_vars, Alone'
             PROVE  MarkFollows' /\ CompletedAboveDeltas'
    BY TypeStep, BookkeepingStep DEF AloneInv
<1> DEFINE Goal == MarkFollows' /\ CompletedAboveDeltas'
<1>0. TypeOK /\ Untouched /\ StreamOver /\ Untouched'
    BY BookkeepingStep DEF AloneInv
<1>1. ASSUME NEW w \in Writers, WriterStep(w) PROVE Goal
    <2>1. op'[w] > 0 /\ \A v \in Writers : v # w => op'[v] = op[v]
        BY <1>0, <1>1 DEF WriterStep, BeginEmit, ReadDb, ReadMark, Insert, Conflict, Bump, EmitFails, PublishDelta, BumpDelta, DeltaFails, EndStream, ReadMsg, InsertMsg, ConflictMsg, SaveFails, TypeOK, Untouched, EventPcs, MsgPcs
    <2>2. \A v \in Writers : v # w => op'[v] = 0 /\ op[v] = 0
        BY <2>1, <1>0 DEF Alone, TypeOK
    <2>3. MarkFollows /\ CompletedAboveDeltas
        BY <2>2 DEF AloneInv, Alone
    <2>4. \A v \in Writers : v # w => pc'[v] = "idle"
        BY <1>0, <2>2 DEF Untouched
    <2> SUFFICES
          /\ (pc[w] = "stream" =>
                 /\ base[w] > 0 \/ offset[w] > 0 => mark = base[w] + offset[w]
                 /\ TurnUpTo(w, base[w] + offset[w]))'
          /\ (pc[w] = "bumpDelta" =>
                 /\ base[w] > 0 => base[w] + offset[w] > mark
                 /\ TurnUpTo(w, base[w] + offset[w]))'
          /\ (pc[w] \in {"readMsg", "insertMsg", "readDb", "readMark", "insert", "bump"} =>
                 TurnUpTo(w, mark))'
          /\ (pc[w] \in {"insert", "bump"} => seq[w] > mark)'
          /\ CompletedAboveDeltas'
        BY <2>4 DEF MarkFollows
    <2> USE <1>0, <2>3 DEF MarkFollows, CompletedAboveDeltas, TurnUpTo, TypeOK, Kinds
    <2>5. CASE BeginEmit(w)
        <3>1. \A d \in deltas : d.w = w => d.op # op'[w]
            BY <2>5 DEF BeginEmit, StreamOver
        <3> QED BY <2>5, <3>1 DEF BeginEmit
    <2>6. CASE ReadDb(w) BY <2>6 DEF ReadDb
    <2>7. CASE ReadMark(w) BY <2>7 DEF ReadMark, Larger
    <2>8. CASE Insert(w) BY <2>8 DEF Insert
    <2>9. ASSUME pc[w] \in EventPcs, kind[w] = "started"
          PROVE  \A d \in deltas : ~(d.w = w /\ d.op = op[w])
        BY <2>9 DEF StreamOver
    <2>10. CASE Conflict(w) BY <2>9, <2>10 DEF Conflict, EventPcs
    <2>11. CASE Bump(w) BY <2>11 DEF Bump
    <2>12. CASE EmitFails(w) BY <2>9, <2>12 DEF EmitFails
    <2>13. CASE PublishDelta(w)
        <3>1. \A r \in rows : r.kind = "completed" => ~(r.w = w /\ r.op = op[w])
            BY <2>13 DEF PublishDelta, StreamOver
        <3> QED BY <2>13, <3>1 DEF PublishDelta
    <2>14. CASE BumpDelta(w) BY <2>14 DEF BumpDelta
    <2>15. CASE DeltaFails(w) BY <2>15 DEF DeltaFails
    <2>16. CASE EndStream(w) BY <2>16 DEF EndStream
    <2>17. CASE ReadMsg(w) BY <2>17 DEF ReadMsg
    <2>18. CASE InsertMsg(w) BY <2>18 DEF InsertMsg
    <2>19. CASE ConflictMsg(w) BY <2>19 DEF ConflictMsg
    <2>20. CASE SaveFails(w) BY <2>20 DEF SaveFails
    <2> QED BY <1>1, <2>5, <2>6, <2>7, <2>8, <2>10, <2>11, <2>12, <2>13, <2>14,
               <2>15, <2>16, <2>17, <2>18, <2>19, <2>20 DEF WriterStep
<1>2. ASSUME UNCHANGED vars PROVE Goal
    BY <1>2 DEF vars, AloneInv, Alone, MarkFollows, CompletedAboveDeltas, TurnUpTo
<1>3. ASSUME MarkExpires PROVE Goal
    <2>1. Alone /\ \A w \in Writers : pc'[w] = "idle"
        BY <1>3 DEF MarkExpires, Alone
    <2> QED BY <1>3, <2>1 DEF MarkExpires, AloneInv, MarkFollows, CompletedAboveDeltas
<1> QED BY <1>1, <1>2, <1>3 DEF Next

\* While one agent loop writes to the run, agent_message_completed sorts above
\* every delta of its message, for any number of turns, deltas and failures.
THEOREM AloneOrder == Spec => []AloneCompletedAboveDeltas
<1>1. Init => AloneInv
    BY InitType DEF Init, AloneInv, Untouched, StreamOver, MarkFollows, TurnUpTo,
       CompletedAboveDeltas, EventPcs
<1>2. AloneInv => AloneCompletedAboveDeltas
    BY DEF AloneInv, AloneCompletedAboveDeltas
<1> QED BY <1>1, <1>2, AloneStep, PTL DEF Spec

\* While one agent loop writes to the run, a SET of max_seq raises it, whatever
\* failed before, unless it is for a delta of a turn whose started event was
\* lost: the plain SET is safe but for those.
THEOREM AloneMark == Spec => MarkFallsOnlyUnannounced
<1>1. Init => AloneInv
    BY InitType DEF Init, AloneInv, Untouched, StreamOver, MarkFollows, TurnUpTo,
       CompletedAboveDeltas, EventPcs
<1> DEFINE Lowers == \/ mark' > mark
                     \/ mark' = 0
                     \/ \E w \in Writers : pc[w] = "bumpDelta" /\ base[w] = 0
<1>2. AloneInv /\ [Next]_vars => [Alone => Lowers]_mark
    <2> SUFFICES ASSUME AloneInv, [Next]_vars, mark' # mark, Alone PROVE Lowers
        OBVIOUS
    <2>1. CASE MarkExpires
        BY <2>1 DEF MarkExpires
    <2>2. ASSUME NEW w \in Writers, Bump(w) \/ EmitFails(w) PROVE Lowers
        BY <2>2 DEF Bump, EmitFails, AloneInv, MarkFollows
    <2>3. ASSUME NEW w \in Writers, BumpDelta(w) PROVE Lowers
        <3>1. base[w] = 0 \/ base[w] > 0
            BY DEF AloneInv, TypeOK
        <3> QED BY <2>3, <3>1 DEF BumpDelta, AloneInv, MarkFollows
    <2> QED BY <2>1, <2>2, <2>3 DEF Next, WriterStep, BeginEmit, ReadDb, ReadMark, Insert, Conflict, PublishDelta, DeltaFails, EndStream, ReadMsg, InsertMsg, ConflictMsg, SaveFails, vars
<1> QED BY <1>1, <1>2, AloneStep, PTL DEF Spec, MarkFallsOnlyUnannounced
=============================================================================
