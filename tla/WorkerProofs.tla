---------------------------- MODULE WorkerProofs ----------------------------
(***************************************************************************)
(* Proofs about what runs in the Celery workers, for any users, records,   *)
(* cron expressions, fire times and bounds.                                *)
(*                                                                         *)
(* Schedules: a save keeps the other users' rules, no slot is run twice or *)
(* forgotten beyond the cases the properties name, and a pending run has   *)
(* its task.                                                               *)
(* Iteration: records are stored as they were checked and none is lost,    *)
(* every started iteration is closed, and a node that has ended leaves     *)
(* none behind.                                                            *)
(*                                                                         *)
(* The two share neither variables nor constants: each theorem is about    *)
(* the specification it names.                                             *)
(***************************************************************************)
EXTENDS Schedules, Iteration, FiniteSetTheorems, SequenceTheorems, WellFoundedInduction, TLAPS


-----------------------------------------------------------------------------
(* Schedules                                                               *)

\* What the variables hold.
Rules == [owner : Users \cup {NoUser}, cron : Crons]
Ticks == {[kind |-> "tick"]}
Triggers == [kind : {"trigger"}, rule : Nat, owner : Users, slot : Nat, seen : Nat]
RunTasks == [kind : {"run"}, row : Nat]
Tasks == Ticks \cup Triggers \cup RunTasks
Sweeps == [kind : {"sweep"}, t : Nat, i : Nat, rules : Seq(Rules), since : Nat]
Creations == [kind : {"created"}, row : Nat, task : Triggers]
Saves == [kind : {"put"}, read : Seq(Rules), mine : Seq(Rules), scheduled : BOOLEAN]
FlowRuns == [source : {"manual", "schedule"}, rule : Nat, owner : Users \cup {NoUser}, slot : Nat,
         at : Nat, seen : Nat, st : {"pending", "started"}]

ScheduleTypeOK ==
    /\ now \in Nat
    /\ flow \in [st : {"there", "deleted"}, active : BOOLEAN, scheduled : BOOLEAN,
                 rules : Seq(Rules)]
    /\ queue \in [DOMAIN queue -> Nat] /\ DOMAIN queue \subseteq Tasks
    /\ wk \in [Workers -> {Free} \cup Sweeps \cup Creations]
    /\ put \in [Users -> {Free} \cup Saves]
    /\ rows \in Seq(FlowRuns)
    /\ api \in Nat
    /\ upsets \in Nat
    /\ hist \in [saved : [Users -> Seq(Rules)], since : Nat, swept : Nat, stale : BOOLEAN,
                 orphans : SUBSET Nat]

\* A save in progress holds rules of its caller only.
SaveInv == \A u \in Users : put[u] # Free =>
              put[u].mine = <<>> \/ \E c \in Crons : put[u].mine = <<Rule(u, c)>>

\* The triggers that were dispatched and may still create a run.
AtLarge == {t \in DOMAIN queue : t.kind = "trigger"}
           \cup {wk[w].task : w \in {v \in Workers : wk[v].kind = "created"}}

\* A dispatch for a slot has looked at the rows up to `seen': the ones that count for its
\* rule were created before the slot.
After(rule, slot, seen) ==
    \A i \in Scheduled : i <= seen /\ rule \in {1, rows[i].rule} => rows[i].at < slot

SlotInv ==
    /\ flow.st = "deleted" => rows = <<>>
    /\ \A t \in AtLarge : /\ t.slot <= now /\ (flow.st = "there" => t.seen <= Len(rows))
                          /\ After(t.rule, t.slot, t.seen)
    /\ \A j \in Scheduled : /\ rows[j].slot <= rows[j].at /\ rows[j].at <= now
                            /\ rows[j].seen < j
                            /\ After(rows[j].rule, rows[j].slot, rows[j].seen)

\* Every slot of a rule that a sweep at t has reached since the last change is answered.
Caught(i, t) ==
    flow.st = "there" /\ flow.active /\ flow.scheduled /\ flow.rules[i].owner # NoUser =>
        \A s \in Fires[flow.rules[i].cron] :
            hist.since < s /\ s <= t /\ (\E j \in Scheduled : rows[j].rule = i /\ rows[j].at < s) =>
                Answered(i, s, IF i = 1 THEN Nat ELSE {i})

\* A sweep of an unchanged flow has answered the rules before the one it is at.
SweepInv ==
    /\ hist.swept <= now
    /\ \A w \in Workers : wk[w].kind = "sweep" =>
          /\ wk[w].t <= now /\ wk[w].i \in 1..Len(wk[w].rules)
          /\ wk[w].since = hist.since /\ hist.since < wk[w].t =>
                wk[w].rules = flow.rules /\ \A k \in 1..(wk[w].i - 1) : Caught(k, wk[w].t)

ScheduleInv ==
    /\ SaveInv /\ SlotInv /\ SweepInv
    /\ EachUserKeepsItsRules /\ NoSlotIsForgotten /\ PendingRunIsDriven

-----------------------------------------------------------------------------
(* Filtered sequences: the positions that are kept, by their rank. *)

UpTo(K, k) == {j \in K : j <= k}
Rank(K, k) == Cardinality(UpTo(K, k))
Nth(K, m) == CHOOSE k \in K : Rank(K, k) = m

LEMMA RankGrows ==
    ASSUME NEW K \in SUBSET Nat, IsFiniteSet(K)
    PROVE  /\ Cardinality(K) \in Nat
           /\ \A k \in K : IsFiniteSet(UpTo(K, k)) /\ Rank(K, k) \in 1..Cardinality(K)
           /\ \A i, j \in K : i < j => Rank(K, i) < Rank(K, j)
<1>1. Cardinality(K) \in Nat
    BY FS_CardinalityType
<1>2. ASSUME NEW k \in K
      PROVE  IsFiniteSet(UpTo(K, k)) /\ Rank(K, k) \in 1..Cardinality(K)
    <2>1. UpTo(K, k) \in SUBSET K /\ k \in UpTo(K, k)
        BY DEF UpTo
    <2>2. /\ IsFiniteSet(UpTo(K, k)) /\ Cardinality(UpTo(K, k)) <= Cardinality(K)
        BY <2>1, FS_Subset
    <2>3. Cardinality(UpTo(K, k)) \in Nat /\ Cardinality(UpTo(K, k)) # 0
        BY <2>1, <2>2, FS_CardinalityType, FS_EmptySet
    <2> QED BY <1>1, <2>2, <2>3 DEF Rank
<1>3. ASSUME NEW i \in K, NEW j \in K, i < j PROVE Rank(K, i) < Rank(K, j)
    <2>1. UpTo(K, i) \in SUBSET UpTo(K, j) /\ j \in UpTo(K, j) /\ j \notin UpTo(K, i)
        <3>1. i \in Nat /\ j \in Nat /\ \A x \in K : x \in Nat
            OBVIOUS
        <3>2. \A x \in K : x <= i => x <= j
            BY <1>3, <3>1
        <3>3. j <= j /\ ~(j <= i)
            BY <1>3, <3>1
        <3> QED BY <3>2, <3>3 DEF UpTo
    <2>2. /\ Cardinality(UpTo(K, i)) <= Cardinality(UpTo(K, j))
          /\ Cardinality(UpTo(K, i)) # Cardinality(UpTo(K, j))
        <3>1. IsFiniteSet(UpTo(K, j))
            BY <1>2
        <3>2. /\ Cardinality(UpTo(K, i)) <= Cardinality(UpTo(K, j))
              /\ Cardinality(UpTo(K, j)) = Cardinality(UpTo(K, i)) => UpTo(K, j) = UpTo(K, i)
            BY <2>1, <3>1, FS_Subset
        <3> QED BY <2>1, <3>2
    <2>3. Rank(K, i) \in Nat /\ Rank(K, j) \in Nat
        BY <1>1, <1>2
    <2> QED BY <2>2, <2>3 DEF Rank
<1> QED BY <1>1, <1>2, <1>3

\* Every place up to the number of positions is the rank of one of them.
LEMMA NthIs ==
    ASSUME NEW K \in SUBSET Nat, IsFiniteSet(K)
    PROVE  /\ \A m \in 1..Cardinality(K) : Nth(K, m) \in K /\ Rank(K, Nth(K, m)) = m
           /\ \A k \in K : Nth(K, Rank(K, k)) = k
<1> DEFINE n == Cardinality(K)
           f == [k \in K |-> Rank(K, k)]
<1>1. /\ n \in Nat
      /\ \A k \in K : Rank(K, k) \in 1..n
      /\ \A i, j \in K : i < j => Rank(K, i) < Rank(K, j)
    BY RankGrows
<1>2. \A i, j \in K : Rank(K, i) = Rank(K, j) => i = j
    <2>1. SUFFICES ASSUME NEW i \in K, NEW j \in K, Rank(K, i) = Rank(K, j), i # j PROVE FALSE
        OBVIOUS
    <2>2. i < j \/ j < i
        BY <2>1
    <2>3. Rank(K, i) \in Nat /\ Rank(K, j) \in Nat
        BY <1>1
    <2> QED BY <1>1, <2>1, <2>2, <2>3
<1> HIDE DEF n
<1>3. f \in [K -> 1..n]
    BY <1>1
<1>4. f \in Injection(K, 1..n)
    BY <1>2, <1>3 DEF Injection, IsInjective
<1>5. IsFiniteSet(1..n) /\ Cardinality(1..n) = n
    BY <1>1, FS_Interval
<1>6. f \in Surjection(K, 1..n)
    BY <1>4, <1>5, FS_Injection DEF n
<1>7. \A m \in 1..n : \E k \in K : Rank(K, k) = m
    BY <1>6 DEF Surjection
<1>8. \A m \in 1..n : Nth(K, m) \in K /\ Rank(K, Nth(K, m)) = m
    BY <1>7 DEF Nth
<1>9. ASSUME NEW k \in K PROVE Nth(K, Rank(K, k)) = k
    <2>1. Nth(K, Rank(K, k)) \in K /\ Rank(K, Nth(K, Rank(K, k))) = Rank(K, k)
        BY <1>1, <1>8
    <2> QED BY <1>2, <2>1
<1> QED BY <1>8, <1>9 DEF n

LEMMA FilteredIs ==
    ASSUME NEW s, NEW K
    PROVE  Filtered(s, K) = [m \in 1..Cardinality(K) |-> s[Nth(K, m)]]
BY DEF Filtered, Nth, Rank, UpTo

\* A map of the positions that keeps their order and what they hold keeps the filtered
\* sequence.
KeepsOrder(f, s, A, t, B) ==
    /\ A \in SUBSET Nat /\ B \in SUBSET Nat /\ IsFiniteSet(A)
    /\ f \in [A -> B]
    /\ \A i, j \in A : i < j => f[i] < f[j]
    /\ \A b \in B : \E a \in A : f[a] = b
    /\ \A a \in A : t[f[a]] = s[a]

LEMMA SameFiltered ==
    ASSUME NEW f, NEW s, NEW A, NEW t, NEW B, KeepsOrder(f, s, A, t, B)
    PROVE  Filtered(s, A) = Filtered(t, B)
<1> USE DEF KeepsOrder
<1>0. \A a, b \in A : f[a] \in Nat /\ f[b] \in Nat /\ (f[a] <= f[b] <=> a <= b) /\ (f[a] = f[b] => a = b)
    <2> SUFFICES ASSUME NEW a \in A, NEW b \in A
                 PROVE  f[a] \in Nat /\ f[b] \in Nat /\ (f[a] <= f[b] <=> a <= b) /\ (f[a] = f[b] => a = b)
        OBVIOUS
    <2>1. f[a] \in Nat /\ f[b] \in Nat /\ a \in Nat /\ b \in Nat
        OBVIOUS
    <2>2. (a < b => f[a] < f[b]) /\ (b < a => f[b] < f[a])
        OBVIOUS
    <2> QED BY <2>1, <2>2
<1>1. IsFiniteSet(B) /\ Cardinality(A) = Cardinality(B)
    <2>1. f \in Bijection(A, B)
        BY <1>0 DEF Bijection, Injection, Surjection, IsInjective
    <2> QED BY <2>1, FS_Bijection DEF ExistsBijection
<1>2. ASSUME NEW a \in A PROVE Rank(B, f[a]) = Rank(A, a)
    <2> DEFINE g == [j \in UpTo(A, a) |-> f[j]]
    <2>1. g \in [UpTo(A, a) -> UpTo(B, f[a])]
        BY <1>0 DEF UpTo
    <2>2. \A b \in UpTo(B, f[a]) : \E j \in UpTo(A, a) : g[j] = b
        BY <1>0 DEF UpTo
    <2>3. \A i, j \in UpTo(A, a) : g[i] = g[j] => i = j
        BY <1>0 DEF UpTo
    <2>4. g \in Bijection(UpTo(A, a), UpTo(B, f[a]))
        BY <2>1, <2>2, <2>3 DEF Bijection, Injection, Surjection, IsInjective
    <2>5. IsFiniteSet(UpTo(A, a))
        BY RankGrows
    <2> QED BY <2>4, <2>5, FS_Bijection DEF ExistsBijection, Rank
<1>3. ASSUME NEW m \in 1..Cardinality(A) PROVE s[Nth(A, m)] = t[Nth(B, m)]
    <2>1. Nth(A, m) \in A /\ Rank(A, Nth(A, m)) = m
        BY NthIs
    <2>2. Rank(B, f[Nth(A, m)]) = m /\ f[Nth(A, m)] \in B
        BY <1>2, <2>1
    <2>3. Nth(B, m) = f[Nth(A, m)]
        BY <1>1, <2>2, NthIs
    <2> QED BY <2>1, <2>3
<1> QED BY <1>1, <1>3, FilteredIs

\* The positions of a filtered sequence hold what the kept positions held.
LEMMA FilteredHolds ==
    ASSUME NEW s \in Seq(Rules), NEW K \in SUBSET (1..Len(s))
    PROVE  /\ IsFiniteSet(K) /\ K \in SUBSET Nat /\ Cardinality(K) \in Nat
           /\ Filtered(s, K) \in Seq(Rules) /\ Len(Filtered(s, K)) = Cardinality(K)
           /\ \A k \in K : Rank(K, k) \in 1..Cardinality(K) /\ Filtered(s, K)[Rank(K, k)] = s[k]
           /\ \A m \in 1..Cardinality(K) : Nth(K, m) \in K /\ Filtered(s, K)[m] = s[Nth(K, m)]
                                           /\ Rank(K, Nth(K, m)) = m
<1>1. IsFiniteSet(K) /\ K \in SUBSET Nat
    <2>1. Len(s) \in Nat
        OBVIOUS
    <2>2. IsFiniteSet(1..Len(s)) /\ 1..Len(s) \in SUBSET Nat
        BY <2>1, FS_Interval
    <2>3. IsFiniteSet(K)
        BY <2>2, FS_Subset
    <2> QED BY <2>2, <2>3
<1>2. /\ Cardinality(K) \in Nat
      /\ \A k \in K : Rank(K, k) \in 1..Cardinality(K) /\ Nth(K, Rank(K, k)) = k
      /\ \A m \in 1..Cardinality(K) : Nth(K, m) \in K /\ Rank(K, Nth(K, m)) = m
    BY <1>1, RankGrows, NthIs
<1>3. Filtered(s, K) = [m \in 1..Cardinality(K) |-> s[Nth(K, m)]]
    BY FilteredIs
<1>4. \A m \in 1..Cardinality(K) : s[Nth(K, m)] \in Rules
    <2>1. \A k \in 1..Len(s) : s[k] \in Rules
        OBVIOUS
    <2> QED BY <1>2, <2>1
<1>5. Filtered(s, K) \in [1..Cardinality(K) -> Rules]
    BY <1>3, <1>4
<1>6. Filtered(s, K) \in Seq(Rules) /\ Len(Filtered(s, K)) = Cardinality(K)
    BY <1>2, <1>5
<1> QED BY <1>1, <1>2, <1>3, <1>6

\* What a save makes of a user's rules: the caller's are the new ones, everyone else's
\* stay, in their order, wherever the merge has moved them.
LEMMA MergeKeepsRules ==
    ASSUME NEW read \in Seq(Rules), NEW u \in Users, NEW mine \in Seq(Rules),
           \A k \in DOMAIN mine : mine[k].owner = u
    PROVE  /\ Merged(read, mine, u) \in Seq(Rules)
           /\ Owned(Merged(read, mine, u), u) = mine
           /\ \A v \in Users \ {u} : Owned(Merged(read, mine, u), v) = Owned(read, v)
<1> DEFINE K == {k \in DOMAIN read : read[k].owner \notin {u, NoUser}}
           kept == Filtered(read, K)
           n == Len(mine)
           all == Merged(read, mine, u)
<1>0. /\ K \in SUBSET (1..Len(read)) /\ n \in Nat /\ \A k \in K : k \in 1..Len(read)
      /\ DOMAIN mine = 1..n /\ DOMAIN read = 1..Len(read) /\ Len(read) \in Nat
    OBVIOUS
<1>1. /\ IsFiniteSet(K) /\ K \in SUBSET Nat /\ Cardinality(K) \in Nat
      /\ kept \in Seq(Rules) /\ Len(kept) = Cardinality(K)
      /\ \A k \in K : Rank(K, k) \in 1..Cardinality(K) /\ kept[Rank(K, k)] = read[k]
      /\ \A m \in 1..Cardinality(K) : Nth(K, m) \in K /\ kept[m] = read[Nth(K, m)]
                                      /\ Rank(K, Nth(K, m)) = m
    <2> HIDE DEF K
    <2> QED BY <1>0, FilteredHolds
<1>2. \A i, j \in K : i < j => Rank(K, i) < Rank(K, j)
    <2> HIDE DEF K
    <2> QED BY <1>1, RankGrows
<1>3. all = mine \o kept
    BY DEF Merged
<1>k. \A k \in K : read[k].owner # u
    OBVIOUS
<1>o. \A v \in Users \ {u} : \A k \in DOMAIN read : read[k].owner = v => k \in K
    BY SchedulesAssumption
<1> DEFINE c == Cardinality(K)
<1> HIDE DEF kept, all, n, K
<1>4. /\ all \in Seq(Rules) /\ Len(all) = n + c /\ DOMAIN all = 1..(n + c)
      /\ \A i \in 1..n : all[i] = mine[i]
      /\ \A m \in 1..c : all[n + m] = kept[m]
    <2>1. /\ mine \in Seq(Rules) /\ kept \in Seq(Rules) /\ Len(kept) = c /\ c \in Nat
        BY <1>1
    <2>2. Len(mine) = n /\ n \in Nat
        BY <1>0 DEF n
    <2> HIDE DEF c
    <2>3. /\ all \in Seq(Rules) /\ Len(all) = n + c
          /\ \A i \in 1..(n + c) : all[i] = IF i <= n THEN mine[i] ELSE kept[i - n]
        BY <1>3, <2>1, <2>2, ConcatProperties
    <2>4. \A i \in 1..n : i \in 1..(n + c) /\ i <= n
        BY <2>1, <2>2
    <2>5. \A m \in 1..c : n + m \in 1..(n + c) /\ ~(n + m <= n) /\ (n + m) - n = m
        BY <2>1, <2>2
    <2> QED BY <2>3, <2>4, <2>5
<1>5. c \in Nat
    BY <1>1
<1> HIDE DEF c
<1>6. \A i \in 1..(n + c) : i \in 1..n \/ (i - n \in 1..c /\ i = n + (i - n))
    BY <1>0, <1>5
<1>7. Owned(all, u) = mine
    <2> DEFINE B == {k \in DOMAIN all : all[k].owner = u}
               f == [i \in 1..n |-> i]
    <2>1. B = 1..n
        <3>1. \A i \in 1..n : i \in DOMAIN all /\ all[i].owner = u
            BY <1>0, <1>4, <1>5
        <3>2. \A m \in 1..c : all[n + m].owner # u
            <4>1. \A m \in 1..c : all[n + m] = kept[m] /\ Nth(K, m) \in K /\ kept[m] = read[Nth(K, m)]
                BY <1>1, <1>4 DEF c
            <4> QED BY <4>1, <1>k
        <3>3. \A i \in DOMAIN all : all[i].owner = u => i \in 1..n
            BY <1>4, <1>6, <3>2
        <3> QED BY <3>1, <3>3
    <2>2. Filtered(all, 1..n) = mine
        <3>1. 1..n \in SUBSET (1..Len(mine)) /\ 1..n \in SUBSET Nat /\ IsFiniteSet(1..n)
              /\ Cardinality(1..n) = n
            <4>1. n \in Nat
                BY <1>0
            <4>2. IsFiniteSet(1..n) /\ Cardinality(1..n) = n
                BY <4>1, FS_Interval
            <4> QED BY <4>1, <4>2 DEF n
        <3>2. ASSUME NEW k \in 1..n PROVE Nth(1..n, k) = k
            <4>1. UpTo(1..n, k) = 1..k /\ k \in Nat
                BY <1>0 DEF UpTo
            <4>2. Rank(1..n, k) = k
                BY <4>1, FS_Interval DEF Rank
            <4> QED BY <3>1, <4>2, NthIs
        <3>3. Filtered(all, 1..n) = [m \in 1..n |-> all[Nth(1..n, m)]]
            BY <3>1, FilteredIs
        <3>4. Filtered(all, 1..n) = [m \in 1..n |-> mine[m]]
            BY <1>4, <3>2, <3>3
        <3> QED BY <3>4 DEF n
    <2> QED BY <2>1, <2>2 DEF Owned
<1>8. ASSUME NEW v \in Users \ {u} PROVE Owned(all, v) = Owned(read, v)
    <2> DEFINE A == {k \in DOMAIN read : read[k].owner = v}
               B == {k \in DOMAIN all : all[k].owner = v}
               f == [k \in A |-> n + Rank(K, k)]
    <2>1. \A k \in A : /\ k \in K /\ read[k].owner = v /\ Rank(K, k) \in 1..c
                       /\ all[n + Rank(K, k)] = read[k]
        BY <1>1, <1>4, <1>o DEF c
    <2>2. \A k \in A : n + Rank(K, k) \in DOMAIN all
        BY <1>0, <1>4, <1>5, <2>1
    <2>3. f \in [A -> B]
        BY <2>1, <2>2
    <2>4. \A i, j \in A : i < j => f[i] < f[j]
        <3> SUFFICES ASSUME NEW i \in A, NEW j \in A, i < j PROVE f[i] < f[j]
            OBVIOUS
        <3>1. Rank(K, i) < Rank(K, j) /\ Rank(K, i) \in Nat /\ Rank(K, j) \in Nat
            BY <1>2, <1>5, <2>1
        <3> QED BY <1>0, <3>1
    <2>5. ASSUME NEW b \in B PROVE \E a \in A : f[a] = b
        <3>1. b \in 1..(n + c) /\ all[b].owner = v
            BY <1>4
        <3>2. b \notin 1..n
            BY <1>0, <1>4, <3>1
        <3>3. b - n \in 1..c /\ b = n + (b - n)
            BY <1>6, <3>1, <3>2
        <3>4. PICK m \in 1..c : b = n + m
            BY <3>3
        <3>5. all[b] = kept[m] /\ Nth(K, m) \in K /\ kept[m] = read[Nth(K, m)] /\ Rank(K, Nth(K, m)) = m
            BY <1>1, <1>4, <3>4 DEF c
        <3>6. Nth(K, m) \in A
            BY <1>0, <3>1, <3>5
        <3> QED BY <3>4, <3>5, <3>6
    <2>6. \A a \in A : all[f[a]] = read[a]
        BY <2>1
    <2>7. A \in SUBSET Nat /\ B \in SUBSET Nat /\ IsFiniteSet(A)
        <3>1. IsFiniteSet(1..Len(read)) /\ A \in SUBSET (1..Len(read))
            BY <1>0, FS_Interval
        <3>2. B \in SUBSET Nat
            BY <1>4
        <3>3. A \in SUBSET Nat
            BY <1>0, <3>1
        <3> HIDE DEF A, B
        <3>4. IsFiniteSet(A)
            BY <3>1, FS_Subset
        <3> QED BY <3>2, <3>3, <3>4
    <2> HIDE DEF A, B, f
    <2>8. Filtered(read, A) = Filtered(all, B)
        <3>1. \A b \in B : \E a \in A : f[a] = b
            BY <2>5
        <3>2. KeepsOrder(f, read, A, all, B)
            BY <2>3, <2>4, <2>6, <2>7, <3>1 DEF KeepsOrder
        <3> QED BY <3>2, SameFiltered
    <2> QED BY <2>8 DEF Owned, A, B
<1> QED BY <1>4, <1>7, <1>8 DEF all

-----------------------------------------------------------------------------
(* Least and greatest clocks, and the queue. *)

LEMMA MinIs ==
    ASSUME NEW S \in SUBSET Nat, S # {}
    PROVE  Min(S) \in S /\ \A y \in S : Min(S) <= y
<1> DEFINE R == OpToRel(<, Nat)
<1>1. PICK x \in S : \A y \in S : ~(<<y, x>> \in R)
    BY NatLessThanWellFounded, WFMin, Zenon
<1>2. \A y \in S : x <= y
    <2>1. SUFFICES ASSUME NEW y \in S PROVE x <= y
        OBVIOUS
    <2>2. x \in Nat /\ y \in Nat
        OBVIOUS
    <2>3. ~(y < x)
        BY <1>1, <2>2 DEF OpToRel
    <2> QED BY <2>2, <2>3
<1> QED BY <1>2 DEF Min

LEMMA MaxIs ==
    ASSUME NEW S \in SUBSET Nat, S # {}, NEW n \in Nat, \A y \in S : y <= n
    PROVE  Max(S) \in S /\ Max(S) \in Nat /\ \A y \in S : Max(S) >= y
<1> DEFINE T == {n - y : y \in S}
<1>1. T \in SUBSET Nat /\ T # {}
    <2>1. \A y \in S : n - y \in Nat
        OBVIOUS
    <2> QED BY <2>1
<1>2. Min(T) \in T /\ \A d \in T : Min(T) <= d
    <2> HIDE DEF T
    <2> QED BY <1>1, MinIs
<1>3. PICK x \in S : Min(T) = n - x
    BY <1>2
<1>4. ASSUME NEW y \in S PROVE x >= y
    <2>1. n - x <= n - y
        BY <1>2, <1>3
    <2>2. x \in Nat /\ y \in Nat
        OBVIOUS
    <2> QED BY <2>1, <2>2
<1> HIDE DEF T
<1> QED BY <1>4 DEF Max

LEMMA MaxOfTwo ==
    ASSUME NEW a \in Nat, NEW b \in Nat
    PROVE  Max({a, b}) \in {a, b} /\ Max({a, b}) >= a /\ Max({a, b}) >= b
<1>1. \E x \in {a, b} : \A y \in {a, b} : x >= y
    OBVIOUS
<1> QED BY <1>1 DEF Max

LEMMA MoreIs ==
    ASSUME NEW bag, bag \in [DOMAIN bag -> Nat], NEW t
    PROVE  /\ DOMAIN More(bag, t) = DOMAIN bag \cup {t}
           /\ More(bag, t) \in [DOMAIN More(bag, t) -> Nat]
BY DEF More

LEMMA LessIs ==
    ASSUME NEW bag, bag \in [DOMAIN bag -> Nat], NEW t
    PROVE  /\ DOMAIN Less(bag, t) \subseteq DOMAIN bag
           /\ \A x \in DOMAIN bag : x # t => x \in DOMAIN Less(bag, t)
           /\ Less(bag, t) \in [DOMAIN Less(bag, t) -> Nat]
<1>1. DOMAIN Less(bag, t) = {y \in DOMAIN bag : y # t \/ bag[y] > 1}
    BY DEF Less
<1>2. ASSUME NEW x \in DOMAIN Less(bag, t) PROVE Less(bag, t)[x] \in Nat
    <2>1. x \in DOMAIN bag /\ bag[x] \in Nat /\ (x = t => bag[x] > 1)
        BY <1>1
    <2>2. Less(bag, t)[x] = IF x = t THEN bag[x] - 1 ELSE bag[x]
        BY <1>1 DEF Less
    <2> QED BY <2>1, <2>2
<1>3. Less(bag, t) \in [DOMAIN Less(bag, t) -> Nat]
    BY <1>1, <1>2 DEF Less
<1> QED BY <1>1, <1>3

-----------------------------------------------------------------------------
(* Types. *)

\* A task is known by its kind.
LEMMA TaskKinds ==
    /\ \A t \in Tasks : /\ t.kind = "tick" => t = [kind |-> "tick"]
                        /\ t.kind = "trigger" => t \in Triggers
                        /\ t.kind = "run" => t \in RunTasks
                        /\ t.kind # "created"
    /\ \A t \in Triggers : t \in Tasks /\ t.kind = "trigger"
    /\ \A t \in RunTasks : t \in Tasks /\ t.kind = "run"
    /\ [kind |-> "tick"] \in Tasks
    /\ Free.kind = "free"
    /\ \A s \in Sweeps : s.kind = "sweep" /\ s # Free
    /\ \A s \in Creations : s.kind = "created" /\ s # Free
BY DEF Tasks, Ticks, Triggers, RunTasks, Sweeps, Creations, Free

\* What a worker is in is known by its kind.
LEMMA WorkerKinds ==
    ASSUME ScheduleTypeOK, NEW w \in Workers
    PROVE  /\ wk[w].kind = "sweep" => wk[w] \in Sweeps
           /\ wk[w].kind = "created" => wk[w] \in Creations
           /\ wk[w] # Free => wk[w] \in Sweeps \/ wk[w] \in Creations
           /\ wk[w].kind \in {"free", "sweep", "created"}
<1>1. wk[w] \in {Free} \cup Sweeps \cup Creations
    BY DEF ScheduleTypeOK
<1> QED BY <1>1, TaskKinds

LEMMA RowsTyped ==
    ASSUME ScheduleTypeOK
    PROVE  /\ DOMAIN rows = 1..Len(rows) /\ Len(rows) \in Nat
           /\ \A j \in DOMAIN rows :
                 /\ rows[j] \in FlowRuns /\ j \in Nat
                 /\ rows[j].at \in Nat /\ rows[j].slot \in Nat /\ rows[j].seen \in Nat
                 /\ rows[j].rule \in Nat
<1>1. rows \in Seq(FlowRuns)
    BY DEF ScheduleTypeOK
<1>2. DOMAIN rows = 1..Len(rows) /\ Len(rows) \in Nat /\ \A j \in 1..Len(rows) : rows[j] \in FlowRuns
    BY <1>1
<1>3. \A x \in FlowRuns : x.at \in Nat /\ x.slot \in Nat /\ x.seen \in Nat /\ x.rule \in Nat
    BY DEF FlowRuns
<1> QED BY <1>2, <1>3

\* A row that is appended.
LEMMA RowTyped ==
    ASSUME ScheduleTypeOK, NEW source \in {"manual", "schedule"}, NEW rule \in Nat,
           NEW owner \in Users \cup {NoUser}, NEW slot \in Nat, NEW seen \in Nat
    PROVE  Row(source, rule, owner, slot, seen) \in FlowRuns
BY DEF Row, FlowRuns, ScheduleTypeOK

\* A worker takes a task off the queue, and a task is put on it.
LEMMA QueueTyped ==
    ASSUME ScheduleTypeOK
    PROVE  /\ \A w \in Workers, t \in DOMAIN queue : Taken(w, t) =>
                 /\ t \in Tasks
                 /\ queue' \in [DOMAIN queue' -> Nat] /\ DOMAIN queue' \subseteq Tasks
           /\ \A t \in Tasks : Sent(t) =>
                 queue' \in [DOMAIN queue' -> Nat] /\ DOMAIN queue' \subseteq Tasks
<1>1. queue \in [DOMAIN queue -> Nat] /\ DOMAIN queue \subseteq Tasks
    BY DEF ScheduleTypeOK
<1>2. ASSUME NEW w \in Workers, NEW t \in DOMAIN queue, Taken(w, t)
      PROVE  /\ t \in Tasks
             /\ queue' \in [DOMAIN queue' -> Nat] /\ DOMAIN queue' \subseteq Tasks
    BY <1>1, <1>2, LessIs DEF Taken
<1>3. ASSUME NEW t \in Tasks, Sent(t)
      PROVE  queue' \in [DOMAIN queue' -> Nat] /\ DOMAIN queue' \subseteq Tasks
    <2>1. queue' = More(queue, t)
        BY <1>3 DEF Sent
    <2>2. /\ DOMAIN More(queue, t) = DOMAIN queue \cup {t}
          /\ More(queue, t) \in [DOMAIN More(queue, t) -> Nat]
        BY <1>1, MoreIs
    <2> QED BY <1>1, <2>1, <2>2
<1> QED BY <1>2, <1>3

\* The sweep of one rule: the trigger it may send is typed, and the worker goes on.
LEMMA SweepTyped ==
    ASSUME ScheduleTypeOK, SweepInv, SlotInv, NEW w \in Workers, SweepRule(w)
    PROVE  LET s == wk[w]
               base == IF LastFire(s.i) # {} THEN Max(LastFire(s.i)) ELSE s.t - 1
               next == NextFire(s.rules[s.i].cron, base)
               task == [kind |-> "trigger", rule |-> s.i, owner |-> s.rules[s.i].owner,
                        slot |-> Min(next), seen |-> Len(rows)]
           IN  /\ s \in Sweeps /\ s.i \in 1..Len(s.rules) /\ s.rules[s.i] \in Rules
               /\ s.t \in Nat /\ s.i \in Nat /\ s.since \in Nat /\ s.rules \in Seq(Rules)
               /\ s.t <= now
               /\ LastFire(s.i) # {} => base \in LastFire(s.i) /\ base \in Nat
                                        /\ \A y \in LastFire(s.i) : base >= y
               /\ next \subseteq Nat /\ base \in Int
               /\ next # {} => Min(next) \in next /\ \A y \in next : Min(next) <= y
               /\ (s.rules[s.i].owner # NoUser /\ Due(next, s.t)) => task \in Triggers
<1> DEFINE s == wk[w]
           base == IF LastFire(s.i) # {} THEN Max(LastFire(s.i)) ELSE s.t - 1
           next == NextFire(s.rules[s.i].cron, base)
           task == [kind |-> "trigger", rule |-> s.i, owner |-> s.rules[s.i].owner,
                    slot |-> Min(next), seen |-> Len(rows)]
<1>1. s \in Sweeps /\ s.kind = "sweep"
    BY WorkerKinds DEF SweepRule
<1>2. s.i \in 1..Len(s.rules) /\ s.t <= now
    BY <1>1 DEF SweepInv
<1>3. s.t \in Nat /\ s.i \in Nat /\ s.since \in Nat /\ s.rules \in Seq(Rules)
    BY <1>1 DEF Sweeps
<1>4. s.rules[s.i] \in Rules
    BY <1>2, <1>3
<1>5. s.rules[s.i].cron \in Crons /\ s.rules[s.i].owner \in Users \cup {NoUser}
    BY <1>4 DEF Rules
<1>6. LastFire(s.i) \subseteq Nat /\ \A y \in LastFire(s.i) : y <= now
    <2>1. \A j \in Scheduled : rows[j].at \in Nat /\ rows[j].at <= now
        BY RowsTyped DEF SlotInv, Scheduled
    <2> QED BY <2>1 DEF LastFire
<1>7. now \in Nat
    BY DEF ScheduleTypeOK
<1>8. LastFire(s.i) # {} => base \in LastFire(s.i) /\ base \in Nat
                                        /\ \A y \in LastFire(s.i) : base >= y
    BY <1>6, <1>7, MaxIs
<1>9. base \in Int
    BY <1>3, <1>8
<1>10. next \subseteq Nat
    BY <1>5, SchedulesAssumption DEF NextFire
<1>11. next # {} => Min(next) \in next /\ \A y \in next : Min(next) <= y
    <2> HIDE DEF next
    <2> QED BY <1>10, MinIs
<1>12. Len(rows) \in Nat
    BY DEF ScheduleTypeOK
<1>13. ASSUME s.rules[s.i].owner # NoUser, Due(next, s.t) PROVE task \in Triggers
    <2>1. Min(next) \in Nat
        BY <1>10, <1>11, <1>13 DEF Due
    <2> HIDE DEF next
    <2> QED BY <1>3, <1>5, <1>12, <1>13, <2>1 DEF Triggers
<1> HIDE DEF next, base
<1> QED BY <1>1, <1>2, <1>3, <1>4, <1>8, <1>9, <1>10, <1>11, <1>13 DEF next, base

\* A function on the first numbers is a sequence.
LEMMA FunctionIsSeq ==
    ASSUME NEW n \in Nat, NEW S, NEW f \in [1..n -> S]
    PROVE  f \in Seq(S)
OBVIOUS

\* Every step keeps the types.
LEMMA ScheduleTypeStep ==
    ASSUME ScheduleTypeOK, SweepInv, SlotInv, SaveInv, [ScheduleNext]_scheduleVars
    PROVE  ScheduleTypeOK'
<1> DEFINE Queues == queue' \in [DOMAIN queue' -> Nat] /\ DOMAIN queue' \subseteq Tasks
           Flows == [st : {"there", "deleted"}, active : BOOLEAN, scheduled : BOOLEAN,
                     rules : Seq(Rules)]
           Hists == [saved : [Users -> Seq(Rules)], since : Nat, swept : Nat, stale : BOOLEAN,
                     orphans : SUBSET Nat]
           Workings == {Free} \cup Sweeps \cup Creations
<1>0. /\ now \in Nat /\ flow \in Flows /\ hist \in Hists /\ api \in Nat
      /\ wk \in [Workers -> Workings] /\ put \in [Users -> {Free} \cup Saves]
      /\ rows \in Seq(FlowRuns) /\ upsets \in Nat
      /\ queue \in [DOMAIN queue -> Nat] /\ DOMAIN queue \subseteq Tasks
      /\ flow.rules \in Seq(Rules) /\ Len(rows) \in Nat /\ hist.since \in Nat /\ hist.swept \in Nat
      /\ hist.orphans \in SUBSET Nat
    BY RowsTyped DEF ScheduleTypeOK
<1>l. upsets + 1 \in Nat
    BY <1>0
<1>s. Free \in Workings /\ \A x \in Workings, w \in Workers : [wk EXCEPT ![w] = x] \in [Workers -> Workings]
    BY <1>0
<1> USE DEF ScheduleTypeOK
<1>1. CASE UNCHANGED scheduleVars
    BY <1>1 DEF scheduleVars
<1>2. ASSUME NEW u \in Users, NEW mine \in Seq(Rules), NEW scheduled \in BOOLEAN,
             UpdateReads(u, mine, scheduled)
      PROVE  ScheduleTypeOK'
    <2>1. [kind |-> "put", read |-> flow.rules, mine |-> mine, scheduled |-> scheduled] \in Saves
        BY <1>0 DEF Saves
    <2>2. put' \in [Users -> {Free} \cup Saves]
        BY <1>0, <1>2, <2>1 DEF UpdateReads
    <2> QED BY <1>0, <1>2, <1>l, <2>2 DEF UpdateReads
<1>3. ASSUME NEW u \in Users, UpdateCommits(u) PROVE ScheduleTypeOK'
    <2>1. put[u] \in Saves
        BY <1>0, <1>3 DEF UpdateCommits
    <2>2. /\ put[u].read \in Seq(Rules) /\ put[u].mine \in Seq(Rules) /\ put[u].scheduled \in BOOLEAN
        BY <2>1 DEF Saves
    <2>3. \A k \in DOMAIN put[u].mine : put[u].mine[k].owner = u
        <3>1. put[u].mine = <<>> \/ \E c \in Crons : put[u].mine = <<Rule(u, c)>>
            BY <1>3 DEF SaveInv, UpdateCommits
        <3>2. CASE put[u].mine = <<>>
            BY <3>2
        <3>3. CASE \E c \in Crons : put[u].mine = <<Rule(u, c)>>
            BY <3>3 DEF Rule
        <3> QED BY <3>1, <3>2, <3>3
    <2>4. Merged(put[u].read, put[u].mine, u) \in Seq(Rules)
        BY <2>2, <2>3, MergeKeepsRules
    <2>5. [flow EXCEPT !.rules = Merged(put[u].read, put[u].mine, u), !.scheduled = put[u].scheduled]
          \in Flows
        BY <1>0, <2>2, <2>4
    <2>6. [hist EXCEPT !.saved[u] = put[u].mine, !.since = now,
                       !.stale = @ \/ put[u].read # flow.rules] \in Hists
        <3>1. (hist.stale \/ put[u].read # flow.rules) \in BOOLEAN
            BY <1>0
        <3>2. [hist.saved EXCEPT ![u] = put[u].mine] \in [Users -> Seq(Rules)]
            BY <1>0, <2>2
        <3> QED BY <1>0, <3>1, <3>2
    <2>7. put' \in [Users -> {Free} \cup Saves]
        BY <1>0, <1>3 DEF UpdateCommits
    <2>8. flow' \in Flows /\ hist' \in Hists
        BY <1>0, <1>3, <2>5, <2>6 DEF UpdateCommits
    <2> QED BY <1>0, <1>3, <2>7, <2>8 DEF UpdateCommits
<1>4. CASE SetActive
    <2>1. flow' \in Flows
        <3>1. (~flow.active) \in BOOLEAN
            OBVIOUS
        <3> QED BY <1>0, <1>4, <3>1 DEF SetActive
    <2>2. hist' \in Hists
        BY <1>0, <1>4 DEF SetActive
    <2> QED BY <1>0, <1>4, <1>l, <2>1, <2>2 DEF SetActive
<1>5. CASE Delete
    <2>1. flow' \in Flows
        BY <1>0, <1>5 DEF Delete
    <2>2. <<>> \in Seq(FlowRuns)
        OBVIOUS
    <2> QED BY <1>0, <1>5, <1>l, <2>1, <2>2 DEF Delete
<1>6. CASE Trigger
    <2>1. Row("manual", 0, NoUser, 0, 0) \in FlowRuns
        BY RowTyped
    <2>2. rows' \in Seq(FlowRuns) /\ api' \in Nat
        BY <1>0, <1>6, <2>1 DEF Trigger
    <2> QED BY <1>0, <1>6, <2>2 DEF Trigger
<1>7. CASE TriggerQueues
    <2>1. ManualTask(api) \in Tasks
        BY <1>0, TaskKinds DEF ManualTask, RunTask, RunTasks
    <2>2. Queues
        BY <1>7, <2>1, QueueTyped DEF TriggerQueues
    <2> QED BY <1>0, <1>7, <2>2 DEF TriggerQueues
<1>8. CASE ApiDies
    <2>1. hist' \in Hists
        <3>1. hist.orphans \cup {api} \in SUBSET Nat
            BY <1>0
        <3> QED BY <1>0, <1>8, <3>1 DEF ApiDies
    <2> QED BY <1>0, <1>8, <1>l, <2>1 DEF ApiDies
<1>9. ASSUME NEW w \in Workers, NEW t \in DOMAIN queue, SweepBegins(w, t) PROVE ScheduleTypeOK'
    <2>1. Queues
        BY <1>9, QueueTyped DEF SweepBegins
    <2>2. [kind |-> "sweep", t |-> now, i |-> 1, rules |-> flow.rules, since |-> hist.since] \in Sweeps
        BY <1>0 DEF Sweeps
    <2>3. wk' \in [Workers -> Workings]
        BY <1>0, <1>9, <1>s, <2>2 DEF SweepBegins
    <2> QED BY <1>0, <1>9, <2>1, <2>3 DEF SweepBegins
<1>10. ASSUME NEW w \in Workers, NEW t \in DOMAIN queue, CreateScheduled(w, t) PROVE ScheduleTypeOK'
    <2>1. Queues
        BY <1>10, QueueTyped DEF CreateScheduled
    <2>2. t \in Triggers
        BY <1>0, <1>10, TaskKinds DEF CreateScheduled
    <2>3. t.rule \in Nat /\ t.owner \in Users \cup {NoUser} /\ t.slot \in Nat /\ t.seen \in Nat
        BY <2>2 DEF Triggers
    <2>4. Row("schedule", t.rule, t.owner, t.slot, t.seen) \in FlowRuns
        BY <2>3, RowTyped
    <2>5. [kind |-> "created", row |-> Len(rows) + 1, task |-> t] \in Creations
        BY <1>0, <2>2 DEF Creations
    <2>6. wk' \in [Workers -> Workings]
        BY <1>0, <1>10, <1>s, <2>5 DEF CreateScheduled
    <2>7. rows' \in Seq(FlowRuns)
        <3>1. Append(rows, Row("schedule", t.rule, t.owner, t.slot, t.seen)) \in Seq(FlowRuns)
            BY <1>0, <2>4
        <3> QED BY <1>0, <1>10, <3>1 DEF CreateScheduled
    <2> QED BY <1>0, <1>10, <2>1, <2>6, <2>7 DEF CreateScheduled
<1>11. ASSUME NEW w \in Workers, NEW t \in DOMAIN queue, RunFlow(w, t) PROVE ScheduleTypeOK'
    <2>1. Queues
        BY <1>11, QueueTyped DEF RunFlow
    <2>2. \A i \in DOMAIN rows : rows[i] \in FlowRuns /\ [rows[i] EXCEPT !.st = "started"] \in FlowRuns
        <3>1. \A x \in FlowRuns : [x EXCEPT !.st = "started"] \in FlowRuns
            BY DEF FlowRuns
        <3> QED BY <3>1, RowsTyped
    <2>3. rows' \in [1..Len(rows) -> FlowRuns]
        <3>1. rows' = [i \in DOMAIN rows |-> IF i = t.row THEN [rows[i] EXCEPT !.st = "started"]
                                             ELSE rows[i]]
            BY <1>11 DEF RunFlow
        <3>2. DOMAIN rows = 1..Len(rows)
            BY <1>0
        <3> QED BY <2>2, <3>1, <3>2
    <2>4. rows' \in Seq(FlowRuns)
        <3>1. Len(rows) \in Nat
            BY <1>0
        <3> QED BY <2>3, <3>1, FunctionIsSeq
    <2>5. UNCHANGED <<now, flow, wk, put, api, upsets, hist>>
        BY <1>11 DEF RunFlow
    <2> QED BY <1>0, <2>1, <2>4, <2>5
<1>12. ASSUME NEW w \in Workers, SweepRule(w) PROVE ScheduleTypeOK'
    <2> DEFINE s == wk[w]
               base == IF LastFire(s.i) # {} THEN Max(LastFire(s.i)) ELSE s.t - 1
               next == NextFire(s.rules[s.i].cron, base)
               task == [kind |-> "trigger", rule |-> s.i, owner |-> s.rules[s.i].owner,
                        slot |-> Min(next), seen |-> Len(rows)]
    <2>1. /\ s \in Sweeps /\ s.t \in Nat /\ s.i \in Nat
          /\ (s.rules[s.i].owner # NoUser /\ Due(next, s.t)) => task \in Triggers
        BY <1>12, SweepTyped
    <2>2. /\ IF s.rules[s.i].owner # NoUser /\ Due(next, s.t) THEN Sent(task) ELSE UNCHANGED queue
          /\ wk' = [wk EXCEPT ![w] = IF s.i = Len(s.rules) THEN Free ELSE [s EXCEPT !.i = @ + 1]]
          /\ hist' = IF s.i = Len(s.rules) /\ s.since = hist.since
                       THEN [hist EXCEPT !.swept = Max({@, s.t})] ELSE hist
          /\ UNCHANGED <<now, flow, put, rows, api, upsets>>
        BY <1>12 DEF SweepRule
    <2> HIDE DEF task, next, s
    <2>3. Queues
        <3>1. CASE s.rules[s.i].owner # NoUser /\ Due(next, s.t)
            BY <2>1, <2>2, <3>1, QueueTyped, TaskKinds
        <3>2. CASE ~(s.rules[s.i].owner # NoUser /\ Due(next, s.t))
            <4>1. queue' = queue
                BY <2>2, <3>2
            <4> QED BY <1>0, <4>1
        <3> QED BY <3>1, <3>2
    <2>4. wk' \in [Workers -> Workings]
        <3>1. [s EXCEPT !.i = @ + 1] \in Sweeps
            <4>1. s.i + 1 \in Nat
                BY <2>1
            <4> QED BY <2>1, <4>1 DEF Sweeps
        <3> QED BY <1>s, <2>2, <3>1
    <2>5. hist' \in Hists
        <3>1. Max({hist.swept, s.t}) \in Nat
            <4>1. hist.swept \in Nat /\ s.t \in Nat
                BY <1>0, <2>1
            <4>2. Max({hist.swept, s.t}) \in {hist.swept, s.t}
                BY <4>1, MaxOfTwo
            <4> QED BY <4>1, <4>2
        <3> QED BY <1>0, <2>2, <3>1
    <2> QED BY <1>0, <2>2, <2>3, <2>4, <2>5
<1>13. ASSUME NEW w \in Workers, QueueScheduled(w) PROVE ScheduleTypeOK'
    <2>1. wk[w] \in Creations
        BY <1>13, WorkerKinds DEF QueueScheduled
    <2>2. RunTask(wk[w].row) \in Tasks
        BY <2>1, TaskKinds DEF Creations, RunTask, RunTasks
    <2>3. Queues
        BY <1>13, <2>2, QueueTyped DEF QueueScheduled
    <2>4. wk' \in [Workers -> Workings]
        BY <1>13, <1>s DEF QueueScheduled
    <2> QED BY <1>0, <1>13, <2>3, <2>4 DEF QueueScheduled
<1>14. ASSUME NEW w \in Workers, WorkerDies(w) PROVE ScheduleTypeOK'
    <2> DEFINE task == IF wk[w].kind = "sweep" THEN [kind |-> "tick"] ELSE wk[w].task
    <2>1. wk[w].kind # "sweep" => wk[w] \in Creations
        BY <1>14, WorkerKinds, TaskKinds DEF WorkerDies
    <2>2. wk[w].kind # "sweep" => wk[w].task \in Triggers /\ wk[w].row \in Nat
        BY <2>1 DEF Creations
    <2>3. task \in Tasks
        BY <2>2, TaskKinds
    <2>4. Sent(task)
        BY <1>14 DEF WorkerDies
    <2> HIDE DEF task
    <2>5. Queues
        BY <2>3, <2>4, QueueTyped
    <2>6. hist' \in Hists
        <3>1. CASE wk[w].kind = "sweep"
            BY <1>0, <1>14, <3>1 DEF WorkerDies
        <3>2. CASE wk[w].kind # "sweep"
            <4>1. hist.orphans \cup {wk[w].row} \in SUBSET Nat
                BY <1>0, <2>2, <3>2
            <4>2. hist' = [hist EXCEPT !.orphans = @ \cup {wk[w].row}]
                BY <1>14, <3>2 DEF WorkerDies
            <4> QED BY <1>0, <4>1, <4>2
        <3> QED BY <3>1, <3>2
    <2>7. wk' \in [Workers -> Workings]
        BY <1>14, <1>s DEF WorkerDies
    <2> QED BY <1>0, <1>14, <1>l, <2>5, <2>6, <2>7 DEF WorkerDies
<1>15. CASE Clock
    <2>1. Queues
        BY <1>0, <1>15, QueueTyped, TaskKinds DEF Clock
    <2> QED BY <1>0, <1>15, <2>1 DEF Clock
<1>16. \A u \in Users : <<>> \in Seq(Rules) /\ \A c \in Crons : <<Rule(u, c)>> \in Seq(Rules)
    <2>1. \A u \in Users, c \in Crons : Rule(u, c) \in Rules
        BY DEF Rule, Rules
    <2> QED BY <2>1
<1> HIDE DEF ScheduleTypeOK
<1> QED BY <1>1, <1>2, <1>3, <1>4, <1>5, <1>6, <1>7, <1>8, <1>9, <1>10, <1>11, <1>12, <1>13,
           <1>14, <1>15, <1>16 DEF ScheduleNext, BagToSet

-----------------------------------------------------------------------------
(* What the steps do to the runs, to the triggers and to the flow. *)

\* The same run, whether or not it has started.
SameRun(a, b) ==
    /\ a.source = b.source /\ a.rule = b.rule /\ a.owner = b.owner /\ a.slot = b.slot
    /\ a.at = b.at /\ a.seen = b.seen

KeepsRuns ==
    \A i \in DOMAIN rows : i \in DOMAIN rows' /\ SameRun(rows'[i], rows[i])
NoNewRun == KeepsRuns /\ DOMAIN rows' = DOMAIN rows
NewRun == KeepsRuns /\ CanCreate /\ DOMAIN rows' = DOMAIN rows \cup {Len(rows) + 1}
AddsManual == NewRun /\ rows'[Len(rows) + 1].source = "manual"
AddsRun(t) ==
    /\ NewRun
    /\ rows'[Len(rows) + 1] = Row("schedule", t.rule, t.owner, t.slot, t.seen)

\* The flow is as the sweeps have read it, or it changed and now is its last change.
Unchanged ==
    hist'.since = hist.since /\ flow'.rules = flow.rules /\ flow'.active = flow.active
    /\ flow'.scheduled = flow.scheduled

\* A trigger stays queued, or its run is created, or the flow takes no runs.
TriggersStay ==
    \A t \in DOMAIN queue : t.kind = "trigger" =>
        t \in DOMAIN queue' \/ AddsRun(t) \/ (~CanCreate /\ flow' = flow)

LEMMA TakenAndSent ==
    ASSUME ScheduleTypeOK
    PROVE  /\ \A w \in Workers, t \in DOMAIN queue : Taken(w, t) =>
                 /\ wk[w] = Free /\ DOMAIN queue' \subseteq DOMAIN queue
                 /\ \A x \in DOMAIN queue : x # t => x \in DOMAIN queue'
           /\ \A t : Sent(t) => DOMAIN queue' = DOMAIN queue \cup {t}
<1>1. queue \in [DOMAIN queue -> Nat]
    BY DEF ScheduleTypeOK
<1>2. ASSUME NEW w \in Workers, NEW t \in DOMAIN queue, Taken(w, t)
      PROVE  /\ wk[w] = Free /\ DOMAIN queue' \subseteq DOMAIN queue
             /\ \A x \in DOMAIN queue : x # t => x \in DOMAIN queue'
    BY <1>1, <1>2, LessIs DEF Taken
<1>3. ASSUME NEW t, Sent(t) PROVE DOMAIN queue' = DOMAIN queue \cup {t}
    <2>1. queue' = More(queue, t)
        BY <1>3 DEF Sent
    <2>2. DOMAIN More(queue, t) = DOMAIN queue \cup {t}
        BY <1>1, MoreIs
    <2> QED BY <2>1, <2>2
<1> QED BY <1>2, <1>3

\* Appending a row keeps the others.
LEMMA AppendsRow ==
    ASSUME ScheduleTypeOK, NEW r, CanCreate, rows' = Append(rows, r)
    PROVE  NewRun /\ rows'[Len(rows) + 1] = r
<1>1. rows \in Seq(FlowRuns) /\ DOMAIN rows = 1..Len(rows) /\ Len(rows) \in Nat
    BY RowsTyped DEF ScheduleTypeOK
<1>2. /\ DOMAIN Append(rows, r) = 1..(Len(rows) + 1)
      /\ \A i \in 1..Len(rows) : Append(rows, r)[i] = rows[i]
      /\ Append(rows, r)[Len(rows) + 1] = r
    BY <1>1
<1>3. 1..(Len(rows) + 1) = 1..Len(rows) \cup {Len(rows) + 1}
    BY <1>1
<1> QED BY <1>1, <1>2, <1>3 DEF NewRun, KeepsRuns, SameRun

LEMMA RowsUnchanged ==
    ASSUME rows' = rows
    PROVE  NoNewRun
BY DEF NoNewRun, KeepsRuns, SameRun

\* The steps that neither sweep a rule nor change the flow.
LEMMA QuietSteps ==
    ASSUME ScheduleTypeOK, ScheduleNext, ~(\E w \in Workers : SweepRule(w)), ~Delete
    PROVE  /\ flow'.st = flow.st /\ now' \in {now, now + 1}
           /\ AtLarge' \subseteq AtLarge
           /\ NoNewRun \/ AddsManual \/ \E t \in AtLarge : AddsRun(t)
           /\ hist'.swept = hist.swept
           /\ Unchanged \/ (hist'.since = now /\ now' = now /\ wk' = wk)
           /\ TriggersStay
<1> DEFINE Quiet ==
           /\ flow'.st = flow.st /\ now' \in {now, now + 1}
           /\ AtLarge' \subseteq AtLarge
           /\ NoNewRun \/ AddsManual \/ \E t \in AtLarge : AddsRun(t)
           /\ hist'.swept = hist.swept
           /\ Unchanged \/ (hist'.since = now /\ now' = now /\ wk' = wk)
           /\ TriggersStay
<1>0. /\ hist \in [saved : [Users -> Seq(Rules)], since : Nat, swept : Nat, stale : BOOLEAN,
                   orphans : SUBSET Nat]
      /\ flow \in [st : {"there", "deleted"}, active : BOOLEAN, scheduled : BOOLEAN,
                   rules : Seq(Rules)]
      /\ DOMAIN queue \subseteq Tasks /\ wk \in [Workers -> {Free} \cup Sweeps \cup Creations]
    BY DEF ScheduleTypeOK
<1>a. ASSUME UNCHANGED <<queue, wk>> PROVE AtLarge' = AtLarge /\ TriggersStay
    BY <1>a DEF AtLarge, TriggersStay
<1>b. ASSUME NEW t \in Tasks, t.kind # "trigger", Sent(t), wk' = wk PROVE AtLarge' = AtLarge /\ TriggersStay
    <2>1. DOMAIN queue' = DOMAIN queue \cup {t}
        BY <1>b, TakenAndSent
    <2> QED BY <1>b, <2>1 DEF AtLarge, TriggersStay
<1>c. ASSUME flow' = flow, hist' = hist PROVE Unchanged /\ flow'.st = flow.st /\ hist'.swept = hist.swept
    BY <1>c DEF Unchanged
<1>1. ASSUME NEW u \in Users, NEW mine, NEW scheduled, UpdateReads(u, mine, scheduled)
      PROVE  Quiet
    BY <1>1, <1>a, <1>c, RowsUnchanged DEF UpdateReads
<1>2. ASSUME NEW u \in Users, UpdateCommits(u) PROVE Quiet
    <2>1. UNCHANGED <<now, queue, wk, rows>>
        BY <1>2 DEF UpdateCommits
    <2>2. flow'.st = flow.st /\ hist'.swept = hist.swept /\ (Unchanged \/ hist'.since = now)
        <3>1. CASE flow.st = "there"
            <4>1. flow' = [flow EXCEPT !.rules = Merged(put[u].read, put[u].mine, u),
                                       !.scheduled = put[u].scheduled]
                BY <1>2, <3>1 DEF UpdateCommits
            <4>2. hist' = [hist EXCEPT !.saved[u] = put[u].mine, !.since = now,
                                       !.stale = @ \/ put[u].read # flow.rules]
                BY <1>2, <3>1 DEF UpdateCommits
            <4>3. flow'.st = flow.st
                BY <1>0, <4>1
            <4>4. hist'.since = now /\ hist'.swept = hist.swept
                BY <1>0, <4>2
            <4> QED BY <4>3, <4>4
        <3>2. CASE flow.st # "there"
            BY <1>2, <3>2, <1>c DEF UpdateCommits
        <3> QED BY <3>1, <3>2
    <2> QED BY <2>1, <2>2, <1>a, RowsUnchanged
<1>3. CASE SetActive
    <2>1. flow'.st = flow.st /\ hist'.swept = hist.swept /\ hist'.since = now
        BY <1>0, <1>3 DEF SetActive
    <2>2. UNCHANGED <<now, queue, wk, rows>>
        BY <1>3 DEF SetActive
    <2> QED BY <2>1, <2>2, <1>a, RowsUnchanged
<1>4. CASE Trigger
    <2>1. NewRun /\ rows'[Len(rows) + 1] = Row("manual", 0, NoUser, 0, 0)
        BY <1>4, AppendsRow DEF Trigger
    <2>2. AddsManual
        BY <2>1 DEF AddsManual, Row
    <2> QED BY <1>4, <1>a, <1>c, <2>2 DEF Trigger
<1>5. CASE TriggerQueues
    <2>1. ManualTask(api) \in Tasks /\ ManualTask(api).kind = "run"
        BY TaskKinds DEF ManualTask, RunTask, RunTasks, ScheduleTypeOK
    <2> QED BY <1>5, <1>b, <1>c, <2>1, RowsUnchanged DEF TriggerQueues
<1>6. CASE ApiDies
    <2>1. hist'.since = hist.since /\ hist'.swept = hist.swept
        BY <1>0, <1>6 DEF ApiDies
    <2> QED BY <1>6, <1>a, <2>1, RowsUnchanged DEF ApiDies, Unchanged
<1>7. ASSUME NEW w \in Workers, NEW t \in DOMAIN queue, SweepBegins(w, t) PROVE Quiet
    <2>1. /\ DOMAIN queue' \subseteq DOMAIN queue /\ wk[w] = Free
          /\ \A x \in DOMAIN queue : x # t => x \in DOMAIN queue'
        BY <1>7, TakenAndSent DEF SweepBegins
    <2>2. TriggersStay
        BY <1>7, <2>1 DEF TriggersStay, SweepBegins
    <2>3. \A v \in Workers : wk'[v] = wk[v] \/ wk'[v].kind # "created"
        <3>1. wk'[w].kind \in {"sweep", "free"}
            BY <1>0, <1>7, TaskKinds DEF SweepBegins
        <3> QED BY <1>0, <1>7, <3>1 DEF SweepBegins
    <2>4. AtLarge' \subseteq AtLarge
        BY <2>1, <2>3 DEF AtLarge
    <2> QED BY <1>7, <1>c, <2>2, <2>4, RowsUnchanged DEF SweepBegins
<1>8. ASSUME NEW w \in Workers, NEW t \in DOMAIN queue, CreateScheduled(w, t) PROVE Quiet
    <2>1. /\ DOMAIN queue' \subseteq DOMAIN queue
          /\ \A x \in DOMAIN queue : x # t => x \in DOMAIN queue'
        BY <1>8, TakenAndSent DEF CreateScheduled
    <2>2. t \in AtLarge
        BY <1>8 DEF AtLarge, CreateScheduled
    <2>3. CASE CanCreate
        <3>1. AddsRun(t)
            BY <1>8, <2>3, AppendsRow DEF AddsRun, CreateScheduled
        <3>2. \A v \in Workers : wk'[v] = wk[v] \/ wk'[v].task = t
            BY <1>0, <1>8, <2>3 DEF CreateScheduled
        <3>3. AtLarge' \subseteq AtLarge
            BY <2>1, <2>2, <3>2 DEF AtLarge
        <3>4. TriggersStay
            BY <2>1, <3>1 DEF TriggersStay
        <3> QED BY <1>8, <1>c, <2>2, <3>1, <3>3, <3>4 DEF CreateScheduled
    <2>4. CASE ~CanCreate
        <3>1. wk' = wk /\ rows' = rows /\ flow' = flow /\ hist' = hist /\ now' = now
            BY <1>8, <2>4 DEF CreateScheduled
        <3>2. AtLarge' \subseteq AtLarge
            BY <2>1, <3>1 DEF AtLarge
        <3>3. TriggersStay
            BY <2>4, <3>1 DEF TriggersStay
        <3> QED BY <1>c, <3>1, <3>2, <3>3, RowsUnchanged
    <2> QED BY <2>3, <2>4
<1>9. ASSUME NEW w \in Workers, NEW t \in DOMAIN queue, RunFlow(w, t) PROVE Quiet
    <2>1. /\ DOMAIN queue' \subseteq DOMAIN queue
          /\ \A x \in DOMAIN queue : x # t => x \in DOMAIN queue'
        BY <1>9, TakenAndSent DEF RunFlow
    <2>2. AtLarge' \subseteq AtLarge /\ TriggersStay
        BY <1>9, <2>1 DEF AtLarge, TriggersStay, RunFlow
    <2>3. \A x \in FlowRuns : SameRun([x EXCEPT !.st = "started"], x)
        BY DEF FlowRuns, SameRun
    <2>4. NoNewRun
        BY <1>9, <2>3, RowsTyped DEF NoNewRun, KeepsRuns, SameRun, RunFlow
    <2> QED BY <1>9, <1>c, <2>2, <2>4 DEF RunFlow
<1>10. ASSUME NEW w \in Workers, QueueScheduled(w) PROVE Quiet
    <2>1. DOMAIN queue' = DOMAIN queue \cup {RunTask(wk[w].row)}
        BY <1>10, TakenAndSent DEF QueueScheduled
    <2>2. RunTask(wk[w].row).kind = "run"
        BY DEF RunTask
    <2>3. \A v \in Workers : wk'[v] = wk[v] \/ wk'[v].kind # "created"
        BY <1>0, <1>10, TaskKinds DEF QueueScheduled
    <2>4. AtLarge' \subseteq AtLarge /\ TriggersStay
        BY <2>1, <2>2, <2>3 DEF AtLarge, TriggersStay
    <2> QED BY <1>10, <1>c, <2>4, RowsUnchanged DEF QueueScheduled
<1>11. ASSUME NEW w \in Workers, WorkerDies(w) PROVE Quiet
    <2> DEFINE task == IF wk[w].kind = "sweep" THEN [kind |-> "tick"] ELSE wk[w].task
    <2>1. Sent(task)
        BY <1>11 DEF WorkerDies
    <2>2. task.kind = "trigger" => task \in AtLarge
        <3>1. wk[w].kind # "sweep" => wk[w].kind = "created"
            BY <1>11, WorkerKinds, TaskKinds DEF WorkerDies
        <3> QED BY <3>1 DEF AtLarge
    <2> HIDE DEF task
    <2>3. DOMAIN queue' = DOMAIN queue \cup {task}
        BY <2>1, TakenAndSent
    <2>4. \A v \in Workers : wk'[v] = wk[v] \/ wk'[v].kind # "created"
        BY <1>0, <1>11, TaskKinds DEF WorkerDies
    <2>5. AtLarge' \subseteq AtLarge /\ TriggersStay
        BY <2>2, <2>3, <2>4 DEF AtLarge, TriggersStay
    <2>6. hist'.since = hist.since /\ hist'.swept = hist.swept
        BY <1>0, <1>11 DEF WorkerDies
    <2> QED BY <1>11, <2>5, <2>6, RowsUnchanged DEF WorkerDies, Unchanged
<1>12. CASE Clock
    <2>1. CASE queue' = queue
        BY <1>12, <1>a, <1>c, <2>1, RowsUnchanged DEF Clock
    <2>2. CASE Sent([kind |-> "tick"])
        <3>1. [kind |-> "tick"] \in Tasks /\ [kind |-> "tick"].kind # "trigger"
            BY TaskKinds
        <3> QED BY <1>12, <1>b, <1>c, <2>2, <3>1, RowsUnchanged DEF Clock
    <2> QED BY <1>12, <2>1, <2>2 DEF Clock
<1> QED BY <1>1, <1>2, <1>3, <1>4, <1>5, <1>6, <1>7, <1>8, <1>9, <1>10, <1>11, <1>12
        DEF ScheduleNext, BagToSet

\* A sweep of one rule, by what it reads and writes.
LEMMA SweepIs ==
    ASSUME ScheduleTypeOK, SweepInv, SlotInv, NEW w \in Workers, SweepRule(w)
    PROVE  LET s == wk[w]
               base == IF LastFire(s.i) # {} THEN Max(LastFire(s.i)) ELSE s.t - 1
               next == NextFire(s.rules[s.i].cron, base)
               due == s.rules[s.i].owner # NoUser /\ Due(next, s.t)
               task == [kind |-> "trigger", rule |-> s.i, owner |-> s.rules[s.i].owner,
                        slot |-> Min(next), seen |-> Len(rows)]
           IN  /\ DOMAIN queue' = DOMAIN queue \cup (IF due THEN {task} ELSE {})
               /\ \A v \in Workers \ {w} : wk'[v] = wk[v]
               /\ IF s.i = Len(s.rules) THEN wk'[w] = Free
                    ELSE /\ wk'[w].kind = "sweep" /\ wk'[w].t = s.t /\ wk'[w].i = s.i + 1
                         /\ wk'[w].rules = s.rules /\ wk'[w].since = s.since
               /\ hist'.since = hist.since
               /\ hist'.swept = hist.swept
                  \/ (hist'.swept = s.t /\ s.i = Len(s.rules) /\ s.since = hist.since)
               /\ UNCHANGED <<now, flow, put, rows, api>>
               /\ hist'.saved = hist.saved /\ hist'.stale = hist.stale /\ hist'.orphans = hist.orphans
<1> DEFINE s == wk[w]
           base == IF LastFire(s.i) # {} THEN Max(LastFire(s.i)) ELSE s.t - 1
           next == NextFire(s.rules[s.i].cron, base)
           due == s.rules[s.i].owner # NoUser /\ Due(next, s.t)
           task == [kind |-> "trigger", rule |-> s.i, owner |-> s.rules[s.i].owner,
                    slot |-> Min(next), seen |-> Len(rows)]
<1>1. /\ IF due THEN Sent(task) ELSE UNCHANGED queue
      /\ wk' = [wk EXCEPT ![w] = IF s.i = Len(s.rules) THEN Free ELSE [s EXCEPT !.i = @ + 1]]
      /\ hist' = IF s.i = Len(s.rules) /\ s.since = hist.since
                   THEN [hist EXCEPT !.swept = Max({@, s.t})] ELSE hist
      /\ UNCHANGED <<now, flow, put, rows, api>>
    BY DEF SweepRule
<1>2. s \in Sweeps /\ s.t \in Nat
    BY SweepTyped
<1>3. /\ hist \in [saved : [Users -> Seq(Rules)], since : Nat, swept : Nat, stale : BOOLEAN,
                   orphans : SUBSET Nat]
      /\ wk \in [Workers -> {Free} \cup Sweeps \cup Creations]
      /\ hist.swept \in Nat
    BY DEF ScheduleTypeOK
<1> HIDE DEF s, due, task
<1>4. DOMAIN queue' = DOMAIN queue \cup (IF due THEN {task} ELSE {})
    BY <1>1, TakenAndSent
<1>5. \A v \in Workers \ {w} : wk'[v] = wk[v]
    BY <1>1, <1>3
<1>6. IF s.i = Len(s.rules) THEN wk'[w] = Free
        ELSE /\ wk'[w].kind = "sweep" /\ wk'[w].t = s.t /\ wk'[w].i = s.i + 1
             /\ wk'[w].rules = s.rules /\ wk'[w].since = s.since
    <2>1. wk'[w] = IF s.i = Len(s.rules) THEN Free ELSE [s EXCEPT !.i = @ + 1]
        BY <1>1, <1>3
    <2>2. LET x == [s EXCEPT !.i = @ + 1]
          IN  x.kind = "sweep" /\ x.t = s.t /\ x.i = s.i + 1 /\ x.rules = s.rules /\ x.since = s.since
        BY <1>2 DEF Sweeps
    <2> QED BY <2>1, <2>2
<1>7. hist' = hist \/ (hist' = [hist EXCEPT !.swept = Max({@, s.t})]
                       /\ s.i = Len(s.rules) /\ s.since = hist.since)
    BY <1>1
<1>8. Max({hist.swept, s.t}) \in {hist.swept, s.t}
    BY <1>2, <1>3, MaxOfTwo
<1>9. /\ hist'.since = hist.since
      /\ hist'.saved = hist.saved /\ hist'.stale = hist.stale /\ hist'.orphans = hist.orphans
      /\ hist'.swept = hist.swept
         \/ (hist'.swept = s.t /\ s.i = Len(s.rules) /\ s.since = hist.since)
    <2>1. CASE hist' = hist
        BY <2>1
    <2>2. CASE /\ hist' = [hist EXCEPT !.swept = Max({@, s.t})]
               /\ s.i = Len(s.rules) /\ s.since = hist.since
        <3>1. /\ hist'.since = hist.since /\ hist'.swept = Max({hist.swept, s.t})
              /\ hist'.saved = hist.saved /\ hist'.stale = hist.stale /\ hist'.orphans = hist.orphans
            BY <1>3, <2>2
        <3> QED BY <1>8, <2>2, <3>1
    <2> QED BY <1>7, <2>1, <2>2
<1> QED BY <1>1, <1>4, <1>5, <1>6, <1>9 DEF s, due, task

LEMMA DeleteIs ==
    ASSUME ScheduleTypeOK, Delete
    PROVE  /\ flow'.st = "deleted" /\ flow'.rules = flow.rules /\ rows' = <<>>
           /\ UNCHANGED <<now, queue, wk, put, api, hist>>
BY DEF Delete, ScheduleTypeOK

-----------------------------------------------------------------------------
(* One run for a slot. *)

\* The rows a dispatch has looked at stay as they were.
LEMMA AfterKept ==
    ASSUME ScheduleTypeOK, KeepsRuns, NEW rule, NEW slot, NEW seen, After(rule, slot, seen),
           \A i \in Scheduled' : i \in Scheduled \/ ~(i <= seen)
    PROVE  After(rule, slot, seen)'
<1> SUFFICES ASSUME NEW i \in Scheduled', i <= seen, rule \in {1, rows'[i].rule}
             PROVE  rows'[i].at < slot
    BY DEF After
<1>1. i \in Scheduled /\ SameRun(rows'[i], rows[i])
    BY DEF KeepsRuns, Scheduled
<1> QED BY <1>1 DEF After, SameRun

\* The triggers at large are typed, and so is the number of runs a quiet step leaves.
LEMMA AtLargeTyped ==
    ASSUME ScheduleTypeOK
    PROVE  \A t \in AtLarge : t \in Triggers /\ t.slot \in Nat /\ t.seen \in Nat /\ t.rule \in Nat
<1>1. \A w \in Workers : wk[w].kind = "created" => wk[w].task \in Triggers
    BY WorkerKinds DEF Creations
<1>2. \A t \in DOMAIN queue : t.kind = "trigger" => t \in Triggers
    BY TaskKinds DEF ScheduleTypeOK
<1>3. \A t \in AtLarge : t \in Triggers
    BY <1>1, <1>2 DEF AtLarge
<1> QED BY <1>3 DEF Triggers

LEMMA RunCounts ==
    ASSUME ScheduleTypeOK, ScheduleTypeOK'
    PROVE  /\ NoNewRun => Len(rows') = Len(rows)
           /\ NewRun => Len(rows') = Len(rows) + 1
<1>1. DOMAIN rows = 1..Len(rows) /\ Len(rows) \in Nat
    BY RowsTyped
<1>2. DOMAIN rows' = 1..Len(rows') /\ Len(rows') \in Nat
    BY DEF ScheduleTypeOK
<1>3. 1..(Len(rows) + 1) = 1..Len(rows) \cup {Len(rows) + 1}
    BY <1>1
<1>4. ASSUME NEW m \in Nat, NEW n \in Nat, 1..m = 1..n PROVE m = n
    BY <1>4
<1>5. NoNewRun => 1..Len(rows') = 1..Len(rows)
    BY <1>1, <1>2 DEF NoNewRun
<1>6. NewRun => 1..Len(rows') = 1..(Len(rows) + 1)
    BY <1>1, <1>2, <1>3 DEF NewRun
<1>7. Len(rows) + 1 \in Nat
    BY <1>1
<1> QED BY <1>1, <1>2, <1>4, <1>5, <1>6, <1>7

LEMMA SlotStep ==
    ASSUME ScheduleTypeOK, SweepInv, SlotInv, ScheduleNext, ScheduleTypeOK'
    PROVE  SlotInv'
<1>0. /\ now \in Nat /\ DOMAIN rows = 1..Len(rows) /\ Len(rows) \in Nat
    BY RowsTyped DEF ScheduleTypeOK
<1>1. CASE Delete
    <2>1. Scheduled' = {} /\ rows' = <<>> /\ flow'.st = "deleted" /\ now' = now
        BY <1>1, DeleteIs DEF Scheduled
    <2>2. AtLarge' = AtLarge
        BY <1>1, DeleteIs DEF AtLarge
    <2> QED BY <2>1, <2>2 DEF SlotInv, After
<1>2. ASSUME NEW w \in Workers, SweepRule(w) PROVE SlotInv'
    <2> DEFINE s == wk[w]
               base == IF LastFire(s.i) # {} THEN Max(LastFire(s.i)) ELSE s.t - 1
               next == NextFire(s.rules[s.i].cron, base)
               due == s.rules[s.i].owner # NoUser /\ Due(next, s.t)
               task == [kind |-> "trigger", rule |-> s.i, owner |-> s.rules[s.i].owner,
                        slot |-> Min(next), seen |-> Len(rows)]
    <2>1. /\ DOMAIN queue' = DOMAIN queue \cup (IF due THEN {task} ELSE {})
          /\ \A v \in Workers \ {w} : wk'[v] = wk[v]
          /\ wk'[w] = Free \/ wk'[w].kind = "sweep"
          /\ UNCHANGED <<now, flow, rows>>
        BY <1>2, SweepIs
    <2>2. /\ s.t <= now /\ s.t \in Nat
          /\ LastFire(s.i) # {} => base \in Nat /\ \A y \in LastFire(s.i) : base >= y
          /\ base \in Int /\ next \subseteq Nat
          /\ next # {} => Min(next) \in next
        BY <1>2, SweepTyped
    <2>3. ASSUME due
          PROVE  Min(next) <= now /\ After(s.i, Min(next), Len(rows))
        <3>1. Min(next) \in next /\ Min(next) <= s.t
            BY <2>2, <2>3 DEF Due
        <3>2. Min(next) \in Nat /\ Min(next) > base
            BY <2>2, <3>1 DEF NextFire
        <3>3. ASSUME NEW i \in Scheduled, s.i \in {1, rows[i].rule} PROVE rows[i].at < Min(next)
            <4>1. rows[i].at \in LastFire(s.i)
                BY <3>3 DEF LastFire
            <4>2. rows[i].at \in Nat /\ base \in Nat /\ base >= rows[i].at
                BY <2>2, <4>1, RowsTyped DEF Scheduled
            <4> HIDE DEF base, next
            <4> QED BY <3>2, <4>2
        <3>4. Min(next) <= now
            <4> HIDE DEF next
            <4> QED BY <1>0, <2>2, <3>1, <3>2
        <3> HIDE DEF next
        <3> QED BY <3>3, <3>4 DEF After
    <2> HIDE DEF base, next
    <2>4. due => /\ task.slot = Min(next) /\ task.seen = Len(rows) /\ task.rule = s.i
        OBVIOUS
    <2>5. Free.kind # "created"
        BY TaskKinds
    <2>6. \A t \in AtLarge' : t \in AtLarge \/ (due /\ t = task)
        BY <2>1, <2>5 DEF AtLarge
    <2>7. Scheduled' = Scheduled /\ rows' = rows /\ flow' = flow /\ now' = now
        BY <2>1 DEF Scheduled
    <2>8. \A x, y, z : After(x, y, z)' <=> After(x, y, z)
        BY <2>7 DEF After
    <2> HIDE DEF task, due
    <2>9. Len(rows) <= Len(rows)
        BY <1>0
    <2> QED BY <2>3, <2>4, <2>6, <2>7, <2>8, <2>9 DEF SlotInv
<1>3. ASSUME ~Delete, ~(\E w \in Workers : SweepRule(w)) PROVE SlotInv'
    <2>1. /\ flow'.st = flow.st /\ now' \in {now, now + 1}
          /\ AtLarge' \subseteq AtLarge
          /\ NoNewRun \/ AddsManual \/ \E t \in AtLarge : AddsRun(t)
        BY <1>3, QuietSteps
    <2>2. now <= now' /\ now' \in Nat
        BY <1>0, <2>1
    <2>3. KeepsRuns /\ (NoNewRun \/ NewRun)
        BY <2>1 DEF NoNewRun, AddsManual, AddsRun, NewRun
    <2>4. Len(rows') \in Nat /\ Len(rows) <= Len(rows')
        BY <1>0, <2>3, RunCounts
    <2>5. flow'.st = "deleted" => rows' = <<>>
        <3>1. ASSUME flow'.st = "deleted" PROVE Len(rows') = 0
            <4>1. rows = <<>> /\ ~CanCreate
                BY <2>1, <3>1 DEF SlotInv, CanCreate
            <4> QED BY <2>3, <4>1, RunCounts DEF NewRun
        <3>2. rows' \in Seq(FlowRuns)
            BY DEF ScheduleTypeOK
        <3> QED BY <3>1, <3>2
    <2>6. \A t \in AtLarge : /\ t.slot \in Nat /\ t.seen \in Nat /\ t.slot <= now
                             /\ (flow.st = "there" => t.seen <= Len(rows))
                             /\ After(t.rule, t.slot, t.seen)
        BY AtLargeTyped DEF SlotInv
    <2>7. \A t \in AtLarge' : t.slot <= now' /\ (flow'.st = "there" => t.seen <= Len(rows'))
        <3>1. ASSUME NEW t \in AtLarge'
              PROVE  t.slot <= now' /\ (flow'.st = "there" => t.seen <= Len(rows'))
            <4>1. /\ t.slot \in Nat /\ t.seen \in Nat /\ t.slot <= now
                  /\ (flow'.st = "there" => t.seen <= Len(rows))
                BY <2>1, <2>6
            <4> QED BY <1>0, <2>2, <2>4, <4>1
        <3> QED BY <3>1
    <2>8. \A j \in Scheduled : /\ j \in Nat /\ j <= Len(rows) /\ rows[j].slot <= rows[j].at
                              /\ rows[j].at <= now /\ rows[j].at \in Nat
                              /\ rows[j].seen < j /\ rows[j].seen \in Nat
                              /\ After(rows[j].rule, rows[j].slot, rows[j].seen)
        BY <1>0, RowsTyped DEF SlotInv, Scheduled
    <2> DEFINE Kept(x, y, z) ==
                   \A i \in Scheduled' : i <= z /\ x \in {1, rows'[i].rule} => rows'[i].at < y
               Fit(j) == /\ rows'[j].slot <= rows'[j].at /\ rows'[j].at <= now'
                         /\ rows'[j].seen < j
                         /\ Kept(rows'[j].rule, rows'[j].slot, rows'[j].seen)
    <2>k. \A x, y, z : After(x, y, z)' <=> Kept(x, y, z)
        BY DEF After
    <2>f. ASSUME \A j \in Scheduled' : Fit(j), \A t \in AtLarge' : Kept(t.rule, t.slot, t.seen)
          PROVE  SlotInv'
        BY <2>5, <2>7, <2>f DEF SlotInv, After
    <2> HIDE DEF Kept
    <2>9. ASSUME NEW j \in Scheduled, Kept(rows[j].rule, rows[j].slot, rows[j].seen)
          PROVE  Fit(j)
        <3>1. SameRun(rows'[j], rows[j])
            BY <2>3 DEF KeepsRuns, Scheduled
        <3>2. /\ rows'[j].rule = rows[j].rule /\ rows'[j].slot = rows[j].slot
              /\ rows'[j].at = rows[j].at /\ rows'[j].seen = rows[j].seen
            BY <3>1 DEF SameRun
        <3>3. rows[j].at <= now'
            BY <1>0, <2>2, <2>8
        <3> QED BY <2>8, <2>9, <3>2, <3>3
    <2>10. ASSUME \A x, y, z : After(x, y, z) => Kept(x, y, z), Scheduled' = Scheduled
           PROVE  SlotInv'
        <3>1. \A j \in Scheduled' : Fit(j)
            BY <2>8, <2>9, <2>10
        <3>2. \A t \in AtLarge' : Kept(t.rule, t.slot, t.seen)
            BY <2>1, <2>6, <2>10
        <3> HIDE DEF Fit
        <3> QED BY <2>f, <3>1, <3>2
    <2>11. CASE NoNewRun \/ AddsManual
        <3>1. Scheduled' = Scheduled
            BY <2>3, <2>11 DEF NoNewRun, AddsManual, NewRun, KeepsRuns, SameRun, Scheduled
        <3>2. \A x, y, z : After(x, y, z) => Kept(x, y, z)
            BY <2>3, <2>k, <3>1, AfterKept
        <3> QED BY <2>10, <3>1, <3>2
    <2>12. ASSUME NEW x \in AtLarge, AddsRun(x) PROVE SlotInv'
        <3> DEFINE n == Len(rows) + 1
        <3>1. /\ DOMAIN rows' = DOMAIN rows \cup {n} /\ flow.st = "there"
              /\ rows'[n] = Row("schedule", x.rule, x.owner, x.slot, x.seen)
            BY <2>12 DEF AddsRun, NewRun, CanCreate
        <3>2. /\ rows'[n].source = "schedule" /\ rows'[n].rule = x.rule /\ rows'[n].slot = x.slot
              /\ rows'[n].at = now /\ rows'[n].seen = x.seen
            BY <3>1 DEF Row
        <3>3. Scheduled' = Scheduled \cup {n}
            BY <2>3, <3>1, <3>2 DEF Scheduled, KeepsRuns, SameRun
        <3>4. n \in Nat
            BY <1>0
        <3> HIDE DEF n
        <3>5. ASSUME NEW rule, NEW slot, NEW seen \in Nat, seen < n, After(rule, slot, seen)
              PROVE  Kept(rule, slot, seen)
            <4>1. ~(n <= seen)
                BY <3>4, <3>5
            <4> QED BY <2>3, <2>k, <3>3, <3>5, <4>1, AfterKept
        <3>6. \A t \in AtLarge : t.seen < n /\ Kept(t.rule, t.slot, t.seen)
            <4>1. ASSUME NEW t \in AtLarge PROVE t.seen < n /\ Kept(t.rule, t.slot, t.seen)
                <5>1. t.seen \in Nat /\ t.seen <= Len(rows) /\ After(t.rule, t.slot, t.seen)
                    BY <2>6, <3>1
                <5>2. t.seen < n
                    BY <1>0, <5>1 DEF n
                <5> QED BY <3>5, <5>1, <5>2
            <4> QED BY <4>1
        <3>7. ASSUME NEW j \in Scheduled PROVE Fit(j)
            <4>1. /\ j \in Nat /\ j <= Len(rows) /\ rows[j].seen < j /\ rows[j].seen \in Nat
                  /\ After(rows[j].rule, rows[j].slot, rows[j].seen)
                BY <2>8
            <4>2. rows[j].seen < n
                BY <1>0, <4>1 DEF n
            <4> QED BY <2>9, <3>5, <4>1, <4>2
        <3>8. Fit(n)
            <4>1. x.slot <= now /\ now <= now' /\ x.seen < n /\ Kept(x.rule, x.slot, x.seen)
                BY <2>2, <2>6, <3>6
            <4> QED BY <3>2, <4>1
        <3>9. \A j \in Scheduled' : Fit(j)
            BY <3>3, <3>7, <3>8
        <3>10. \A t \in AtLarge' : Kept(t.rule, t.slot, t.seen)
            BY <2>1, <3>6
        <3> HIDE DEF Fit
        <3> QED BY <2>f, <3>9, <3>10
    <2> QED BY <2>1, <2>11, <2>12
<1> QED BY <1>1, <1>2, <1>3

-----------------------------------------------------------------------------
(* No slot is forgotten. *)

\* A slot is answered by a run or by a queued trigger: a worker is in neither.
LEMMA AnsweredIs ==
    ASSUME ScheduleTypeOK, NEW k, NEW s, NEW R
    PROVE  Answered(k, s, R) <=>
              \/ \E j \in Scheduled : rows[j].rule \in R /\ rows[j].at >= s
              \/ \E t \in DOMAIN queue : t.kind = "trigger" /\ t.rule = k
<1>1. \A w \in Workers : wk[w].kind # "trigger"
    BY WorkerKinds
<1> QED BY <1>1 DEF Answered, Outstanding, BagToSet

\* A slot that was answered stays so, and no earlier one appears.
LEMMA CaughtStep ==
    ASSUME ScheduleTypeOK, ScheduleTypeOK', SweepInv, SlotInv, ScheduleNext,
           NEW t \in Nat, t <= now, NEW k \in DOMAIN flow'.rules, Caught(k, t)
    PROVE  Caught(k, t)'
<1> DEFINE R == IF k = 1 THEN Nat ELSE {k}
           ByRun(s) == \E j \in Scheduled : rows[j].rule \in R /\ rows[j].at >= s
           ByTrigger == \E x \in DOMAIN queue : x.kind = "trigger" /\ x.rule = k
           ByRunNext(s) == \E j \in Scheduled' : rows'[j].rule \in R /\ rows'[j].at >= s
           ByTriggerNext == \E x \in DOMAIN queue' : x.kind = "trigger" /\ x.rule = k
<1>a. ASSUME NEW s, ByRunNext(s) \/ ByTriggerNext PROVE Answered(k, s, R)'
    <2>1. \A w \in Workers : wk'[w].kind # "trigger"
        <3>1. \A w \in Workers : wk'[w] \in {Free} \cup Sweeps \cup Creations
            BY DEF ScheduleTypeOK
        <3> QED BY <3>1, TaskKinds
    <2> QED BY <1>a, <2>1 DEF Answered, Outstanding, BagToSet
<1>b. ASSUME NEW s, Answered(k, s, R) PROVE ByRun(s) \/ ByTrigger
    BY <1>b, AnsweredIs
<1>0. flow'.rules \in Seq(Rules) /\ now \in Nat /\ hist'.since \in Nat
    BY DEF ScheduleTypeOK
<1>c. k \in Nat /\ flow'.rules[k].cron \in Crons
    <2>1. flow'.rules[k] \in Rules /\ k \in Nat
        BY <1>0
    <2> QED BY <2>1 DEF Rules
<1>d. \A s \in Fires[flow'.rules[k].cron] : s \in Nat
    BY <1>c, SchedulesAssumption
<1> SUFFICES ASSUME flow'.st = "there", flow'.active, flow'.scheduled, flow'.rules[k].owner # NoUser,
                    NEW s \in Fires[flow'.rules[k].cron], hist'.since < s, s <= t,
                    \E j \in Scheduled' : rows'[j].rule = k /\ rows'[j].at < s
             PROVE  ByRunNext(s) \/ ByTriggerNext
    <2> HIDE DEF ByRunNext, ByTriggerNext
    <2> QED BY <1>a DEF Caught
<1>e. s \in Nat /\ s <= now
    BY <1>0, <1>d
<1>f. ASSUME flow.st = "there", flow.active, flow.scheduled, flow.rules = flow'.rules,
             hist.since = hist'.since, \E j \in Scheduled : rows[j].rule = k /\ rows[j].at < s
      PROVE  ByRun(s) \/ ByTrigger
    <2> HIDE DEF ByRun, ByTrigger
    <2> QED BY <1>b, <1>f DEF Caught
<1>1. CASE Delete
    <2>1. flow'.st = "deleted"
        BY <1>1, DeleteIs
    <2> QED BY <2>1
<1>2. ASSUME NEW w \in Workers, SweepRule(w) PROVE ByRunNext(s) \/ ByTriggerNext
    <2>1. /\ flow' = flow /\ rows' = rows /\ hist'.since = hist.since
          /\ DOMAIN queue \subseteq DOMAIN queue'
        BY <1>2, SweepIs
    <2>2. Scheduled' = Scheduled
        BY <2>1 DEF Scheduled
    <2>3. ByRun(s) \/ ByTrigger
        BY <1>f, <2>1, <2>2
    <2> QED BY <2>1, <2>2, <2>3
<1>3. ASSUME ~Delete, ~(\E w \in Workers : SweepRule(w)) PROVE ByRunNext(s) \/ ByTriggerNext
    <2>1. /\ flow'.st = flow.st
          /\ NoNewRun \/ AddsManual \/ \E x \in AtLarge : AddsRun(x)
          /\ Unchanged \/ hist'.since = now
          /\ TriggersStay
        BY <1>3, QuietSteps
    <2>2. Unchanged
        <3>1. hist'.since # now
            BY <1>0, <1>e
        <3> QED BY <2>1, <3>1
    <2>3. /\ hist'.since = hist.since /\ flow'.rules = flow.rules /\ flow'.active = flow.active
          /\ flow'.scheduled = flow.scheduled
        BY <2>2 DEF Unchanged
    <2>4. KeepsRuns
        BY <2>1 DEF NoNewRun, AddsManual, AddsRun, NewRun
    <2>5. ASSUME NEW x, AddsRun(x)
          PROVE  LET n == Len(rows) + 1
                 IN  /\ DOMAIN rows' = DOMAIN rows \cup {n} /\ n \in Scheduled'
                     /\ rows'[n].rule = x.rule /\ rows'[n].at = now
        BY <2>5 DEF AddsRun, NewRun, Row, Scheduled
    <2>6. \A j \in Scheduled' : rows'[j].at < s => j \in Scheduled
        <3>1. ASSUME NEW j \in Scheduled', rows'[j].at < s PROVE j \in DOMAIN rows
            <4>1. CASE NoNewRun
                BY <4>1 DEF NoNewRun, Scheduled
            <4>2. CASE AddsManual
                BY <4>2 DEF AddsManual, NewRun, Scheduled
            <4>3. ASSUME NEW x, AddsRun(x) PROVE j \in DOMAIN rows
                <5>1. ~(now < s)
                    BY <1>0, <1>e
                <5> QED BY <2>5, <3>1, <4>3, <5>1 DEF Scheduled
            <4> QED BY <2>1, <4>1, <4>2, <4>3
        <3> QED BY <2>4, <3>1 DEF KeepsRuns, SameRun, Scheduled
    <2>7. \E j \in Scheduled : rows[j].rule = k /\ rows[j].at < s
        <3>1. PICK j \in Scheduled' : rows'[j].rule = k /\ rows'[j].at < s
            OBVIOUS
        <3>2. j \in Scheduled
            BY <2>6, <3>1
        <3>3. SameRun(rows'[j], rows[j])
            BY <2>4, <3>2 DEF KeepsRuns, Scheduled
        <3> QED BY <3>1, <3>2, <3>3 DEF SameRun
    <2>8. ByRun(s) \/ ByTrigger
        BY <1>f, <2>1, <2>3, <2>7
    <2>9. CASE ByRun(s)
        <3>1. PICK j \in Scheduled : rows[j].rule \in R /\ rows[j].at >= s
            BY <2>9
        <3>2. j \in Scheduled' /\ rows'[j].rule \in R /\ rows'[j].at >= s
            BY <2>4, <3>1 DEF KeepsRuns, SameRun, Scheduled
        <3> QED BY <3>2
    <2>10. CASE ByTrigger
        <3>1. PICK x \in DOMAIN queue : x.kind = "trigger" /\ x.rule = k
            BY <2>10
        <3>2. x \in DOMAIN queue' \/ AddsRun(x) \/ (~CanCreate /\ flow' = flow)
            BY <2>1, <3>1 DEF TriggersStay
        <3>3. CASE x \in DOMAIN queue'
            BY <3>1, <3>3
        <3>4. CASE AddsRun(x)
            <4>1. now >= s
                BY <1>0, <1>e
            <4>2. k \in R
                BY <1>c
            <4> QED BY <2>5, <3>1, <3>4, <4>1, <4>2
        <3>5. CASE ~CanCreate /\ flow' = flow
            BY <3>5 DEF CanCreate
        <3> QED BY <3>2, <3>3, <3>4, <3>5
    <2> QED BY <2>8, <2>9, <2>10
<1> QED BY <1>1, <1>2, <1>3

\* The sweep answers the rule it is at.
LEMMA SweepCatches ==
    ASSUME ScheduleTypeOK, ScheduleTypeOK', SweepInv, SlotInv, NEW w \in Workers, SweepRule(w),
           wk[w].rules = flow.rules, NEW k, k = wk[w].i, NEW t, t = wk[w].t
    PROVE  Caught(k, t)'
<1> DEFINE s == wk[w]
           base == IF LastFire(s.i) # {} THEN Max(LastFire(s.i)) ELSE s.t - 1
           next == NextFire(s.rules[s.i].cron, base)
           due == s.rules[s.i].owner # NoUser /\ Due(next, s.t)
           task == [kind |-> "trigger", rule |-> s.i, owner |-> s.rules[s.i].owner,
                    slot |-> Min(next), seen |-> Len(rows)]
           R == IF k = 1 THEN Nat ELSE {k}
<1>1. /\ DOMAIN queue' = DOMAIN queue \cup (IF due THEN {task} ELSE {})
      /\ flow' = flow /\ rows' = rows
    BY SweepIs
<1>2. /\ s.t \in Nat /\ s.i \in Nat /\ s.rules[s.i] \in Rules
      /\ LastFire(s.i) # {} => base \in LastFire(s.i) /\ base \in Nat
                                        /\ \A y \in LastFire(s.i) : base >= y
      /\ next \subseteq Nat
      /\ next # {} => Min(next) \in next /\ \A y \in next : Min(next) <= y
    BY SweepTyped
<1>3. Scheduled' = Scheduled
    BY <1>1 DEF Scheduled
<1>4. task.kind = "trigger" /\ task.rule = k
    OBVIOUS
<1> SUFFICES ASSUME flow.rules[k].owner # NoUser, NEW slot \in Fires[flow.rules[k].cron],
                    slot <= t, \E j \in Scheduled : rows[j].rule = k /\ rows[j].at < slot
             PROVE  \/ \E j \in Scheduled : rows[j].rule \in R /\ rows[j].at >= slot
                    \/ \E x \in DOMAIN queue' : x.kind = "trigger" /\ x.rule = k
    BY <1>1, <1>3 DEF Caught, Answered, Outstanding, BagToSet
<1>5. slot \in Nat
    <2>1. flow.rules[k].cron \in Crons
        BY <1>2 DEF Rules
    <2> QED BY <2>1, SchedulesAssumption
<1>6. LastFire(s.i) # {} /\ base \in LastFire(s.i) /\ base \in Nat
    BY <1>2 DEF LastFire
<1>7. CASE base >= slot
    <2>1. PICK j \in Scheduled : (k = 1 \/ rows[j].rule = k) /\ rows[j].at = base
        BY <1>6 DEF LastFire
    <2>2. rows[j].rule \in R
        BY <2>1, RowsTyped DEF Scheduled
    <2> QED BY <1>7, <2>1, <2>2
<1>8. CASE ~(base >= slot)
    <2>1. slot > base
        BY <1>5, <1>6, <1>8
    <2>2. slot \in next
        BY <2>1 DEF NextFire
    <2>3. next # {} /\ Min(next) <= slot /\ Min(next) \in Nat
        BY <1>2, <2>2
    <2>4. Min(next) <= s.t
        <3> HIDE DEF next
        <3> QED BY <1>2, <1>5, <2>3
    <2>5. due
        BY <2>3, <2>4 DEF Due
    <2>6. task \in DOMAIN queue'
        BY <1>1, <2>5
    <2> HIDE DEF task
    <2> QED BY <1>4, <2>6
<1> QED BY <1>7, <1>8

\* The clock, the last change and the last sweep over a step.
LEMMA ChangeIs ==
    ASSUME ScheduleTypeOK, SweepInv, SlotInv, ScheduleNext
    PROVE  /\ now' \in {now, now + 1}
           /\ (hist'.since = hist.since /\ flow'.rules = flow.rules) \/ hist'.since = now
           /\ \/ hist'.swept = hist.swept
              \/ \E w \in Workers : /\ SweepRule(w) /\ hist'.swept = wk[w].t
                                    /\ wk[w].i = Len(wk[w].rules) /\ wk[w].since = hist.since
<1>1. CASE Delete
    BY <1>1, DeleteIs
<1>2. ASSUME NEW w \in Workers, SweepRule(w)
      PROVE  /\ now' = now /\ hist'.since = hist.since /\ flow' = flow
             /\ \/ hist'.swept = hist.swept
                \/ (hist'.swept = wk[w].t /\ wk[w].i = Len(wk[w].rules) /\ wk[w].since = hist.since)
    BY <1>2, SweepIs
<1>3. ASSUME ~Delete, ~(\E w \in Workers : SweepRule(w))
      PROVE  /\ now' \in {now, now + 1} /\ hist'.swept = hist.swept
             /\ (hist'.since = hist.since /\ flow'.rules = flow.rules) \/ hist'.since = now
    BY <1>3, QuietSteps DEF Unchanged
<1> QED BY <1>1, <1>2, <1>3

\* A worker that sweeps was sweeping, or it has just read the clock and the flow.
LEMMA SweepersAre ==
    ASSUME ScheduleTypeOK, ScheduleNext, NEW v \in Workers, wk'[v].kind = "sweep"
    PROVE  \/ wk'[v] = wk[v]
           \/ SweepRule(v)
           \/ /\ wk'[v].t = now /\ wk'[v].i = 1 /\ wk'[v].rules = flow.rules /\ flow.rules # <<>>
              /\ wk'[v].since = hist.since /\ flow' = flow /\ hist' = hist /\ now' = now
<1> DEFINE Good == \/ wk'[v] = wk[v]
                   \/ SweepRule(v)
                   \/ /\ wk'[v].t = now /\ wk'[v].i = 1 /\ wk'[v].rules = flow.rules
                      /\ flow.rules # <<>>
                      /\ wk'[v].since = hist.since /\ flow' = flow /\ hist' = hist /\ now' = now
<1>0. wk \in [Workers -> {Free} \cup Sweeps \cup Creations] /\ Free.kind # "sweep"
    BY TaskKinds DEF ScheduleTypeOK
<1>1. CASE wk' = wk
    BY <1>1
<1>2. ASSUME NEW w \in Workers, NEW t \in DOMAIN queue, SweepBegins(w, t) PROVE Good
    <2> DEFINE new == [kind |-> "sweep", t |-> now, i |-> 1, rules |-> flow.rules, since |-> hist.since]
               ready == flow.st = "there" /\ flow.active /\ flow.scheduled /\ flow.rules # <<>>
    <2>1. wk' = [wk EXCEPT ![w] = IF ready THEN new ELSE Free] /\ UNCHANGED <<flow, hist, now>>
        BY <1>2 DEF SweepBegins
    <2>2. new.t = now /\ new.i = 1 /\ new.rules = flow.rules /\ new.since = hist.since
        OBVIOUS
    <2> HIDE DEF new
    <2>3. v = w => wk'[v] = (IF ready THEN new ELSE Free)
        BY <1>0, <2>1
    <2>4. v # w => wk'[v] = wk[v]
        BY <1>0, <2>1
    <2> QED BY <1>0, <2>1, <2>2, <2>3, <2>4
<1>3. ASSUME NEW w \in Workers, NEW t \in DOMAIN queue, CreateScheduled(w, t) PROVE Good
    <2> DEFINE new == [kind |-> "created", row |-> Len(rows) + 1, task |-> t]
    <2>1. wk' = wk \/ wk' = [wk EXCEPT ![w] = new]
        BY <1>3 DEF CreateScheduled
    <2>2. new.kind # "sweep"
        OBVIOUS
    <2> HIDE DEF new
    <2> QED BY <1>0, <2>1, <2>2
<1>4. ASSUME NEW w \in Workers, wk' = [wk EXCEPT ![w] = Free] PROVE Good
    BY <1>0, <1>4
<1>5. ASSUME NEW w \in Workers, SweepRule(w) PROVE Good
    BY <1>0, <1>5 DEF SweepRule
<1>6. \/ wk' = wk
      \/ \E w \in Workers : \/ \E t \in DOMAIN queue : SweepBegins(w, t) \/ CreateScheduled(w, t)
                            \/ wk' = [wk EXCEPT ![w] = Free] \/ SweepRule(w)
    BY DEF ScheduleNext, BagToSet, UpdateReads, UpdateCommits, SetActive, Delete, Trigger, TriggerQueues,
           ApiDies, RunFlow, QueueScheduled, WorkerDies, Clock
<1> QED BY <1>1, <1>2, <1>3, <1>4, <1>5, <1>6

LEMMA CaughtVacuously ==
    ASSUME ScheduleTypeOK', NEW t \in Nat, t <= hist'.since, NEW k \in DOMAIN flow'.rules
    PROVE  Caught(k, t)'
<1>1. flow'.rules \in Seq(Rules) /\ hist'.since \in Nat
    BY DEF ScheduleTypeOK
<1>2. flow'.rules[k].cron \in Crons
    <2>1. flow'.rules[k] \in Rules
        BY <1>1
    <2> QED BY <2>1 DEF Rules
<1>3. \A s \in Fires[flow'.rules[k].cron] : s \in Nat
    BY <1>2, SchedulesAssumption
<1>4. ASSUME NEW s \in Nat, hist'.since < s, s <= t PROVE FALSE
    BY <1>1, <1>4
<1> QED BY <1>3, <1>4 DEF Caught

\* What a sweep of an unchanged flow has answered, after its step at the rule it is at.
LEMMA SweptSoFar ==
    ASSUME ScheduleTypeOK, ScheduleTypeOK', SweepInv, SlotInv, ScheduleNext, NEW w \in Workers, SweepRule(w),
           wk[w].since = hist.since, hist.since < wk[w].t, NEW t, t = wk[w].t,
           NEW k \in 1..wk[w].i
    PROVE  wk[w].rules = flow.rules /\ flow' = flow /\ Caught(k, t)'
<1>1. /\ wk[w].kind = "sweep" /\ wk[w].t \in Nat /\ wk[w].i \in Nat /\ wk[w].i \in 1..Len(wk[w].rules)
      /\ wk[w].rules \in Seq(Rules) /\ wk[w].t <= now
    BY SweepTyped, TaskKinds
<1>2. wk[w].rules = flow.rules /\ \A x \in 1..(wk[w].i - 1) : Caught(x, wk[w].t)
    BY <1>1 DEF SweepInv
<1>3. flow' = flow
    BY SweepIs
<1>4. CASE k = wk[w].i
    BY <1>2, <1>3, <1>4, SweepCatches
<1>5. CASE k # wk[w].i
    <2>1. k \in 1..(wk[w].i - 1) /\ k \in 1..Len(wk[w].rules)
        BY <1>1, <1>5
    <2>2. k \in DOMAIN flow'.rules
        BY <1>1, <1>2, <1>3, <2>1
    <2>3. Caught(k, t)
        BY <1>2, <2>1
    <2>4. t \in Nat /\ t <= now
        BY <1>1
    <2>5. Caught(k, t)'
        BY <2>2, <2>3, <2>4, CaughtStep
    <2>6. wk[w].rules = flow.rules
        BY <1>2
    <2> QED BY <1>3, <2>5, <2>6
<1> QED BY <1>4, <1>5

LEMMA SweepStep ==
    ASSUME ScheduleTypeOK, ScheduleTypeOK', SweepInv, SlotInv, ScheduleNext
    PROVE  SweepInv'
<1>0. now \in Nat /\ now' \in Nat /\ now <= now' /\ hist.swept \in Nat /\ hist.swept <= now
    <2>1. now \in Nat /\ hist.swept \in Nat
        BY DEF ScheduleTypeOK
    <2>2. hist.swept <= now
        BY DEF SweepInv
    <2>3. now' \in {now, now + 1}
        BY ChangeIs
    <2> QED BY <2>1, <2>2, <2>3
<1>1. hist'.swept <= now'
    <2>1. CASE hist'.swept = hist.swept
        BY <1>0, <2>1
    <2>2. ASSUME NEW w \in Workers, SweepRule(w), hist'.swept = wk[w].t PROVE hist'.swept <= now'
        <3>1. wk[w].t \in Nat /\ wk[w].t <= now
            BY <2>2, SweepTyped
        <3> QED BY <1>0, <2>2, <3>1
    <2> QED BY <2>1, <2>2, ChangeIs
<1>2. ASSUME NEW v \in Workers, wk'[v].kind = "sweep", NEW t, t = wk'[v].t
      PROVE  /\ wk'[v].t <= now' /\ wk'[v].i \in 1..Len(wk'[v].rules)
             /\ wk'[v].since = hist'.since /\ hist'.since < wk'[v].t =>
                  wk'[v].rules = flow'.rules /\ \A k \in 1..(wk'[v].i - 1) : Caught(k, t)'
    <2>1. CASE wk'[v] = wk[v]
        <3>1. wk[v] \in Sweeps
            BY <1>2, <2>1, WorkerKinds
        <3>2. wk[v].t \in Nat /\ wk[v].rules \in Seq(Rules) /\ wk[v].i \in Nat
            BY <3>1 DEF Sweeps
        <3>3. /\ wk[v].t <= now /\ wk[v].i \in 1..Len(wk[v].rules)
              /\ wk[v].since = hist.since /\ hist.since < wk[v].t =>
                   wk[v].rules = flow.rules /\ \A k \in 1..(wk[v].i - 1) : Caught(k, wk[v].t)
            BY <1>2, <2>1 DEF SweepInv
        <3>4. wk[v].t <= now'
            BY <1>0, <3>2, <3>3
        <3>5. ASSUME wk[v].since = hist'.since, hist'.since < wk[v].t
              PROVE  wk[v].rules = flow'.rules /\ \A k \in 1..(wk[v].i - 1) : Caught(k, t)'
            <4>1. hist'.since # now
                BY <1>0, <3>2, <3>3, <3>5
            <4>2. hist'.since = hist.since /\ flow'.rules = flow.rules
                BY <4>1, ChangeIs
            <4>3. wk[v].rules = flow.rules /\ \A k \in 1..(wk[v].i - 1) : Caught(k, wk[v].t)
                BY <3>3, <3>5, <4>2
            <4>4. ASSUME NEW k \in 1..(wk[v].i - 1) PROVE Caught(k, t)'
                <5>1. k \in 1..Len(wk[v].rules)
                    BY <3>2, <3>3
                <5>2. k \in DOMAIN flow'.rules
                    BY <3>2, <4>2, <4>3, <5>1
                <5>3. Caught(k, t) /\ t \in Nat /\ t <= now
                    BY <1>2, <2>1, <3>2, <3>3, <4>3
                <5> QED BY <5>2, <5>3, CaughtStep
            <4> QED BY <4>2, <4>3, <4>4
        <3> QED BY <2>1, <3>3, <3>4, <3>5
    <2>2. CASE SweepRule(v)
        <3>1. /\ wk[v].i # Len(wk[v].rules) /\ wk'[v].t = wk[v].t /\ wk'[v].i = wk[v].i + 1
              /\ wk'[v].rules = wk[v].rules /\ wk'[v].since = wk[v].since
              /\ hist'.since = hist.since
            BY <1>2, <2>2, SweepIs, TaskKinds
        <3>2. /\ wk[v].t \in Nat /\ wk[v].t <= now /\ wk[v].i \in 1..Len(wk[v].rules)
              /\ wk[v].rules \in Seq(Rules) /\ wk[v].i \in Nat
            BY <2>2, SweepTyped
        <3>3. wk[v].i + 1 \in 1..Len(wk[v].rules) /\ (wk[v].i + 1) - 1 = wk[v].i
            BY <3>1, <3>2
        <3>4. wk'[v].t <= now'
            BY <1>0, <3>1, <3>2
        <3>5. ASSUME wk[v].since = hist.since, hist.since < wk[v].t
              PROVE  wk[v].rules = flow'.rules /\ \A k \in 1..wk[v].i : Caught(k, t)'
            <4>1. ASSUME NEW k \in 1..wk[v].i
                  PROVE  wk[v].rules = flow.rules /\ flow' = flow /\ Caught(k, t)'
                <5>1. t = wk[v].t
                    BY <1>2, <3>1
                <5> QED BY <2>2, <3>5, <5>1, SweptSoFar
            <4>2. wk[v].i \in 1..wk[v].i
                BY <3>2
            <4> QED BY <4>1, <4>2
        <3> QED BY <3>1, <3>3, <3>4, <3>5
    <2>3. CASE /\ wk'[v].t = now /\ wk'[v].i = 1 /\ wk'[v].rules = flow.rules /\ flow.rules # <<>>
               /\ wk'[v].since = hist.since /\ flow' = flow /\ hist' = hist /\ now' = now
        <3>1. flow.rules \in Seq(Rules)
            BY DEF ScheduleTypeOK
        <3>2. 1 \in 1..Len(flow.rules) /\ 1..(1 - 1) = {}
            BY <2>3, <3>1
        <3>3. now <= now'
            BY <1>0
        <3> QED BY <2>3, <3>2, <3>3
    <2> QED BY <1>2, <2>1, <2>2, <2>3, SweepersAre
<1>3. ASSUME NEW v \in Workers, wk'[v].kind = "sweep"
      PROVE  /\ wk'[v].t <= now' /\ wk'[v].i \in 1..Len(wk'[v].rules)
             /\ wk'[v].since = hist'.since /\ hist'.since < wk'[v].t =>
                  wk'[v].rules = flow'.rules /\ \A k \in 1..(wk'[v].i - 1) : Caught(k, wk[v].t)'
    BY <1>2, <1>3 DEF Caught
<1> QED BY <1>1, <1>3 DEF SweepInv

LEMMA ForgottenStep ==
    ASSUME ScheduleTypeOK, ScheduleTypeOK', SweepInv, SlotInv, NoSlotIsForgotten, ScheduleNext
    PROVE  NoSlotIsForgotten'
<1>0. /\ now \in Nat /\ hist.swept \in Nat /\ hist'.since \in Nat /\ flow'.rules \in Seq(Rules)
      /\ hist.swept <= now
    BY DEF ScheduleTypeOK, SweepInv
<1>1. SUFFICES ASSUME NEW t, t = hist'.swept, NEW k \in DOMAIN flow'.rules
               PROVE  Caught(k, t)'
    <2>1. \A k \in DOMAIN flow'.rules : Caught(k, hist.swept)'
        BY DEF Caught
    <2> QED BY <2>1 DEF NoSlotIsForgotten, Reached, Caught
<1>2. CASE hist'.swept = hist.swept
    <2>1. CASE hist'.since = now
        BY <1>0, <1>1, <1>2, <2>1, CaughtVacuously
    <2>2. CASE flow'.rules = flow.rules
        <3>1. Caught(k, t)
            BY <1>1, <1>2, <2>2 DEF NoSlotIsForgotten, Reached, Caught
        <3> QED BY <1>0, <1>1, <1>2, <3>1, CaughtStep
    <2> QED BY <2>1, <2>2, ChangeIs
<1>3. ASSUME NEW w \in Workers, SweepRule(w), hist'.swept = wk[w].t,
             wk[w].i = Len(wk[w].rules), wk[w].since = hist.since
      PROVE  Caught(k, t)'
    <2>1. /\ wk[w].t \in Nat /\ wk[w].rules \in Seq(Rules) /\ wk[w].i \in 1..Len(wk[w].rules)
          /\ wk[w].i \in Nat
        BY <1>3, SweepTyped
    <2>2. hist'.since = hist.since
        BY <1>3, SweepIs
    <2>3. CASE hist.since < wk[w].t
        <3>1. wk[w].i \in 1..wk[w].i
            BY <2>1
        <3>2. flow' = flow /\ wk[w].rules = flow.rules
            BY <1>1, <1>3, <2>3, <3>1, SweptSoFar
        <3>3. k \in 1..wk[w].i
            BY <1>3, <2>1, <3>2
        <3> QED BY <1>1, <1>3, <2>3, <3>3, SweptSoFar
    <2>4. CASE ~(hist.since < wk[w].t)
        <3>1. t \in Nat /\ t <= hist'.since
            BY <1>0, <1>1, <1>3, <2>1, <2>2, <2>4
        <3> QED BY <3>1, CaughtVacuously
    <2> QED BY <2>3, <2>4
<1> QED BY <1>2, <1>3, ChangeIs

-----------------------------------------------------------------------------
(* The rules that users save. *)

\* A save holds rules of its caller.
LEMMA SavesOwn ==
    ASSUME ScheduleTypeOK, SaveInv, NEW u \in Users, put[u] # Free
    PROVE  /\ put[u].read \in Seq(Rules) /\ put[u].mine \in Seq(Rules)
           /\ \A k \in DOMAIN put[u].mine : put[u].mine[k].owner = u
<1>1. put[u] \in Saves
    BY DEF ScheduleTypeOK
<1>2. put[u].read \in Seq(Rules) /\ put[u].mine \in Seq(Rules)
    BY <1>1 DEF Saves
<1>3. put[u].mine = <<>> \/ \E c \in Crons : put[u].mine = <<Rule(u, c)>>
    BY DEF SaveInv
<1>4. CASE put[u].mine = <<>>
    BY <1>2, <1>4
<1>5. CASE \E c \in Crons : put[u].mine = <<Rule(u, c)>>
    BY <1>2, <1>5 DEF Rule
<1> QED BY <1>3, <1>4, <1>5

LEMMA SaveStep ==
    ASSUME ScheduleTypeOK, SaveInv, ScheduleNext
    PROVE  SaveInv'
<1>0. put \in [Users -> {Free} \cup Saves]
    BY DEF ScheduleTypeOK
<1>1. CASE put' = put
    BY <1>1 DEF SaveInv
<1>2. ASSUME NEW u \in Users, NEW mine, NEW scheduled, UpdateReads(u, mine, scheduled),
             mine = <<>> \/ \E c \in Crons : mine = <<Rule(u, c)>>
      PROVE  SaveInv'
    <2> DEFINE new == [kind |-> "put", read |-> flow.rules, mine |-> mine, scheduled |-> scheduled]
    <2>1. put' = [put EXCEPT ![u] = new]
        BY <1>2 DEF UpdateReads
    <2>2. new.mine = mine
        OBVIOUS
    <2> HIDE DEF new
    <2> QED BY <1>0, <1>2, <2>1, <2>2 DEF SaveInv
<1>3. ASSUME NEW u \in Users, UpdateCommits(u) PROVE SaveInv'
    BY <1>0, <1>3 DEF SaveInv, UpdateCommits
<1>4. \/ put' = put
      \/ \E u \in Users : \/ \E c \in Crons : UpdateReads(u, <<Rule(u, c)>>, TRUE)
                          \/ \E scheduled \in BOOLEAN : UpdateReads(u, <<>>, scheduled)
                          \/ UpdateCommits(u)
    BY DEF ScheduleNext, SetActive, Delete, Trigger, TriggerQueues,
           ApiDies, SweepBegins, CreateScheduled, RunFlow, SweepRule, QueueScheduled, WorkerDies, Clock
<1> QED BY <1>1, <1>2, <1>3, <1>4

LEMMA RulesStep ==
    ASSUME ScheduleTypeOK, SaveInv, SlotInv, SweepInv, EachUserKeepsItsRules, ScheduleNext
    PROVE  EachUserKeepsItsRules'
<1>0. /\ hist \in [saved : [Users -> Seq(Rules)], since : Nat, swept : Nat, stale : BOOLEAN,
                   orphans : SUBSET Nat]
      /\ flow \in [st : {"there", "deleted"}, active : BOOLEAN, scheduled : BOOLEAN,
                   rules : Seq(Rules)]
    BY DEF ScheduleTypeOK
<1>1. CASE flow'.rules = flow.rules /\ hist'.saved = hist.saved /\ hist'.stale = hist.stale
    BY <1>1 DEF EachUserKeepsItsRules
<1>2. ASSUME NEW u \in Users, UpdateCommits(u), flow.st = "there" PROVE EachUserKeepsItsRules'
    <2> DEFINE read == put[u].read
               mine == put[u].mine
    <2>1. /\ put[u] # Free
          /\ flow' = [flow EXCEPT !.rules = Merged(read, mine, u), !.scheduled = put[u].scheduled]
          /\ hist' = [hist EXCEPT !.saved[u] = mine, !.since = now, !.stale = @ \/ read # flow.rules]
        BY <1>2 DEF UpdateCommits
    <2>a. /\ read \in Seq(Rules) /\ mine \in Seq(Rules)
          /\ \A k \in DOMAIN mine : mine[k].owner = u
        BY <2>1, SavesOwn
    <2> HIDE DEF read, mine
    <2>2. /\ Owned(Merged(read, mine, u), u) = mine
          /\ \A v \in Users \ {u} : Owned(Merged(read, mine, u), v) = Owned(read, v)
        BY <2>a, MergeKeepsRules
    <2>3. flow'.rules = Merged(read, mine, u)
        BY <1>0, <2>1
    <2>4. hist'.saved = [hist.saved EXCEPT ![u] = mine]
        BY <1>0, <2>1
    <2>5. hist'.stale = (hist.stale \/ read # flow.rules)
        BY <1>0, <2>1
    <2>6. ASSUME ~hist'.stale, NEW v \in Users PROVE Owned(flow'.rules, v) = hist'.saved[v]
        <3>1. ~hist.stale /\ read = flow.rules
            BY <2>5, <2>6
        <3>2. CASE v = u
            BY <1>0, <2>2, <2>3, <2>4, <3>2
        <3>3. CASE v # u
            <4>1. Owned(flow.rules, v) = hist.saved[v]
                BY <3>1 DEF EachUserKeepsItsRules
            <4>2. hist'.saved[v] = hist.saved[v]
                BY <1>0, <2>4, <3>3
            <4> QED BY <2>2, <2>3, <3>1, <3>3, <4>1, <4>2
        <3> QED BY <3>2, <3>3
    <2> QED BY <2>6 DEF EachUserKeepsItsRules, Owned
<1>3. ASSUME NEW u \in Users, UpdateCommits(u), flow.st # "there"
      PROVE  flow' = flow /\ hist' = hist
    BY <1>3 DEF UpdateCommits
<1>4. CASE SetActive
    BY <1>0, <1>1, <1>4 DEF SetActive
<1>5. CASE Delete
    BY <1>0, <1>1, <1>5 DEF Delete
<1>6. CASE ApiDies
    BY <1>0, <1>1, <1>6 DEF ApiDies
<1>7. ASSUME NEW w \in Workers, SweepRule(w)
      PROVE  flow' = flow /\ hist'.saved = hist.saved /\ hist'.stale = hist.stale
    BY <1>7, SweepIs
<1>8. ASSUME NEW w \in Workers, WorkerDies(w)
      PROVE  flow' = flow /\ hist'.saved = hist.saved /\ hist'.stale = hist.stale
    BY <1>0, <1>8 DEF WorkerDies
<1>9. \/ flow' = flow /\ hist' = hist
      \/ \E u \in Users : UpdateCommits(u)
      \/ SetActive \/ Delete \/ ApiDies
      \/ \E w \in Workers : SweepRule(w) \/ WorkerDies(w)
    BY DEF ScheduleNext, UpdateReads, Trigger, TriggerQueues, SweepBegins, CreateScheduled, RunFlow,
           QueueScheduled, Clock
<1> QED BY <1>1, <1>2, <1>3, <1>4, <1>5, <1>6, <1>7, <1>8, <1>9

-----------------------------------------------------------------------------
(* Pending runs. *)

\* What drives a run: its task is queued, or the process that created it has it in hand,
\* or died with it.
Driven(i) ==
    \/ api = i \/ i \in hist.orphans
    \/ \E t \in DOMAIN queue : t.kind = "run" /\ t.row = i
    \/ \E w \in Workers : wk[w].kind = "created" /\ wk[w].row = i

LEMMA DrivenIs ==
    ASSUME ScheduleTypeOK
    PROVE  PendingRunIsDriven => \A i \in DOMAIN rows : rows[i].st = "pending" => Driven(i)
<1>1. \A w \in Workers : wk[w].kind # "run"
    BY WorkerKinds
<1>2. \A t \in DOMAIN queue : t.kind # "created"
    BY TaskKinds DEF ScheduleTypeOK
<1> QED BY <1>1, <1>2 DEF PendingRunIsDriven, Outstanding, BagToSet, Driven

LEMMA DrivenStep ==
    ASSUME ScheduleTypeOK, ScheduleTypeOK', SlotInv, SweepInv, PendingRunIsDriven, ScheduleNext
    PROVE  PendingRunIsDriven'
<1>0. /\ \A i \in DOMAIN rows : rows[i].st = "pending" => Driven(i)
      /\ DOMAIN rows = 1..Len(rows) /\ Len(rows) \in Nat
      /\ \A i \in DOMAIN rows : i # 0
      /\ wk \in [Workers -> {Free} \cup Sweeps \cup Creations]
      /\ hist \in [saved : [Users -> Seq(Rules)], since : Nat, swept : Nat, stale : BOOLEAN,
                   orphans : SUBSET Nat]
      /\ rows \in Seq(FlowRuns)
      /\ Free.kind = "free"
    <2>1. DOMAIN rows = 1..Len(rows) /\ Len(rows) \in Nat
        BY RowsTyped
    <2>2. \A i \in DOMAIN rows : i # 0
        BY <2>1
    <2>3. \A i \in DOMAIN rows : rows[i].st = "pending" => Driven(i)
        BY DrivenIs
    <2> QED BY <2>1, <2>2, <2>3, TaskKinds DEF ScheduleTypeOK
<1> SUFFICES ASSUME NEW i \in DOMAIN rows', rows'[i].st = "pending"
             PROVE  Driven(i)'
    BY DEF PendingRunIsDriven, Outstanding, BagToSet, Driven
<1>a. ASSUME rows' = rows PROVE Driven(i) /\ i # 0
    BY <1>0, <1>a
<1>b. ASSUME Driven(i), api' = api, hist'.orphans = hist.orphans, DOMAIN queue \subseteq DOMAIN queue',
             \A w \in Workers : wk[w].kind = "created" => wk'[w] = wk[w]
      PROVE  Driven(i)'
    BY <1>b DEF Driven
<1>1. ASSUME NEW u \in Users, NEW mine, NEW scheduled, UpdateReads(u, mine, scheduled)
      PROVE  Driven(i)'
    BY <1>a, <1>b, <1>1 DEF UpdateReads
<1>2. ASSUME NEW u \in Users, UpdateCommits(u) PROVE Driven(i)'
    <2>1. hist'.orphans = hist.orphans
        BY <1>0, <1>2 DEF UpdateCommits
    <2> QED BY <1>a, <1>b, <1>2, <2>1 DEF UpdateCommits
<1>3. CASE SetActive
    <2>1. hist'.orphans = hist.orphans
        BY <1>0, <1>3 DEF SetActive
    <2> QED BY <1>a, <1>b, <1>3, <2>1 DEF SetActive
<1>4. CASE Delete
    BY <1>4, DeleteIs
<1>5. CASE Trigger
    <2>1. CASE i = Len(rows) + 1
        BY <1>5, <2>1 DEF Trigger, Driven
    <2>2. CASE i # Len(rows) + 1
        <3>1. i \in DOMAIN rows /\ rows'[i] = rows[i]
            <4>1. CanCreate /\ rows' = Append(rows, Row("manual", 0, NoUser, 0, 0))
                BY <1>5 DEF Trigger
            <4> HIDE DEF Row
            <4> QED BY <1>0, <2>2, <4>1
        <3> QED BY <1>0, <1>5, <3>1 DEF Trigger, Driven
    <2> QED BY <2>1, <2>2
<1>6. CASE TriggerQueues
    <2>1. DOMAIN queue' = DOMAIN queue \cup {RunTask(api)}
        BY <1>6, TakenAndSent DEF TriggerQueues, ManualTask
    <2>2. RunTask(api).kind = "run" /\ RunTask(api).row = api
        BY DEF RunTask
    <2>3. rows' = rows /\ hist' = hist /\ wk' = wk
        BY <1>6 DEF TriggerQueues
    <2> QED BY <1>a, <2>1, <2>2, <2>3 DEF Driven
<1>7. CASE ApiDies
    <2>1. hist'.orphans = hist.orphans \cup {api}
        BY <1>0, <1>7 DEF ApiDies
    <2> QED BY <1>a, <1>7, <2>1 DEF ApiDies, Driven
<1>8. ASSUME NEW w \in Workers, NEW t \in DOMAIN queue, SweepBegins(w, t) PROVE Driven(i)'
    <2>1. /\ wk[w] = Free /\ t.kind = "tick"
          /\ \A x \in DOMAIN queue : x # t => x \in DOMAIN queue'
        BY <1>8, TakenAndSent DEF SweepBegins
    <2>2. \A v \in Workers : wk[v].kind = "created" => wk'[v] = wk[v]
        BY <1>0, <1>8, <2>1 DEF SweepBegins
    <2> QED BY <1>a, <1>8, <2>1, <2>2 DEF SweepBegins, Driven
<1>9. ASSUME NEW w \in Workers, NEW t \in DOMAIN queue, CreateScheduled(w, t) PROVE Driven(i)'
    <2>1. /\ wk[w] = Free /\ t.kind = "trigger"
          /\ \A x \in DOMAIN queue : x # t => x \in DOMAIN queue'
        BY <1>9, TakenAndSent DEF CreateScheduled
    <2>2. api' = api /\ hist' = hist
        BY <1>9 DEF CreateScheduled
    <2>3. CASE ~CanCreate
        BY <1>a, <1>9, <2>1, <2>2, <2>3 DEF CreateScheduled, Driven
    <2>4. CASE CanCreate
        <3> DEFINE new == [kind |-> "created", row |-> Len(rows) + 1, task |-> t]
                   r == Row("schedule", t.rule, t.owner, t.slot, t.seen)
        <3>1. wk' = [wk EXCEPT ![w] = new] /\ rows' = Append(rows, r)
            BY <1>9, <2>4 DEF CreateScheduled
        <3>2. new.kind = "created" /\ new.row = Len(rows) + 1
            OBVIOUS
        <3> HIDE DEF new, r
        <3>3. wk'[w] = new /\ \A v \in Workers : wk[v].kind = "created" => wk'[v] = wk[v]
            BY <1>0, <2>1, <3>1
        <3>4. CASE i = Len(rows) + 1
            BY <3>2, <3>3, <3>4 DEF Driven
        <3>5. CASE i # Len(rows) + 1
            <4>1. i \in DOMAIN rows /\ rows'[i] = rows[i]
                BY <1>0, <3>1, <3>5
            <4>2. Driven(i)
                BY <1>0, <4>1
            <4> QED BY <2>1, <2>2, <3>3, <4>2 DEF Driven
        <3> QED BY <3>4, <3>5
    <2> QED BY <2>3, <2>4
<1>10. ASSUME NEW w \in Workers, NEW t \in DOMAIN queue, RunFlow(w, t) PROVE Driven(i)'
    <2>1. \A x \in DOMAIN queue : x # t => x \in DOMAIN queue'
        BY <1>10, TakenAndSent DEF RunFlow
    <2>2. /\ api' = api /\ hist' = hist /\ wk' = wk
          /\ rows' = [j \in DOMAIN rows |->
                        IF j = t.row THEN [rows[j] EXCEPT !.st = "started"] ELSE rows[j]]
        BY <1>10 DEF RunFlow
    <2>3. i \in DOMAIN rows
        BY <2>2
    <2>4. i # t.row
        <3>1. \A x \in FlowRuns : [x EXCEPT !.st = "started"].st = "started"
            BY DEF FlowRuns
        <3>2. rows[i] \in FlowRuns
            BY <2>3, RowsTyped
        <3> QED BY <2>2, <2>3, <3>1, <3>2
    <2>5. Driven(i)
        BY <1>0, <2>2, <2>3, <2>4
    <2> QED BY <2>1, <2>2, <2>4, <2>5 DEF Driven
<1>11. ASSUME NEW w \in Workers, SweepRule(w) PROVE Driven(i)'
    <2>1. /\ DOMAIN queue \subseteq DOMAIN queue' /\ \A v \in Workers \ {w} : wk'[v] = wk[v]
          /\ rows' = rows /\ api' = api /\ hist'.orphans = hist.orphans
        BY <1>11, SweepIs
    <2>2. wk[w].kind # "created"
        BY <1>11 DEF SweepRule
    <2> QED BY <1>a, <1>b, <2>1, <2>2
<1>12. ASSUME NEW w \in Workers, QueueScheduled(w) PROVE Driven(i)'
    <2>1. DOMAIN queue' = DOMAIN queue \cup {RunTask(wk[w].row)}
        BY <1>12, TakenAndSent DEF QueueScheduled
    <2>2. RunTask(wk[w].row).kind = "run" /\ RunTask(wk[w].row).row = wk[w].row
        BY DEF RunTask
    <2>3. /\ rows' = rows /\ hist' = hist /\ api' = api
          /\ \A v \in Workers \ {w} : wk'[v] = wk[v]
        BY <1>0, <1>12 DEF QueueScheduled
    <2> QED BY <1>a, <2>1, <2>2, <2>3 DEF Driven
<1>13. ASSUME NEW w \in Workers, WorkerDies(w) PROVE Driven(i)'
    <2>1. DOMAIN queue \subseteq DOMAIN queue'
        BY <1>13, TakenAndSent DEF WorkerDies
    <2>2. /\ rows' = rows /\ api' = api
          /\ \A v \in Workers \ {w} : wk'[v] = wk[v]
        BY <1>0, <1>13 DEF WorkerDies
    <2>3. /\ hist.orphans \subseteq hist'.orphans
          /\ wk[w].kind = "created" => wk[w].row \in hist'.orphans
        BY <1>0, <1>13 DEF WorkerDies
    <2> QED BY <1>a, <2>1, <2>2, <2>3 DEF Driven
<1>14. CASE Clock
    <2>1. DOMAIN queue \subseteq DOMAIN queue'
        BY <1>14, TakenAndSent DEF Clock
    <2> QED BY <1>a, <1>b, <1>14, <2>1 DEF Clock
<1> QED BY <1>1, <1>2, <1>3, <1>4, <1>5, <1>6, <1>7, <1>8, <1>9, <1>10, <1>11, <1>12, <1>13, <1>14
        DEF ScheduleNext, BagToSet

-----------------------------------------------------------------------------
(* The invariant and what follows from it. *)

LEMMA FirstState ==
    ASSUME ScheduleInit
    PROVE  ScheduleTypeOK /\ ScheduleInv
<1>1. PICK rules \in FirstRules :
         /\ flow = [st |-> "there", active |-> TRUE, scheduled |-> TRUE, rules |-> rules]
         /\ hist = [saved |-> [u \in Users |-> Owned(rules, u)], since |-> 0, swept |-> 0,
                    stale |-> FALSE, orphans |-> {}]
    BY DEF ScheduleInit
<1>2. /\ now = 0 /\ queue = EmptyBag /\ wk = [w \in Workers |-> Free] /\ put = [u \in Users |-> Free]
      /\ rows = <<>> /\ api = 0 /\ upsets = 0
    BY DEF ScheduleInit
<1>3. rules \in Seq(Rules)
    <2>1. \A u \in Users \cup {NoUser}, c \in Crons : Rule(u, c) \in Rules
        BY DEF Rule, Rules
    <2>2. CASE rules \in {<<Rule(NoUser, c)>> : c \in Crons}
        <3>1. PICK c \in Crons : rules = <<Rule(NoUser, c)>>
            BY <2>2
        <3>2. Rule(NoUser, c) \in Rules
            BY <2>1
        <3> QED BY <3>1, <3>2
    <2>3. CASE rules \in {<<Rule(u, c), Rule(v, d)>> : u \in Users, v \in Users, c \in Crons, d \in Crons}
        <3>1. PICK u \in Users, v \in Users, c \in Crons, d \in Crons : rules = <<Rule(u, c), Rule(v, d)>>
            BY <2>3
        <3>2. Rule(u, c) \in Rules /\ Rule(v, d) \in Rules
            BY <2>1
        <3> QED BY <3>1, <3>2
    <2> QED BY <2>2, <2>3 DEF FirstRules
<1>4. \A u \in Users : Owned(rules, u) \in Seq(Rules)
    <2>1. ASSUME NEW u \in Users PROVE Owned(rules, u) \in Seq(Rules)
        <3>1. {k \in DOMAIN rules : rules[k].owner = u} \in SUBSET (1..Len(rules))
            BY <1>3
        <3> QED BY <1>3, <3>1, FilteredHolds DEF Owned
    <2> QED BY <2>1
<1>5. DOMAIN queue = {} /\ queue \in [DOMAIN queue -> Nat]
    <2>1. queue = [x \in {} |-> 1]
        BY <1>2 DEF EmptyBag, SetToBag
    <2> QED BY <2>1
<1>6. \A w \in Workers : wk[w] = Free /\ wk[w].kind = "free"
    BY <1>2 DEF Free
<1>7. DOMAIN rows = {} /\ rows \in Seq(FlowRuns)
    BY <1>2
<1>8. flow.st = "there" /\ flow.rules = rules
    BY <1>1
<1>9. /\ hist.saved = [u \in Users |-> Owned(rules, u)] /\ hist.since = 0 /\ hist.swept = 0
      /\ hist.stale = FALSE /\ hist.orphans = {}
    BY <1>1
<1>10. ScheduleTypeOK
    <2>1. hist \in [saved : [Users -> Seq(Rules)], since : Nat, swept : Nat, stale : BOOLEAN,
                    orphans : SUBSET Nat]
        BY <1>1, <1>4
    <2>2. flow \in [st : {"there", "deleted"}, active : BOOLEAN, scheduled : BOOLEAN,
                    rules : Seq(Rules)]
        BY <1>1, <1>3
    <2>3. upsets \in Nat
        BY <1>2
    <2> QED BY <1>2, <1>5, <1>7, <2>1, <2>2, <2>3 DEF ScheduleTypeOK
<1>11. SaveInv
    BY <1>2 DEF SaveInv
<1>12. SlotInv
    <2>1. AtLarge = {} /\ Scheduled = {}
        BY <1>5, <1>6, <1>7 DEF AtLarge, Scheduled
    <2> QED BY <1>8, <2>1 DEF SlotInv
<1>13. SweepInv
    BY <1>2, <1>6, <1>9 DEF SweepInv
<1>14. EachUserKeepsItsRules
    BY <1>8, <1>9 DEF EachUserKeepsItsRules
<1>15. NoSlotIsForgotten
    BY <1>7 DEF NoSlotIsForgotten, Reached, Scheduled
<1>16. PendingRunIsDriven
    BY <1>7 DEF PendingRunIsDriven
<1> QED BY <1>10, <1>11, <1>12, <1>13, <1>14, <1>15, <1>16 DEF ScheduleInv

LEMMA ScheduleStep ==
    ASSUME ScheduleTypeOK, ScheduleInv, [ScheduleNext]_scheduleVars
    PROVE  ScheduleTypeOK' /\ ScheduleInv'
<1>1. ScheduleTypeOK'
    BY ScheduleTypeStep DEF ScheduleInv
<1>2. CASE ScheduleNext
    <2>1. SaveInv' /\ SlotInv' /\ SweepInv'
        BY <1>1, <1>2, SaveStep, SlotStep, SweepStep DEF ScheduleInv
    <2>2. EachUserKeepsItsRules' /\ NoSlotIsForgotten' /\ PendingRunIsDriven'
        BY <1>1, <1>2, RulesStep, ForgottenStep, DrivenStep DEF ScheduleInv
    <2> QED BY <1>1, <2>1, <2>2 DEF ScheduleInv
<1>3. CASE UNCHANGED scheduleVars
    <2>0. UNCHANGED <<now, flow, queue, wk, put, rows, hist>>
        BY <1>3 DEF scheduleVars
    <2>a. SaveInv' <=> SaveInv
        BY <2>0 DEF SaveInv
    <2>b. SlotInv' <=> SlotInv
        BY <2>0 DEF SlotInv, AtLarge, After, Scheduled
    <2>c. SweepInv' <=> SweepInv
        BY <2>0 DEF SweepInv, Caught, Answered, Outstanding, Scheduled
    <2>1. SaveInv' /\ SlotInv' /\ SweepInv'
        BY <2>a, <2>b, <2>c DEF ScheduleInv
    <2>2. EachUserKeepsItsRules' /\ NoSlotIsForgotten' /\ PendingRunIsDriven'
        <3>0. UNCHANGED <<flow, queue, wk, rows, api, hist>>
            BY <1>3 DEF scheduleVars
        <3>1. EachUserKeepsItsRules' <=> EachUserKeepsItsRules
            BY <3>0 DEF EachUserKeepsItsRules, Owned
        <3>2. NoSlotIsForgotten' <=> NoSlotIsForgotten
            BY <3>0 DEF NoSlotIsForgotten, Reached, Answered, Outstanding, Scheduled
        <3>3. PendingRunIsDriven' <=> PendingRunIsDriven
            BY <3>0 DEF PendingRunIsDriven, Outstanding
        <3> QED BY <3>1, <3>2, <3>3 DEF ScheduleInv
    <2> QED BY <1>1, <2>1, <2>2 DEF ScheduleInv
<1> QED BY <1>2, <1>3

LEMMA SlotsAreSeparate ==
    ASSUME ScheduleTypeOK, SlotInv
    PROVE  OneRunPerSlot
<1> SUFFICES ASSUME NEW i \in Scheduled, NEW j \in Scheduled, i < j, rows[i].slot = rows[j].slot,
                    ~(rows[j].seen < i), rows[j].rule \in {1, rows[i].rule}
             PROVE  FALSE
    BY DEF OneRunPerSlot
<1>1. /\ i \in Nat /\ rows[j].seen \in Nat /\ rows[i].slot \in Nat /\ rows[i].at \in Nat
    BY RowsTyped DEF Scheduled
<1>2. rows[i].slot <= rows[i].at /\ After(rows[j].rule, rows[j].slot, rows[j].seen)
    BY DEF SlotInv
<1>3. i <= rows[j].seen
    BY <1>1
<1>4. rows[i].at < rows[j].slot
    BY <1>2, <1>3 DEF After
<1> QED BY <1>1, <1>2, <1>4

\* The variables keep their types: the queue is a bag of sweeps, triggers and runs, a worker is
\* in a sweep or holds a row it created, and a saved rule belongs to a user or to nobody.
THEOREM SchedulesTypeCorrect == ScheduleSpec => []ScheduleTypeOK
<1>1. ScheduleInit => ScheduleTypeOK /\ ScheduleInv
    BY FirstState
<1>2. (ScheduleTypeOK /\ ScheduleInv) /\ [ScheduleNext]_scheduleVars => (ScheduleTypeOK /\ ScheduleInv)'
    BY ScheduleStep
<1> QED BY <1>1, <1>2, PTL DEF ScheduleSpec

\* The inductive invariant: what saves hold, what a trigger and a run have seen of the rows
\* before them, and which rules a sweep has already answered.
THEOREM SchedulesInvariant == ScheduleSpec => []ScheduleInv
<1>1. ScheduleInit => ScheduleTypeOK /\ ScheduleInv
    BY FirstState
<1>2. (ScheduleTypeOK /\ ScheduleInv) /\ [ScheduleNext]_scheduleVars => (ScheduleTypeOK /\ ScheduleInv)'
    BY ScheduleStep
<1> QED BY <1>1, <1>2, PTL DEF ScheduleSpec

\* update_flow and _merge_user_schedules: every user's rules are the ones it saved last, unless
\* a save was merged into rules that another save had replaced.
THEOREM RulesAreKept == ScheduleSpec => []EachUserKeepsItsRules
<1>1. ScheduleInv => EachUserKeepsItsRules
    BY DEF ScheduleInv
<1> QED BY <1>1, SchedulesInvariant, PTL

\* dispatch_due_runs and trigger_scheduled_run: two runs of a rule are for different slots,
\* unless the second was dispatched before the first one's row was there.
THEOREM SlotsRunOnce == ScheduleSpec => []OneRunPerSlot
<1>1. ScheduleTypeOK /\ ScheduleInv => OneRunPerSlot
    BY SlotsAreSeparate DEF ScheduleInv
<1> QED BY <1>1, SchedulesTypeCorrect, SchedulesInvariant, PTL

\* dispatch_due_runs: a slot that a sweep has reached is followed by a run or has its trigger
\* queued, however sweeps, triggers, saves and deaths of workers interleave.
THEOREM SlotsAreAnswered == ScheduleSpec => []NoSlotIsForgotten
<1>1. ScheduleInv => NoSlotIsForgotten
    BY DEF ScheduleInv
<1> QED BY <1>1, SchedulesInvariant, PTL

\* trigger and trigger_scheduled_run_task: a pending row has its task on the way, unless the
\* process that committed it died before it queued the task.
THEOREM PendingRunsAreDriven == ScheduleSpec => []PendingRunIsDriven
<1>1. ScheduleInv => PendingRunIsDriven
    BY DEF ScheduleInv
<1> QED BY <1>1, SchedulesInvariant, PTL

-----------------------------------------------------------------------------
(* Iteration                                                               *)

USE DEF pad, tasks, loop, yield, still

\* A task that holds a permit, and one whose record the collection still lists.
Working == {"entered", "fetching", "starting", "agent", "dropping", "unlisting",
            "closing", "failing"}
Listed == {"queued", "entered", "fetching", "starting", "agent", "dropping", "unlisting"}

Shape ==
    /\ pc \in [Ids -> Places] /\ out \in [Ids -> Outcomes]
    /\ ev \in [Ids -> {"none", "started", "completed", "failed"}]
    /\ index \subseteq Ids /\ bounded \subseteq Ids

-----------------------------------------------------------------------------
(* Records.  The index and the records are written in several commands by    *)
(* two parties: a stash_records call sets the records before it lists them,  *)
(* a task deletes its record before it unlists it.  Neither steps on the     *)
(* other because only the task of an id unlists it, and a call only stores   *)
(* ids that are not listed.                                                  *)

NewIds == {call.new[k][1] : k \in DOMAIN call.new}

TaskOwnsItsId ==
    \A i \in Ids :
        /\ pc[i] \in Listed => i \in index
        /\ pc[i] \in {"dropping", "unlisting"} => i \in ran

CallStoresUnlisted ==
    /\ call.at \in Nat /\ DOMAIN call.new \subseteq Nat
    /\ \A k \in DOMAIN call.new :
          /\ call.new[k][1] \in Ids \ index
          /\ k < call.at => call.new[k][1] \in DOMAIN recs \cup lapsed
    /\ call.ids \subseteq Ids
    /\ call.ids \subseteq NewIds \cup index \cup ran

PadInv ==
    /\ TaskOwnsItsId
    /\ CallStoresUnlisted
    /\ index \subseteq DOMAIN recs \cup ran \cup lapsed
    /\ told \subseteq index \cup ran

-----------------------------------------------------------------------------
(* Iterations.  An ended node has no task at work: a parallel walk waits for *)
(* all of them; a sequential one has a single permit, so nobody works when a *)
(* record has just failed, and nobody starts after that.                     *)

NoneWorking == \A i \in Ids : pc[i] \notin Working

\* The sequential walk has one permit: at most one record is being worked on,
\* and none once a record has failed.
InOrder ==
    ~Parallel(cfg) =>
        /\ permits \in {0, 1}
        /\ permits = 1 => NoneWorking
        /\ (\E j \in bounded : Failed(j)) => NoneWorking
        /\ \A i, j \in Ids : pc[i] \in Working /\ pc[j] \in Working => i = j

\* A task that has emitted nothing is before its first emit; one that has only
\* emitted iteration_started is still inside its try, or an emit was cut off.
Events ==
    \A i \in Ids :
        /\ pc[i] \in {"idle", "queued", "entered", "fetching", "starting"} => ev[i] = "none"
        /\ ev[i] = "started" =>
              i \in cut \/ pc[i] \in {"agent", "dropping", "unlisting", "closing", "failing"}

\* What an ended node leaves behind: nothing that is not over, except the records
\* a sequential walk never came to because an earlier one failed.
EndedClean ==
    node \in Ended =>
        \A i \in bounded :
            \/ pc[i] = "over"
            \/ ~Parallel(cfg) /\ pc[i] = "queued" /\ \E j \in bounded : Failed(j)

Walked ==
    /\ \A i \in Ids : pc[i] # "idle" <=> i \in bounded
    /\ node = "waiting" => \A i \in Ids : pc[i] = "idle"
    /\ bounded # {} => Source(cfg) = "scratchpad"
    /\ EndedClean

LoopInv == InOrder /\ Events /\ Walked

-----------------------------------------------------------------------------
\* The steps of the task of one record.
TaskMoves(i) == TaskStep(i) \/ AgentRaises(i) \/ StepRaises(i)

\* The steps of the node, of its agent_yield loop and of the run around it.
NodeMoves ==
    \/ WalkEnds \/ SequenceEnds \/ CancelSiblings \/ Drained
    \/ (\E end \in TurnEnds : YieldTurn(end)) \/ YieldRaises \/ Abort

\* The steps of stash_records and of a record's TTL.
StashMoves ==
    \/ (\E c \in Calls : StashCall(c)) \/ StashSet \/ StashIndex \/ StashFails
    \/ \E x \in Ids : RecordExpires(x)

\* Every step is of one of these kinds.
LEMMA StepCases ==
    ASSUME [Next]_vars
    PROVE  \/ \E i \in Ids : TaskMoves(i)
           \/ NodeMoves \/ StashMoves \/ StartNode \/ Crash \/ UNCHANGED vars
BY DEF Next, Progress, TaskMoves, NodeMoves, StashMoves

\* An exception or a cancellation sends a task to its failing branch or ends it.
LEMMA InterruptedMoves ==
    ASSUME Shape, NEW i \in Ids, NEW how \in Outcomes, Interrupted(i, how)
    PROVE  /\ pc[i] \in Working \ {"agent"}
           /\ pc' = [pc EXCEPT ![i] = IF pc[i] \in {"dropping", "unlisting"}
                                      THEN "failing" ELSE "over"]
           /\ permits' = IF pc[i] \in {"dropping", "unlisting"} THEN permits ELSE permits + 1
           /\ out' = [out EXCEPT ![i] = IF pc[i] = "failing" THEN @ ELSE how]
           /\ \E e \in {"none", "started", "completed", "failed"} : ev' = [ev EXCEPT ![i] = e]
           /\ \/ ev' = ev /\ cut' = cut /\ pc[i] \notin {"starting", "closing", "failing"}
              \/ cut' = cut \cup {i}
           /\ \/ pc[i] = "dropping" /\ DOMAIN recs' \cup {i} = DOMAIN recs \cup {i}
              \/ recs' = recs
           /\ \/ pc[i] = "unlisting" /\ index' \in {index, index \ {i}}
              \/ index' = index
           /\ UNCHANGED <<told, lapsed>>
<1> USE DEF Shape, Goto, Over, Working
<1>1. CASE /\ pc[i] \in {"entered", "fetching"}
           /\ Over(i, how)
           /\ UNCHANGED <<ev, cut, pad>>
    <2>1. ev' = [ev EXCEPT ![i] = ev[i]]
        BY <1>1
    <2> QED BY <1>1, <2>1
<1>2. CASE /\ pc[i] \in {"starting", "closing"}
           /\ Over(i, how)
           /\ MaybeEmitted(i, IF pc[i] = "starting" THEN "started" ELSE "completed")
           /\ UNCHANGED pad
    BY <1>2 DEF MaybeEmitted
<1>3. CASE /\ pc[i] \in {"dropping", "unlisting"}
           /\ Goto(i, "failing") /\ out' = [out EXCEPT ![i] = how]
           /\ marked' = marked \ {i}
           /\ MaybeDropped(i)
           /\ UNCHANGED <<ev, permits, cut>>
    <2>1. ev' = [ev EXCEPT ![i] = ev[i]]
        BY <1>3
    <2>2. \/ pc[i] = "dropping" /\ DOMAIN recs' \cup {i} = DOMAIN recs \cup {i}
          \/ recs' = recs
        BY <1>3 DEF MaybeDropped
    <2> QED BY <1>3, <2>1, <2>2 DEF MaybeDropped
<1>4. CASE /\ pc[i] = "failing"
           /\ Over(i, out[i])
           /\ MaybeEmitted(i, "failed")
           /\ UNCHANGED pad
    BY <1>4 DEF MaybeEmitted
<1> QED BY <1>1, <1>2, <1>3, <1>4 DEF Interrupted

\* What a step of the task of record i may do to the tasks, to the scratchpad
\* and to the permits.
Early == {"queued", "entered", "fetching", "starting"}

MovesOnly(i) ==
    /\ UNCHANGED <<cfg, call, node, bounded, told, lapsed>>
    /\ \E p \in Places : pc' = [pc EXCEPT ![i] = p]
    /\ \E o \in Outcomes : out' = [out EXCEPT ![i] = o]
    /\ \E e \in {"none", "started", "completed", "failed"} : ev' = [ev EXCEPT ![i] = e]

OnPad(i) ==
    /\ pc'[i] \in Listed => pc[i] \in Listed
    /\ ran \subseteq ran'
    /\ pc'[i] \in {"dropping", "unlisting"} => i \in ran' \/ pc[i] = "dropping"
    /\ \/ recs' = recs
       \/ pc[i] = "dropping" /\ DOMAIN recs' \cup {i} = DOMAIN recs \cup {i}
    /\ \/ index' = index
       \/ pc[i] = "unlisting" /\ pc'[i] \notin Listed /\ index' = index \ {i}

OnPermits(i) ==
    \/ /\ pc[i] = "queued" /\ pc'[i] = "entered" /\ permits > 0 /\ permits' = permits - 1
       /\ ~Parallel(cfg) => ~\E j \in bounded : Failed(j)
    \/ pc[i] = "queued" /\ pc'[i] = "over" /\ out'[i] = "cancelled" /\ permits' = permits
    \/ pc[i] \in Working /\ pc'[i] \in Working /\ permits' = permits
    \/ pc[i] \in Working /\ pc'[i] = "over" /\ permits' = permits + 1

OnEvents(i) ==
    /\ cut \subseteq cut'
    /\ pc'[i] \in Early => pc[i] \in Early /\ ev'[i] = ev[i]
    /\ pc'[i] = "over" =>
          i \in cut' \/ ev'[i] # "started" \/ (pc[i] \in Early /\ ev'[i] = ev[i])

\* Every step of a task, whatever it is interrupted by, does only that.
LEMMA TaskEffect ==
    ASSUME Shape, NEW i \in Ids, TaskMoves(i)
    PROVE  MovesOnly(i) /\ OnPad(i) /\ OnPermits(i) /\ OnEvents(i)
<1> DEFINE Effect == MovesOnly(i) /\ OnPad(i) /\ OnPermits(i) /\ OnEvents(i)
<1> USE DEF Shape, Goto, Over, Runs, Working, Listed, Early, Places, Outcomes
\* A step that leaves the outcome or the events alone rewrites them in place.
<1>0. /\ out' = out => out' = [out EXCEPT ![i] = out[i]]
      /\ ev' = ev => ev' = [ev EXCEPT ![i] = ev[i]]
      /\ out[i] \in Outcomes /\ ev[i] \in {"none", "started", "completed", "failed"}
    OBVIOUS
<1>1. CASE Acquire(i)
    BY <1>0, <1>1 DEF Acquire, MovesOnly, OnPad, OnPermits, OnEvents
<1>2. CASE CheckAbort(i)
    BY <1>0, <1>2 DEF CheckAbort, MovesOnly, OnPad, OnPermits, OnEvents
<1>3. CASE Fetch(i)
    BY <1>0, <1>3 DEF Fetch, MovesOnly, OnPad, OnPermits, OnEvents
<1>4. CASE EmitStarted(i)
    BY <1>0, <1>4 DEF EmitStarted, MovesOnly, OnPad, OnPermits, OnEvents
<1>5. CASE AgentEnds(i)
    BY <1>0, <1>5 DEF AgentEnds, MovesOnly, OnPad, OnPermits, OnEvents
<1>6. CASE AgentRaises(i)
    BY <1>0, <1>6 DEF AgentRaises, MovesOnly, OnPad, OnPermits, OnEvents
<1>7. CASE StashConfigRaises(i)
    BY <1>0, <1>7 DEF StashConfigRaises, MovesOnly, OnPad, OnPermits, OnEvents
<1>8. CASE DropRecord(i)
    BY <1>0, <1>8 DEF DropRecord, MovesOnly, OnPad, OnPermits, OnEvents
<1>9. CASE DropIndex(i)
    BY <1>0, <1>9 DEF DropIndex, MovesOnly, OnPad, OnPermits, OnEvents
<1>10. CASE EmitCompleted(i)
    BY <1>0, <1>10 DEF EmitCompleted, MovesOnly, OnPad, OnPermits, OnEvents
<1>11. CASE EmitFailed(i)
    BY <1>0, <1>11 DEF EmitFailed, MovesOnly, OnPad, OnPermits, OnEvents
<1>12. ASSUME NEW how \in Outcomes, Interrupted(i, how), UNCHANGED <<still, ran>>
       PROVE Effect
    <2> USE <1>0, <1>12, InterruptedMoves
    <2>1. MovesOnly(i)
        BY DEF MovesOnly
    <2>2. OnPad(i)
        BY DEF OnPad
    <2>3. OnPermits(i)
        BY DEF OnPermits
    <2>4. OnEvents(i)
        BY DEF OnEvents
    <2> QED BY <2>1, <2>2, <2>3, <2>4
<1>13. CASE StepRaises(i)
    BY <1>12, <1>13 DEF StepRaises
<1>14. CASE CancelArrives(i)
    <2>1. CASE Interrupted(i, "cancelled")
        BY <1>12, <1>14, <2>1 DEF CancelArrives
    <2>2. CASE ~Interrupted(i, "cancelled")
        <3>1. \/ pc[i] = "queued" /\ Goto(i, "over") /\ out' = [out EXCEPT ![i] = "cancelled"]
              \/ pc[i] = "agent" /\ Goto(i, "failing") /\ out' = [out EXCEPT ![i] = "cancelled"]
              \/ pc[i] = "failing" /\ UNCHANGED <<pc, out>>
            BY <1>14, <2>2 DEF CancelArrives
        <3>2. UNCHANGED <<still, pad, ran, ev, permits, cut>>
            BY <1>14, <2>2 DEF CancelArrives
        <3>3. pc' = pc => pc' = [pc EXCEPT ![i] = pc[i]]
            OBVIOUS
        <3>4. MovesOnly(i)
            BY <1>0, <3>1, <3>2, <3>3 DEF MovesOnly
        <3> QED BY <3>1, <3>2, <3>4 DEF OnPad, OnPermits, OnEvents
    <2> QED BY <2>1, <2>2
<1> QED BY <1>1, <1>2, <1>3, <1>4, <1>5, <1>6, <1>7, <1>8, <1>9, <1>10, <1>11, <1>13,
           <1>14 DEF TaskMoves, TaskStep

\* A set of naturals that is not empty has a least element.
LEMMA LeastNatural ==
    ASSUME NEW S, S \subseteq Nat, S # {}
    PROVE  \E x \in S : \A y \in S : x <= y
<1>1. PICK x \in S : \A y \in S : ~(<<y, x>> \in OpToRel(<, Nat))
    BY NatLessThanWellFounded, WFMin, Zenon
<1>2. ASSUME NEW y \in S PROVE ~(y < x)
    <2>1. y \in Nat /\ x \in Nat
        OBVIOUS
    <2> QED BY <1>1, <2>1, Zenon DEF OpToRel
<1>3. \A y \in S : x <= y
    BY <1>2
<1> QED BY <1>3

\* The records of a call that are not kept have an id that the collection lists
\* already, or that an earlier record of the call brings in: of every id that is
\* not listed, stash_records keeps the first record.
LEMMA EveryIdIsKept ==
    ASSUME NEW c \in Calls
    PROVE  /\ DOMAIN NewRecords(c) \subseteq Nat
           /\ \A k \in DOMAIN NewRecords(c) : NewRecords(c)[k][1] \in Ids \ index
           /\ Range(compute_target_ids(c)) \subseteq Ids
           /\ Range(compute_target_ids(c))
                \subseteq {NewRecords(c)[k][1] : k \in DOMAIN NewRecords(c)} \cup index
<1> DEFINE target == compute_target_ids(c)
<1>1. c.records \in Seq(Payloads)
    BY IterationAssumption
<1>2. Survivors(c) \subseteq Nat /\ \A k \in Survivors(c) : c.records[k] \in Payloads
    BY <1>1 DEF Survivors
<1>3. DOMAIN target = Survivors(c) /\ \A k \in Survivors(c) : target[k] \in Ids
    <2>1. DOMAIN target = Survivors(c)
        BY DEF compute_target_ids
    <2>2. ASSUME NEW k \in Survivors(c) PROVE target[k] \in Ids
        BY <1>2, <2>2, IterationAssumption DEF compute_target_ids
    <2> QED BY <2>1, <2>2
<1> DEFINE fresh == {k \in Survivors(c) :
                        /\ target[k] \notin index
                        /\ \A j \in Survivors(c) : target[j] = target[k] => k <= j}
<1>4. NewRecords(c) = [k \in fresh |-> <<target[k], c.records[k]>>]
    BY DEF NewRecords
<1> HIDE DEF target
<1>5. DOMAIN NewRecords(c) = fresh /\ \A k \in fresh : NewRecords(c)[k][1] = target[k]
    BY <1>4
<1>6. ASSUME NEW x \in Range(target), x \notin index
      PROVE \E k \in fresh : target[k] = x
    <2> DEFINE S == {j \in Survivors(c) : target[j] = x}
    <2>1. S # {}
        BY <1>3 DEF Range
    <2>2. PICK k \in S : \A j \in S : k <= j
        BY <1>2, <2>1, LeastNatural
    <2> QED BY <1>6, <2>2
<1>7. Range(target) \subseteq Ids
    BY <1>3 DEF Range
<1>8. Range(target) \subseteq {NewRecords(c)[k][1] : k \in DOMAIN NewRecords(c)} \cup index
    BY <1>5, <1>6
<1>9. \A k \in fresh : target[k] \in Ids \ index /\ k \in Nat
    BY <1>2, <1>3
<1> QED BY <1>5, <1>7, <1>8, <1>9 DEF target

\* Every step keeps the tasks and the ids well formed.
LEMMA ShapeStep == Shape /\ PadInv /\ [Next]_vars => Shape'
<1> SUFFICES ASSUME Shape, PadInv, [Next]_vars PROVE Shape'
    OBVIOUS
<1>1. ASSUME NEW i \in Ids, TaskMoves(i) PROVE Shape'
    BY <1>1, TaskEffect DEF MovesOnly, OnPad, Shape
<1>2. CASE NodeMoves
    BY <1>2 DEF Shape, NodeMoves, WalkEnds, SequenceEnds, CancelSiblings, Drained,
           YieldTurn, YieldRaises, Abort
<1>3. CASE StashMoves
    <2>1. CASE StashIndex
        <3>1. index' = index \cup NewIds
            BY <2>1 DEF StashIndex, NewIds
        <3>2. NewIds \subseteq Ids
            BY DEF PadInv, CallStoresUnlisted, NewIds
        <3> QED BY <2>1, <3>1, <3>2 DEF Shape, StashIndex
    <2> QED BY <1>3, <2>1 DEF Shape, StashMoves, StashCall, StashSet, StashFails,
               RecordExpires
<1>4. CASE StartNode
    <2>1. bounded' \subseteq Ids
        BY <1>4 DEF Shape, StartNode, Snapshot
    <2> QED BY <1>4, <2>1 DEF Shape, StartNode, Places
<1>5. CASE Crash
    BY <1>5 DEF Shape, Crash, NoTasks, Places, Outcomes
<1>6. CASE UNCHANGED vars
    BY <1>6 DEF Shape, vars
<1> QED BY StepCases, <1>1, <1>2, <1>3, <1>4, <1>5, <1>6

\* No step loses a record that was reported stashed.
LEMMA PadStep == Shape /\ PadInv /\ [Next]_vars => PadInv'
<1> SUFFICES ASSUME Shape, PadInv, [Next]_vars PROVE PadInv'
    OBVIOUS
<1>1. ASSUME NEW i \in Ids, TaskMoves(i) PROVE PadInv'
    <2>1. MovesOnly(i) /\ OnPad(i)
        BY <1>1, TaskEffect
    <2>2. /\ \A j \in Ids \ {i} : pc'[j] = pc[j]
          /\ UNCHANGED <<call, told, lapsed>>
          /\ ran \subseteq ran' /\ index \ {i} \subseteq index' /\ index' \subseteq index
          /\ DOMAIN recs \ {i} \subseteq DOMAIN recs'
        BY <2>1 DEF Shape, MovesOnly, OnPad
    <2>3. i \in index \ index' => i \in ran
        BY <2>1 DEF OnPad, PadInv, TaskOwnsItsId
    <2>4. i \in DOMAIN recs \ DOMAIN recs' => i \in ran /\ i \in index
        BY <2>1 DEF OnPad, PadInv, TaskOwnsItsId, Listed
    <2>5. TaskOwnsItsId'
        <3>1. ASSUME NEW j \in Ids, j # i
              PROVE /\ pc'[j] \in Listed => j \in index'
                    /\ pc'[j] \in {"dropping", "unlisting"} => j \in ran'
            BY <2>2, <3>1 DEF PadInv, TaskOwnsItsId
        <3>2. /\ pc'[i] \in Listed => i \in index'
              /\ pc'[i] \in {"dropping", "unlisting"} => i \in ran'
            BY <2>1, <2>2 DEF OnPad, PadInv, TaskOwnsItsId
        <3> QED BY <3>1, <3>2 DEF TaskOwnsItsId
    <2>6. CallStoresUnlisted'
        <3>1. \A k \in DOMAIN call.new : call.new[k][1] # i \/ i \in DOMAIN recs'
                                          \/ i \notin DOMAIN recs
            BY <2>4 DEF PadInv, CallStoresUnlisted
        <3>2. \A k \in DOMAIN call'.new :
                 /\ call'.new[k][1] \in Ids \ index'
                 /\ k < call'.at => call'.new[k][1] \in DOMAIN recs' \cup lapsed'
            BY <2>2, <3>1 DEF PadInv, CallStoresUnlisted
        <3>3. call'.ids \subseteq NewIds' \cup index' \cup ran'
            BY <2>2, <2>3 DEF PadInv, CallStoresUnlisted, NewIds
        <3> QED BY <2>2, <3>2, <3>3 DEF PadInv, CallStoresUnlisted
    <2>7. index' \subseteq DOMAIN recs' \cup ran' \cup lapsed' /\ told' \subseteq index' \cup ran'
        BY <2>2, <2>3, <2>4 DEF PadInv
    <2> QED BY <2>5, <2>6, <2>7 DEF PadInv
<1>2. CASE NodeMoves
    <2>1. UNCHANGED <<pc, pad, call, ran>>
        BY <1>2 DEF NodeMoves, WalkEnds, SequenceEnds, CancelSiblings, Drained,
               YieldTurn, YieldRaises, Abort
    <2> QED BY <2>1 DEF PadInv, TaskOwnsItsId, CallStoresUnlisted, NewIds
<1>3. CASE StashMoves
    <2>1. ASSUME NEW c \in Calls, StashCall(c) PROVE PadInv'
        <3>1. UNCHANGED <<pc, pad, ran>>
            BY <2>1 DEF StashCall
        <3>2. CASE call' = NoCall
            BY <3>1, <3>2 DEF PadInv, TaskOwnsItsId, CallStoresUnlisted, NewIds, NoCall
        <3>3. CASE call' = [new |-> NewRecords(c), ids |-> Range(compute_target_ids(c)),
                            at |-> 1]
            <4>1. /\ call'.new = NewRecords(c) /\ call'.at = 1
                  /\ call'.ids = Range(compute_target_ids(c))
                BY <3>3
            <4>2. \A k \in DOMAIN NewRecords(c) : k \in Nat /\ k # 0
                BY IterationAssumption DEF NewRecords, Survivors
            <4>3. CallStoresUnlisted'
                BY <3>1, <4>1, <4>2, EveryIdIsKept DEF CallStoresUnlisted, NewIds
            <4> QED BY <3>1, <4>3 DEF PadInv, TaskOwnsItsId
        <3> QED BY <2>1, <3>2, <3>3 DEF StashCall
    <2>2. CASE StashSet
        <3>1. PICK k \in DOMAIN call.new :
                  /\ k >= call.at /\ \A j \in DOMAIN call.new : j < k => j < call.at
                  /\ recs' = [x \in DOMAIN recs \cup {call.new[k][1]} |->
                                 IF x = call.new[k][1] THEN call.new[k][2] ELSE recs[x]]
                  /\ lapsed' = lapsed \ {call.new[k][1]}
                  /\ call' = [call EXCEPT !.at = k + 1]
            BY <2>2 DEF StashSet
        <3>2. UNCHANGED <<pc, index, told, ran>>
            BY <2>2 DEF StashSet
        <3>3. DOMAIN recs' = DOMAIN recs \cup {call.new[k][1]}
            BY <3>1
        <3>4. call'.new = call.new /\ call'.ids = call.ids /\ call'.at = k + 1
            BY <3>1, <2>2 DEF PadInv, CallStoresUnlisted
        <3>5. \A j \in DOMAIN call.new : j < k + 1 => j < call.at \/ j = k
            BY <3>1 DEF PadInv, CallStoresUnlisted
        <3>6. CallStoresUnlisted'
            BY <3>1, <3>2, <3>3, <3>4, <3>5 DEF PadInv, CallStoresUnlisted, NewIds
        <3> QED BY <3>1, <3>2, <3>3, <3>6 DEF PadInv, TaskOwnsItsId
    <2>3. CASE StashIndex
        <3>1. /\ index' = index \cup NewIds /\ told' = told \cup call.ids
              /\ ran' = ran \ NewIds /\ call' = NoCall
              /\ UNCHANGED <<pc, recs, lapsed>>
              /\ \A k \in DOMAIN call.new : k < call.at
            BY <2>3 DEF StashIndex, NewIds
        <3>2. NewIds \subseteq DOMAIN recs \cup lapsed /\ NewIds \cap index = {}
            BY <3>1 DEF PadInv, CallStoresUnlisted, NewIds
        <3>3. TaskOwnsItsId'
            BY <3>1, <3>2 DEF PadInv, TaskOwnsItsId, Listed
        <3>4. CallStoresUnlisted'
            BY <3>1 DEF CallStoresUnlisted, NoCall
        <3>5. call.ids \subseteq NewIds \cup index \cup ran
            BY DEF PadInv, CallStoresUnlisted
        <3> QED BY <3>1, <3>2, <3>3, <3>4, <3>5 DEF PadInv
    <2>4. CASE StashFails
        BY <2>4 DEF StashFails, PadInv, TaskOwnsItsId, CallStoresUnlisted, NewIds, NoCall
    <2>5. ASSUME NEW x \in Ids, RecordExpires(x) PROVE PadInv'
        <3>1. /\ DOMAIN recs' = DOMAIN recs \ {x} /\ lapsed' = lapsed \cup {x}
              /\ UNCHANGED <<pc, index, told, call, ran>>
            BY <2>5 DEF RecordExpires
        <3> QED BY <3>1 DEF PadInv, TaskOwnsItsId, CallStoresUnlisted, NewIds
    <2> QED BY <1>3, <2>1, <2>2, <2>3, <2>4, <2>5 DEF StashMoves
<1>4. CASE StartNode
    <2>1. /\ UNCHANGED <<pad, call, ran>> /\ bounded' \subseteq index
          /\ \A i \in Ids : pc'[i] \in {"queued", "idle"} /\ (pc'[i] = "queued" => i \in bounded')
        BY <1>4 DEF StartNode, Snapshot
    <2> QED BY <2>1 DEF PadInv, TaskOwnsItsId, CallStoresUnlisted, NewIds, Listed
<1>5. CASE Crash
    BY <1>5 DEF Crash, NoTasks, PadInv, TaskOwnsItsId, CallStoresUnlisted, NewIds, NoCall, Listed
<1>6. CASE UNCHANGED vars
    BY <1>6 DEF vars, PadInv, TaskOwnsItsId, CallStoresUnlisted, NewIds
<1> QED BY StepCases, <1>1, <1>2, <1>3, <1>4, <1>5, <1>6

-----------------------------------------------------------------------------
\* Whatever a task meets, it closes what it opened, gives its permit back, and
\* does not move once the node has ended.
LEMMA TaskKeepsLoop ==
    ASSUME Shape, LoopInv, NEW i \in Ids, TaskMoves(i)
    PROVE  LoopInv'
<1>1. MovesOnly(i) /\ OnPermits(i) /\ OnEvents(i)
    BY TaskEffect
<1>2. /\ UNCHANGED <<cfg, node, bounded>>
      /\ \A j \in Ids \ {i} : pc'[j] = pc[j] /\ out'[j] = out[j] /\ ev'[j] = ev[j]
      /\ pc[i] # "idle" /\ pc'[i] # "idle" /\ pc[i] # "over"
    BY <1>1 DEF Shape, MovesOnly, OnPermits, Working
<1>3. Parallel(cfg)' = Parallel(cfg) /\ Source(cfg)' = Source(cfg)
    BY <1>2
<1>4. i \in bounded /\ bounded \subseteq Ids
    BY <1>2 DEF LoopInv, Walked, Shape
<1>5. InOrder'
    <2> SUFFICES ASSUME ~Parallel(cfg)
                 PROVE /\ permits' \in {0, 1}
                       /\ permits' = 1 => NoneWorking'
                       /\ (\E j \in bounded : Failed(j)') => NoneWorking'
                       /\ \A j, k \in Ids : pc'[j] \in Working /\ pc'[k] \in Working => j = k
        BY <1>2, <1>3 DEF InOrder
    <2>0. /\ permits \in {0, 1}
          /\ permits = 1 => NoneWorking
          /\ (\E j \in bounded : Failed(j)) => NoneWorking
          /\ \A j, k \in Ids : pc[j] \in Working /\ pc[k] \in Working => j = k
        BY DEF LoopInv, InOrder
    <2>1. \A j \in bounded \ {i} : Failed(j)' <=> Failed(j)
        BY <1>2, <1>4 DEF Failed
    <2>2. CASE pc[i] = "queued" /\ pc'[i] = "entered"
        <3>1. permits = 1 /\ permits' = 0 /\ ~\E j \in bounded : Failed(j)
            BY <1>1, <2>0, <2>2 DEF OnPermits, Working
        <3>2. ~Failed(i)'
            BY <2>2 DEF Failed
        <3> QED BY <1>2, <2>0, <2>1, <3>1, <3>2 DEF NoneWorking
    <2>3. CASE pc[i] = "queued" /\ pc'[i] = "over"
        <3>1. permits' = permits /\ ~Failed(i)'
            BY <1>1, <2>3 DEF OnPermits, Working, Failed
        <3> QED BY <1>2, <2>0, <2>1, <2>3, <3>1 DEF NoneWorking, Working
    <2>4. CASE pc[i] \in Working
        <3>1. \A j \in Ids \ {i} : pc'[j] \notin Working
            BY <1>2, <2>0, <2>4
        <3>2. permits = 0 /\ ~\E j \in bounded : Failed(j)
            BY <2>0, <2>4 DEF NoneWorking
        <3>3. CASE pc'[i] = "over"
            BY <1>1, <2>4, <3>1, <3>2, <3>3 DEF OnPermits, NoneWorking, Working
        <3>4. CASE pc'[i] \in Working
            <4>1. ~Failed(i)'
                BY <3>4 DEF Failed, Working
            <4> QED BY <1>1, <2>1, <2>4, <3>1, <3>2, <3>4, <4>1 DEF OnPermits, Working
        <3> QED BY <1>1, <2>4, <3>3, <3>4 DEF OnPermits, Working
    <2> QED BY <1>1, <2>2, <2>3, <2>4 DEF OnPermits
<1>6. Events'
    <2>1. ASSUME NEW j \in Ids, j # i
          PROVE /\ pc'[j] \in {"idle", "queued", "entered", "fetching", "starting"} => ev'[j] = "none"
                /\ ev'[j] = "started" =>
                      j \in cut' \/ pc'[j] \in {"agent", "dropping", "unlisting", "closing", "failing"}
        BY <1>1, <1>2, <2>1 DEF LoopInv, Events, OnEvents
    <2>2. pc'[i] \in {"idle", "queued", "entered", "fetching", "starting"} => ev'[i] = "none"
        BY <1>1, <1>2 DEF LoopInv, Events, OnEvents, Early
    <2>3. ev'[i] = "started" =>
              i \in cut' \/ pc'[i] \in {"agent", "dropping", "unlisting", "closing", "failing"}
        BY <1>1, <1>2, <2>2 DEF LoopInv, Events, OnEvents, OnPermits, Early, Working
    <2> QED BY <2>1, <2>2, <2>3 DEF Events
<1>7. EndedClean'
    <2> SUFFICES ASSUME node \in Ended, NEW j \in bounded
                 PROVE \/ pc'[j] = "over"
                       \/ ~Parallel(cfg) /\ pc'[j] = "queued" /\ \E k \in bounded : Failed(k)'
        BY <1>2, <1>3 DEF EndedClean
    <2>1. EndedClean
        BY DEF LoopInv, Walked
    <2>2. ~Parallel(cfg) /\ pc[i] = "queued" /\ \E k \in bounded : Failed(k)
        BY <1>2, <1>4, <2>1 DEF EndedClean
    <2>3. pc'[i] = "over"
        BY <1>1, <2>2 DEF OnPermits, Working
    <2>4. \A k \in bounded : Failed(k) => Failed(k)'
        BY <1>2, <1>4 DEF Failed
    <2> QED BY <1>2, <1>4, <2>1, <2>2, <2>3, <2>4 DEF EndedClean
<1>8. Walked'
    <2>1. \A j \in Ids : pc'[j] # "idle" <=> j \in bounded'
        BY <1>2, <1>4 DEF LoopInv, Walked
    <2>2. node' # "waiting"
        BY <1>2 DEF LoopInv, Walked
    <2>3. bounded' # {} => Source(cfg)' = "scratchpad"
        BY <1>2, <1>3 DEF LoopInv, Walked
    <2> QED BY <1>7, <2>1, <2>2, <2>3 DEF Walked
<1> QED BY <1>5, <1>6, <1>8 DEF LoopInv

\* The node ends its loop only when no task of it is at work.
LEMMA LoopStep == Shape /\ LoopInv /\ [Next]_vars => LoopInv'
<1> SUFFICES ASSUME Shape, LoopInv, [Next]_vars PROVE LoopInv'
    OBVIOUS
<1>0. Walked /\ Events /\ InOrder /\ EndedClean
    BY DEF LoopInv, Walked
\* A step that leaves the tasks alone keeps what the tasks keep.
<1>keep. ASSUME UNCHANGED <<cfg, bounded, pc, out, ev, permits, cut>>
         PROVE InOrder' /\ Events' /\ Parallel(cfg)' = Parallel(cfg)
               /\ Source(cfg)' = Source(cfg)
               /\ (\A i \in bounded : Failed(i)' <=> Failed(i))
    BY <1>0, <1>keep DEF InOrder, Events, NoneWorking, Failed
<1>1. ASSUME NEW i \in Ids, TaskMoves(i) PROVE LoopInv'
    BY <1>1, TaskKeepsLoop
<1>2. CASE NodeMoves
    <2>1. UNCHANGED <<cfg, bounded, pc, out, ev, permits, cut>>
        BY <1>2 DEF NodeMoves, WalkEnds, SequenceEnds, CancelSiblings, Drained,
               YieldTurn, YieldRaises, Abort
    <2>2. InOrder' /\ Events' /\ Parallel(cfg)' = Parallel(cfg)
          /\ Source(cfg)' = Source(cfg) /\ (\A i \in bounded : Failed(i)' <=> Failed(i))
        BY <1>keep, <2>1
    <2>3. node' # "waiting" \/ node' = node
        BY <1>2 DEF NodeMoves, WalkEnds, SequenceEnds, CancelSiblings, Drained,
               YieldTurn, LoopDone, YieldRaises, Abort
    <2>4. CASE WalkEnds \/ Drained
        <3>1. \A i \in bounded : pc[i] = "over"
            BY <2>4 DEF WalkEnds, Drained
        <3> QED BY <1>0, <2>1, <2>2, <2>3, <3>1 DEF LoopInv, Walked, EndedClean
    <2>5. CASE SequenceEnds
        <3>1. ~Parallel(cfg)
            BY <2>5 DEF SequenceEnds
        <3>2. \/ \A i \in bounded : pc[i] = "over"
              \/ \E j \in bounded : Failed(j)
            BY <2>5 DEF SequenceEnds
        <3>3. (\E j \in bounded : Failed(j)) => NoneWorking
            BY <1>0, <3>1 DEF InOrder
        <3>4. \A i \in bounded : pc[i] \in {"queued", "over"} \cup Working
            BY <1>0 DEF Walked, Shape, Places, Working
        <3>5. \A i \in bounded : (\E j \in bounded : Failed(j)) => pc[i] \in {"over", "queued"}
            BY <3>3, <3>4 DEF NoneWorking, Shape
        <3> QED BY <1>0, <2>1, <2>2, <2>3, <3>1, <3>2, <3>5 DEF LoopInv, Walked, EndedClean
    <2>6. CASE (\E end \in TurnEnds : YieldTurn(end)) \/ YieldRaises
        <3>1. Source(cfg) = "agent_yield"
            BY <2>6 DEF YieldTurn, YieldRaises
        <3>2. bounded = {}
            BY <1>0, <3>1 DEF Walked
        <3> QED BY <1>0, <2>1, <2>2, <2>3, <3>2 DEF LoopInv, Walked, EndedClean
    <2>7. CASE CancelSiblings
        BY <1>0, <2>1, <2>2, <2>3, <2>7 DEF CancelSiblings, LoopInv, Walked, EndedClean, Ended
    <2>8. CASE Abort
        BY <1>0, <2>1, <2>2, <2>8 DEF Abort, LoopInv, Walked, EndedClean
    <2> QED BY <1>2, <2>4, <2>5, <2>6, <2>7, <2>8 DEF NodeMoves
<1>3. CASE StashMoves
    <2>1. UNCHANGED <<cfg, node, bounded, pc, out, ev, permits, cut>>
        BY <1>3 DEF StashMoves, StashCall, StashSet, StashIndex, StashFails, RecordExpires
    <2> QED BY <1>0, <1>keep, <2>1 DEF LoopInv, Walked, EndedClean
<1>4. CASE StartNode
    <2>1. /\ UNCHANGED <<cfg, out, ev, cut>> /\ bounded' \subseteq Ids
          /\ node = "waiting" /\ node' \in {"looping", "failed"}
          /\ bounded' # {} => node' = "looping" /\ Source(cfg) = "scratchpad"
          /\ pc' = [i \in Ids |-> IF i \in bounded' THEN "queued" ELSE "idle"]
          /\ ~Parallel(cfg) => permits' = 1
        BY <1>4 DEF StartNode, Snapshot, Shape
    <2>2. \A i \in Ids : ev'[i] = "none"
        BY <1>0, <2>1 DEF Walked, Events
    <2>3. \A i \in Ids : pc'[i] = IF i \in bounded' THEN "queued" ELSE "idle"
        BY <2>1
    <2>4. NoneWorking'
        BY <2>3 DEF NoneWorking, Working
    <2>5. Parallel(cfg)' = Parallel(cfg) /\ Source(cfg)' = Source(cfg)
        BY <2>1
    <2>6. InOrder'
        BY <2>1, <2>4, <2>5 DEF InOrder, NoneWorking
    <2>7. Events'
        BY <2>2 DEF Events
    <2>8. Walked'
        BY <2>1, <2>3, <2>5 DEF Walked, EndedClean, Ended
    <2> QED BY <2>6, <2>7, <2>8 DEF LoopInv
<1>5. CASE Crash
    <2>1. /\ cfg' = cfg /\ node' = "waiting" /\ bounded' = {} /\ permits' = 0
          /\ \A i \in Ids : pc'[i] = "idle" /\ ev'[i] = "none"
        BY <1>5 DEF Crash, NoTasks
    <2>2. NoneWorking'
        BY <2>1 DEF NoneWorking, Working
    <2> QED BY <2>1, <2>2 DEF LoopInv, InOrder, NoneWorking, Events, Walked, EndedClean, Ended
<1>6. CASE UNCHANGED vars
    BY <1>0, <1>keep, <1>6 DEF vars, LoopInv, Walked, EndedClean
<1> QED BY StepCases, <1>1, <1>2, <1>3, <1>4, <1>5, <1>6

\* A node that has not started has no task, and an empty collection.
LEMMA InitInv == Init => Shape /\ PadInv /\ LoopInv
<1> SUFFICES ASSUME Init PROVE Shape /\ PadInv /\ LoopInv
    OBVIOUS
<1>1. Shape
    BY DEF Init, Shape, Places, Outcomes
<1>2. PadInv
    BY DEF Init, PadInv, TaskOwnsItsId, CallStoresUnlisted, NewIds, NoCall, Listed
<1>3. LoopInv
    BY DEF Init, LoopInv, InOrder, NoneWorking, Working, Events, Walked, EndedClean, Ended
<1> QED BY <1>1, <1>2, <1>3

-----------------------------------------------------------------------------
(* Checks.  Two filters renumber the records of a call: the checker only     *)
(* gets the mapped ones, and the scratchpad only the ones it let pass.       *)

\* Record p passed the schema and the checker, and x is its own id.
Checked(x, p) == p \notin Malformed \cup Unmapped \cup Known /\ x \in {Explicit[p], Hash[p]}

CheckedInv ==
    /\ \A k \in DOMAIN call.new : Checked(call.new[k][1], call.new[k][2])
    /\ \A x \in DOMAIN recs : Checked(x, recs[x])

\* The place of a record in the list that is sent to the checker is its alone,
\* and inside that list.
LEMMA PlaceIsUnique ==
    ASSUME NEW records \in Seq(Payloads), NEW k \in Mapped(records)
    PROVE  /\ Place(records, k) \in 1..Cardinality(Mapped(records))
           /\ \A j \in Mapped(records) : Place(records, j) = Place(records, k) => j = k
<1> DEFINE upTo(n) == {j \in Mapped(records) : j <= n}
<1>1. Mapped(records) \subseteq 1..Len(records) /\ Len(records) \in Nat
    BY DEF Mapped
<1>2. IsFiniteSet(Mapped(records))
    <2>1. IsFiniteSet(1..Len(records))
        BY <1>1, FS_Interval
    <2> QED BY <1>1, <2>1, FS_Subset
<1>3. ASSUME NEW n \in Mapped(records)
      PROVE  IsFiniteSet(upTo(n)) /\ Cardinality(upTo(n)) \in Nat
             /\ Cardinality(upTo(n)) <= Cardinality(Mapped(records))
             /\ Cardinality(Mapped(records)) \in Nat
    <2>1. upTo(n) \in SUBSET Mapped(records)
        OBVIOUS
    <2> HIDE DEF upTo
    <2> QED BY <1>2, <2>1, FS_Subset, FS_CardinalityType
<1>4. Cardinality(upTo(k)) # 0
    <2>1. k \in upTo(k)
        BY <1>1
    <2> HIDE DEF upTo
    <2> QED BY <1>3, <2>1, FS_EmptySet
<1>5. ASSUME NEW i \in Mapped(records), NEW j \in Mapped(records), i <= j,
             Cardinality(upTo(i)) = Cardinality(upTo(j))
      PROVE  i = j
    <2>1. upTo(i) \in SUBSET upTo(j) /\ j \in upTo(j)
        BY <1>1, <1>5
    <2>2. upTo(i) = upTo(j)
        <3> HIDE DEF upTo
        <3> QED BY <1>3, <1>5, <2>1, FS_Subset
    <2>3. j \in upTo(i)
        BY <2>1, <2>2
    <2> QED BY <1>1, <1>5, <2>3
<1>6. \A j \in Mapped(records) : Place(records, j) = Cardinality(upTo(j))
    BY DEF Place
<1> HIDE DEF upTo
<1>7. ASSUME NEW j \in Mapped(records), Place(records, j) = Place(records, k) PROVE j = k
    <2>1. j <= k \/ k <= j
        BY <1>1
    <2> QED BY <1>5, <1>6, <1>7, <2>1
<1>8. Place(records, k) \in 1..Cardinality(Mapped(records))
    BY <1>3, <1>4, <1>6
<1> QED BY <1>7, <1>8

\* A record without a verdict against it is mapped, and it is the one the
\* checker did not know.
LEMMA VerdictIsTheRecords ==
    ASSUME NEW records \in Seq(Payloads), NEW k \in DOMAIN records, ~Verdicts(records)[k]
    PROVE  records[k] \notin Unmapped \cup Known
<1>1. k \in Mapped(records)
    BY DEF Verdicts
<1> DEFINE m == Place(records, k)
<1>2. m \in 1..Cardinality(Mapped(records))
    BY <1>1, PlaceIsUnique
<1>3. (CHOOSE j \in Mapped(records) : Place(records, j) = m) = k
    BY <1>1, PlaceIsUnique
<1>4. m \in DOMAIN Forwarded(records) /\ Forwarded(records)[m] = records[k]
    BY <1>2, <1>3 DEF Forwarded
<1> DEFINE results == [n \in DOMAIN Forwarded(records) |-> Forwarded(records)[n] \in Known]
<1>5. Verdicts(records)[k] = results[m]
    BY <1>1 DEF Verdicts
<1>6. results[m] = (records[k] \in Known)
    BY <1>4
<1>7. records[k] \notin Unmapped
    BY <1>1 DEF Mapped
<1> HIDE DEF results, m
<1> QED BY <1>5, <1>6, <1>7

\* What a call is about to store passed the checks, under its own id.
LEMMA NewRecordsAreChecked ==
    ASSUME NEW c \in Calls, StashedShape(c.records), NEW k \in DOMAIN NewRecords(c)
    PROVE  Checked(NewRecords(c)[k][1], NewRecords(c)[k][2])
<1> DEFINE target == compute_target_ids(c)
           fresh == {n \in Survivors(c) :
                        /\ target[n] \notin index
                        /\ \A j \in Survivors(c) : target[j] = target[n] => n <= j}
<1>1. c.records \in Seq(Payloads)
    BY IterationAssumption
<1>2. NewRecords(c) = [n \in fresh |-> <<target[n], c.records[n]>>]
    BY DEF NewRecords
<1>3. k \in Survivors(c) /\ NewRecords(c)[k] = <<target[k], c.records[k]>>
    <2> HIDE DEF target
    <2> QED BY <1>2
<1>4. k \in DOMAIN c.records /\ ~Verdicts(c.records)[k]
    BY <1>3 DEF Survivors
<1>5. c.records[k] \notin Unmapped \cup Known
    BY <1>1, <1>4, VerdictIsTheRecords
<1>6. c.records[k] \notin Malformed
    BY <1>4 DEF StashedShape, Range
<1>7. target[k] \in {Explicit[c.records[k]], Hash[c.records[k]]}
    BY <1>3 DEF compute_target_ids
<1> HIDE DEF target
<1> QED BY <1>3, <1>5, <1>6, <1>7 DEF Checked

\* The task of a record takes it out of the scratchpad or leaves it alone.
LEMMA TaskOnlyDrops ==
    ASSUME NEW i \in Ids, TaskMoves(i)
    PROVE  call' = call /\ recs' \in {recs, [x \in DOMAIN recs \ {i} |-> recs[x]]}
<1>1. ASSUME NEW how, Interrupted(i, how)
      PROVE recs' \in {recs, [x \in DOMAIN recs \ {i} |-> recs[x]]}
    BY <1>1 DEF Interrupted, MaybeDropped
<1>2. CASE StepRaises(i)
    BY <1>1, <1>2 DEF StepRaises
<1>3. CASE CancelArrives(i)
    BY <1>1, <1>3 DEF CancelArrives
<1>4. CASE ~StepRaises(i) /\ ~CancelArrives(i)
    BY <1>4 DEF TaskMoves, TaskStep, Acquire, CheckAbort, Fetch, EmitStarted, AgentEnds,
           AgentRaises, StashConfigRaises, DropRecord, DropIndex, EmitCompleted, EmitFailed
<1> QED BY <1>2, <1>3, <1>4

\* Records enter the scratchpad from a call only, and a call from the filters.
LEMMA CheckedStep == CheckedInv /\ [Next]_vars => CheckedInv'
<1> SUFFICES ASSUME CheckedInv, [Next]_vars PROVE CheckedInv'
    OBVIOUS
<1>1. ASSUME NEW i \in Ids, TaskMoves(i) PROVE CheckedInv'
    <2>1. call' = call /\ (recs' = recs \/ recs' = [x \in DOMAIN recs \ {i} |-> recs[x]])
        BY <1>1, TaskOnlyDrops
    <2>2. \A x \in DOMAIN recs' : x \in DOMAIN recs /\ recs'[x] = recs[x]
        BY <2>1
    <2> QED BY <2>1, <2>2 DEF CheckedInv
<1>2. CASE NodeMoves \/ StartNode \/ UNCHANGED vars
    <2>1. call' = call /\ recs' = recs
        BY <1>2 DEF NodeMoves, WalkEnds, SequenceEnds, CancelSiblings, Drained, YieldTurn,
               YieldRaises, Abort, StartNode, vars
    <2> QED BY <2>1 DEF CheckedInv
<1>3. CASE Crash \/ StashIndex \/ StashFails
    <2>1. call' = NoCall /\ recs' = recs
        BY <1>3 DEF Crash, StashIndex, StashFails
    <2> QED BY <2>1 DEF CheckedInv, NoCall
<1>4. ASSUME NEW c \in Calls, StashCall(c) PROVE CheckedInv'
    <2>1. CASE ~StashedShape(c.records)
        BY <1>4, <2>1 DEF StashCall, CheckedInv, NoCall
    <2>2. CASE StashedShape(c.records)
        <3>1. call'.new = NewRecords(c) /\ recs' = recs
            BY <1>4, <2>2 DEF StashCall
        <3> QED BY <2>2, <3>1, NewRecordsAreChecked DEF CheckedInv
    <2> QED BY <2>1, <2>2
<1>5. CASE StashSet
    <2>1. PICK k \in DOMAIN call.new :
             /\ recs' = [x \in DOMAIN recs \cup {call.new[k][1]} |->
                            IF x = call.new[k][1] THEN call.new[k][2] ELSE recs[x]]
             /\ call' = [call EXCEPT !.at = k + 1]
        BY <1>5 DEF StashSet
    <2>2. call'.new = call.new
        BY <2>1
    <2>3. ASSUME NEW x \in DOMAIN recs' PROVE Checked(x, recs'[x])
        BY <2>1, <2>3 DEF CheckedInv
    <2> QED BY <2>2, <2>3 DEF CheckedInv
<1>6. ASSUME NEW y \in Ids, RecordExpires(y) PROVE CheckedInv'
    <2>1. call' = call /\ \A x \in DOMAIN recs' : x \in DOMAIN recs /\ recs'[x] = recs[x]
        BY <1>6 DEF RecordExpires
    <2> QED BY <2>1 DEF CheckedInv
<1> QED BY StepCases, <1>1, <1>2, <1>3, <1>4, <1>5, <1>6 DEF StashMoves

-----------------------------------------------------------------------------
\* A record that stash_records reported as stashed or already_stashed stays in
\* its collection until an agent run on it has ended or its own TTL has run out:
\* for any batches, any number of tasks under the semaphore, and whatever fails,
\* is cancelled, aborted or crashes between the SETs, the SADD, the DEL and the
\* SREM.
THEOREM StashedRecordIsNotLost == Spec => []NoRecordLost
<1>1. Shape /\ PadInv => NoRecordLost
    BY DEF PadInv, NoRecordLost
<1> QED BY <1>1, InitInv, ShapeStep, PadStep, PTL DEF Spec

\* Once the node has ended, an iteration whose iteration_started was emitted has
\* its iteration_completed or iteration_failed, or the emit that should have
\* closed it was itself interrupted (_execute_single_scratchpad_iteration), or it
\* was an iteration of a worker that died; the timeline keeps those, and only
\* those, open for good.
THEOREM StartedIterationIsClosed == Spec => []StartedIsClosed
<1>1. Shape /\ LoopInv => StartedIsClosed
    BY DEF Shape, LoopInv, Events, Walked, EndedClean, Open, StartedIsClosed
<1> QED BY <1>1, InitInv, ShapeStep, PadStep, LoopStep, PTL DEF Spec

\* A parallel walk that has ended has no task left (_cancel_and_drain): none of
\* them emits, runs its agent or drops a record after node_failed.
THEOREM EndedNodeHasNoTask == Spec => []NoOrphanIteration
<1>1. LoopInv => NoOrphanIteration
    BY DEF LoopInv, Walked, EndedClean, NoOrphanIteration
<1> QED BY <1>1, InitInv, ShapeStep, PadStep, LoopStep, PTL DEF Spec

\* Whatever a call holds, a record its checker or the schema objected to is never
\* stored, and every record is stored under its own id: the verdicts spliced back
\* in build_call_context_checker and the ids of compute_target_ids stay with
\* their records.
THEOREM CheckedRecordsOnly == Spec => []StoredAsChecked
<1>1. Init => CheckedInv
    BY DEF Init, CheckedInv, NoCall
<1>2. CheckedInv => StoredAsChecked
    BY DEF CheckedInv, Checked, StoredAsChecked
<1> QED BY <1>1, <1>2, CheckedStep, PTL DEF Spec
=============================================================================
