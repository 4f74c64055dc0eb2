------------------------- MODULE ConversationProofs -------------------------
(***************************************************************************)
(* Proofs about TurnLock, for any number of requests, conversations and    *)
(* users and any TTL, and about Wire, for any number of rows, any media    *)
(* and any of them that the host does not find.                            *)
(***************************************************************************)
EXTENDS TurnLock, Wire, FiniteSetTheorems, SequenceTheorems, WellFoundedInduction, TLAPS

-----------------------------------------------------------------------------
(* The turn lock.                                                          *)

USE DEF NoExpiry, history

\* Every action keeps the variables in their types: a TTL never leaves its
\* range and a key holds a token or nothing.
LEMMA TypeStep == TypeOK /\ [Next]_vars => TypeOK'
<1> SUFFICES ASSUME TypeOK, [Next]_vars PROVE TypeOK'
    OBVIOUS
<1> USE TurnLockAssumption DEF TypeOK, Pcs, InsidePcs, Owner
<1>1. ASSUME NEW t \in Turns, TurnStep(t) PROVE TypeOK'
    <2>1. CASE Acquire(t) BY <2>1 DEF Acquire
    <2>2. CASE Refuse(t) BY <2>2 DEF Refuse
    <2>3. CASE Sadd(t) BY <2>3 DEF Sadd
    <2>4. CASE Expire(t) BY <2>4 DEF Expire
    <2>5. CASE Srem(t) BY <2>5 DEF Srem, Unlist
    <2>6. CASE Get(t) BY <2>6 DEF Get
    <2>7. CASE Delete(t) BY <2>7 DEF Delete
    <2> QED BY <1>1, <2>1, <2>2, <2>3, <2>4, <2>5, <2>6, <2>7 DEF TurnStep
<1>2. ASSUME NEW t \in Turns, Crash(t) PROVE TypeOK'
    BY <1>2 DEF Crash
<1>3. ASSUME NEW u \in Users, ScanStep(u) PROVE TypeOK'
    <2>1. CASE Smembers(u) BY <2>1 DEF Smembers
    <2>2. ASSUME NEW c \in Convs, Exists(u, c) PROVE TypeOK'
        BY <2>2 DEF Exists
    <2>3. ASSUME NEW c \in Convs, DropStale(u, c) PROVE TypeOK'
        BY <2>3 DEF DropStale, Unlist
    <2>4. CASE CountDone(u) BY <2>4 DEF CountDone, ScanIdle
    <2> QED BY <1>3, <2>1, <2>2, <2>3, <2>4 DEF ScanStep
<1>4. CASE Tick
    <2>1. lockTtl' \in [Convs -> 0..TTL] /\ listTtl' \in [Users -> NoExpiry..TTL]
        BY <1>4 DEF Tick, Down
    <2>2. lock' \in [Convs -> Turns \cup {NoTurn}] /\ listing' \in [Users -> SUBSET Convs]
        BY <1>4 DEF Tick
    <2>3. overran' \in BOOLEAN
        BY <1>4 DEF Tick
    <2> QED BY <1>4, <2>1, <2>2, <2>3 DEF Tick
<1>5. CASE UNCHANGED vars
    BY <1>5 DEF vars
<1> QED BY <1>1, <1>2, <1>3, <1>4, <1>5 DEF Next

\* The empty Redis and the requests before their first command are typed.
LEMMA InitType == Init => TypeOK
<1> SUFFICES ASSUME Init PROVE TypeOK
    OBVIOUS
<1>1. overran \in BOOLEAN /\ raced \in BOOLEAN
    BY Zenon DEF Init
<1>2. /\ lock \in [Convs -> Turns \cup {NoTurn}]
      /\ lockTtl \in [Convs -> 0..TTL]
      /\ listing \in [Users -> SUBSET Convs]
      /\ listTtl \in [Users -> NoExpiry..TTL]
      /\ pc \in [Turns -> Pcs]
    BY TurnLockAssumption DEF Init, Pcs
<1>3. scan \in [Users -> [at : {"idle", "scan"}, todo : SUBSET Convs, stale : SUBSET Convs]]
    BY DEF Init, ScanIdle
<1> QED BY <1>1, <1>2, <1>3 DEF TypeOK

\* Type correctness of the lock service.
THEOREM TypeCorrect == Spec => []TypeOK
BY InitType, TypeStep, PTL DEF Spec

-----------------------------------------------------------------------------
\* What makes the lock a mutex: until time ran out under a live request, the
\* key of a request that is inside names it. Redis gives that a key exists
\* exactly as long as it has ticks left.
KeyHasTtl == \A c \in Convs : lock[c] = NoTurn <=> lockTtl[c] = 0
HolderKeepsLock == \A t \in Turns : Inside(t) => lock[ConvOf[t]] = t
MutexInv == TypeOK /\ KeyHasTtl /\ (~overran => HolderKeepsLock)

\* The inductive step of MutexInv: only a tick can take a key from its holder,
\* and a tick that does sets overran.
LEMMA MutexStep == MutexInv /\ [Next]_vars => MutexInv'
<1> SUFFICES ASSUME MutexInv, [Next]_vars
             PROVE  KeyHasTtl' /\ (~overran' => HolderKeepsLock')
    BY TypeStep DEF MutexInv
<1> DEFINE Goal == KeyHasTtl' /\ (~overran' => HolderKeepsLock')
<1> USE TurnLockAssumption DEF MutexInv, TypeOK, KeyHasTtl, HolderKeepsLock, Inside, InsidePcs
<1>1. ASSUME NEW t \in Turns, TurnStep(t) PROVE Goal
    <2>1. CASE Acquire(t) BY <2>1 DEF Acquire
    <2>2. CASE Refuse(t) BY <2>2 DEF Refuse
    <2>3. CASE Sadd(t) BY <2>3 DEF Sadd
    <2>4. CASE Expire(t) BY <2>4 DEF Expire
    <2>5. CASE Srem(t) BY <2>5 DEF Srem
    <2>6. CASE Get(t) BY <2>6 DEF Get
    <2>7. CASE Delete(t) BY <2>7 DEF Delete
    <2> QED BY <1>1, <2>1, <2>2, <2>3, <2>4, <2>5, <2>6, <2>7 DEF TurnStep
<1>2. ASSUME NEW t \in Turns, Crash(t) PROVE Goal
    BY <1>2 DEF Crash
<1>3. ASSUME NEW u \in Users, ScanStep(u) PROVE Goal
    BY <1>3 DEF ScanStep, Smembers, Exists, DropStale, CountDone
<1>4. CASE Tick
    <2>1. KeyHasTtl' BY <1>4 DEF Tick, Down
    <2>2. ~overran' => ~overran /\ Timely
        BY <1>4 DEF Tick
    <2>3. ASSUME ~overran' PROVE HolderKeepsLock'
        BY <1>4, <2>2, <2>3 DEF Tick, Timely
    <2> QED BY <2>1, <2>3
<1>5. CASE UNCHANGED vars
    BY <1>5 DEF vars
<1> QED BY <1>1, <1>2, <1>3, <1>4, <1>5 DEF Next

\* No key exists at the start.
LEMMA InitMutex == Init => MutexInv
<1>1. Init => TypeOK
    BY InitType
<1>2. Init => KeyHasTtl /\ HolderKeepsLock
    BY DEF Init, KeyHasTtl, HolderKeepsLock, Inside, InsidePcs
<1> QED BY <1>1, <1>2 DEF MutexInv

\* One turn at a time per conversation, for every number of requests and every
\* interleaving of their Redis commands, deaths and active_turns scans, until
\* time has run out under a live turn.
THEOREM OneTurnAtATime == Spec => []MutualExclusion
<1>1. Init => MutexInv
    BY InitMutex
<1>2. MutexInv => MutualExclusion
    BY DEF MutexInv, HolderKeepsLock, MutualExclusion
<1> QED BY <1>1, <1>2, MutexStep, PTL DEF Spec

-----------------------------------------------------------------------------
\* A running turn stays listed because the listing, renewed after the lock was
\* set, has at least as many ticks left as the lock.
ListingHasTtl == \A u \in Users : listing[u] = {} <=> listTtl[u] = 0
Listed == \A t \in Turns :
    pc[t] \in {"expire", "body"} => ConvOf[t] \in listing[Owner(t)]
ListingOutlivesLock == \A t \in Turns :
    pc[t] = "body" => listTtl[Owner(t)] >= lockTtl[ConvOf[t]]
ListInv ==
    /\ MutexInv
    /\ ListingHasTtl
    /\ ~overran /\ ~raced => Listed /\ ListingOutlivesLock

\* The inductive step of ListInv.
LEMMA ListStep == ListInv /\ [Next]_vars => ListInv'
<1> SUFFICES ASSUME ListInv, [Next]_vars PROVE ListInv'
    OBVIOUS
<1>0. TypeOK' /\ MutexInv'
    BY MutexStep, TypeStep DEF ListInv, MutexInv
<1> DEFINE Goal == /\ ListingHasTtl'
                   /\ ~overran' /\ ~raced' => Listed' /\ ListingOutlivesLock'
<1> USE TurnLockAssumption
        DEF ListInv, ListingHasTtl, Listed, ListingOutlivesLock,
            MutexInv, TypeOK, KeyHasTtl, Owner
<1>1. ASSUME NEW t \in Turns, TurnStep(t) PROVE Goal
    <2>1. CASE Acquire(t) BY <2>1 DEF Acquire, HolderKeepsLock, Inside, InsidePcs
    <2>2. CASE Refuse(t) BY <2>2 DEF Refuse
    <2>3. CASE Sadd(t)
        <3>1. ListingHasTtl'
            <4> SUFFICES ASSUME NEW u \in Users
                         PROVE  listing'[u] = {} <=> listTtl'[u] = 0
                OBVIOUS
            <4>1. CASE u # Owner(t)
                BY <2>3, <4>1 DEF Sadd
            <4>2. CASE u = Owner(t)
                <5>1. listing'[u] # {} /\ ConvOf[t] \in listing'[u]
                    BY <2>3, <4>2 DEF Sadd
                <5>2. listTtl'[u] # 0
                    BY <2>3, <4>2 DEF Sadd
                <5> QED BY <5>1, <5>2
            <4> QED BY <4>1, <4>2
        <3> SUFFICES ASSUME ~overran', ~raced' PROVE Listed' /\ ListingOutlivesLock'
            BY <3>1
        <3>2. Listed /\ ListingOutlivesLock
            BY <2>3 DEF Sadd
        <3>3. Listed'
            BY <2>3, <3>2 DEF Sadd
        <3>4. \A s \in Turns : pc[s] = "body" => listing[Owner(s)] # {}
            BY <3>2
        <3>5. ListingOutlivesLock'
            BY <2>3, <3>2, <3>4 DEF Sadd
        <3> QED BY <3>3, <3>5
    <2>4. CASE Expire(t)
        BY <2>4 DEF Expire
    <2>5. CASE Srem(t)
        <3>1. ListingHasTtl'
            BY <2>5 DEF Srem, Unlist
        <3> SUFFICES ASSUME ~overran', ~raced' PROVE Listed' /\ ListingOutlivesLock'
            BY <3>1
        <3>2. Listed /\ ListingOutlivesLock /\ HolderKeepsLock
            BY <2>5 DEF Srem
        <3>3. \A s \in Turns : s # t /\ pc[s] \in {"expire", "body"} => ConvOf[s] # ConvOf[t]
            BY <2>5, <3>2 DEF Srem, HolderKeepsLock, Inside, InsidePcs
        <3>4. Listed'
            BY <2>5, <3>2, <3>3 DEF Srem, Unlist
        <3>5. ListingOutlivesLock'
            BY <2>5, <3>2, <3>3 DEF Srem, Unlist
        <3> QED BY <3>4, <3>5
    <2>6. CASE Get(t) BY <2>6 DEF Get
    <2>7. CASE Delete(t) BY <2>7 DEF Delete
    <2> QED BY <1>1, <2>1, <2>2, <2>3, <2>4, <2>5, <2>6, <2>7 DEF TurnStep
<1>2. ASSUME NEW t \in Turns, Crash(t) PROVE Goal
    BY <1>2 DEF Crash
<1>3. ASSUME NEW u \in Users, ScanStep(u) PROVE Goal
    <2>1. CASE Smembers(u) BY <2>1 DEF Smembers
    <2>2. ASSUME NEW c \in Convs, Exists(u, c) PROVE Goal
        BY <2>2 DEF Exists
    <2>3. ASSUME NEW c \in Convs, DropStale(u, c) PROVE Goal
        <3>1. ListingHasTtl'
            BY <2>3 DEF DropStale, Unlist
        <3> SUFFICES ASSUME ~overran', ~raced' PROVE Listed' /\ ListingOutlivesLock'
            BY <3>1
        <3>2. Listed /\ ListingOutlivesLock /\ HolderKeepsLock /\ lock[c] = NoTurn
            BY <2>3 DEF DropStale
        <3>3. \A s \in Turns : pc[s] \in {"expire", "body"} => ConvOf[s] # c
            BY <3>2 DEF HolderKeepsLock, Inside, InsidePcs
        <3>4. Listed'
            BY <2>3, <3>2, <3>3 DEF DropStale, Unlist
        <3>5. ListingOutlivesLock'
            BY <2>3, <3>2, <3>3 DEF DropStale, Unlist
        <3> QED BY <3>4, <3>5
    <2>4. CASE CountDone(u) BY <2>4 DEF CountDone
    <2> QED BY <1>3, <2>1, <2>2, <2>3, <2>4 DEF ScanStep
<1>4. ASSUME Tick PROVE Goal
    <2>1. ListingHasTtl'
        BY <1>4 DEF Tick, Down
    <2> SUFFICES ASSUME ~overran', ~raced' PROVE Listed' /\ ListingOutlivesLock'
        BY <2>1
    <2>2. Listed /\ ListingOutlivesLock /\ HolderKeepsLock /\ Timely
        BY <1>4 DEF Tick
    <2>3. \A t \in Turns : pc[t] = "body" =>
              /\ lockTtl[ConvOf[t]] > 1
              /\ listTtl[Owner(t)] > 1
        BY <2>2 DEF Timely, HolderKeepsLock, Inside, InsidePcs
    <2>4. \A t \in Turns : pc[t] # "expire"
        BY <2>2 DEF Timely
    <2>5. Listed' /\ ListingOutlivesLock'
        BY <1>4, <2>2, <2>3, <2>4 DEF Tick, Down
    <2> QED BY <2>5
<1>5. ASSUME UNCHANGED vars PROVE Goal
    BY <1>5 DEF vars
<1> QED BY <1>0, <1>1, <1>2, <1>3, <1>4, <1>5 DEF Next

\* A running turn is listed under its owner, the listing's own TTL
\* notwithstanding, until time ran out under a live turn or a scan unlisted a
\* conversation that was locked again after its EXISTS.
THEOREM RunningIsListed == Spec => []ListedWhileRunning
<1>1. Init => ListInv
    BY InitMutex DEF Init, ListInv, ListingHasTtl, Listed, ListingOutlivesLock
<1>2. ListInv => ListedWhileRunning
    BY DEF ListInv, Listed, ListedWhileRunning
<1> QED BY <1>1, <1>2, ListStep, PTL DEF Spec

-----------------------------------------------------------------------------
(* Sequences, one after the other.                                         *)

\* A set of numbers that has zero and each successor has every number.
LEMMA Induction ==
    ASSUME NEW S, 0 \in S, \A n \in Nat : n \in S => n + 1 \in S
    PROVE  Nat \subseteq S
<1> SUFFICES ASSUME Nat \ S # {} PROVE FALSE
    OBVIOUS
<1> DEFINE R == OpToRel(<, Nat)
<1>1. PICK x \in Nat \ S : \A y \in Nat \ S : ~(<<y, x>> \in R)
    BY NatLessThanWellFounded, WFMin, Zenon
<1>2. x # 0 /\ x - 1 \in Nat /\ x - 1 < x /\ (x - 1) + 1 = x
    OBVIOUS
<1>3. x - 1 \in S
    BY <1>1, <1>2 DEF OpToRel
<1> QED BY <1>2, <1>3

\* The concatenations of the first sequences, each after the other.
Flattens(f, ss, n) == f = [i \in 1..n |-> IF i = 1 THEN ss[i] ELSE f[i - 1] \o ss[i]]
Flats(ss) == CHOOSE f : Flattens(f, ss, Len(ss))

LEMMA FlattensAt ==
    ASSUME NEW f, NEW ss, NEW n, Flattens(f, ss, n), NEW i \in 1..n
    PROVE  f[i] = IF i = 1 THEN ss[i] ELSE f[i - 1] \o ss[i]
BY DEF Flattens

LEMMA FlattensExists ==
    ASSUME NEW ss, NEW n \in Nat
    PROVE  \E f : Flattens(f, ss, n)
<1> DEFINE S == {m \in Nat : \E f : Flattens(f, ss, m)}
<1>1. 0 \in S
    <2>1. Flattens([i \in 1..0 |-> i], ss, 0)
        BY DEF Flattens
    <2> QED BY <2>1
<1>2. ASSUME NEW m \in Nat, m \in S PROVE m + 1 \in S
    <2>1. PICK f : Flattens(f, ss, m)
        BY <1>2
    <2> DEFINE g == [i \in 1..(m + 1) |-> IF i <= m THEN f[i] ELSE IF i = 1 THEN ss[i] ELSE f[i - 1] \o ss[i]]
    <2>2. ASSUME NEW i \in 1..(m + 1)
          PROVE  g[i] = IF i = 1 THEN ss[i] ELSE g[i - 1] \o ss[i]
        <3>1. CASE i = 1
            <4>1. i <= m => f[i] = ss[i]
                BY <2>1, <3>1 DEF Flattens
            <4> QED BY <3>1, <4>1
        <3>2. CASE i # 1
            <4>1. i - 1 \in 1..m /\ i - 1 \in 1..(m + 1) /\ i - 1 <= m
                BY <3>2
            <4>2. g[i - 1] = f[i - 1]
                BY <4>1
            <4>3. i <= m => f[i] = f[i - 1] \o ss[i]
                <5> HIDE DEF S, g
                <5>1. SUFFICES ASSUME i <= m PROVE f[i] = f[i - 1] \o ss[i]
                    OBVIOUS
                <5>2. i \in 1..m
                    BY <5>1
                <5>3. f[i] = IF i = 1 THEN ss[i] ELSE f[i - 1] \o ss[i]
                    BY <2>1, <5>2, FlattensAt
                <5> QED BY <3>2, <5>3
            <4> QED BY <3>2, <4>2, <4>3
        <3> QED BY <3>1, <3>2
    <2>3. Flattens(g, ss, m + 1)
        <3> DEFINE h == [i \in 1..(m + 1) |-> IF i = 1 THEN ss[i] ELSE g[i - 1] \o ss[i]]
        <3>1. \A i \in 1..(m + 1) : g[i] = h[i]
            BY <2>2
        <3>2. g = h
            <4>1. g = [i \in 1..(m + 1) |-> g[i]] /\ h = [i \in 1..(m + 1) |-> h[i]]
                OBVIOUS
            <4> HIDE DEF g, h
            <4> QED BY <3>1, <4>1
        <3> QED BY <3>2 DEF Flattens
    <2> QED BY <2>3
<1> HIDE DEF S
<1>3. Nat \subseteq S
    BY <1>1, <1>2, Induction
<1> QED BY <1>3 DEF S

LEMMA FlatsIs ==
    ASSUME NEW A, NEW ss \in Seq(Seq(A))
    PROVE  /\ FlattenSeq(ss) = IF ss = <<>> THEN <<>> ELSE Flats(ss)[Len(ss)]
           /\ \A i \in 1..Len(ss) : Flats(ss)[i] = IF i = 1 THEN ss[i] ELSE Flats(ss)[i - 1] \o ss[i]
<1>1. Len(ss) \in Nat /\ (Len(ss) = 0 <=> ss = <<>>)
    OBVIOUS
<1>2. Flattens(Flats(ss), ss, Len(ss))
    BY <1>1, FlattensExists DEF Flats
<1>3. FlattenSeq(ss) = IF Len(ss) = 0 THEN ss ELSE Flats(ss)[Len(ss)]
    BY DEF FlattenSeq, Flats, Flattens
<1>4. ASSUME NEW i \in 1..Len(ss)
      PROVE  Flats(ss)[i] = IF i = 1 THEN ss[i] ELSE Flats(ss)[i - 1] \o ss[i]
    BY <1>2 DEF Flattens
<1> QED BY <1>1, <1>3, <1>4

\* What holds of nothing and of two sequences one after the other holds of all of them.
LEMMA FlattenHas ==
    ASSUME NEW A, NEW G \in SUBSET Seq(A), <<>> \in G, \A v, w \in G : v \o w \in G,
           NEW n \in Nat, NEW ss \in [1..n -> G]
    PROVE  FlattenSeq(ss) \in G
<1>1. ss \in Seq(Seq(A)) /\ Len(ss) = n
    OBVIOUS
<1>2. /\ FlattenSeq(ss) = IF ss = <<>> THEN <<>> ELSE Flats(ss)[n]
      /\ \A i \in 1..n : Flats(ss)[i] = IF i = 1 THEN ss[i] ELSE Flats(ss)[i - 1] \o ss[i]
    BY <1>1, FlatsIs
<1> DEFINE S == {i \in Nat : i + 1 \in 1..n => Flats(ss)[i + 1] \in G}
<1>3. 0 \in S
    <2>1. SUFFICES ASSUME 1 \in 1..n PROVE Flats(ss)[1] \in G
        OBVIOUS
    <2> QED BY <1>2, <2>1
<1>4. ASSUME NEW i \in Nat, i \in S PROVE i + 1 \in S
    <2>1. SUFFICES ASSUME (i + 1) + 1 \in 1..n PROVE Flats(ss)[(i + 1) + 1] \in G
        OBVIOUS
    <2>2. i + 1 \in 1..n /\ (i + 1) + 1 # 1 /\ ((i + 1) + 1) - 1 = i + 1
        BY <2>1
    <2>3. Flats(ss)[i + 1] \in G
        BY <1>4, <2>2
    <2>4. Flats(ss)[(i + 1) + 1] = Flats(ss)[i + 1] \o ss[(i + 1) + 1]
        BY <1>2, <2>1, <2>2
    <2>5. ss[(i + 1) + 1] \in G
        BY <2>1
    <2> QED BY <2>3, <2>4, <2>5
<1> HIDE DEF S
<1>5. Nat \subseteq S
    BY <1>3, <1>4, Induction
<1>6. CASE n = 0
    BY <1>1, <1>2, <1>6
<1>7. CASE n # 0
    <2>1. n - 1 \in S /\ (n - 1) + 1 = n /\ n \in 1..n
        BY <1>5, <1>7
    <2>2. Flats(ss)[n] \in G
        BY <2>1 DEF S
    <2>3. ss # <<>>
        BY <1>1, <1>7
    <2> QED BY <1>2, <2>2, <2>3
<1> QED BY <1>6, <1>7

LEMMA FlattenIn ==
    ASSUME NEW A, NEW n \in Nat, NEW ss \in [1..n -> Seq(A)]
    PROVE  FlattenSeq(ss) \in Seq(A)
<1> DEFINE G == Seq(A)
<1>1. <<>> \in G /\ G \in SUBSET Seq(A)
    OBVIOUS
<1>2. \A v, w \in G : v \o w \in G
    OBVIOUS
<1> HIDE DEF G
<1>3. ss \in [1..n -> G]
    BY DEF G
<1>4. FlattenSeq(ss) \in G
    BY <1>1, <1>2, <1>3, FlattenHas
<1> QED BY <1>4 DEF G

\* The same of two lists of sequences, member by member.
LEMMA FlattenBoth ==
    ASSUME NEW A, NEW B, NEW R \in SUBSET (Seq(A) \X Seq(B)), <<<<>>, <<>>>> \in R,
           \A p, q \in R : <<p[1] \o q[1], p[2] \o q[2]>> \in R,
           NEW n \in Nat, NEW ss \in [1..n -> Seq(A)], NEW tt \in [1..n -> Seq(B)],
           \A i \in 1..n : <<ss[i], tt[i]>> \in R
    PROVE  <<FlattenSeq(ss), FlattenSeq(tt)>> \in R
<1>1. ss \in Seq(Seq(A)) /\ Len(ss) = n /\ tt \in Seq(Seq(B)) /\ Len(tt) = n
    OBVIOUS
<1>2. /\ FlattenSeq(ss) = IF ss = <<>> THEN <<>> ELSE Flats(ss)[n]
      /\ \A i \in 1..n : Flats(ss)[i] = IF i = 1 THEN ss[i] ELSE Flats(ss)[i - 1] \o ss[i]
    BY <1>1, FlatsIs
<1>3. /\ FlattenSeq(tt) = IF tt = <<>> THEN <<>> ELSE Flats(tt)[n]
      /\ \A i \in 1..n : Flats(tt)[i] = IF i = 1 THEN tt[i] ELSE Flats(tt)[i - 1] \o tt[i]
    BY <1>1, FlatsIs
<1> DEFINE S == {i \in Nat : i + 1 \in 1..n => <<Flats(ss)[i + 1], Flats(tt)[i + 1]>> \in R}
<1>4. 0 \in S
    <2>1. SUFFICES ASSUME 1 \in 1..n PROVE <<Flats(ss)[1], Flats(tt)[1]>> \in R
        OBVIOUS
    <2>2. Flats(ss)[1] = ss[1] /\ Flats(tt)[1] = tt[1]
        BY <1>2, <1>3, <2>1
    <2> QED BY <2>1, <2>2
<1>5. ASSUME NEW i \in Nat, i \in S PROVE i + 1 \in S
    <2>1. SUFFICES ASSUME (i + 1) + 1 \in 1..n
                   PROVE  <<Flats(ss)[(i + 1) + 1], Flats(tt)[(i + 1) + 1]>> \in R
        OBVIOUS
    <2>2. i + 1 \in 1..n /\ (i + 1) + 1 # 1 /\ ((i + 1) + 1) - 1 = i + 1
        BY <2>1
    <2>3. <<Flats(ss)[i + 1], Flats(tt)[i + 1]>> \in R
        BY <1>5, <2>2
    <2>4. Flats(ss)[(i + 1) + 1] = Flats(ss)[i + 1] \o ss[(i + 1) + 1]
        BY <1>2, <2>1, <2>2
    <2>5. Flats(tt)[(i + 1) + 1] = Flats(tt)[i + 1] \o tt[(i + 1) + 1]
        BY <1>3, <2>1, <2>2
    <2>6. <<ss[(i + 1) + 1], tt[(i + 1) + 1]>> \in R
        BY <2>1
    <2> QED BY <2>3, <2>4, <2>5, <2>6
<1> HIDE DEF S
<1>6. Nat \subseteq S
    BY <1>4, <1>5, Induction
<1>7. CASE n = 0
    <2>1. ss = <<>> /\ tt = <<>>
        BY <1>1, <1>7
    <2> QED BY <1>2, <1>3, <2>1
<1>8. CASE n # 0
    <2>1. n - 1 \in S /\ (n - 1) + 1 = n /\ n \in 1..n
        BY <1>6, <1>8
    <2>2. <<Flats(ss)[n], Flats(tt)[n]>> \in R
        BY <2>1 DEF S
    <2>3. ss # <<>> /\ tt # <<>>
        BY <1>1, <1>8
    <2> QED BY <1>2, <1>3, <2>2, <2>3
<1> QED BY <1>7, <1>8

\* Where the i-th sequence starts in the whole.
Offset(ss, i) == IF i = 1 THEN 0 ELSE Len(Flats(ss)[i - 1])

LEMMA FlatsTyped ==
    ASSUME NEW A, NEW n \in Nat, NEW ss \in [1..n -> Seq(A)]
    PROVE  /\ \A i \in 1..n : Flats(ss)[i] = IF i = 1 THEN ss[i] ELSE Flats(ss)[i - 1] \o ss[i]
           /\ \A i \in 1..n : /\ Flats(ss)[i] \in Seq(A) /\ Offset(ss, i) \in Nat
                              /\ Len(ss[i]) \in Nat
                              /\ Len(Flats(ss)[i]) = Offset(ss, i) + Len(ss[i])
           /\ FlattenSeq(ss) = IF n = 0 THEN <<>> ELSE Flats(ss)[n]
<1>1. ss \in Seq(Seq(A)) /\ Len(ss) = n /\ (ss = <<>> <=> n = 0)
    OBVIOUS
<1>2. /\ FlattenSeq(ss) = IF n = 0 THEN <<>> ELSE Flats(ss)[n]
      /\ \A i \in 1..n : Flats(ss)[i] = IF i = 1 THEN ss[i] ELSE Flats(ss)[i - 1] \o ss[i]
    BY <1>1, FlatsIs
<1> DEFINE S == {i \in Nat : i + 1 \in 1..n => Flats(ss)[i + 1] \in Seq(A)}
<1>3. 0 \in S
    BY <1>2
<1>4. ASSUME NEW i \in Nat, i \in S PROVE i + 1 \in S
    <2>1. SUFFICES ASSUME (i + 1) + 1 \in 1..n PROVE Flats(ss)[(i + 1) + 1] \in Seq(A)
        OBVIOUS
    <2>2. i + 1 \in 1..n /\ (i + 1) + 1 # 1 /\ ((i + 1) + 1) - 1 = i + 1
        BY <2>1
    <2>3. Flats(ss)[i + 1] \in Seq(A)
        BY <1>4, <2>2
    <2>4. Flats(ss)[(i + 1) + 1] = Flats(ss)[i + 1] \o ss[(i + 1) + 1]
        BY <1>2, <2>1, <2>2
    <2>5. ss[(i + 1) + 1] \in Seq(A)
        BY <2>1
    <2> QED BY <2>3, <2>4, <2>5
<1> HIDE DEF S
<1>5. Nat \subseteq S
    BY <1>3, <1>4, Induction
<1>6. ASSUME NEW i \in 1..n PROVE Flats(ss)[i] \in Seq(A)
    <2>1. i - 1 \in S /\ (i - 1) + 1 = i
        BY <1>5
    <2> QED BY <2>1 DEF S
<1>7. ASSUME NEW i \in 1..n
      PROVE  /\ Offset(ss, i) \in Nat /\ Len(ss[i]) \in Nat
             /\ Len(Flats(ss)[i]) = Offset(ss, i) + Len(ss[i])
    <2>1. ss[i] \in Seq(A) /\ Len(ss[i]) \in Nat
        OBVIOUS
    <2>2. CASE i = 1
        BY <1>2, <2>1, <2>2 DEF Offset
    <2>3. CASE i # 1
        <3>1. i - 1 \in 1..n
            BY <2>3
        <3>2. Flats(ss)[i - 1] \in Seq(A) /\ Flats(ss)[i] = Flats(ss)[i - 1] \o ss[i]
            BY <1>2, <1>6, <2>3, <3>1
        <3> QED BY <2>1, <2>3, <3>2 DEF Offset
    <2> QED BY <2>2, <2>3
<1> QED BY <1>2, <1>6, <1>7

LEMMA ConcatAt ==
    ASSUME NEW A, NEW a \in Seq(A), NEW b \in Seq(A)
    PROVE  /\ a \o b \in Seq(A) /\ Len(a) \in Nat /\ Len(b) \in Nat
           /\ Len(a \o b) = Len(a) + Len(b)
           /\ \A x \in 1..Len(a) : x \in 1..Len(a \o b) /\ (a \o b)[x] = a[x]
           /\ \A k \in 1..Len(b) : Len(a) + k \in 1..Len(a \o b) /\ (a \o b)[Len(a) + k] = b[k]
           /\ \A x \in 1..Len(a \o b) : x \in 1..Len(a) \/ \E k \in 1..Len(b) : x = Len(a) + k
<1> DEFINE c == a \o b
           m == Len(a)
           n == Len(b)
<1>1. /\ c \in Seq(A) /\ m \in Nat /\ n \in Nat /\ Len(c) = m + n
      /\ \A x \in 1..(m + n) : c[x] = IF x <= m THEN a[x] ELSE b[x - m]
    OBVIOUS
<1> HIDE DEF c, m, n
<1>2. \A x \in 1..m : x \in 1..(m + n) /\ c[x] = a[x]
    BY <1>1
<1>3. \A k \in 1..n : m + k \in 1..(m + n) /\ ~(m + k <= m) /\ (m + k) - m = k
    BY <1>1
<1>4. \A x \in 1..(m + n) : x \in 1..m \/ (x - m \in 1..n /\ x = m + (x - m))
    BY <1>1
<1>5. \A x \in 1..(m + n) : x \in 1..m \/ \E k \in 1..n : x = m + k
    BY <1>4
<1> QED BY <1>1, <1>2, <1>3, <1>5 DEF c, m, n

\* A sequence w holds the first m sequences, the j-th from O[j] on.
Laid(w, ss, O, m) ==
    /\ \A j \in 1..m : \A k \in 1..Len(ss[j]) : O[j] + k \in 1..Len(w) /\ w[O[j] + k] = ss[j][k]
    /\ \A x \in 1..Len(w) : \E j \in 1..m : \E k \in 1..Len(ss[j]) : x = O[j] + k
    /\ \A j \in 1..m : O[j] + Len(ss[j]) <= Len(w)

LEMMA LaidOneMore ==
    ASSUME NEW A, NEW m \in Nat, NEW ss, NEW O, NEW w \in Seq(A), NEW v \in Seq(A),
           Laid(w, ss, O, m), ss[m + 1] = v, O[m + 1] = Len(w),
           \A j \in 1..m : O[j] \in Nat /\ Len(ss[j]) \in Nat
    PROVE  Laid(w \o v, ss, O, m + 1)
<1> DEFINE c == w \o v
<1>1. /\ Len(w) \in Nat /\ Len(v) \in Nat /\ Len(c) = Len(w) + Len(v)
      /\ \A x \in 1..Len(w) : x \in 1..Len(c) /\ c[x] = w[x]
      /\ \A k \in 1..Len(v) : Len(w) + k \in 1..Len(c) /\ c[Len(w) + k] = v[k]
      /\ \A x \in 1..Len(c) : x \in 1..Len(w) \/ \E k \in 1..Len(v) : x = Len(w) + k
    BY ConcatAt
<1> HIDE DEF c
<1>2. m + 1 \in 1..(m + 1) /\ \A j \in 1..m : j \in 1..(m + 1)
    OBVIOUS
<1>3. \A j \in 1..(m + 1) : j \in 1..m \/ j = m + 1
    OBVIOUS
<1>4. ASSUME NEW j \in 1..(m + 1), NEW k \in 1..Len(ss[j])
      PROVE  O[j] + k \in 1..Len(c) /\ c[O[j] + k] = ss[j][k]
    <2>1. CASE j \in 1..m
        BY <1>1, <2>1 DEF Laid
    <2>2. CASE j = m + 1
        BY <1>1, <2>2
    <2> QED BY <1>3, <2>1, <2>2
<1>5. ASSUME NEW x \in 1..Len(c) PROVE \E j \in 1..(m + 1) : \E k \in 1..Len(ss[j]) : x = O[j] + k
    <2>1. CASE x \in 1..Len(w)
        BY <1>2, <2>1 DEF Laid
    <2>2. CASE \E k \in 1..Len(v) : x = Len(w) + k
        BY <1>2, <2>2
    <2> QED BY <1>1, <2>1, <2>2
<1>6. ASSUME NEW j \in 1..(m + 1) PROVE O[j] + Len(ss[j]) <= Len(c)
    <2>1. CASE j \in 1..m
        <3>1. O[j] + Len(ss[j]) <= Len(w) /\ O[j] \in Nat /\ Len(ss[j]) \in Nat
            BY <2>1 DEF Laid
        <3> QED BY <1>1, <3>1
    <2>2. CASE j = m + 1
        BY <1>1, <2>2
    <2> QED BY <1>3, <2>1, <2>2
<1> QED BY <1>4, <1>5, <1>6 DEF Laid, c

\* The whole holds each member of each sequence at its place, in order, and nothing else.
LEMMA FlattenPlaces ==
    ASSUME NEW A, NEW n \in Nat, NEW ss \in [1..n -> Seq(A)]
    PROVE  /\ FlattenSeq(ss) \in Seq(A)
           /\ \A i \in 1..n : Offset(ss, i) \in Nat /\ \A k \in 1..Len(ss[i]) :
                 /\ Offset(ss, i) + k \in 1..Len(FlattenSeq(ss))
                 /\ FlattenSeq(ss)[Offset(ss, i) + k] = ss[i][k]
           /\ \A x \in 1..Len(FlattenSeq(ss)) :
                 \E i \in 1..n : \E k \in 1..Len(ss[i]) : x = Offset(ss, i) + k
           /\ \A i, j \in 1..n : i < j => Offset(ss, i) + Len(ss[i]) <= Offset(ss, j)
           /\ \A i \in 1..n : i + 1 \in 1..n => Offset(ss, i + 1) = Offset(ss, i) + Len(ss[i])
<1> DEFINE F == Flats(ss)
           O == [i \in 1..n |-> Offset(ss, i)]
<1>o. \A i \in 1..n : O[i] = Offset(ss, i)
    OBVIOUS
<1>1. /\ \A i \in 1..n : F[i] = IF i = 1 THEN ss[i] ELSE F[i - 1] \o ss[i]
      /\ \A i \in 1..n : /\ F[i] \in Seq(A) /\ O[i] \in Nat /\ Len(ss[i]) \in Nat
                         /\ Len(F[i]) = O[i] + Len(ss[i])
      /\ FlattenSeq(ss) = IF n = 0 THEN <<>> ELSE F[n]
    <2> HIDE DEF F, O
    <2>1. /\ \A i \in 1..n : Flats(ss)[i] = IF i = 1 THEN ss[i] ELSE Flats(ss)[i - 1] \o ss[i]
          /\ \A i \in 1..n : /\ Flats(ss)[i] \in Seq(A) /\ Offset(ss, i) \in Nat
                             /\ Len(ss[i]) \in Nat
                             /\ Len(Flats(ss)[i]) = Offset(ss, i) + Len(ss[i])
          /\ FlattenSeq(ss) = IF n = 0 THEN <<>> ELSE Flats(ss)[n]
        BY FlatsTyped
    <2>2. \A i \in 1..n : /\ F[i] \in Seq(A) /\ O[i] \in Nat /\ Len(ss[i]) \in Nat
                         /\ Len(F[i]) = O[i] + Len(ss[i])
        BY <1>o, <2>1 DEF F
    <2> QED BY <2>1, <2>2 DEF F
<1>2. \A i \in 1..n : ss[i] \in Seq(A)
    OBVIOUS
<1>3. \A i \in 1..n : O[i] = IF i = 1 THEN 0 ELSE Len(F[i - 1])
    BY DEF Offset
<1>f. FlattenSeq(ss) \in Seq(A)
    BY FlattenIn
<1> HIDE DEF F, O
<1>4. ASSUME NEW i \in 1..n, i + 1 \in 1..n PROVE O[i + 1] = O[i] + Len(ss[i])
    <2>1. i + 1 # 1 /\ (i + 1) - 1 = i
        OBVIOUS
    <2>2. O[i + 1] = Len(F[i])
        BY <1>3, <1>4, <2>1
    <2> QED BY <1>1, <2>2
<1> DEFINE S == {i \in Nat : i + 1 \in 1..n => Laid(F[i + 1], ss, O, i + 1)}
<1>5. 0 \in S
    <2>1. SUFFICES ASSUME 1 \in 1..n PROVE Laid(F[1], ss, O, 1)
        OBVIOUS
    <2>2. F[1] = ss[1] /\ O[1] = 0 /\ Len(ss[1]) \in Nat
        BY <1>1, <1>3, <2>1
    <2>3. \A j \in 1..1 : j = 1
        OBVIOUS
    <2>4. \A k \in 1..Len(ss[1]) : 0 + k = k
        BY <2>2
    <2>5. \A x \in 1..Len(F[1]) : x \in 1..Len(ss[1]) /\ x = O[1] + x
        BY <2>2
    <2>6. 1 \in 1..1
        OBVIOUS
    <2>7. \A x \in 1..Len(F[1]) : \E j \in 1..1 : \E k \in 1..Len(ss[j]) : x = O[j] + k
        BY <2>5, <2>6
    <2>8. \A j \in 1..1 : \A k \in 1..Len(ss[j]) : O[j] + k \in 1..Len(F[1]) /\ F[1][O[j] + k] = ss[j][k]
        BY <2>2, <2>3, <2>4
    <2>9. \A j \in 1..1 : O[j] + Len(ss[j]) <= Len(F[1])
        BY <2>2, <2>3
    <2> QED BY <2>7, <2>8, <2>9 DEF Laid
<1>6. ASSUME NEW i \in Nat, i \in S PROVE i + 1 \in S
    <2> DEFINE m == i + 1
    <2>1. SUFFICES ASSUME m + 1 \in 1..n PROVE Laid(F[m + 1], ss, O, m + 1)
        OBVIOUS
    <2>2. m \in 1..n /\ m + 1 # 1 /\ (m + 1) - 1 = m /\ m \in Nat
        BY <2>1
    <2>3. Laid(F[m], ss, O, m)
        BY <1>6, <2>2
    <2> HIDE DEF m
    <2>4. F[m + 1] = F[m] \o ss[m + 1] /\ F[m] \in Seq(A) /\ ss[m + 1] \in Seq(A)
          /\ O[m + 1] = Len(F[m])
        BY <1>1, <1>2, <1>3, <2>1, <2>2
    <2>5. \A j \in 1..m : O[j] \in Nat /\ Len(ss[j]) \in Nat
        BY <1>1, <2>2
    <2> QED BY <2>2, <2>3, <2>4, <2>5, LaidOneMore
<1> HIDE DEF S
<1>7. Nat \subseteq S
    BY <1>5, <1>6, Induction
<1>8. \A m \in 1..n : Laid(F[m], ss, O, m)
    <2>1. SUFFICES ASSUME NEW m \in 1..n PROVE Laid(F[m], ss, O, m)
        OBVIOUS
    <2>2. m - 1 \in S /\ (m - 1) + 1 = m
        BY <1>7
    <2> QED BY <2>2 DEF S
<1>9. ASSUME NEW i \in 1..n, NEW j \in 1..n, i < j PROVE O[i] + Len(ss[i]) <= O[j]
    <2>1. j # 1 /\ j - 1 \in 1..n /\ i \in 1..(j - 1)
        BY <1>9
    <2>2. O[j] = Len(F[j - 1]) /\ Laid(F[j - 1], ss, O, j - 1)
        BY <1>3, <1>8, <2>1
    <2> QED BY <2>1, <2>2 DEF Laid
<1>10. CASE n = 0
    <2>1. FlattenSeq(ss) = <<>> /\ 1..n = {} /\ 1..Len(<<>>) = {}
        BY <1>1, <1>10
    <2> QED BY <1>10, <1>f, <2>1
<1>11. CASE n # 0
    <2>1. n \in 1..n /\ FlattenSeq(ss) = F[n]
        BY <1>1, <1>11
    <2>2. Laid(FlattenSeq(ss), ss, O, n)
        BY <1>8, <2>1
    <2>3. \A i \in 1..n : O[i] \in Nat
        BY <1>1
    <2>4. \A i, j \in 1..n : i < j => O[i] + Len(ss[i]) <= O[j]
        BY <1>9
    <2>5. \A i \in 1..n : i + 1 \in 1..n => O[i + 1] = O[i] + Len(ss[i])
        BY <1>4
    <2> DEFINE w == FlattenSeq(ss)
    <2>6. ASSUME NEW i \in 1..n
          PROVE  /\ Offset(ss, i) \in Nat
                 /\ \A k \in 1..Len(ss[i]) : Offset(ss, i) + k \in 1..Len(w) /\ w[Offset(ss, i) + k] = ss[i][k]
        <3>1. O[i] = Offset(ss, i)
            BY <1>o
        <3> HIDE DEF w
        <3> QED BY <2>2, <2>3, <3>1 DEF Laid, w
    <2>7. ASSUME NEW x \in 1..Len(w)
          PROVE  \E i \in 1..n : \E k \in 1..Len(ss[i]) : x = Offset(ss, i) + k
        <3>1. PICK i \in 1..n : \E k \in 1..Len(ss[i]) : x = O[i] + k
            BY <2>2 DEF Laid
        <3>2. O[i] = Offset(ss, i)
            BY <1>o
        <3> QED BY <3>1, <3>2
    <2>8. \A i, j \in 1..n : i < j => Offset(ss, i) + Len(ss[i]) <= Offset(ss, j)
        BY <1>o, <2>4
    <2>9. \A i \in 1..n : i + 1 \in 1..n => Offset(ss, i + 1) = Offset(ss, i) + Len(ss[i])
        BY <1>o, <2>5
    <2> QED BY <1>f, <2>6, <2>7, <2>8, <2>9
<1> QED BY <1>10, <1>11

LEMMA SeqSame ==
    ASSUME NEW A, NEW B, NEW a \in Seq(A), NEW b \in Seq(B), Len(a) = Len(b),
           \A i \in 1..Len(a) : a[i] = b[i]
    PROVE  a = b
<1> DEFINE n == Len(a)
<1>1. n \in Nat /\ a = [i \in 1..n |-> a[i]] /\ b = [i \in 1..n |-> b[i]]
    OBVIOUS
<1>2. \A i \in 1..n : a[i] = b[i]
    OBVIOUS
<1> HIDE DEF n
<1> QED BY <1>1, <1>2

LEMMA ConcatAssoc ==
    ASSUME NEW A, NEW a \in Seq(A), NEW b \in Seq(A), NEW c \in Seq(A)
    PROVE  a \o (b \o c) = (a \o b) \o c
<1> DEFINE l == a \o (b \o c)
           r == (a \o b) \o c
<1>1. /\ a \o b \in Seq(A) /\ b \o c \in Seq(A) /\ Len(a \o b) = Len(a) + Len(b)
      /\ Len(b \o c) = Len(b) + Len(c) /\ Len(a) \in Nat /\ Len(b) \in Nat /\ Len(c) \in Nat
    OBVIOUS
<1>2. l \in Seq(A) /\ r \in Seq(A) /\ Len(l) = Len(a) + (Len(b) + Len(c))
      /\ Len(r) = (Len(a) + Len(b)) + Len(c)
    BY <1>1
<1>3. Len(l) = Len(r)
    BY <1>1, <1>2
<1>4. \A i \in 1..Len(l) : l[i] = r[i]
    BY <1>1
<1> HIDE DEF l, r
<1>5. l = r
    BY <1>2, <1>3, <1>4, SeqSame
<1> QED BY <1>5 DEF l, r

LEMMA FlatsOf ==
    ASSUME NEW A, NEW n \in Nat, NEW ss \in [1..n -> Seq(A)]
    PROVE  /\ \A i \in 1..n : Flats(ss)[i] = IF i = 1 THEN ss[i] ELSE Flats(ss)[i - 1] \o ss[i]
           /\ \A i \in 1..n : Flats(ss)[i] \in Seq(A)
           /\ FlattenSeq(ss) = IF n = 0 THEN <<>> ELSE Flats(ss)[n]
           /\ FlattenSeq(ss) \in Seq(A)
<1>1. /\ \A i \in 1..n : Flats(ss)[i] = IF i = 1 THEN ss[i] ELSE Flats(ss)[i - 1] \o ss[i]
      /\ \A i \in 1..n : /\ Flats(ss)[i] \in Seq(A) /\ Offset(ss, i) \in Nat
                         /\ Len(ss[i]) \in Nat
                         /\ Len(Flats(ss)[i]) = Offset(ss, i) + Len(ss[i])
      /\ FlattenSeq(ss) = IF n = 0 THEN <<>> ELSE Flats(ss)[n]
    BY FlatsTyped, ZenonT(60)
<1>2. FlattenSeq(ss) \in Seq(A)
    BY FlattenIn
<1> QED BY <1>1, <1>2

\* m sequences and then n more.
Joined(A, m, n, ss, tt, uu) ==
    /\ m \in Nat /\ n \in Nat /\ ss \in [1..m -> Seq(A)] /\ tt \in [1..n -> Seq(A)]
    /\ uu \in [1..(m + n) -> Seq(A)]
    /\ \A i \in 1..m : uu[i] = ss[i]
    /\ \A i \in 1..n : uu[m + i] = tt[i]

LEMMA FlattenConcat ==
    ASSUME NEW A, NEW m, NEW n, NEW ss, NEW tt, NEW uu, Joined(A, m, n, ss, tt, uu)
    PROVE  FlattenSeq(uu) = FlattenSeq(ss) \o FlattenSeq(tt)
<1> DEFINE F == Flats(ss)
           G == Flats(tt)
           H == Flats(uu)
<1> USE DEF Joined
<1>1. /\ m \in Nat /\ n \in Nat /\ ss \in [1..m -> Seq(A)] /\ tt \in [1..n -> Seq(A)]
      /\ uu \in [1..(m + n) -> Seq(A)]
      /\ \A i \in 1..m : uu[i] = ss[i]
      /\ \A i \in 1..n : uu[m + i] = tt[i]
    OBVIOUS
<1> HIDE DEF Joined
<1>b. /\ \A i \in 1..m : ss[i] \in Seq(A)
      /\ \A i \in 1..n : tt[i] \in Seq(A)
    BY <1>1
<1>2. /\ \A i \in 1..m : F[i] = IF i = 1 THEN ss[i] ELSE F[i - 1] \o ss[i]
      /\ \A i \in 1..m : F[i] \in Seq(A)
      /\ FlattenSeq(ss) = IF m = 0 THEN <<>> ELSE F[m]
      /\ FlattenSeq(ss) \in Seq(A)
    BY <1>1, FlatsOf
<1>3. /\ \A i \in 1..n : G[i] = IF i = 1 THEN tt[i] ELSE G[i - 1] \o tt[i]
      /\ \A i \in 1..n : G[i] \in Seq(A)
      /\ FlattenSeq(tt) = IF n = 0 THEN <<>> ELSE G[n]
      /\ FlattenSeq(tt) \in Seq(A)
    BY <1>1, FlatsOf
<1>4. /\ \A i \in 1..(m + n) : H[i] = IF i = 1 THEN uu[i] ELSE H[i - 1] \o uu[i]
      /\ \A i \in 1..(m + n) : H[i] \in Seq(A)
      /\ FlattenSeq(uu) = IF m + n = 0 THEN <<>> ELSE H[m + n]
      /\ FlattenSeq(uu) \in Seq(A)
    <2>1. m + n \in Nat
        BY <1>1
    <2> QED BY <1>1, <2>1, FlatsOf
<1> HIDE DEF F, G, H
<1>f. FlattenSeq(ss) \in Seq(A) /\ FlattenSeq(tt) \in Seq(A)
    BY <1>2, <1>3
<1> DEFINE S == {i \in Nat : i + 1 \in 1..m => H[i + 1] = F[i + 1]}
<1>5. 0 \in S
    BY <1>1, <1>2, <1>4
<1>6. ASSUME NEW i \in Nat, i \in S PROVE i + 1 \in S
    <2>1. SUFFICES ASSUME (i + 1) + 1 \in 1..m PROVE H[(i + 1) + 1] = F[(i + 1) + 1]
        OBVIOUS
    <2>2. i + 1 \in 1..m /\ (i + 1) + 1 # 1 /\ ((i + 1) + 1) - 1 = i + 1
          /\ (i + 1) + 1 \in 1..(m + n)
        BY <1>1, <2>1
    <2>3. H[i + 1] = F[i + 1]
        BY <1>6, <2>2
    <2>4. F[(i + 1) + 1] = F[i + 1] \o ss[(i + 1) + 1]
        BY <1>2, <2>1, <2>2
    <2>5. H[(i + 1) + 1] = H[i + 1] \o uu[(i + 1) + 1]
        BY <1>4, <2>2
    <2> QED BY <1>1, <2>1, <2>3, <2>4, <2>5
<1> HIDE DEF S
<1>7. Nat \subseteq S
    BY <1>5, <1>6, Induction
<1>8. m # 0 => H[m] = FlattenSeq(ss)
    <2>1. SUFFICES ASSUME m # 0 PROVE H[m] = F[m]
        BY <1>2
    <2>2. m - 1 \in S /\ (m - 1) + 1 = m /\ m \in 1..m
        BY <1>1, <1>7, <2>1
    <2> QED BY <2>2 DEF S
<1> DEFINE T == {i \in Nat : i + 1 \in 1..n => H[m + (i + 1)] = FlattenSeq(ss) \o G[i + 1]}
<1>9. 0 \in T
    <2>1. SUFFICES ASSUME 1 \in 1..n PROVE H[m + 1] = FlattenSeq(ss) \o G[1]
        OBVIOUS
    <2>2. m + 1 \in 1..(m + n) /\ (m + 1) - 1 = m /\ G[1] = tt[1] /\ uu[m + 1] = tt[1] /\ tt[1] \in Seq(A)
        BY <1>1, <1>b, <1>3, <2>1
    <2>3. CASE m = 0
        BY <1>2, <1>4, <2>2, <2>3
    <2>4. CASE m # 0
        <3>1. m + 1 # 1
            BY <1>1, <2>4
        <3>2. H[m + 1] = H[m] \o uu[m + 1]
            BY <1>4, <2>2, <3>1
        <3> QED BY <1>8, <2>2, <2>4, <3>2
    <2> QED BY <2>3, <2>4
<1>10. ASSUME NEW i \in Nat, i \in T PROVE i + 1 \in T
    <2>1. SUFFICES ASSUME (i + 1) + 1 \in 1..n
                   PROVE  H[m + ((i + 1) + 1)] = FlattenSeq(ss) \o G[(i + 1) + 1]
        OBVIOUS
    <2>2. i + 1 \in 1..n /\ (i + 1) + 1 # 1 /\ ((i + 1) + 1) - 1 = i + 1
          /\ m + ((i + 1) + 1) \in 1..(m + n) /\ m + ((i + 1) + 1) # 1
          /\ (m + ((i + 1) + 1)) - 1 = m + (i + 1)
        BY <1>1, <2>1
    <2>3. H[m + (i + 1)] = FlattenSeq(ss) \o G[i + 1]
        BY <1>10, <2>2
    <2>4. G[(i + 1) + 1] = G[i + 1] \o tt[(i + 1) + 1]
        BY <1>3, <2>1, <2>2
    <2>5. H[m + ((i + 1) + 1)] = H[m + (i + 1)] \o tt[(i + 1) + 1]
        BY <1>1, <1>4, <2>1, <2>2
    <2>6. G[i + 1] \in Seq(A) /\ tt[(i + 1) + 1] \in Seq(A)
        BY <1>b, <1>3, <2>1, <2>2
    <2>7. FlattenSeq(ss) \o (G[i + 1] \o tt[(i + 1) + 1]) = (FlattenSeq(ss) \o G[i + 1]) \o tt[(i + 1) + 1]
        <3>1. \A x, y, z \in Seq(A) : x \o (y \o z) = (x \o y) \o z
            BY ConcatAssoc
        <3> QED BY <1>f, <2>6, <3>1, ZenonT(60)
    <2> QED BY <2>3, <2>4, <2>5, <2>7
<1> HIDE DEF T
<1>11. Nat \subseteq T
    BY <1>9, <1>10, Induction
<1>12. CASE n = 0
    BY <1>1, <1>2, <1>3, <1>4, <1>8, <1>f, <1>12
<1>13. CASE n # 0
    <2>1. n - 1 \in T /\ (n - 1) + 1 = n /\ n \in 1..n /\ m + n # 0
        BY <1>1, <1>11, <1>13
    <2>2. H[m + n] = FlattenSeq(ss) \o G[n]
        BY <2>1 DEF T
    <2> QED BY <1>3, <1>4, <1>13, <2>1, <2>2
<1> QED BY <1>12, <1>13

-----------------------------------------------------------------------------
(* The elements of a sequence that are in a set.                           *)

Picks(s, S) == [i \in DOMAIN s |-> IF s[i] \in S THEN <<s[i]>> ELSE <<>>]

LEMMA KeptPicks ==
    ASSUME NEW A, NEW s \in Seq(A), NEW S
    PROVE  /\ Kept(s, S) = FlattenSeq(Picks(s, S))
           /\ Picks(s, S) \in [1..Len(s) -> Seq(A)] /\ Picks(s, S) \in Seq(Seq(A))
           /\ Len(Picks(s, S)) = Len(s) /\ Len(s) \in Nat
           /\ Kept(s, S) \in Seq(A)
<1>1. DOMAIN s = 1..Len(s) /\ Len(s) \in Nat /\ \A i \in 1..Len(s) : s[i] \in A
    OBVIOUS
<1>2. Picks(s, S) \in [1..Len(s) -> Seq(A)]
    BY <1>1 DEF Picks
<1>3. Picks(s, S) \in Seq(Seq(A)) /\ Len(Picks(s, S)) = Len(s)
    BY <1>1, <1>2
<1>4. FlattenSeq(Picks(s, S)) \in Seq(A)
    BY <1>1, <1>2, FlattenIn
<1> QED BY <1>1, <1>2, <1>3, <1>4 DEF Kept, Picks

LEMMA KeptSame ==
    ASSUME NEW A, NEW s \in Seq(A), NEW S, NEW T,
           \A i \in 1..Len(s) : s[i] \in S <=> s[i] \in T
    PROVE  Kept(s, S) = Kept(s, T)
<1>1. Picks(s, S) = Picks(s, T)
    BY DEF Picks
<1> QED BY <1>1, KeptPicks

LEMMA KeptConcat ==
    ASSUME NEW A, NEW v \in Seq(A), NEW w \in Seq(A), NEW S
    PROVE  Kept(v \o w, S) = Kept(v, S) \o Kept(w, S)
<1> DEFINE c == v \o w
           m == Len(v)
           n == Len(w)
           p == Picks(v, S)
           q == Picks(w, S)
           d == Picks(c, S)
<1>1. /\ c \in Seq(A) /\ m \in Nat /\ n \in Nat /\ Len(c) = m + n
      /\ \A x \in 1..m : x \in 1..(m + n) /\ c[x] = v[x]
      /\ \A x \in 1..n : m + x \in 1..(m + n) /\ c[m + x] = w[x]
    OBVIOUS
<1> HIDE DEF c
<1>2. /\ p \in [1..m -> Seq(A)] /\ q \in [1..n -> Seq(A)] /\ d \in [1..(m + n) -> Seq(A)]
      /\ Kept(v, S) = FlattenSeq(p) /\ Kept(w, S) = FlattenSeq(q) /\ Kept(c, S) = FlattenSeq(d)
    BY <1>1, KeptPicks
<1>3. /\ \A x \in 1..m : p[x] = IF v[x] \in S THEN <<v[x]>> ELSE <<>>
      /\ \A x \in 1..n : q[x] = IF w[x] \in S THEN <<w[x]>> ELSE <<>>
      /\ \A x \in 1..(m + n) : d[x] = IF c[x] \in S THEN <<c[x]>> ELSE <<>>
    BY <1>1 DEF Picks
<1> HIDE DEF p, q, d, m, n
<1>4. \A i \in 1..m : d[i] = p[i]
    <2> SUFFICES ASSUME NEW i \in 1..m PROVE d[i] = p[i]
        OBVIOUS
    <2>1. i \in 1..(m + n) /\ c[i] = v[i]
        BY <1>1
    <2> QED BY <1>3, <2>1
<1>5. \A i \in 1..n : d[m + i] = q[i]
    <2> SUFFICES ASSUME NEW i \in 1..n PROVE d[m + i] = q[i]
        OBVIOUS
    <2>1. m + i \in 1..(m + n) /\ c[m + i] = w[i]
        BY <1>1
    <2> QED BY <1>3, <2>1
<1>6. FlattenSeq(d) = FlattenSeq(p) \o FlattenSeq(q)
    <2>1. /\ m \in Nat /\ n \in Nat /\ p \in [1..m -> Seq(A)] /\ q \in [1..n -> Seq(A)]
          /\ d \in [1..(m + n) -> Seq(A)]
        BY <1>1, <1>2
    <2>2. Joined(A, m, n, p, q, d)
        BY <1>4, <1>5, <2>1 DEF Joined
    <2> QED BY <2>2, FlattenConcat
<1> QED BY <1>2, <1>6 DEF c

LEMMA KeptOne ==
    ASSUME NEW A, NEW x \in A, NEW S
    PROVE  Kept(<<x>>, S) = IF x \in S THEN <<x>> ELSE <<>>
<1> DEFINE y == IF x \in S THEN <<x>> ELSE <<>>
<1>1. <<x>> \in Seq(A) /\ Picks(<<x>>, S) = <<y>>
    BY DEF Picks
<1>2. y \in Seq(A)
    OBVIOUS
<1> HIDE DEF y
<1>3. <<y>> \in Seq(Seq(A)) /\ Len(<<y>>) = 1 /\ <<y>>[1] = y /\ <<y>> # <<>> /\ 1 \in 1..1
    BY <1>2
<1>4. FlattenSeq(<<y>>) = y
    BY <1>3, FlatsIs
<1> QED BY <1>1, <1>4, KeptPicks, ZenonT(60) DEF y

LEMMA KeptNone ==
    ASSUME NEW S
    PROVE  Kept(<<>>, S) = <<>>
<1>1. Picks(<<>>, S) = <<>> /\ <<>> \in Seq(Seq({})) /\ <<>> \in Seq({})
    BY DEF Picks
<1>2. FlattenSeq(<<>>) = <<>>
    BY <1>1, FlatsIs
<1> QED BY <1>1, <1>2, KeptPicks

LEMMA KeptKept ==
    ASSUME NEW A, NEW s \in Seq(A), NEW S, NEW T
    PROVE  Kept(Kept(s, S), T) = Kept(s, S \intersect T)
<1> DEFINE R == {r \in Seq(A) \X Seq(A) : Kept(r[1], T) = r[2]}
           n == Len(s)
           p == Picks(s, S)
           q == Picks(s, S \intersect T)
<1>1. <<<<>>, <<>>>> \in R
    <2>1. Kept(<<>>, T) = <<>> /\ <<>> \in Seq(A)
        BY KeptNone
    <2> QED BY <2>1
<1>2. \A u, v \in R : <<u[1] \o v[1], u[2] \o v[2]>> \in R
    <2> SUFFICES ASSUME NEW u \in R, NEW v \in R PROVE <<u[1] \o v[1], u[2] \o v[2]>> \in R
        OBVIOUS
    <2>1. u[1] \in Seq(A) /\ v[1] \in Seq(A) /\ u[2] \in Seq(A) /\ v[2] \in Seq(A)
          /\ Kept(u[1], T) = u[2] /\ Kept(v[1], T) = v[2]
        OBVIOUS
    <2>2. Kept(u[1] \o v[1], T) = u[2] \o v[2]
        <3>1. \A x, y \in Seq(A) : Kept(x \o y, T) = Kept(x, T) \o Kept(y, T)
            <4> HIDE DEF R, n, p, q
            <4> SUFFICES ASSUME NEW x \in Seq(A), NEW y \in Seq(A)
                         PROVE  Kept(x \o y, T) = Kept(x, T) \o Kept(y, T)
                OBVIOUS
            <4> QED BY KeptConcat
        <3> QED BY <2>1, <3>1, ZenonT(60)
    <2>3. u[1] \o v[1] \in Seq(A) /\ u[2] \o v[2] \in Seq(A)
        BY <2>1
    <2> QED BY <2>2, <2>3
<1>3. /\ n \in Nat /\ p \in [1..n -> Seq(A)] /\ q \in [1..n -> Seq(A)]
      /\ Kept(s, S) = FlattenSeq(p) /\ Kept(s, S \intersect T) = FlattenSeq(q)
    BY KeptPicks
<1>4. \A i \in 1..n : <<p[i], q[i]>> \in R
    <2> SUFFICES ASSUME NEW i \in 1..n PROVE <<p[i], q[i]>> \in R
        OBVIOUS
    <2>1. s[i] \in A
        OBVIOUS
    <2>2. /\ p[i] = IF s[i] \in S THEN <<s[i]>> ELSE <<>>
          /\ q[i] = IF s[i] \in S \intersect T THEN <<s[i]>> ELSE <<>>
        BY DEF Picks
    <2>3. p[i] \in Seq(A) /\ q[i] \in Seq(A)
        BY <1>3
    <2>4. Kept(p[i], T) = q[i]
        BY <2>1, <2>2, KeptOne, KeptNone
    <2> QED BY <2>3, <2>4
<1>5. R \in SUBSET (Seq(A) \X Seq(A))
    OBVIOUS
<1> HIDE DEF R, n, p, q
<1>6. <<FlattenSeq(p), FlattenSeq(q)>> \in R
    BY <1>1, <1>2, <1>3, <1>4, <1>5, FlattenBoth
<1> QED BY <1>3, <1>6 DEF R

\* Where the elements that are kept come from, in order.
Places(e, s, S, k) ==
    /\ k \in Seq(Range(s)) /\ e \in [1..Len(k) -> 1..Len(s)]
    /\ \A x \in 1..Len(k) : k[x] = s[e[x]] /\ s[e[x]] \in S
    /\ \A x, y \in 1..Len(k) : x < y => e[x] < e[y]
    /\ \A i \in 1..Len(s) : s[i] \in S => \E x \in 1..Len(k) : e[x] = i

\* w holds each of n sequences, in order and nothing else, the i-th from O[i] on.
LaidOut(ss, n, O, w) ==
    /\ n \in Nat /\ O \in [1..n -> Nat] /\ Len(w) \in Nat
    /\ \A i \in 1..n : Len(ss[i]) \in Nat
    /\ \A i \in 1..n : \A k \in 1..Len(ss[i]) : O[i] + k \in 1..Len(w) /\ w[O[i] + k] = ss[i][k]
    /\ \A x \in 1..Len(w) : \E i \in 1..n : \E k \in 1..Len(ss[i]) : x = O[i] + k
    /\ \A i, j \in 1..n : i < j => O[i] + Len(ss[i]) <= O[j]
    /\ \A i \in 1..n : i + 1 \in 1..n => O[i + 1] = O[i] + Len(ss[i])

LEMMA FlattenLaidOut ==
    ASSUME NEW A, NEW n \in Nat, NEW ss \in [1..n -> Seq(A)]
    PROVE  /\ \E O : LaidOut(ss, n, O, FlattenSeq(ss))
           /\ FlattenSeq(ss) \in Seq(A)
<1> DEFINE w == FlattenSeq(ss)
           O == [i \in 1..n |-> Offset(ss, i)]
<1>1. /\ w \in Seq(A)
      /\ \A i \in 1..n : Offset(ss, i) \in Nat /\ \A k \in 1..Len(ss[i]) :
             Offset(ss, i) + k \in 1..Len(w) /\ w[Offset(ss, i) + k] = ss[i][k]
      /\ \A x \in 1..Len(w) : \E i \in 1..n : \E k \in 1..Len(ss[i]) : x = Offset(ss, i) + k
      /\ \A i, j \in 1..n : i < j => Offset(ss, i) + Len(ss[i]) <= Offset(ss, j)
      /\ \A i \in 1..n : i + 1 \in 1..n => Offset(ss, i + 1) = Offset(ss, i) + Len(ss[i])
    BY FlattenPlaces, SMTT(30)
<1>2. \A i \in 1..n : O[i] = Offset(ss, i)
    OBVIOUS
<1>3. \A i \in 1..n : Len(ss[i]) \in Nat
    OBVIOUS
<1> HIDE DEF w, O
<1>4. Len(w) \in Nat
    BY <1>1
<1>5. O \in [1..n -> Nat]
    BY <1>1 DEF O
<1>6. ASSUME NEW x \in 1..Len(w)
      PROVE  \E i \in 1..n : \E k \in 1..Len(ss[i]) : x = O[i] + k
    <2>1. PICK i \in 1..n : \E k \in 1..Len(ss[i]) : x = Offset(ss, i) + k
        BY <1>1
    <2> QED BY <1>2, <2>1
<1>7. \A i \in 1..n : \A k \in 1..Len(ss[i]) : O[i] + k \in 1..Len(w) /\ w[O[i] + k] = ss[i][k]
    BY <1>1, <1>2
<1>8. \A i, j \in 1..n : i < j => O[i] + Len(ss[i]) <= O[j]
    BY <1>1, <1>2
<1>9. \A i \in 1..n : i + 1 \in 1..n => O[i + 1] = O[i] + Len(ss[i])
    BY <1>1, <1>2
<1>10. LaidOut(ss, n, O, w)
    BY <1>3, <1>4, <1>5, <1>6, <1>7, <1>8, <1>9 DEF LaidOut
<1> QED BY <1>1, <1>10 DEF w

LEMMA PlacesOf ==
    ASSUME NEW n, NEW p, NEW k, NEW O, LaidOut(p, n, O, k),
           \A i \in 1..n : Len(p[i]) \in {0, 1}
    PROVE  \E e \in [1..Len(k) -> 1..n] :
              /\ \A x \in 1..Len(k) : Len(p[e[x]]) = 1 /\ k[x] = p[e[x]][1]
              /\ \A x, y \in 1..Len(k) : x < y => e[x] < e[y]
              /\ \A i \in 1..n : Len(p[i]) = 1 => \E x \in 1..Len(k) : e[x] = i
<1> DEFINE e == [x \in 1..Len(k) |-> CHOOSE i \in 1..n : Len(p[i]) = 1 /\ x = O[i] + 1]
<1>0. /\ n \in Nat /\ Len(k) \in Nat /\ \A i \in 1..n : O[i] \in Nat
      /\ \A i \in 1..n : Len(p[i]) = 0 \/ Len(p[i]) = 1
      /\ \A i \in 1..n : Len(p[i]) = 1 => O[i] + 1 \in 1..Len(k) /\ k[O[i] + 1] = p[i][1]
      /\ \A x \in 1..Len(k) : \E i \in 1..n : \E j \in 1..Len(p[i]) : x = O[i] + j
      /\ \A i, j \in 1..n : i < j => O[i] + Len(p[i]) <= O[j]
    <2>1. 1 \in 1..1
        OBVIOUS
    <2>2. \A i \in 1..n : O[i] \in Nat
        BY DEF LaidOut
    <2>3. \A i \in 1..n : Len(p[i]) = 1 => O[i] + 1 \in 1..Len(k) /\ k[O[i] + 1] = p[i][1]
        BY <2>1 DEF LaidOut
    <2> QED BY <2>2, <2>3 DEF LaidOut
<1>1. ASSUME NEW x \in 1..Len(k)
      PROVE  e[x] \in 1..n /\ Len(p[e[x]]) = 1 /\ x = O[e[x]] + 1 /\ k[x] = p[e[x]][1]
    <2>1. PICK i \in 1..n : \E j \in 1..Len(p[i]) : x = O[i] + j
        BY <1>0
    <2>2. PICK j \in 1..Len(p[i]) : x = O[i] + j
        BY <2>1
    <2>3. Len(p[i]) = 0 \/ Len(p[i]) = 1
        BY <1>0
    <2>4. Len(p[i]) = 1 /\ j = 1
        <3>1. CASE Len(p[i]) = 0
            BY <2>2, <3>1
        <3>2. CASE Len(p[i]) = 1
            <4>1. j \in 1..1
                BY <2>2, <3>2
            <4> QED BY <3>2, <4>1
        <3> QED BY <2>3, <3>1, <3>2
    <2>5. \E h \in 1..n : Len(p[h]) = 1 /\ x = O[h] + 1
        BY <2>2, <2>4
    <2>6. e[x] \in 1..n /\ Len(p[e[x]]) = 1 /\ x = O[e[x]] + 1
        BY <2>5
    <2> HIDE DEF e
    <2>7. k[O[e[x]] + 1] = p[e[x]][1]
        BY <1>0, <2>6
    <2> QED BY <2>6, <2>7
<1>2. e \in [1..Len(k) -> 1..n]
    BY <1>1
<1> HIDE DEF e
<1>3. ASSUME NEW x \in 1..Len(k), NEW y \in 1..Len(k), x < y PROVE e[x] < e[y]
    <2>1. e[x] \in 1..n /\ e[y] \in 1..n /\ x = O[e[x]] + 1 /\ y = O[e[y]] + 1 /\ Len(p[e[y]]) = 1
        BY <1>1
    <2>2. O[e[x]] \in Nat /\ O[e[y]] \in Nat
        BY <1>0, <2>1
    <2>3. e[x] # e[y]
        BY <1>3, <2>1, <2>2
    <2>4. e[y] < e[x] => O[e[y]] + Len(p[e[y]]) <= O[e[x]]
        BY <1>0, <2>1
    <2>5. ~(e[y] < e[x])
        BY <1>3, <2>1, <2>2, <2>4
    <2> QED BY <2>1, <2>3, <2>5
<1>4. ASSUME NEW i \in 1..n, Len(p[i]) = 1 PROVE \E x \in 1..Len(k) : e[x] = i
    <2> DEFINE x == O[i] + 1
    <2>2. x \in 1..Len(k) /\ O[i] \in Nat
        BY <1>0, <1>4
    <2>3. e[x] \in 1..n /\ Len(p[e[x]]) = 1 /\ x = O[e[x]] + 1 /\ O[e[x]] \in Nat
        <3> HIDE DEF x
        <3>1. e[x] \in 1..n /\ Len(p[e[x]]) = 1 /\ x = O[e[x]] + 1
            BY <1>1, <2>2
        <3> QED BY <1>0, <3>1
    <2>4. O[e[x]] = O[i]
        BY <2>2, <2>3
    <2>5. i < e[x] => O[i] + Len(p[i]) <= O[e[x]]
        BY <1>0, <2>3
    <2>6. e[x] < i => O[e[x]] + Len(p[e[x]]) <= O[i]
        BY <1>0, <2>3
    <2>7. ~(i < e[x]) /\ ~(e[x] < i)
        BY <1>4, <2>2, <2>3, <2>4, <2>5, <2>6
    <2> HIDE DEF x
    <2>8. e[x] = i
        BY <1>0, <2>3, <2>7
    <2> QED BY <2>2, <2>8
<1> QED BY <1>1, <1>2, <1>3, <1>4

LEMMA KeptPlaces ==
    ASSUME NEW A, NEW s \in Seq(A), NEW S
    PROVE  \E e : Places(e, s, S, Kept(s, S))
<1> DEFINE n == Len(s)
           p == Picks(s, S)
           k == Kept(s, S)
           B == Range(s)
<1>1. n \in Nat /\ s \in Seq(B) /\ \A i \in 1..n : s[i] \in B
    BY DEF Range
<1>2. k = FlattenSeq(p) /\ p \in [1..n -> Seq(B)] /\ k \in Seq(B)
    <2> HIDE DEF B
    <2> QED BY <1>1, KeptPicks
<1>4. \A i \in 1..n : p[i] = IF s[i] \in S THEN <<s[i]>> ELSE <<>>
    BY DEF Picks
<1> HIDE DEF p, n, k, B
<1>3. PICK O : LaidOut(p, n, O, k)
    BY <1>1, <1>2, FlattenLaidOut
<1>5. \A i \in 1..n : Len(p[i]) = IF s[i] \in S THEN 1 ELSE 0
    <2>1. ASSUME NEW i \in 1..n PROVE Len(p[i]) = IF s[i] \in S THEN 1 ELSE 0
        <3>1. \A x : Len(<<x>>) = 1
            OBVIOUS
        <3>2. CASE s[i] \in S
            BY <1>4, <3>1, <3>2
        <3>3. CASE s[i] \notin S
            <4>1. p[i] = <<>>
                BY <1>4, <3>3
            <4> QED BY <3>3, <4>1
        <3> QED BY <3>2, <3>3
    <2> QED BY <2>1
<1>6. \A i \in 1..n : s[i] \in S => p[i][1] = s[i]
    <2>1. \A x : <<x>>[1] = x
        OBVIOUS
    <2> SUFFICES ASSUME NEW i \in 1..n, s[i] \in S PROVE p[i][1] = s[i]
        OBVIOUS
    <2>2. p[i] = <<s[i]>>
        BY <1>4
    <2> QED BY <2>1, <2>2
<1>7. \A i \in 1..n : Len(p[i]) \in {0, 1}
    BY <1>5
<1>8. PICK e \in [1..Len(k) -> 1..n] :
              /\ \A x \in 1..Len(k) : Len(p[e[x]]) = 1 /\ k[x] = p[e[x]][1]
              /\ \A x, y \in 1..Len(k) : x < y => e[x] < e[y]
              /\ \A i \in 1..n : Len(p[i]) = 1 => \E x \in 1..Len(k) : e[x] = i
    BY <1>3, <1>7, PlacesOf
<1>9. \A x \in 1..Len(k) : k[x] = s[e[x]] /\ s[e[x]] \in S
    BY <1>5, <1>6, <1>8
<1>10. \A i \in 1..n : s[i] \in S => \E x \in 1..Len(k) : e[x] = i
    BY <1>5, <1>8
<1>11. Places(e, s, S, k)
    BY <1>2, <1>8, <1>9, <1>10 DEF Places, n, B
<1> QED BY <1>11 DEF k

LEMMA KeptEmpty ==
    ASSUME NEW A, NEW s \in Seq(A), NEW S, \A i \in 1..Len(s) : s[i] \notin S
    PROVE  Kept(s, S) = <<>>
<1> DEFINE k == Kept(s, S)
<1>1. PICK e : Places(e, s, S, k)
    BY KeptPlaces
<1>2. k \in Seq(A)
    BY KeptPicks
<1> HIDE DEF k
<1>3. \A x \in 1..Len(k) : FALSE
    BY <1>1 DEF Places
<1>4. Len(k) = 0
    BY <1>2, <1>3
<1> QED BY <1>2, <1>4 DEF k

-----------------------------------------------------------------------------
(* Payloads: the notes of a payload and its pictures.                      *)

Types == {"text", "thinking", "tool_use", "tool_result", "compaction"} \union LabeledKinds
Blocks == [type : Types, id : Nat]
Marks == [media : [LabeledKinds -> Nat], through : Nat, model : Models \union {"none"}]
StoredRows == [sequence : Nat, role : {"user", "assistant", "system"}, node : Nodes,
               is_partial : BOOLEAN, content : Seq(Blocks), mark : Marks]
Items == [w : {"start", "text", "call", "result", "note", "picture"},
          kind : LabeledKinds \union {"user", "assistant", "system", "latest", ""},
          id : Nat, label : Nat, shown : BOOLEAN]

Plain == {x \in Items : x.w \notin {"note", "picture"}}
RightNotes == {x \in Items : x.w = "note" /\ x.label = x.id}
Shown == {x \in Items : x.w = "note" /\ x.shown}
Shots == {x \in Items : x.w = "picture"}

\* Media blocks are labelled with the host's number for them.
GoodLabels(h) ==
    \A i \in DOMAIN h : \A j \in DOMAIN h[i].content :
        h[i].role = "user" /\ h[i].content[j].type \in LabeledKinds
            => Label(h, i, j) = h[i].content[j].id

Match(a, b) ==
    /\ Len(a) = Len(b)
    /\ \A i \in 1..Len(b) : b[i].kind = a[i].kind /\ b[i].id = a[i].id
LabelsRight(w) == \A i \in 1..Len(w) : w[i].w = "note" => w[i].label = w[i].id
Aligned == {w \in Seq(Items) : LabelsRight(w) /\ Match(Kept(w, Shown), Kept(w, Shots))}

LEMMA ConcatAt2 ==
    ASSUME NEW A, NEW ss \in Seq(A), NEW tt \in Seq(A), NEW m, NEW n, m = Len(ss), n = Len(tt)
    PROVE  /\ ss \o tt \in Seq(A) /\ m \in Nat /\ n \in Nat /\ Len(ss \o tt) = m + n
           /\ \A i \in 1..m : (ss \o tt)[i] = ss[i] /\ ss[i] \in A
           /\ \A i \in 1..n : (ss \o tt)[m + i] = tt[i] /\ tt[i] \in A
OBVIOUS

LEMMA KeptItems ==
    ASSUME NEW S
    PROVE  \A x, y \in Seq(Items) : Kept(x \o y, S) = Kept(x, S) \o Kept(y, S)
<1> SUFFICES ASSUME NEW x \in Seq(Items), NEW y \in Seq(Items)
             PROVE  Kept(x \o y, S) = Kept(x, S) \o Kept(y, S)
    OBVIOUS
<1> QED BY KeptConcat

LEMMA MatchConcat ==
    ASSUME NEW A, NEW a \in Seq(A), NEW b \in Seq(A), NEW c \in Seq(A), NEW d \in Seq(A),
           Match(a, b), Match(c, d)
    PROVE  Match(a \o c, b \o d)
<1> DEFINE n == Len(a)
           m == Len(c)
<1>1. n \in Nat /\ m \in Nat /\ n = Len(b) /\ m = Len(d) /\ n = Len(a) /\ m = Len(c)
    BY DEF Match
<1> HIDE DEF n, m
<1>2. /\ Len(a \o c) = n + m
      /\ \A i \in 1..n : (a \o c)[i] = a[i]
      /\ \A i \in 1..m : (a \o c)[n + i] = c[i]
    BY <1>1, ConcatAt2
<1>3. /\ Len(b \o d) = n + m
      /\ \A i \in 1..n : (b \o d)[i] = b[i]
      /\ \A i \in 1..m : (b \o d)[n + i] = d[i]
    <2>1. n = Len(b) /\ m = Len(d)
        BY <1>1
    <2> QED BY <2>1, ConcatAt2
<1> DEFINE x == a \o c
           y == b \o d
<1>h. /\ Len(x) = n + m /\ Len(y) = n + m
      /\ \A i \in 1..n : x[i] = a[i] /\ y[i] = b[i]
      /\ \A i \in 1..m : x[n + i] = c[i] /\ y[n + i] = d[i]
    BY <1>2, <1>3
<1> HIDE DEF x, y
<1>4. ASSUME NEW i \in 1..(n + m) PROVE y[i].kind = x[i].kind /\ y[i].id = x[i].id
    <2>1. CASE i \in 1..n
        BY <1>1, <1>h, <2>1 DEF Match
    <2>2. CASE i \notin 1..n
        <3>1. i - n \in 1..m /\ n + (i - n) = i
            BY <1>1, <2>2
        <3>2. x[i] = c[i - n] /\ y[i] = d[i - n]
            BY <1>h, <3>1
        <3> QED BY <1>1, <3>1, <3>2 DEF Match
    <2> QED BY <2>1, <2>2
<1>5. Match(x, y)
    BY <1>h, <1>4 DEF Match
<1> QED BY <1>5 DEF x, y

LEMMA LabelsRightConcat ==
    ASSUME NEW v \in Seq(Items), NEW w \in Seq(Items), LabelsRight(v), LabelsRight(w)
    PROVE  LabelsRight(v \o w)
<1> DEFINE c == v \o w
<1>1. /\ Len(v) \in Nat /\ Len(w) \in Nat /\ Len(c) = Len(v) + Len(w)
      /\ \A x \in 1..Len(v) : x \in 1..Len(c) /\ c[x] = v[x]
      /\ \A k \in 1..Len(w) : Len(v) + k \in 1..Len(c) /\ c[Len(v) + k] = w[k]
      /\ \A x \in 1..Len(c) : x \in 1..Len(v) \/ \E k \in 1..Len(w) : x = Len(v) + k
    BY ConcatAt
<1> HIDE DEF c
<1>v. \A x \in 1..Len(v) : v[x].w = "note" => v[x].label = v[x].id
    BY DEF LabelsRight
<1>w. \A x \in 1..Len(w) : w[x].w = "note" => w[x].label = w[x].id
    BY DEF LabelsRight
<1>3. ASSUME NEW x \in 1..Len(c), c[x].w = "note" PROVE c[x].label = c[x].id
    <2>1. CASE x \in 1..Len(v)
        BY <1>1, <1>v, <1>3, <2>1
    <2>2. CASE \E k \in 1..Len(w) : x = Len(v) + k
        BY <1>1, <1>w, <1>3, <2>2
    <2> QED BY <1>1, <2>1, <2>2
<1>2. LabelsRight(c)
    BY <1>3 DEF LabelsRight
<1> QED BY <1>2 DEF c

LEMMA AlignedConcat ==
    ASSUME NEW v \in Aligned, NEW w \in Aligned
    PROVE  v \o w \in Aligned
<1>1. /\ v \in Seq(Items) /\ LabelsRight(v) /\ Match(Kept(v, Shown), Kept(v, Shots))
      /\ w \in Seq(Items) /\ LabelsRight(w) /\ Match(Kept(w, Shown), Kept(w, Shots))
    BY DEF Aligned
<1>2. v \o w \in Seq(Items)
    BY <1>1
<1>3. LabelsRight(v \o w)
    BY <1>1, LabelsRightConcat
<1>4. /\ Kept(v, Shown) \in Seq(Items) /\ Kept(v, Shots) \in Seq(Items)
      /\ Kept(w, Shown) \in Seq(Items) /\ Kept(w, Shots) \in Seq(Items)
    BY <1>1, KeptPicks
<1>5. Match(Kept(v, Shown) \o Kept(w, Shown), Kept(v, Shots) \o Kept(w, Shots))
    BY <1>1, <1>4, MatchConcat
<1>6. /\ Kept(v \o w, Shown) = Kept(v, Shown) \o Kept(w, Shown)
      /\ Kept(v \o w, Shots) = Kept(v, Shots) \o Kept(w, Shots)
    BY <1>1, KeptConcat
<1> QED BY <1>2, <1>3, <1>5, <1>6 DEF Aligned

LEMMA PlainAligned ==
    ASSUME NEW w \in Seq(Plain)
    PROVE  w \in Aligned
<1>1. w \in Seq(Items) /\ \A i \in 1..Len(w) : w[i] \in Plain
    BY DEF Plain
<1>2. \A i \in 1..Len(w) : w[i] \notin Shown /\ w[i] \notin Shots
    BY <1>1 DEF Plain, Shown, Shots
<1>3. Kept(w, Shown) = <<>> /\ Kept(w, Shots) = <<>>
    BY <1>1, <1>2, KeptEmpty
<1>4. Match(<<>>, <<>>)
    BY DEF Match
<1>5. LabelsRight(w)
    BY <1>1 DEF LabelsRight, Plain
<1> QED BY <1>1, <1>3, <1>4, <1>5 DEF Aligned

\* Notes and then their pictures.
LEMMA NotesAligned ==
    ASSUME NEW u \in Seq(RightNotes), NEW v \in Seq(Shots), Match(Kept(u, Shown), Kept(v, Shots))
    PROVE  u \o v \in Aligned
<1>1. /\ u \in Seq(Items) /\ v \in Seq(Items) /\ \A i \in 1..Len(u) : u[i] \in RightNotes
      /\ \A i \in 1..Len(v) : v[i] \in Shots
    BY DEF RightNotes, Shots
<1>2. Kept(u, Shots) = <<>>
    <2>1. \A i \in 1..Len(u) : u[i] \notin Shots
        BY <1>1 DEF RightNotes, Shots
    <2> QED BY <1>1, <2>1, KeptEmpty
<1>3. Kept(v, Shown) = <<>>
    <2>1. \A i \in 1..Len(v) : v[i] \notin Shown
        BY <1>1 DEF Shots, Shown
    <2> QED BY <1>1, <2>1, KeptEmpty
<1>4. /\ Kept(u \o v, Shown) = Kept(u, Shown) \o <<>>
      /\ Kept(u \o v, Shots) = <<>> \o Kept(v, Shots)
    <2>1. /\ Kept(u \o v, Shown) = Kept(u, Shown) \o Kept(v, Shown)
          /\ Kept(u \o v, Shots) = Kept(u, Shots) \o Kept(v, Shots)
        BY <1>1, KeptItems, Zenon
    <2> QED BY <1>2, <1>3, <2>1
<1>5. Kept(u, Shown) \in Seq(Items) /\ Kept(v, Shots) \in Seq(Items)
    BY <1>1, KeptPicks
<1>6. Kept(u \o v, Shown) = Kept(u, Shown) /\ Kept(u \o v, Shots) = Kept(v, Shots)
    BY <1>4, <1>5
<1>7. LabelsRight(u) /\ LabelsRight(v)
    BY <1>1 DEF LabelsRight, RightNotes, Shots
<1>8. LabelsRight(u \o v) /\ u \o v \in Seq(Items)
    BY <1>1, <1>7, LabelsRightConcat
<1> QED BY <1>6, <1>8 DEF Aligned

LEMMA ItemTypes ==
    /\ \A role \in {"user", "assistant", "system", "latest"} : Start(role) \in Plain
    /\ Text \in Plain
    /\ \A b \in Blocks : Call(b) \in Plain /\ Result(b) \in Plain
    /\ \A b \in Blocks : b.type \in LabeledKinds => Picture(b) \in Shots
    /\ \A b \in Blocks, declared \in BOOLEAN : FlattenToolBlock(b, declared) \in Plain
BY DEF Start, Text, Call, Result, Picture, FlattenToolBlock, Plain, Shots, Items, Item, Blocks

\* A set of sequences that is closed under putting one after the other.
Closed(A, G) == G \in SUBSET Seq(A) /\ <<>> \in G /\ \A v, w \in G : v \o w \in G

LEMMA FlattenClosed ==
    ASSUME NEW A, NEW G, Closed(A, G), NEW n \in Nat, NEW ss \in [1..n -> G]
    PROVE  FlattenSeq(ss) \in G
<1>1. G \in SUBSET Seq(A) /\ <<>> \in G /\ \A v, w \in G : v \o w \in G
    BY DEF Closed
<1> QED BY <1>1, FlattenHas

LEMMA NoteItems ==
    ASSUME NEW k \in LabeledKinds, NEW n \in Nat, NEW u \in BOOLEAN
    PROVE  /\ Item("note", k, n, n, u) \in RightNotes
           /\ (Item("note", k, n, n, u) \in Shown <=> u)
           /\ Item("picture", k, n, 0, TRUE) \in Shots
           /\ Item("picture", k, n, 0, TRUE).kind = Item("note", k, n, n, u).kind
           /\ Item("picture", k, n, 0, TRUE).id = Item("note", k, n, n, u).id
BY DEF Item, RightNotes, Shown, Shots, Items

LEMMA FlattenAligned ==
    ASSUME NEW n \in Nat, NEW ss \in [1..n -> Aligned]
    PROVE  FlattenSeq(ss) \in Aligned
<1>1. Aligned \in SUBSET Seq(Items)
    BY DEF Aligned
<1>2. <<>> \in Aligned
    <2>1. <<>> \in Seq(Plain)
        OBVIOUS
    <2> QED BY <2>1, PlainAligned
<1>3. \A v, w \in Aligned : v \o w \in Aligned
    BY AlignedConcat
<1>4. Closed(Items, Aligned)
    BY <1>1, <1>2, <1>3 DEF Closed
<1> QED BY <1>4, FlattenClosed

LEMMA BlocksOf ==
    ASSUME NEW r \in StoredRows
    PROVE  /\ r.content \in Seq(Blocks) /\ DOMAIN r.content = 1..Len(r.content)
           /\ Len(r.content) \in Nat
           /\ \A j \in 1..Len(r.content) : r.content[j] \in Blocks
           /\ r.role \in {"user", "assistant", "system"}
           /\ r.mark \in Marks
<1>1. r.content \in Seq(Blocks) /\ r.role \in {"user", "assistant", "system"} /\ r.mark \in Marks
    BY DEF StoredRows
<1> QED BY <1>1

LEMMA PlainParts ==
    ASSUME NEW r \in StoredRows, NEW declared \in BOOLEAN
    PROVE  /\ Calls(r) \in Seq(Plain) /\ Results(r) \in Seq(Plain)
           /\ ToolBlocks(r, declared) \in Seq(Plain) /\ ReplyBlocks(r, declared) \in Seq(Plain)
<1> DEFINE n == Len(r.content)
           c == [j \in 1..n |->
                   IF r.content[j].type = "tool_use" THEN <<Call(r.content[j])>> ELSE <<>>]
           d == [j \in 1..n |->
                   IF r.content[j].type = "tool_result" THEN <<Result(r.content[j])>> ELSE <<>>]
           e == [j \in 1..n |->
                   IF r.content[j].type = "tool_result"
                   THEN <<FlattenToolBlock(r.content[j], declared)>> ELSE <<>>]
           f == [j \in 1..n |->
                   IF r.content[j].type = "text" THEN <<Text>>
                   ELSE IF r.content[j].type = "tool_use"
                   THEN <<FlattenToolBlock(r.content[j], declared)>> ELSE <<>>]
<1>1. /\ DOMAIN r.content = 1..n /\ n \in Nat
      /\ \A j \in 1..n : r.content[j] \in Blocks
    BY BlocksOf
<1>2. /\ Calls(r) = FlattenSeq(c) /\ Results(r) = FlattenSeq(d)
      /\ ToolBlocks(r, declared) = FlattenSeq(e) /\ ReplyBlocks(r, declared) = FlattenSeq(f)
    BY <1>1 DEF Calls, Results, ToolBlocks, ReplyBlocks
<1>3. /\ \A j \in 1..n : /\ Call(r.content[j]) \in Plain /\ Result(r.content[j]) \in Plain
                         /\ FlattenToolBlock(r.content[j], declared) \in Plain
      /\ Text \in Plain
    BY <1>1, ItemTypes
<1> DEFINE one(x) == <<x>>
<1>4. \A x \in Plain : <<x>> \in Seq(Plain)
    OBVIOUS
<1>5. <<>> \in Seq(Plain)
    OBVIOUS
<1>6. /\ c \in [1..n -> Seq(Plain)] /\ d \in [1..n -> Seq(Plain)]
      /\ e \in [1..n -> Seq(Plain)] /\ f \in [1..n -> Seq(Plain)]
    BY <1>3, <1>4, <1>5
<1> HIDE DEF c, d, e, f, n
<1> QED BY <1>1, <1>2, <1>6, FlattenIn

\* The notes of a row and the pictures they announce.
LEMMA NotesAndPictures ==
    ASSUME NEW h \in Seq(StoredRows), NEW i \in DOMAIN h, GoodLabels(h), h[i].role = "user",
           NEW seeing \in BOOLEAN
    PROVE  /\ Notes(h, i, seeing) \in Seq(RightNotes)
           /\ Pictures(h[i], seeing) \in Seq(Shots)
           /\ Match(Kept(Notes(h, i, seeing), Shown), Kept(Pictures(h[i], seeing), Shots))
           /\ ResponsesMedia(h, i, seeing) \in Aligned
<1> DEFINE r == h[i]
           n == Len(r.content)
           media(j) == r.content[j].type \in LabeledKinds
           c == [j \in 1..n |-> IF media(j) THEN <<Note(h, i, j, seeing)>> ELSE <<>>]
           d == [j \in 1..n |-> IF media(j) /\ Url(seeing, r.content[j])
                                THEN <<Picture(r.content[j])>> ELSE <<>>]
           e == [j \in 1..n |->
                   IF media(j)
                   THEN <<Note(h, i, j, seeing)>>
                        \o IF Url(seeing, r.content[j]) THEN <<Picture(r.content[j])>> ELSE <<>>
                   ELSE <<>>]
<1>1. r \in StoredRows
    OBVIOUS
<1>2. /\ DOMAIN r.content = 1..n /\ n \in Nat
      /\ \A j \in 1..n : r.content[j] \in Blocks
    BY <1>1, BlocksOf
<1>3. /\ Notes(h, i, seeing) = FlattenSeq(c) /\ Pictures(r, seeing) = FlattenSeq(d)
      /\ ResponsesMedia(h, i, seeing) = FlattenSeq(e)
    BY <1>2 DEF Notes, Pictures, ResponsesMedia
<1>4. ASSUME NEW j \in 1..n, media(j)
      PROVE  /\ Note(h, i, j, seeing) \in RightNotes
             /\ (Note(h, i, j, seeing) \in Shown <=> Url(seeing, r.content[j]))
             /\ Picture(r.content[j]) \in Shots
             /\ Picture(r.content[j]).kind = Note(h, i, j, seeing).kind
             /\ Picture(r.content[j]).id = Note(h, i, j, seeing).id
    <2>1. Label(h, i, j) = r.content[j].id
        BY <1>2, <1>4 DEF GoodLabels
    <2>2. Url(seeing, r.content[j]) \in BOOLEAN
        BY DEF Url
    <2>3. r.content[j].id \in Nat /\ r.content[j].type \in LabeledKinds
        BY <1>2, <1>4 DEF Blocks
    <2> HIDE DEF r
    <2>4. Note(h, i, j, seeing) = Item("note", r.content[j].type, r.content[j].id,
                                       r.content[j].id, Url(seeing, r.content[j]))
        BY <2>1 DEF Note, r
    <2>5. Picture(r.content[j]) = Item("picture", r.content[j].type, r.content[j].id, 0, TRUE)
        BY DEF Picture
    <2> HIDE DEF c, d, e, media, n
    <2> DEFINE k == r.content[j].type
               id == r.content[j].id
               u == Url(seeing, r.content[j])
    <2>6. k \in LabeledKinds /\ id \in Nat /\ u \in BOOLEAN
        BY <2>2, <2>3
    <2>7. /\ Note(h, i, j, seeing) = Item("note", k, id, id, u)
          /\ Picture(r.content[j]) = Item("picture", k, id, 0, TRUE)
        BY <2>4, <2>5
    <2> HIDE DEF k, id, u
    <2>8. /\ Item("note", k, id, id, u) \in RightNotes
          /\ (Item("note", k, id, id, u) \in Shown <=> u)
          /\ Item("picture", k, id, 0, TRUE) \in Shots
          /\ Item("picture", k, id, 0, TRUE).kind = Item("note", k, id, id, u).kind
          /\ Item("picture", k, id, 0, TRUE).id = Item("note", k, id, id, u).id
        BY <2>6, NoteItems
    <2>9. /\ Note(h, i, j, seeing) \in RightNotes
          /\ (Note(h, i, j, seeing) \in Shown <=> u)
          /\ Picture(r.content[j]) \in Shots
          /\ Picture(r.content[j]).kind = Note(h, i, j, seeing).kind
          /\ Picture(r.content[j]).id = Note(h, i, j, seeing).id
        BY <2>7, <2>8
    <2> QED BY <2>9 DEF u
<1> DEFINE R == {x \in Seq(RightNotes) \X Seq(Shots) : Match(Kept(x[1], Shown), Kept(x[2], Shots))}
<1>m. Match(<<>>, <<>>)
    BY DEF Match
<1>n. <<>> \in Seq(RightNotes) /\ <<>> \in Seq(Shots)
    OBVIOUS
<1>5. <<<<>>, <<>>>> \in R
    <2>1. Kept(<<>>, Shown) = <<>> /\ Kept(<<>>, Shots) = <<>>
        BY KeptNone
    <2> HIDE DEF c, d, e, media, r, n
    <2>2. <<<<>>, <<>>>> \in Seq(RightNotes) \X Seq(Shots)
        BY <1>n
    <2> QED BY <1>m, <2>1, <2>2
<1>6. \A x, y \in R : <<x[1] \o y[1], x[2] \o y[2]>> \in R
    <2> SUFFICES ASSUME NEW x \in R, NEW y \in R PROVE <<x[1] \o y[1], x[2] \o y[2]>> \in R
        OBVIOUS
    <2>1. /\ x[1] \in Seq(RightNotes) /\ y[1] \in Seq(RightNotes)
          /\ x[2] \in Seq(Shots) /\ y[2] \in Seq(Shots)
          /\ Match(Kept(x[1], Shown), Kept(x[2], Shots))
          /\ Match(Kept(y[1], Shown), Kept(y[2], Shots))
        OBVIOUS
    <2>2. x[1] \in Seq(Items) /\ y[1] \in Seq(Items) /\ x[2] \in Seq(Items) /\ y[2] \in Seq(Items)
        BY <2>1 DEF RightNotes, Shots
    <2> HIDE DEF R
    <2>3. /\ Kept(x[1] \o y[1], Shown) = Kept(x[1], Shown) \o Kept(y[1], Shown)
          /\ Kept(x[2] \o y[2], Shots) = Kept(x[2], Shots) \o Kept(y[2], Shots)
        BY <2>2, KeptItems, Zenon
    <2>4. /\ Kept(x[1], Shown) \in Seq(Items) /\ Kept(y[1], Shown) \in Seq(Items)
          /\ Kept(x[2], Shots) \in Seq(Items) /\ Kept(y[2], Shots) \in Seq(Items)
        BY <2>2, KeptPicks
    <2>5. Match(Kept(x[1] \o y[1], Shown), Kept(x[2] \o y[2], Shots))
        BY <2>1, <2>3, <2>4, MatchConcat
    <2>6. x[1] \o y[1] \in Seq(RightNotes) /\ x[2] \o y[2] \in Seq(Shots)
        BY <2>1
    <2> QED BY <2>5, <2>6 DEF R
<1>7. c \in [1..n -> Seq(RightNotes)] /\ d \in [1..n -> Seq(Shots)]
    <2>1. \A x \in RightNotes : <<x>> \in Seq(RightNotes)
        OBVIOUS
    <2>2. \A x \in Shots : <<x>> \in Seq(Shots)
        OBVIOUS
    <2> HIDE DEF r, n, media
    <2> QED BY <1>4, <1>n, <2>1, <2>2
<1>8. \A j \in 1..n : /\ c[j] = IF media(j) THEN <<Note(h, i, j, seeing)>> ELSE <<>>
                      /\ d[j] = IF media(j) /\ Url(seeing, r.content[j])
                                THEN <<Picture(r.content[j])>> ELSE <<>>
                      /\ e[j] = IF media(j)
                                THEN <<Note(h, i, j, seeing)>>
                                     \o IF Url(seeing, r.content[j])
                                        THEN <<Picture(r.content[j])>> ELSE <<>>
                                ELSE <<>>
    OBVIOUS
<1>9. DOMAIN e = 1..n /\ e = [j \in 1..n |-> e[j]]
    OBVIOUS
<1> HIDE DEF c, d, e, media, r, R, n
<1>10. ASSUME NEW j \in 1..n PROVE <<c[j], d[j]>> \in R /\ e[j] \in Aligned
    <2>1. CASE ~media(j)
        <3>1. c[j] = <<>> /\ d[j] = <<>> /\ e[j] = <<>>
            BY <1>8, <2>1
        <3>2. <<>> \in Seq(Plain)
            OBVIOUS
        <3> QED BY <1>5, <3>1, <3>2, PlainAligned
    <2>2. CASE media(j)
        <3> DEFINE x == Note(h, i, j, seeing)
                   y == Picture(r.content[j])
        <3>1. /\ x \in RightNotes /\ (x \in Shown <=> Url(seeing, r.content[j])) /\ y \in Shots
              /\ y.kind = x.kind /\ y.id = x.id
            BY <1>4, <2>2
        <3> HIDE DEF x, y
        <3>2. x \in Items /\ y \in Items
            BY <3>1 DEF RightNotes, Shots
        <3>3. <<x>> \in Seq(RightNotes) /\ <<y>> \in Seq(Shots)
            BY <3>1
        <3>4. CASE Url(seeing, r.content[j])
            <4>1. c[j] = <<x>> /\ d[j] = <<y>> /\ e[j] = <<x>> \o <<y>>
                BY <1>8, <2>2, <3>4 DEF x, y
            <4>2. Kept(<<x>>, Shown) = <<x>> /\ Kept(<<y>>, Shots) = <<y>>
                BY <3>1, <3>2, <3>4, KeptOne
            <4>3. Match(<<x>>, <<y>>)
                <5>1. Len(<<x>>) = 1 /\ Len(<<y>>) = 1 /\ <<x>>[1] = x /\ <<y>>[1] = y
                    OBVIOUS
                <5>2. \A k \in 1..1 : k = 1
                    OBVIOUS
                <5> QED BY <3>1, <5>1, <5>2 DEF Match
            <4>4. Match(Kept(<<x>>, Shown), Kept(<<y>>, Shots))
                BY <4>2, <4>3
            <4>5. <<<<x>>, <<y>>>> \in R
                BY <3>3, <4>4 DEF R
            <4>6. <<x>> \o <<y>> \in Aligned
                BY <3>3, <4>4, NotesAligned
            <4> QED BY <4>1, <4>5, <4>6
        <3>5. CASE ~Url(seeing, r.content[j])
            <4>1. c[j] = <<x>> /\ d[j] = <<>> /\ e[j] = <<x>> \o <<>>
                BY <1>8, <2>2, <3>5 DEF x, y
            <4>2. Kept(<<x>>, Shown) = <<>> /\ Kept(<<>>, Shots) = <<>>
                BY <3>1, <3>2, <3>5, KeptOne, KeptNone
            <4>3. Match(Kept(<<x>>, Shown), Kept(<<>>, Shots))
                BY <1>m, <4>2
            <4>4. <<<<x>>, <<>>>> \in R
                BY <1>n, <3>3, <4>3 DEF R
            <4>5. <<x>> \o <<>> \in Aligned
                BY <1>n, <3>3, <4>3, NotesAligned
            <4> QED BY <4>1, <4>4, <4>5
        <3> QED BY <3>4, <3>5
    <2> QED BY <2>1, <2>2
<1>11. R \in SUBSET (Seq(RightNotes) \X Seq(Shots)) /\ n \in Nat
    BY <1>2 DEF R
<1>12. <<FlattenSeq(c), FlattenSeq(d)>> \in R
    <2>1. /\ c \in [1..n -> Seq(Items)] /\ d \in [1..n -> Seq(Items)]
          /\ R \in SUBSET (Seq(Items) \X Seq(Items))
        <3>1. Seq(RightNotes) \subseteq Seq(Items) /\ Seq(Shots) \subseteq Seq(Items)
            BY DEF RightNotes, Shots
        <3> QED BY <1>7, <1>11, <3>1
    <2>2. \A j \in 1..n : <<c[j], d[j]>> \in R
        BY <1>10
    <2> QED BY <1>5, <1>6, <1>11, <2>1, <2>2, FlattenBoth
<1>13. e \in [1..n -> Aligned]
    BY <1>9, <1>10
<1>14. FlattenSeq(e) \in Aligned
    BY <1>11, <1>13, FlattenAligned
<1>15. /\ FlattenSeq(c) \in Seq(RightNotes) /\ FlattenSeq(d) \in Seq(Shots)
       /\ Match(Kept(FlattenSeq(c), Shown), Kept(FlattenSeq(d), Shots))
    BY <1>12 DEF R
<1> QED BY <1>3, <1>14, <1>15 DEF r

LEMMA Singles ==
    ASSUME NEW x \in Plain, NEW y \in Plain
    PROVE  <<x>> \in Aligned /\ <<x, y>> \in Aligned /\ <<>> \in Aligned
<1>1. <<x>> \in Seq(Plain) /\ <<x, y>> \in Seq(Plain) /\ <<>> \in Seq(Plain)
    OBVIOUS
<1> QED BY <1>1, PlainAligned

LEMMA UserMessageAligned ==
    ASSUME NEW h \in Seq(StoredRows), NEW i \in DOMAIN h, GoodLabels(h), h[i].role = "user",
           NEW seeing \in BOOLEAN
    PROVE  UserMessage(h, i, seeing) \in Aligned
<1> DEFINE t == IF HasText(h[i]) THEN <<Text>> ELSE <<>>
           u == Notes(h, i, seeing)
           v == Pictures(h[i], seeing)
<1>1. t \in Aligned
    BY Singles, ItemTypes
<1>2. u \in Seq(RightNotes) /\ v \in Seq(Shots) /\ Match(Kept(u, Shown), Kept(v, Shots))
    BY NotesAndPictures
<1>3. u \o v \in Aligned
    BY <1>2, NotesAligned
<1>4. UserMessage(h, i, seeing) = (t \o u) \o v
    BY DEF UserMessage
<1>5. t \in Seq(Items) /\ u \in Seq(Items) /\ v \in Seq(Items)
    BY <1>1, <1>2 DEF Aligned, RightNotes, Shots
<1> HIDE DEF t, u, v
<1>6. t \o (u \o v) = (t \o u) \o v
    BY <1>5, ConcatAssoc
<1> QED BY <1>1, <1>3, <1>4, <1>6, AlignedConcat

LEMMA OpenAIMessageAligned ==
    ASSUME NEW h \in Seq(StoredRows), NEW i \in DOMAIN h, GoodLabels(h), NEW seeing \in BOOLEAN
    PROVE  OpenAIMessage(h, i, seeing) \in Aligned
<1> DEFINE r == h[i]
           t == IF HasText(r) THEN <<Text>> ELSE <<>>
           m == IF HasText(r) \/ HasMedia(r) THEN <<Start("user")>> \o UserMessage(h, i, seeing) ELSE <<>>
<1>1. r \in StoredRows
    OBVIOUS
<1>2. Calls(r) \in Aligned /\ Results(r) \in Aligned
    <2> HIDE DEF r
    <2>1. Calls(r) \in Seq(Plain) /\ Results(r) \in Seq(Plain)
        BY <1>1, PlainParts
    <2> QED BY <2>1, PlainAligned
<1>3. /\ Start("user") \in Plain /\ Start("assistant") \in Plain /\ Text \in Plain
    BY ItemTypes
<1>4. /\ <<Start("user"), Text>> \in Aligned /\ <<Start("user")>> \in Aligned
      /\ <<Start("assistant")>> \in Aligned /\ t \in Aligned /\ <<>> \in Aligned
    BY <1>3, Singles
<1>5. CASE IsCompaction(r)
    BY <1>4, <1>5 DEF OpenAIMessage
<1>6. CASE ~IsCompaction(r) /\ r.role = "user"
    <2>1. UserMessage(h, i, seeing) \in Aligned
        BY <1>6, UserMessageAligned
    <2>2. m \in Aligned
        BY <1>4, <2>1, AlignedConcat
    <2>3. OpenAIMessage(h, i, seeing) = Results(r) \o m
        BY <1>6 DEF OpenAIMessage
    <2> QED BY <1>2, <2>2, <2>3, AlignedConcat
<1>7. CASE ~IsCompaction(r) /\ r.role # "user"
    <2>1. OpenAIMessage(h, i, seeing) = (<<Start("assistant")>> \o t) \o Calls(r)
        BY <1>7 DEF OpenAIMessage
    <2> HIDE DEF t, r
    <2>2. <<Start("assistant")>> \o t \in Aligned
        BY <1>4, AlignedConcat
    <2> QED BY <1>2, <2>1, <2>2, AlignedConcat
<1> QED BY <1>5, <1>6, <1>7

LEMMA ResponsesItemsAligned ==
    ASSUME NEW h \in Seq(StoredRows), NEW i \in DOMAIN h, GoodLabels(h), NEW seeing \in BOOLEAN
    PROVE  ResponsesItems(h, i, seeing) \in Aligned
<1> DEFINE r == h[i]
           t == IF HasText(r) THEN <<Text>> ELSE <<>>
           s == IF HasText(r) THEN <<Start("assistant"), Text>> ELSE <<>>
           m == IF HasText(r) \/ HasMedia(r)
                THEN (<<Start("user")>> \o t) \o ResponsesMedia(h, i, seeing) ELSE <<>>
<1>1. r \in StoredRows
    OBVIOUS
<1>2. Calls(r) \in Aligned /\ Results(r) \in Aligned
    <2> HIDE DEF r
    <2>1. Calls(r) \in Seq(Plain) /\ Results(r) \in Seq(Plain)
        BY <1>1, PlainParts
    <2> QED BY <2>1, PlainAligned
<1>3. /\ Start("user") \in Plain /\ Start("assistant") \in Plain /\ Text \in Plain
    BY ItemTypes
<1>4. /\ <<Start("user"), Text>> \in Aligned /\ <<Start("user")>> \in Aligned
      /\ s \in Aligned /\ t \in Aligned /\ <<>> \in Aligned
    BY <1>3, Singles
<1>5. CASE IsCompaction(r)
    BY <1>4, <1>5 DEF ResponsesItems
<1>6. CASE ~IsCompaction(r) /\ r.role = "user"
    <2>1. ResponsesMedia(h, i, seeing) \in Aligned
        BY <1>6, NotesAndPictures
    <2>2. <<Start("user")>> \o t \in Aligned
        <3> HIDE DEF t
        <3> QED BY <1>4, AlignedConcat
    <2>3. (<<Start("user")>> \o t) \o ResponsesMedia(h, i, seeing) \in Aligned
        <3> HIDE DEF t
        <3> QED BY <2>1, <2>2, AlignedConcat
    <2>4. m \in Aligned
        BY <1>4, <2>3
    <2>5. ResponsesItems(h, i, seeing) = Results(r) \o m
        BY <1>6 DEF ResponsesItems
    <2> QED BY <1>2, <2>4, <2>5, AlignedConcat
<1>7. CASE ~IsCompaction(r) /\ r.role # "user"
    <2>1. ResponsesItems(h, i, seeing) = s \o Calls(r)
        BY <1>7 DEF ResponsesItems
    <2> HIDE DEF s, r
    <2> QED BY <1>2, <1>4, <2>1, AlignedConcat
<1> QED BY <1>5, <1>6, <1>7

LEMMA AnthropicMessageAligned ==
    ASSUME NEW h \in Seq(StoredRows), NEW i \in DOMAIN h, GoodLabels(h), NEW seeing \in BOOLEAN,
           NEW declared \in BOOLEAN
    PROVE  AnthropicMessage(h, i, seeing, declared) \in Aligned
<1> DEFINE r == h[i]
           parts == IF r.role = "user" THEN ToolBlocks(r, declared) \o UserMessage(h, i, seeing)
                    ELSE ReplyBlocks(r, declared)
<1>1. r \in StoredRows /\ r.role \in {"user", "assistant", "system"}
    <2>1. r \in StoredRows
        OBVIOUS
    <2> HIDE DEF r
    <2> QED BY <2>1, BlocksOf
<1>2. ToolBlocks(r, declared) \in Aligned /\ ReplyBlocks(r, declared) \in Aligned
    <2> HIDE DEF r
    <2>1. ToolBlocks(r, declared) \in Seq(Plain) /\ ReplyBlocks(r, declared) \in Seq(Plain)
        BY <1>1, PlainParts
    <2> QED BY <2>1, PlainAligned
<1>3. /\ Start("user") \in Plain /\ Start("assistant") \in Plain /\ Text \in Plain
      /\ Start(r.role) \in Plain
    BY <1>1, ItemTypes
<1>4. /\ <<Start("user"), Text>> \in Aligned /\ <<Start(r.role)>> \in Aligned
      /\ <<Start("assistant")>> \in Aligned /\ <<>> \in Aligned
    BY <1>3, Singles
<1>5. parts \in Aligned
    <2>1. CASE r.role = "user"
        <3>1. UserMessage(h, i, seeing) \in Aligned
            BY <2>1, UserMessageAligned
        <3> QED BY <1>2, <2>1, <3>1, AlignedConcat
    <2> QED BY <1>2, <2>1
<1>6. \/ AnthropicMessage(h, i, seeing, declared) = <<Start("assistant")>>
      \/ AnthropicMessage(h, i, seeing, declared) = <<Start("user"), Text>>
      \/ AnthropicMessage(h, i, seeing, declared) = <<>>
      \/ AnthropicMessage(h, i, seeing, declared) = <<Start(r.role)>> \o parts
    BY DEF AnthropicMessage
<1> HIDE DEF parts, r
<1>7. <<Start(r.role)>> \o parts \in Aligned
    BY <1>4, <1>5, AlignedConcat
<1> QED BY <1>4, <1>6, <1>7

LEMMA Least ==
    ASSUME NEW S \in SUBSET Nat, S # {}
    PROVE  \E x \in S : \A y \in S : x <= y
<1>1. PICK x \in S : \A y \in S : ~(<<y, x>> \in OpToRel(<, Nat))
    BY NatLessThanWellFounded, WFMin, Zenon
<1>2. ASSUME NEW y \in S PROVE x <= y
    <2>1. ~(y < x)
        BY <1>1 DEF OpToRel
    <2>2. x \in Nat /\ y \in Nat
        OBVIOUS
    <2> QED BY <2>1, <2>2
<1> QED BY <1>2

\* The chat-completions lines with <latest> between two of them, or as they are.
Others == {x \in Items : x.w # "picture"}

LEMMA TranscriptShape ==
    ASSUME NEW w \in Seq(Items)
    PROVE  \/ RenderTranscript(w) = Kept(w, Others)
           \/ \E c \in 0..Len(Kept(w, Others)) :
                 RenderTranscript(w) = (SubSeq(Kept(w, Others), 1, c) \o <<Start("latest")>>)
                                        \o SubSeq(Kept(w, Others), c + 1, Len(Kept(w, Others)))
<1> DEFINE lines == Kept(w, {x \in ToSet(w) : x.w # "picture"})
           said == {i \in DOMAIN lines : lines[i] = Start("assistant")}
           turn == IF said = {} THEN 0 ELSE Max(said)
           rest == {i \in DOMAIN lines : i > turn /\ lines[i].w \in {"start", "result"}}
           cut == IF rest = {} THEN Len(lines) ELSE Min(rest) - 1
<1>1. lines = Kept(w, Others)
    <2>1. \A i \in 1..Len(w) : w[i] \in {x \in ToSet(w) : x.w # "picture"} <=> w[i] \in Others
        BY DEF Others, ToSet
    <2> QED BY <2>1, KeptSame
<1>2. lines \in Seq(Items)
    BY KeptPicks
<1>3. RenderTranscript(w) = IF said = {} THEN lines
                            ELSE (SubSeq(lines, 1, cut) \o <<Start("latest")>>)
                                 \o SubSeq(lines, cut + 1, Len(lines))
    BY DEF RenderTranscript
<1> HIDE DEF lines
<1>4. DOMAIN lines = 1..Len(lines) /\ Len(lines) \in Nat
    BY <1>2
<1>5. cut \in 0..Len(lines)
    <2>1. CASE rest = {}
        BY <1>4, <2>1
    <2>2. CASE rest # {}
        <3>1. rest \in SUBSET Nat /\ rest \subseteq 1..Len(lines)
            BY <1>4
        <3> HIDE DEF rest
        <3>2. \E x \in rest : \A y \in rest : x <= y
            BY <2>2, <3>1, Least
        <3>3. Min(rest) \in rest
            BY <3>2 DEF Min
        <3>4. cut = Min(rest) - 1 /\ Min(rest) \in 1..Len(lines)
            BY <2>2, <3>1, <3>3
        <3> HIDE DEF cut
        <3> QED BY <1>4, <3>4
    <2> QED BY <2>1, <2>2
<1> HIDE DEF cut, said
<1> QED BY <1>1, <1>3, <1>5

LEMMA CutInTwo ==
    ASSUME NEW A, NEW s \in Seq(A), NEW c \in 0..Len(s)
    PROVE  /\ SubSeq(s, 1, c) \in Seq(A) /\ SubSeq(s, c + 1, Len(s)) \in Seq(A)
           /\ s = SubSeq(s, 1, c) \o SubSeq(s, c + 1, Len(s))
<1>1. ASSUME NEW a, NEW b, a = SubSeq(s, 1, c), b = SubSeq(s, c + 1, Len(s))
      PROVE  a \in Seq(A) /\ b \in Seq(A) /\ s = a \o b
    <2>1. a \in Seq(A) /\ b \in Seq(A) /\ Len(a) = c /\ Len(b) = Len(s) - c
        BY <1>1
    <2>2. /\ \A i \in 1..c : a[i] = s[i]
          /\ \A i \in 1..(Len(s) - c) : b[i] = s[c + i]
        BY <1>1
    <2>3. Len(s) \in Nat /\ c \in Nat /\ c <= Len(s)
        OBVIOUS
    <2>4. a \o b \in Seq(A) /\ Len(a \o b) = Len(s)
        BY <2>1, <2>3
    <2>5. ASSUME NEW i \in 1..Len(s) PROVE (a \o b)[i] = s[i]
        <3>1. CASE i <= c
            BY <2>1, <2>2, <2>3, <3>1
        <3>2. CASE ~(i <= c)
            <4>1. i - c \in 1..(Len(s) - c) /\ c + (i - c) = i
                BY <2>3, <3>2
            <4>2. (a \o b)[i] = b[i - c]
                BY <2>1, <2>3, <3>2
            <4> QED BY <2>2, <4>1, <4>2
        <3> QED BY <3>1, <3>2
    <2>6. s = a \o b
        BY <2>4, <2>5, SeqSame
    <2> QED BY <2>1, <2>6
<1> QED BY <1>1

Right == {x \in Items : x.w = "note" => x.label = x.id}

LEMMA RightSeq ==
    ASSUME NEW w \in Seq(Items)
    PROVE  LabelsRight(w) <=> w \in Seq(Right)
<1>1. ASSUME LabelsRight(w) PROVE w \in Seq(Right)
    <2>1. \A i \in 1..Len(w) : w[i] \in Right
        BY <1>1 DEF LabelsRight, Right
    <2> QED BY <2>1
<1>2. ASSUME w \in Seq(Right) PROVE LabelsRight(w)
    <2>1. \A i \in 1..Len(w) : w[i] \in Right
        BY <1>2
    <2> QED BY <2>1 DEF LabelsRight, Right
<1> QED BY <1>1, <1>2

\* The transcript has the notes of the messages, and none of their pictures.
LEMMA TranscriptKeeps ==
    ASSUME NEW w \in Seq(Right)
    PROVE  /\ RenderTranscript(w) \in Seq(Right)
           /\ Kept(RenderTranscript(w), Shown) = Kept(w, Shown)
           /\ Kept(RenderTranscript(w), Shots) = <<>>
<1> DEFINE l == Kept(w, Others)
           n == Len(l)
<1>1. w \in Seq(Items) /\ Right \subseteq Items
    BY DEF Right
<1>2. l \in Seq(Right) /\ l \in Seq(Items) /\ n \in Nat
    BY <1>1, KeptPicks
<1>3. Kept(l, Shown) = Kept(w, Shown) /\ Kept(l, Shots) = <<>>
    <2>1. /\ Kept(l, Shown) = Kept(w, Others \intersect Shown)
          /\ Kept(l, Shots) = Kept(w, Others \intersect Shots)
        BY <1>1, KeptKept
    <2>2. Kept(w, Others \intersect Shown) = Kept(w, Shown)
        <3>1. \A i \in 1..Len(w) : w[i] \in Others \intersect Shown <=> w[i] \in Shown
            BY DEF Others, Shown
        <3> QED BY <3>1, KeptSame
    <2>3. Kept(w, Others \intersect Shots) = <<>>
        <3>1. \A i \in 1..Len(w) : w[i] \notin Others \intersect Shots
            BY DEF Others, Shots
        <3> QED BY <3>1, KeptEmpty
    <2> QED BY <2>1, <2>2, <2>3
<1>4. CASE RenderTranscript(w) = l
    BY <1>2, <1>3, <1>4
<1>5. ASSUME NEW c \in 0..n, NEW a, NEW b, a = SubSeq(l, 1, c), b = SubSeq(l, c + 1, n),
             RenderTranscript(w) = (a \o <<Start("latest")>>) \o b
      PROVE  /\ RenderTranscript(w) \in Seq(Right)
             /\ Kept(RenderTranscript(w), Shown) = Kept(w, Shown)
             /\ Kept(RenderTranscript(w), Shots) = <<>>
    <2> HIDE DEF l
    <2>1. a \in Seq(Right) /\ b \in Seq(Right) /\ l = a \o b
        <3>1. /\ SubSeq(l, 1, c) \in Seq(Right) /\ SubSeq(l, c + 1, Len(l)) \in Seq(Right)
              /\ l = SubSeq(l, 1, c) \o SubSeq(l, c + 1, Len(l))
            BY <1>2, CutInTwo
        <3>2. a = SubSeq(l, 1, c) /\ b = SubSeq(l, c + 1, Len(l))
            BY <1>5
        <3> QED BY <3>1, <3>2, Zenon
    <2> DEFINE m == <<Start("latest")>>
    <2>2. Start("latest") \in Plain /\ Start("latest") \in Right /\ Start("latest") \in Items
        BY ItemTypes DEF Plain, Right
    <2>3. m \in Seq(Right) /\ m \in Seq(Items) /\ a \in Seq(Items) /\ b \in Seq(Items)
        BY <1>1, <2>1, <2>2
    <2>4. Kept(m, Shown) = <<>> /\ Kept(m, Shots) = <<>>
        <3>1. Start("latest") \notin Shown /\ Start("latest") \notin Shots
            BY <2>2 DEF Plain, Shown, Shots
        <3> QED BY <2>2, <3>1, KeptOne
    <2> HIDE DEF m
    <2>5. RenderTranscript(w) = (a \o m) \o b
        BY <1>5 DEF m
    <2>6. a \o m \in Seq(Items) /\ (a \o m) \o b \in Seq(Right)
        BY <2>1, <2>3
    <2>7. ASSUME NEW S, Kept(m, S) = <<>> PROVE Kept((a \o m) \o b, S) = Kept(l, S)
        <3>1. /\ Kept((a \o m) \o b, S) = Kept(a \o m, S) \o Kept(b, S)
              /\ Kept(a \o m, S) = Kept(a, S) \o Kept(m, S)
              /\ Kept(a \o b, S) = Kept(a, S) \o Kept(b, S)
            BY <2>3, <2>6, KeptItems, Zenon
        <3>2. Kept(a, S) \in Seq(Items)
            BY <2>3, KeptPicks
        <3>3. Kept(a, S) \o <<>> = Kept(a, S)
            BY <3>2
        <3> QED BY <2>1, <2>7, <3>1, <3>3
    <2> QED BY <1>3, <2>4, <2>5, <2>6, <2>7
<1> QED BY <1>4, <1>5, <1>1, TranscriptShape

LEMMA CLIAligned ==
    ASSUME NEW w \in Aligned
    PROVE  RenderTranscript(w) \o CollectImages(w) \in Aligned
<1> DEFINE t == RenderTranscript(w)
           p == CollectImages(w)
<1>1. w \in Seq(Items) /\ w \in Seq(Right) /\ Match(Kept(w, Shown), Kept(w, Shots))
    BY RightSeq DEF Aligned
<1>2. t \in Seq(Right) /\ Kept(t, Shown) = Kept(w, Shown) /\ Kept(t, Shots) = <<>>
    BY <1>1, TranscriptKeeps
<1>3. p = Kept(w, Shots)
    <2>1. \A i \in 1..Len(w) : w[i] \in {x \in ToSet(w) : x.w = "picture"} <=> w[i] \in Shots
        BY <1>1 DEF Shots, ToSet
    <2>2. Kept(w, {x \in ToSet(w) : x.w = "picture"}) = Kept(w, Shots)
        BY <1>1, <2>1, KeptSame
    <2> QED BY <2>2 DEF CollectImages
<1>4. p \in Seq(Right) /\ Kept(p, Shown) = <<>> /\ Kept(p, Shots) = p
    <2>1. p \in Seq(Right)
        BY <1>1, <1>3, KeptPicks
    <2>2. /\ Kept(Kept(w, Shots), Shown) = Kept(w, Shots \intersect Shown)
          /\ Kept(Kept(w, Shots), Shots) = Kept(w, Shots \intersect Shots)
        BY <1>1, KeptKept
    <2>3. Kept(w, Shots \intersect Shown) = <<>>
        <3>1. \A i \in 1..Len(w) : w[i] \notin Shots \intersect Shown
            BY DEF Shots, Shown
        <3> QED BY <1>1, <3>1, KeptEmpty
    <2>4. Shots \intersect Shots = Shots
        OBVIOUS
    <2> HIDE DEF p
    <2> QED BY <1>3, <2>1, <2>2, <2>3, <2>4
<1> HIDE DEF t, p
<1>5. t \in Seq(Items) /\ p \in Seq(Items) /\ t \o p \in Seq(Items) /\ t \o p \in Seq(Right)
    BY <1>2, <1>4 DEF Right
<1>6. /\ Kept(t \o p, Shown) = Kept(t, Shown) \o Kept(p, Shown)
      /\ Kept(t \o p, Shots) = Kept(t, Shots) \o Kept(p, Shots)
    BY <1>5, KeptItems, Zenon
<1>7. Kept(w, Shown) \in Seq(Items)
    BY <1>1, KeptPicks
<1>8. Kept(t \o p, Shown) = Kept(w, Shown) /\ Kept(t \o p, Shots) = p
    BY <1>2, <1>4, <1>5, <1>6, <1>7
<1>9. LabelsRight(t \o p)
    BY <1>5, RightSeq
<1>10. t \o p \in Aligned
    BY <1>1, <1>3, <1>5, <1>8, <1>9 DEF Aligned
<1> QED BY <1>10 DEF t, p

\* What every provider is sent names the pictures as the host counts them.
LEMMA PayloadsAligned ==
    ASSUME NEW h \in Seq(StoredRows), GoodLabels(h), NEW w \in Payloads(h)
    PROVE  w \in Aligned
<1> DEFINE n == Len(h)
<1>1. DOMAIN h = 1..n /\ n \in Nat
    OBVIOUS
<1>2. ASSUME NEW seeing \in BOOLEAN PROVE OpenAIMessages(h, seeing) \in Aligned
    <2> DEFINE s == [i \in 1..n |-> OpenAIMessage(h, i, seeing)]
    <2>1. s \in [1..n -> Aligned]
        BY <1>1, OpenAIMessageAligned
    <2>2. OpenAIMessages(h, seeing) = FlattenSeq(s)
        BY <1>1 DEF OpenAIMessages
    <2> HIDE DEF s, n
    <2> QED BY <1>1, <2>1, <2>2, FlattenAligned
<1>3. ASSUME NEW seeing \in BOOLEAN PROVE ResponsesInput(h, seeing) \in Aligned
    <2> DEFINE s == [i \in 1..n |-> ResponsesItems(h, i, seeing)]
    <2>1. s \in [1..n -> Aligned]
        BY <1>1, ResponsesItemsAligned
    <2>2. ResponsesInput(h, seeing) = FlattenSeq(s)
        BY <1>1 DEF ResponsesInput
    <2> HIDE DEF s, n
    <2> QED BY <1>1, <2>1, <2>2, FlattenAligned
<1>4. ASSUME NEW seeing \in BOOLEAN, NEW declared \in BOOLEAN
      PROVE  AnthropicMessages(h, seeing, declared) \in Aligned
    <2> DEFINE s == [i \in 1..n |-> AnthropicMessage(h, i, seeing, declared)]
    <2>1. s \in [1..n -> Aligned]
        BY <1>1, AnthropicMessageAligned
    <2>2. AnthropicMessages(h, seeing, declared) = FlattenSeq(s)
        BY <1>1 DEF AnthropicMessages
    <2> HIDE DEF s, n
    <2> QED BY <1>1, <2>1, <2>2, FlattenAligned
<1>5. ASSUME NEW seeing \in BOOLEAN PROVE CLIMessage(h, seeing) \in Aligned
    BY <1>2, CLIAligned DEF CLIMessage
<1> QED BY <1>2, <1>3, <1>4, <1>5 DEF Payloads

\* A payload that is aligned has what the property asks for.
LEMMA AlignedMeans ==
    ASSUME NEW w \in Aligned
    PROVE  LET announced == Kept(w, {x \in ToSet(w) : x.w = "note" /\ x.shown})
               pictures == CollectImages(w)
           IN  /\ \A i \in DOMAIN w : w[i].w = "note" => w[i].label = w[i].id
               /\ Len(announced) = Len(pictures)
               /\ \A i \in DOMAIN pictures : /\ pictures[i].kind = announced[i].kind
                                             /\ pictures[i].id = announced[i].id
<1> DEFINE announced == Kept(w, {x \in ToSet(w) : x.w = "note" /\ x.shown})
           pictures == CollectImages(w)
<1>1. w \in Seq(Items) /\ LabelsRight(w) /\ Match(Kept(w, Shown), Kept(w, Shots))
    BY DEF Aligned
<1>2. pictures = Kept(w, Shots)
    <2>1. \A i \in 1..Len(w) : w[i] \in {x \in ToSet(w) : x.w = "picture"} <=> w[i] \in Shots
        BY <1>1 DEF Shots, ToSet
    <2>2. Kept(w, {x \in ToSet(w) : x.w = "picture"}) = Kept(w, Shots)
        BY <1>1, <2>1, KeptSame
    <2> QED BY <2>2 DEF CollectImages
<1>3. announced = Kept(w, Shown)
    <2>1. \A i \in 1..Len(w) : w[i] \in {x \in ToSet(w) : x.w = "note" /\ x.shown} <=> w[i] \in Shown
        BY <1>1 DEF Shown, ToSet
    <2> QED BY <1>1, <2>1, KeptSame
<1>4. DOMAIN w = 1..Len(w)
    BY <1>1
<1>5. \A i \in DOMAIN w : w[i].w = "note" => w[i].label = w[i].id
    BY <1>1, <1>4 DEF LabelsRight
<1> HIDE DEF announced, pictures
<1>6. pictures \in Seq(Items)
    BY <1>1, <1>2, KeptPicks
<1>7. DOMAIN pictures = 1..Len(pictures)
    BY <1>6
<1>8. /\ Len(announced) = Len(pictures)
      /\ \A i \in DOMAIN pictures : /\ pictures[i].kind = announced[i].kind
                                    /\ pictures[i].id = announced[i].id
    BY <1>1, <1>2, <1>3, <1>7 DEF Match
<1> QED BY <1>5, <1>8 DEF announced, pictures

-----------------------------------------------------------------------------
(* Counting the blocks of rows.                                            *)

LEMMA Bounded ==
    ASSUME NEW n \in Nat, NEW f \in [1..n -> Nat]
    PROVE  \E m \in Nat : \A i \in 1..n : f[i] <= m
<1> DEFINE S == {k \in Nat : k <= n => \E m \in Nat : \A i \in 1..k : f[i] <= m}
<1>1. 0 \in S
    OBVIOUS
<1>2. ASSUME NEW k \in Nat, k \in S PROVE k + 1 \in S
    <2>1. SUFFICES ASSUME k + 1 <= n PROVE \E m \in Nat : \A i \in 1..(k + 1) : f[i] <= m
        OBVIOUS
    <2>2. k <= n /\ k + 1 \in 1..n
        BY <2>1
    <2>3. PICK m \in Nat : \A i \in 1..k : f[i] <= m
        BY <1>2, <2>2
    <2>4. f[k + 1] \in Nat
        BY <2>2
    <2> DEFINE d == m + f[k + 1]
    <2>5. d \in Nat /\ m <= d /\ f[k + 1] <= d
        BY <2>4
    <2>6. ASSUME NEW i \in 1..(k + 1) PROVE f[i] <= d
        <3>1. CASE i = k + 1
            BY <2>5, <3>1
        <3>2. CASE i # k + 1
            <4>1. i \in 1..k /\ i \in 1..n
                BY <2>2, <3>2
            <4>2. f[i] <= m /\ f[i] \in Nat
                BY <2>3, <4>1
            <4> HIDE DEF d
            <4> QED BY <2>5, <4>2
        <3> QED BY <3>1, <3>2
    <2> HIDE DEF d
    <2> QED BY <2>5, <2>6
<1> HIDE DEF S
<1>3. n \in S
    BY <1>1, <1>2, Induction
<1> QED BY <1>3 DEF S

\* The blocks of the rows rs that have a type of T, one by one.
LEMMA AtIs ==
    ASSUME NEW rs \in Seq(StoredRows), NEW T
    PROVE  /\ Len(rs) \in Nat /\ DOMAIN rs = 1..Len(rs)
           /\ At(rs, T) \subseteq Nat \X Nat
           /\ \A p \in At(rs, T) :
                 /\ p[1] \in 1..Len(rs) /\ p[2] \in 1..Len(rs[p[1]].content)
                 /\ rs[p[1]].content[p[2]].type \in T /\ p = <<p[1], p[2]>>
           /\ \A i \in 1..Len(rs), j \in Nat :
                 j \in 1..Len(rs[i].content) /\ rs[i].content[j].type \in T
                    <=> <<i, j>> \in At(rs, T)
<1>1. Len(rs) \in Nat /\ DOMAIN rs = 1..Len(rs) /\ \A i \in 1..Len(rs) : rs[i] \in StoredRows
    OBVIOUS
<1>2. \A i \in 1..Len(rs) : DOMAIN rs[i].content = 1..Len(rs[i].content) /\ Len(rs[i].content) \in Nat
    BY <1>1, BlocksOf
<1>3. ASSUME NEW p \in At(rs, T)
      PROVE  /\ p[1] \in 1..Len(rs) /\ p[2] \in 1..Len(rs[p[1]].content)
             /\ rs[p[1]].content[p[2]].type \in T /\ p = <<p[1], p[2]>>
             /\ p \in Nat \X Nat
    <2>1. PICK i \in 1..Len(rs) :
                p \in {i} \X {j \in DOMAIN rs[i].content : rs[i].content[j].type \in T}
        BY <1>1 DEF At
    <2>2. /\ p[1] = i /\ p = <<p[1], p[2]>> /\ p[2] \in DOMAIN rs[i].content
          /\ rs[i].content[p[2]].type \in T
        BY <2>1
    <2>3. p[1] \in Nat /\ p[2] \in Nat
        BY <1>2, <2>2
    <2>4. <<p[1], p[2]>> \in Nat \X Nat
        BY <2>3
    <2> QED BY <1>2, <2>2, <2>4
<1>4. ASSUME NEW i \in 1..Len(rs), NEW j \in Nat, j \in 1..Len(rs[i].content),
             rs[i].content[j].type \in T
      PROVE  <<i, j>> \in At(rs, T)
    <2>1. j \in DOMAIN rs[i].content
        BY <1>2, <1>4
    <2>2. <<i, j>> \in {i} \X {k \in DOMAIN rs[i].content : rs[i].content[k].type \in T}
        BY <1>4, <2>1
    <2> QED BY <1>1, <2>2 DEF At
<1>5. ASSUME NEW i \in 1..Len(rs), NEW j \in Nat, <<i, j>> \in At(rs, T)
      PROVE  j \in 1..Len(rs[i].content) /\ rs[i].content[j].type \in T
    <2> DEFINE p == <<i, j>>
    <2>1. p[1] = i /\ p[2] = j
        OBVIOUS
    <2>2. p \in At(rs, T)
        BY <1>5
    <2> HIDE DEF p
    <2> QED BY <1>3, <2>1, <2>2
<1> QED BY <1>1, <1>3, <1>4, <1>5

LEMMA AtFinite ==
    ASSUME NEW rs \in Seq(StoredRows), NEW T, NEW S \in SUBSET At(rs, T)
    PROVE  IsFiniteSet(S) /\ Cardinality(S) \in Nat
<1> DEFINE n == Len(rs)
           f == [i \in 1..n |-> Len(rs[i].content)]
<1>1. n \in Nat /\ \A i \in 1..n : rs[i] \in StoredRows
    OBVIOUS
<1>2. f \in [1..n -> Nat]
    BY <1>1, BlocksOf
<1>3. \A i \in 1..n : f[i] = Len(rs[i].content)
    OBVIOUS
<1> HIDE DEF f
<1>4. PICK m \in Nat : \A i \in 1..n : f[i] <= m
    BY <1>1, <1>2, Bounded
<1>5. S \subseteq (1..n) \X (1..m)
    <2> SUFFICES ASSUME NEW p \in S PROVE p \in (1..n) \X (1..m)
        OBVIOUS
    <2>1. p[1] \in 1..n /\ p[2] \in 1..Len(rs[p[1]].content) /\ p = <<p[1], p[2]>>
        BY AtIs
    <2>2. Len(rs[p[1]].content) \in Nat /\ Len(rs[p[1]].content) <= m
        BY <1>2, <1>3, <1>4, <2>1
    <2>3. p[2] \in 1..m
        BY <2>1, <2>2
    <2>4. <<p[1], p[2]>> \in (1..n) \X (1..m)
        BY <2>1, <2>3
    <2> QED BY <2>1, <2>4
<1>6. IsFiniteSet(1..n) /\ IsFiniteSet(1..m)
    BY <1>1, FS_Interval
<1>7. IsFiniteSet((1..n) \X (1..m))
    BY <1>6, FS_Product
<1>8. IsFiniteSet(S)
    BY <1>5, <1>7, FS_Subset
<1> QED BY <1>8, FS_CardinalityType

\* As many in one set as in the other, by a map that meets each once.
LEMMA SameCount ==
    ASSUME NEW S, NEW T, IsFiniteSet(S), NEW f \in [S -> T],
           \A x, y \in S : f[x] = f[y] => x = y,
           \A z \in T : \E x \in S : f[x] = z
    PROVE  Cardinality(T) = Cardinality(S) /\ IsFiniteSet(T)
<1>1. f \in Bijection(S, T)
    BY DEF Bijection, Injection, Surjection, IsInjective
<1>2. ExistsBijection(S, T)
    BY <1>1 DEF ExistsBijection
<1> QED BY <1>2, FS_Bijection

LEMMA CountApart ==
    ASSUME NEW S, NEW T, IsFiniteSet(S), IsFiniteSet(T), S \intersect T = {}
    PROVE  Cardinality(S \union T) = Cardinality(S) + Cardinality(T)
<1>1. Cardinality(S \union T) = Cardinality(S) + Cardinality(T) - Cardinality(S \intersect T)
    BY FS_Union
<1>2. Cardinality({}) = 0
    BY FS_EmptySet
<1>3. Cardinality(S) \in Nat /\ Cardinality(T) \in Nat
    BY FS_CardinalityType
<1>4. Cardinality(S \intersect T) = 0
    BY <1>2
<1> DEFINE c == Cardinality(S \intersect T)
<1> HIDE DEF c
<1>5. Cardinality(S \union T) = Cardinality(S) + Cardinality(T) - c /\ c = 0
    BY <1>1, <1>4 DEF c
<1> QED BY <1>3, <1>5

-----------------------------------------------------------------------------
(* The numbers of the stored media.                                        *)

\* The media blocks of a kind up to block j of row i, and in the rows up to t.
Upto(rs, k, i, j) == {p \in At(rs, {k}) : p[1] < i \/ (p[1] = i /\ p[2] <= j)}
Through(rs, k, t) == {p \in At(rs, {k}) : p[1] <= t}

\* A row without media, or one of the user's in a chat.
MediaPlaced(sc, r) ==
    HasMedia(r) => r.role = "user" /\ ~r.is_partial /\ ~IsCompaction(r) /\ sc = "chat"

\* Media are numbered in order, per kind.
MediaNumbered(rs, i) ==
    \A j \in 1..Len(rs[i].content) : rs[i].content[j].type \in LabeledKinds =>
        rs[i].content[j].id = Cardinality(Upto(rs, rs[i].content[j].type, i, j))

\* A compaction counts the media of the rows it goes through.
MarkCounts(sc, rs, i) ==
    IsCompaction(rs[i]) =>
        /\ sc = "chat" /\ ~rs[i].is_partial /\ rs[i].mark.through < i
        /\ \A k \in LabeledKinds :
              rs[i].mark.media[k] = Cardinality(Through(rs, k, rs[i].mark.through))

Counted(sc, rs) ==
    /\ rs \in Seq(StoredRows)
    /\ \A i \in 1..Len(rs) : /\ rs[i].sequence = i
                             /\ MediaPlaced(sc, rs[i])
                             /\ MediaNumbered(rs, i)
                             /\ MarkCounts(sc, rs, i)

LEMMA AppendAt ==
    ASSUME NEW rs \in Seq(StoredRows), NEW r \in StoredRows, NEW T
    PROVE  /\ Append(rs, r) \in Seq(StoredRows) /\ Len(Append(rs, r)) = Len(rs) + 1
           /\ Len(rs) \in Nat
           /\ \A i \in 1..Len(rs) : Append(rs, r)[i] = rs[i]
           /\ Append(rs, r)[Len(rs) + 1] = r
           /\ \A p : p \in At(rs, T) <=> p \in At(Append(rs, r), T) /\ p[1] <= Len(rs)
<1> DEFINE n == Len(rs)
           a == Append(rs, r)
<1>1. /\ a \in Seq(StoredRows) /\ Len(a) = n + 1 /\ n \in Nat
      /\ \A i \in 1..n : a[i] = rs[i]
      /\ a[n + 1] = r
    OBVIOUS
<1> HIDE DEF a
<1>2. ASSUME NEW p \in At(rs, T) PROVE p \in At(a, T) /\ p[1] <= n
    <2>1. /\ p[1] \in 1..n /\ p[2] \in 1..Len(rs[p[1]].content) /\ p \in Nat \X Nat
          /\ rs[p[1]].content[p[2]].type \in T /\ p = <<p[1], p[2]>>
        BY AtIs
    <2>2. a[p[1]] = rs[p[1]] /\ p[1] \in 1..Len(a) /\ p[2] \in Nat
        BY <1>1, <2>1
    <2>3. \A i \in 1..Len(a), j \in Nat :
             j \in 1..Len(a[i].content) /\ a[i].content[j].type \in T => <<i, j>> \in At(a, T)
        BY <1>1, AtIs
    <2>4. <<p[1], p[2]>> \in At(a, T)
        BY <2>1, <2>2, <2>3
    <2> QED BY <2>1, <2>4
<1>3. ASSUME NEW p \in At(a, T), p[1] <= n PROVE p \in At(rs, T)
    <2>1. /\ p[1] \in 1..Len(a) /\ p[2] \in 1..Len(a[p[1]].content) /\ p \in Nat \X Nat
          /\ a[p[1]].content[p[2]].type \in T /\ p = <<p[1], p[2]>>
        BY <1>1, AtIs
    <2>2. p[1] \in 1..n /\ p[2] \in Nat
        BY <1>1, <1>3, <2>1
    <2>3. a[p[1]] = rs[p[1]]
        BY <1>1, <2>2
    <2>4. <<p[1], p[2]>> \in At(rs, T)
        BY <2>1, <2>2, <2>3, AtIs
    <2> QED BY <2>1, <2>4
<1> QED BY <1>1, <1>2, <1>3 DEF a

\* What a stored row adds: numbers that go on, and a mark that counts.
LEMMA StoreCounted ==
    ASSUME NEW sc, NEW rs, Counted(sc, rs), NEW r \in StoredRows,
           r.sequence = Len(rs) + 1, MediaPlaced(sc, r),
           MediaNumbered(Append(rs, r), Len(rs) + 1),
           IsCompaction(r) => /\ sc = "chat" /\ ~r.is_partial /\ r.mark.through <= Len(rs)
                              /\ \A k \in LabeledKinds :
                                    r.mark.media[k] = Cardinality(Through(rs, k, r.mark.through))
    PROVE  Counted(sc, Append(rs, r))
<1> DEFINE n == Len(rs)
           a == Append(rs, r)
<1>0. rs \in Seq(StoredRows)
    BY DEF Counted
<1>1. /\ a \in Seq(StoredRows) /\ Len(a) = n + 1 /\ n \in Nat
      /\ \A i \in 1..n : a[i] = rs[i]
      /\ a[n + 1] = r
    BY <1>0, AppendAt
<1>2. \A T, p : p \in At(rs, T) <=> p \in At(a, T) /\ p[1] <= n
    BY <1>0, AppendAt
<1> HIDE DEF a, n
<1>3. \A T : \A p \in At(a, T) : p[1] \in Nat
    <2> SUFFICES ASSUME NEW T, NEW p \in At(a, T) PROVE p[1] \in Nat
        OBVIOUS
    <2>1. p[1] \in 1..Len(a)
        BY <1>1, AtIs
    <2> QED BY <2>1
<1>4. ASSUME NEW k, NEW t \in Nat, t <= n PROVE Through(a, k, t) = Through(rs, k, t)
    BY <1>1, <1>2, <1>3, <1>4 DEF Through
<1>5. ASSUME NEW k, NEW i \in 1..n, NEW j PROVE Upto(a, k, i, j) = Upto(rs, k, i, j)
    BY <1>1, <1>2, <1>3 DEF Upto
<1>6. ASSUME NEW i \in 1..n
      PROVE  a[i].sequence = i /\ MediaPlaced(sc, a[i]) /\ MediaNumbered(a, i) /\ MarkCounts(sc, a, i)
    <2>1. /\ a[i] = rs[i] /\ rs[i].sequence = i /\ MediaPlaced(sc, rs[i])
          /\ MediaNumbered(rs, i) /\ MarkCounts(sc, rs, i)
        BY <1>1 DEF Counted, n
    <2>2. MediaNumbered(a, i)
        BY <1>5, <2>1 DEF MediaNumbered
    <2>3. MarkCounts(sc, a, i)
        <3>1. SUFFICES ASSUME IsCompaction(rs[i])
                       PROVE  /\ sc = "chat" /\ ~rs[i].is_partial /\ rs[i].mark.through < i
                              /\ \A k \in LabeledKinds :
                                    rs[i].mark.media[k] = Cardinality(Through(a, k, rs[i].mark.through))
            BY <2>1 DEF MarkCounts
        <3>2. /\ sc = "chat" /\ ~rs[i].is_partial /\ rs[i].mark.through < i
              /\ \A k \in LabeledKinds :
                    rs[i].mark.media[k] = Cardinality(Through(rs, k, rs[i].mark.through))
            BY <2>1, <3>1 DEF MarkCounts
        <3>3. rs[i] \in StoredRows
            BY <1>0 DEF n
        <3>4. rs[i].mark.through \in Nat
            BY <3>3, BlocksOf DEF Marks
        <3>5. rs[i].mark.through <= n
            BY <1>1, <3>2, <3>4
        <3>6. \A k \in LabeledKinds :
                 Through(a, k, rs[i].mark.through) = Through(rs, k, rs[i].mark.through)
            BY <1>4, <3>4, <3>5
        <3> QED BY <3>2, <3>6
    <2> QED BY <2>1, <2>2, <2>3
<1>7. /\ a[n + 1].sequence = n + 1 /\ MediaPlaced(sc, a[n + 1]) /\ MediaNumbered(a, n + 1)
      /\ MarkCounts(sc, a, n + 1)
    <2>1. a[n + 1].sequence = n + 1 /\ MediaPlaced(sc, a[n + 1]) /\ MediaNumbered(a, n + 1)
        BY <1>1 DEF n, a
    <2>2. MarkCounts(sc, a, n + 1)
        <3>1. SUFFICES ASSUME IsCompaction(r)
                       PROVE  /\ sc = "chat" /\ ~r.is_partial /\ r.mark.through < n + 1
                              /\ \A k \in LabeledKinds :
                                    r.mark.media[k] = Cardinality(Through(a, k, r.mark.through))
            BY <1>1 DEF MarkCounts
        <3>2. r.mark.through \in Nat
            BY BlocksOf DEF Marks
        <3>3. /\ sc = "chat" /\ ~r.is_partial /\ r.mark.through <= n
              /\ \A k \in LabeledKinds :
                    r.mark.media[k] = Cardinality(Through(rs, k, r.mark.through))
            BY <3>1 DEF n
        <3>4. \A k \in LabeledKinds : Through(a, k, r.mark.through) = Through(rs, k, r.mark.through)
            BY <1>4, <3>2, <3>3
        <3> QED BY <1>1, <3>2, <3>3, <3>4
    <2> QED BY <2>1, <2>2
<1>8. \A i \in 1..Len(a) : i \in 1..n \/ i = n + 1
    BY <1>1
<1>9. Counted(sc, a)
    BY <1>1, <1>6, <1>7, <1>8 DEF Counted
<1> QED BY <1>9 DEF a

\* A row without media and without a mark changes no count.
LEMMA StorePlain ==
    ASSUME NEW sc, NEW rs, Counted(sc, rs), NEW r \in StoredRows,
           r.sequence = Len(rs) + 1, ~HasMedia(r), ~IsCompaction(r)
    PROVE  Counted(sc, Append(rs, r))
<1>1. rs \in Seq(StoredRows)
    BY DEF Counted
<1>2. Append(rs, r)[Len(rs) + 1] = r
    BY <1>1, AppendAt
<1>3. MediaNumbered(Append(rs, r), Len(rs) + 1)
    <2>1. \A j \in 1..Len(r.content) : r.content[j].type \notin LabeledKinds
        BY BlocksOf DEF HasMedia
    <2> QED BY <1>2, <2>1 DEF MediaNumbered
<1>4. MediaPlaced(sc, r)
    BY DEF MediaPlaced
<1> QED BY <1>3, <1>4, StoreCounted

-----------------------------------------------------------------------------
(* The history of a chat.                                                  *)

\* The stored rows of S, as they come.
RowsOf(rs, h, S) ==
    /\ h \in Seq(StoredRows)
    /\ \A x \in 1..Len(h) : /\ h[x].sequence \in 1..Len(rs) /\ h[x] = rs[h[x].sequence]
                            /\ h[x] \in S
    /\ \A x, y \in 1..Len(h) : x < y => h[x].sequence < h[y].sequence
    /\ \A i \in 1..Len(rs) : rs[i] \in S => \E x \in 1..Len(h) : h[x].sequence = i

LEMMA KeptRows ==
    ASSUME NEW rs \in Seq(StoredRows), \A i \in 1..Len(rs) : rs[i].sequence = i, NEW S
    PROVE  RowsOf(rs, Kept(rs, S), S)
<1> DEFINE k == Kept(rs, S)
<1>1. k \in Seq(StoredRows)
    BY KeptPicks
<1>2. PICK e : Places(e, rs, S, k)
    BY KeptPlaces
<1> HIDE DEF k
<1>3. /\ e \in [1..Len(k) -> 1..Len(rs)]
      /\ \A x \in 1..Len(k) : k[x] = rs[e[x]] /\ rs[e[x]] \in S
      /\ \A x, y \in 1..Len(k) : x < y => e[x] < e[y]
      /\ \A i \in 1..Len(rs) : rs[i] \in S => \E x \in 1..Len(k) : e[x] = i
    BY <1>2 DEF Places
<1>4. \A x \in 1..Len(k) : e[x] \in 1..Len(rs)
    BY <1>3
<1>5. \A x \in 1..Len(k) : k[x].sequence = e[x]
    BY <1>3, <1>4
<1>6. \A x \in 1..Len(k) : k[x].sequence \in 1..Len(rs) /\ k[x] = rs[k[x].sequence] /\ k[x] \in S
    <2> SUFFICES ASSUME NEW x \in 1..Len(k)
                 PROVE  k[x].sequence \in 1..Len(rs) /\ k[x] = rs[k[x].sequence] /\ k[x] \in S
        OBVIOUS
    <2> QED BY <1>3, <1>4, <1>5
<1>7. \A x, y \in 1..Len(k) : x < y => k[x].sequence < k[y].sequence
    BY <1>3, <1>5
<1>8. ASSUME NEW i \in 1..Len(rs), rs[i] \in S PROVE \E x \in 1..Len(k) : k[x].sequence = i
    <2>1. PICK x \in 1..Len(k) : e[x] = i
        BY <1>3, <1>8
    <2> QED BY <1>5, <2>1
<1>9. RowsOf(rs, k, S)
    BY <1>1, <1>6, <1>7, <1>8 DEF RowsOf
<1> QED BY <1>9 DEF k

\* A history that starts from the count t was summarized up to.
Hist(rs, h, t) ==
    /\ t \in Nat /\ h \in Seq(StoredRows)
    /\ \A i \in 1..Len(h) : h[i].sequence \in 1..Len(rs) /\ h[i] = rs[h[i].sequence]
    /\ \A i \in 1..Len(h) : ~IsCompaction(h[i]) => h[i].sequence > t /\ ~h[i].is_partial
    /\ \A i \in 1..Len(h) : 1 < i => ~IsCompaction(h[i])
    /\ \A i, j \in 1..Len(h) : i < j /\ ~IsCompaction(h[i]) => h[i].sequence < h[j].sequence
    /\ \A q \in 1..Len(rs) : q > t /\ ~rs[q].is_partial /\ ~IsCompaction(rs[q]) =>
          \E i \in 1..Len(h) : h[i].sequence = q
    /\ \A k \in LabeledKinds : LabelsStart(h)[k] = Cardinality(Through(rs, k, t))

NotPartial == {r \in StoredRows : ~r.is_partial}
After(t) == {r \in StoredRows : r.sequence > t /\ ~IsCompaction(r)}

LEMMA Greatest ==
    ASSUME NEW n \in Nat, NEW S \in SUBSET (1..n), S # {}
    PROVE  Max(S) \in S /\ \A y \in S : Max(S) >= y
<1> DEFINE D == {n - x : x \in S}
<1>0. \A x \in S : x \in Nat /\ x <= n /\ n - x \in Nat
    <2> SUFFICES ASSUME NEW x \in S PROVE x \in Nat /\ x <= n /\ n - x \in Nat
        OBVIOUS
    <2>1. x \in 1..n
        OBVIOUS
    <2> QED BY <2>1
<1>1. D \in SUBSET Nat /\ D # {}
    <2>1. \A d \in D : d \in Nat
        BY <1>0
    <2> QED BY <2>1
<1>2. PICK d \in D : \A y \in D : d <= y
    BY <1>1, Least
<1>3. PICK x \in S : d = n - x
    OBVIOUS
<1>4. ASSUME NEW y \in S PROVE x >= y
    <2>1. n - y \in D
        OBVIOUS
    <2>2. n - x <= n - y /\ x \in Nat /\ y \in Nat
        BY <1>0, <1>2, <1>3, <2>1
    <2> QED BY <2>2
<1>5. \E z \in S : \A y \in S : z >= y
    BY <1>4
<1> QED BY <1>5 DEF Max

\* The chat's history: all complete rows, or a marker and what came after it.
LEMMA HistoryShape ==
    ASSUME rows \in Seq(StoredRows), \A i \in 1..Len(rows) : rows[i].sequence = i
    PROVE  \/ /\ HistoryRows = Kept(rows, NotPartial)
              /\ \A i \in 1..Len(rows) : ~rows[i].is_partial => ~IsCompaction(rows[i])
           \/ \E m \in 1..Len(rows) :
                 /\ IsCompaction(rows[m]) /\ ~rows[m].is_partial
                 /\ \A i \in 1..Len(rows) : ~rows[i].is_partial /\ IsCompaction(rows[i]) => i <= m
                 /\ HistoryRows = <<rows[m]>>
                       \o Kept(rows, NotPartial \intersect After(rows[m].mark.through))
<1> DEFINE whole == Kept(rows, {r \in ToSet(rows) : ~r.is_partial})
           marks == {i \in DOMAIN whole : IsCompaction(whole[i])}
           marker == whole[Max(marks)]
           S == {r \in ToSet(whole) : r.sequence > marker.mark.through /\ ~IsCompaction(r)}
<1>1. HistoryRows = IF marks = {} THEN whole ELSE <<marker>> \o Kept(whole, S)
    BY DEF HistoryRows
<1>2. whole = Kept(rows, NotPartial)
    <2>1. \A i \in 1..Len(rows) : rows[i] \in {r \in ToSet(rows) : ~r.is_partial} <=> rows[i] \in NotPartial
        BY DEF NotPartial, ToSet
    <2> QED BY <2>1, KeptSame
<1>3. RowsOf(rows, whole, NotPartial)
    <2> HIDE DEF whole
    <2> QED BY <1>2, KeptRows
<1>4. whole \in Seq(StoredRows)
    BY <1>3 DEF RowsOf
<1> HIDE DEF whole
<1>5. DOMAIN whole = 1..Len(whole) /\ Len(whole) \in Nat
    BY <1>4
<1>6. CASE marks = {}
    <2>1. ASSUME NEW i \in 1..Len(rows), ~rows[i].is_partial PROVE ~IsCompaction(rows[i])
        <3>1. rows[i] \in NotPartial
            BY <2>1 DEF NotPartial
        <3>2. PICK x \in 1..Len(whole) : whole[x].sequence = i
            BY <1>3, <3>1 DEF RowsOf
        <3>3. whole[x] = rows[i]
            BY <1>3, <3>2 DEF RowsOf
        <3> QED BY <1>5, <1>6, <3>3
    <2> QED BY <1>1, <1>2, <1>6, <2>1
<1>7. CASE marks # {}
    <2>1. marks \in SUBSET (1..Len(whole))
        BY <1>5
    <2>2. Max(marks) \in marks /\ \A y \in marks : Max(marks) >= y
        <3> HIDE DEF marks
        <3> QED BY <1>5, <1>7, <2>1, Greatest
    <2> DEFINE g == Max(marks)
    <2>3. g \in 1..Len(whole) /\ IsCompaction(whole[g]) /\ marker = whole[g]
        BY <1>5, <2>2
    <2>4. \A y \in 1..Len(whole) : IsCompaction(whole[y]) => g >= y
        BY <1>5, <2>2
    <2> HIDE DEF marks, g, marker
    <2> DEFINE m == whole[g].sequence
    <2>5. m \in 1..Len(rows) /\ whole[g] = rows[m] /\ ~rows[m].is_partial
        BY <1>3, <2>3 DEF RowsOf, NotPartial
    <2>6. ASSUME NEW i \in 1..Len(rows), ~rows[i].is_partial, IsCompaction(rows[i]) PROVE i <= m
        <3>1. rows[i] \in NotPartial
            BY <2>6 DEF NotPartial
        <3>2. PICK x \in 1..Len(whole) : whole[x].sequence = i
            BY <1>3, <3>1 DEF RowsOf
        <3>3. whole[x] = rows[i]
            BY <1>3, <3>2 DEF RowsOf
        <3>4. g >= x
            BY <2>4, <2>6, <3>3
        <3>5. CASE g = x
            BY <3>2, <3>5
        <3>6. CASE g # x
            <4>1. x < g
                BY <2>3, <3>4, <3>6
            <4>2. whole[x].sequence < whole[g].sequence
                BY <1>3, <2>3, <4>1 DEF RowsOf
            <4> QED BY <2>5, <3>2, <4>2
        <3> QED BY <3>5, <3>6
    <2>7. Kept(whole, S) = Kept(rows, NotPartial \intersect After(rows[m].mark.through))
        <3>1. \A i \in 1..Len(whole) : whole[i] \in S <=> whole[i] \in After(rows[m].mark.through)
            BY <1>4, <2>3, <2>5 DEF After, ToSet
        <3> HIDE DEF S
        <3>2. Kept(whole, S) = Kept(whole, After(rows[m].mark.through))
            BY <1>4, <3>1, KeptSame
        <3>3. Kept(Kept(rows, NotPartial), After(rows[m].mark.through))
                = Kept(rows, NotPartial \intersect After(rows[m].mark.through))
            BY KeptKept
        <3> QED BY <1>2, <3>2, <3>3
    <2>8. HistoryRows = <<rows[m]>> \o Kept(rows, NotPartial \intersect After(rows[m].mark.through))
        BY <1>1, <1>7, <2>3, <2>5, <2>7
    <2> QED BY <2>3, <2>5, <2>6, <2>8
<1> QED BY <1>6, <1>7

LEMMA HistoryIsHist ==
    ASSUME Counted(scope, rows)
    PROVE  \E t \in Nat : Hist(rows, HistoryRows, t)
<1> DEFINE h == HistoryRows
           n == Len(rows)
<1>1. /\ rows \in Seq(StoredRows) /\ n \in Nat
      /\ \A i \in 1..n : rows[i].sequence = i /\ rows[i] \in StoredRows
    BY DEF Counted
<1>2. CASE /\ h = Kept(rows, NotPartial)
           /\ \A i \in 1..n : ~rows[i].is_partial => ~IsCompaction(rows[i])
    <2> HIDE DEF h
    <2>1. RowsOf(rows, h, NotPartial)
        BY <1>1, <1>2, KeptRows
    <2>2. /\ h \in Seq(StoredRows)
          /\ \A x \in 1..Len(h) : /\ h[x].sequence \in 1..n /\ h[x] = rows[h[x].sequence]
                                  /\ h[x] \in NotPartial
          /\ \A x, y \in 1..Len(h) : x < y => h[x].sequence < h[y].sequence
          /\ \A i \in 1..n : rows[i] \in NotPartial => \E x \in 1..Len(h) : h[x].sequence = i
        BY <2>1 DEF RowsOf
    <2>3. \A x \in 1..Len(h) : ~h[x].is_partial /\ ~IsCompaction(h[x]) /\ h[x].sequence > 0
        BY <1>2, <2>2 DEF NotPartial
    <2>4. \A i \in 1..n : ~rows[i].is_partial => \E x \in 1..Len(h) : h[x].sequence = i
        BY <1>1, <2>2 DEF NotPartial
    <2>5. \A k \in LabeledKinds : LabelsStart(h)[k] = Cardinality(Through(rows, k, 0))
        <3>1. ASSUME NEW k \in LabeledKinds PROVE Through(rows, k, 0) = {}
            <4>1. \A p \in At(rows, {k}) : p[1] \in 1..n
                BY <1>1, AtIs
            <4>2. \A p \in At(rows, {k}) : ~(p[1] <= 0)
                BY <4>1
            <4> QED BY <4>2 DEF Through
        <3>2. LabelsStart(h) = [k \in LabeledKinds |-> 0]
            <4>1. h # <<>> => 1 \in 1..Len(h)
                BY <2>2
            <4> QED BY <2>3, <4>1 DEF LabelsStart
        <3>3. Cardinality({}) = 0
            BY FS_EmptySet
        <3> QED BY <3>1, <3>2, <3>3
    <2>6. Hist(rows, h, 0)
        <3>1. \A i, j \in 1..Len(h) : i < j /\ ~IsCompaction(h[i]) => h[i].sequence < h[j].sequence
            BY <2>2
        <3> QED BY <2>2, <2>3, <2>4, <2>5, <3>1 DEF Hist
    <2> QED BY <2>6 DEF h
<1>3. ASSUME NEW m \in 1..n, IsCompaction(rows[m]), ~rows[m].is_partial,
             h = <<rows[m]>> \o Kept(rows, NotPartial \intersect After(rows[m].mark.through))
      PROVE  \E t \in Nat : Hist(rows, h, t)
    <2> HIDE DEF h
    <2> DEFINE t == rows[m].mark.through
               S == NotPartial \intersect After(t)
               k == Kept(rows, S)
    <2>1. t \in Nat
        BY <1>1, BlocksOf DEF Marks
    <2>2. RowsOf(rows, k, S)
        <3> HIDE DEF S
        <3> QED BY <1>1, KeptRows
    <2>3. h = <<rows[m]>> \o k
        BY <1>3
    <2> HIDE DEF k
    <2>4. /\ k \in Seq(StoredRows)
          /\ \A x \in 1..Len(k) : /\ k[x].sequence \in 1..n /\ k[x] = rows[k[x].sequence]
                                  /\ k[x] \in S
          /\ \A x, y \in 1..Len(k) : x < y => k[x].sequence < k[y].sequence
          /\ \A i \in 1..n : rows[i] \in S => \E x \in 1..Len(k) : k[x].sequence = i
        BY <2>2 DEF RowsOf
    <2>5. \A x \in 1..Len(k) : ~k[x].is_partial /\ ~IsCompaction(k[x]) /\ k[x].sequence > t
        <3> HIDE DEF t
        <3> QED BY <2>4 DEF NotPartial, After, S
    <2>6. rows[m] \in StoredRows /\ rows[m].sequence = m
        BY <1>1
    <2> DEFINE l == Len(k)
    <2>7. /\ h \in Seq(StoredRows) /\ l \in Nat /\ Len(h) = l + 1 /\ h[1] = rows[m]
          /\ \A x \in 1..l : h[x + 1] = k[x]
          /\ \A x \in 1..(l + 1) : x = 1 \/ x - 1 \in 1..l
        <3> HIDE DEF t, S
        <3> QED BY <2>3, <2>4, <2>6
    <2> HIDE DEF l
    <2>8. \A x \in 2..(l + 1) : x - 1 \in 1..l /\ h[x] = k[x - 1]
        <3> SUFFICES ASSUME NEW x \in 2..(l + 1) PROVE x - 1 \in 1..l /\ h[x] = k[x - 1]
            OBVIOUS
        <3>1. x - 1 \in 1..l /\ (x - 1) + 1 = x
            BY <2>7
        <3> QED BY <2>7, <3>1
    <2>9. \A i \in 1..Len(h) : h[i].sequence \in 1..n /\ h[i] = rows[h[i].sequence]
        <3> SUFFICES ASSUME NEW i \in 1..Len(h)
                     PROVE  h[i].sequence \in 1..n /\ h[i] = rows[h[i].sequence]
            OBVIOUS
        <3>1. CASE i = 1
            BY <2>6, <2>7, <3>1
        <3>2. CASE i # 1
            <4>1. i \in 2..(l + 1)
                BY <2>7, <3>2
            <4> QED BY <2>4, <2>8, <4>1 DEF l
        <3> QED BY <3>1, <3>2
    <2>10. \A i \in 1..Len(h) : 1 < i => ~h[i].is_partial /\ ~IsCompaction(h[i]) /\ h[i].sequence > t
        <3> HIDE DEF t
        <3> SUFFICES ASSUME NEW i \in 1..Len(h), 1 < i
                     PROVE  ~h[i].is_partial /\ ~IsCompaction(h[i]) /\ h[i].sequence > t
            OBVIOUS
        <3>1. i \in 2..(l + 1)
            BY <2>7
        <3> QED BY <2>5, <2>8, <3>1 DEF l
    <2>11. \A i \in 1..Len(h) : ~IsCompaction(h[i]) => 1 < i
        <3> SUFFICES ASSUME NEW i \in 1..Len(h), ~IsCompaction(h[i]) PROVE 1 < i
            OBVIOUS
        <3>1. i # 1
            BY <1>3, <2>7
        <3> QED BY <2>7, <3>1
    <2>12. \A i, j \in 1..Len(h) : i < j /\ ~IsCompaction(h[i]) => h[i].sequence < h[j].sequence
        <3> SUFFICES ASSUME NEW i \in 1..Len(h), NEW j \in 1..Len(h), i < j, ~IsCompaction(h[i])
                     PROVE  h[i].sequence < h[j].sequence
            OBVIOUS
        <3>1. i \in 2..(l + 1) /\ j \in 2..(l + 1)
            BY <2>7, <2>11
        <3>2. /\ i - 1 \in 1..l /\ j - 1 \in 1..l /\ i - 1 < j - 1
              /\ h[i] = k[i - 1] /\ h[j] = k[j - 1]
            BY <2>8, <3>1
        <3> QED BY <2>4, <3>2 DEF l
    <2>13. ASSUME NEW q \in 1..n, q > t, ~rows[q].is_partial, ~IsCompaction(rows[q])
           PROVE  \E i \in 1..Len(h) : h[i].sequence = q
        <3>1. rows[q] \in S
            BY <1>1, <2>13 DEF NotPartial, After
        <3>2. PICK x \in 1..l : k[x].sequence = q
            BY <2>4, <3>1 DEF l
        <3>3. x + 1 \in 1..Len(h) /\ h[x + 1] = k[x]
            BY <2>7, <3>2
        <3> QED BY <3>2, <3>3
    <2>14. \A c \in LabeledKinds : LabelsStart(h)[c] = Cardinality(Through(rows, c, t))
        <3>1. MarkCounts(scope, rows, m)
            BY DEF Counted
        <3>2. \A c \in LabeledKinds : rows[m].mark.media[c] = Cardinality(Through(rows, c, t))
            BY <1>3, <3>1 DEF MarkCounts
        <3>3. h # <<>>
            BY <2>7
        <3>4. LabelsStart(h) = rows[m].mark.media
            BY <1>3, <2>7, <3>3 DEF LabelsStart
        <3> QED BY <3>2, <3>4
    <2> HIDE DEF t
    <2>15. \A i \in 1..Len(h) : ~IsCompaction(h[i]) => h[i].sequence > t /\ ~h[i].is_partial
        BY <2>10, <2>11
    <2>16. \A i \in 1..Len(h) : 1 < i => ~IsCompaction(h[i])
        BY <2>10
    <2>17. Hist(rows, h, t)
        BY <2>1, <2>7, <2>9, <2>12, <2>13, <2>14, <2>15, <2>16 DEF Hist
    <2> QED BY <2>1, <2>17
<1>4. \A i \in 1..Len(rows) : rows[i].sequence = i
    BY <1>1
<1> QED BY <1>1, <1>2, <1>3, <1>4, HistoryShape

\* X is some media of the history, and Y the stored ones they are.
Names(rs, h, t, k, X, Y) ==
    /\ X \in SUBSET At(h, {k}) /\ Y \in SUBSET At(rs, {k}) /\ \A q \in Y : q[1] > t
    /\ \A p \in At(h, {k}) : p \in X <=> <<h[p[1]].sequence, p[2]>> \in Y

\* A set of media of the history has as many as the stored ones it names.
LEMMA HistCount ==
    ASSUME NEW sc, NEW rs, Counted(sc, rs), NEW h, NEW t, Hist(rs, h, t),
           NEW k \in LabeledKinds,
           NEW X, NEW Y, Names(rs, h, t, k, X, Y)
    PROVE  Cardinality(Y) = Cardinality(X)
<1>n. /\ X \in SUBSET At(h, {k}) /\ Y \in SUBSET At(rs, {k}) /\ \A q \in Y : q[1] > t
      /\ \A p \in At(h, {k}) : p \in X <=> <<h[p[1]].sequence, p[2]>> \in Y
    BY DEF Names
<1> DEFINE f == [p \in X |-> <<h[p[1]].sequence, p[2]>>]
<1>1. rs \in Seq(StoredRows) /\ h \in Seq(StoredRows)
    BY DEF Counted, Hist
<1>2. \A i \in 1..Len(h) : h[i].sequence \in 1..Len(rs) /\ h[i] = rs[h[i].sequence]
    BY DEF Hist
<1>3. f \in [X -> Y]
    BY <1>n
<1>4. \A p \in X : f[p] = <<h[p[1]].sequence, p[2]>>
    OBVIOUS
<1> HIDE DEF f
<1>5. ASSUME NEW i \in 1..Len(rs), HasMedia(rs[i]) PROVE ~IsCompaction(rs[i]) /\ ~rs[i].is_partial
    BY <1>5 DEF Counted, MediaPlaced
<1>6. ASSUME NEW r \in StoredRows, NEW j \in 1..Len(r.content), r.content[j].type = k
      PROVE  HasMedia(r)
    BY <1>6, BlocksOf DEF HasMedia
<1>7. ASSUME NEW p \in At(h, {k})
      PROVE  /\ p[1] \in 1..Len(h) /\ p[2] \in Nat /\ p = <<p[1], p[2]>>
             /\ ~IsCompaction(h[p[1]])
    <2>1. /\ p[1] \in 1..Len(h) /\ p[2] \in 1..Len(h[p[1]].content) /\ p \in Nat \X Nat
          /\ h[p[1]].content[p[2]].type = k /\ p = <<p[1], p[2]>>
        BY <1>1, AtIs
    <2>2. h[p[1]] \in StoredRows
        BY <1>1, <2>1
    <2>3. HasMedia(h[p[1]])
        BY <1>6, <2>1, <2>2
    <2>4. ~IsCompaction(h[p[1]])
        BY <1>2, <1>5, <2>1, <2>3
    <2> QED BY <2>1, <2>4
<1>8. ASSUME NEW x \in X, NEW y \in X, f[x] = f[y] PROVE x = y
    <2>1. h[x[1]].sequence = h[y[1]].sequence /\ x[2] = y[2]
        BY <1>4, <1>8
    <2>2. /\ x[1] \in 1..Len(h) /\ x = <<x[1], x[2]>> /\ ~IsCompaction(h[x[1]])
          /\ y[1] \in 1..Len(h) /\ y = <<y[1], y[2]>> /\ ~IsCompaction(h[y[1]])
        BY <1>n, <1>7
    <2>3. /\ x[1] < y[1] => h[x[1]].sequence < h[y[1]].sequence
          /\ y[1] < x[1] => h[y[1]].sequence < h[x[1]].sequence
        BY <2>2 DEF Hist
    <2>4. h[x[1]].sequence \in Nat
        BY <1>2, <2>2
    <2>5. ~(x[1] < y[1]) /\ ~(y[1] < x[1])
        BY <2>1, <2>3, <2>4
    <2>6. x[1] = y[1]
        BY <2>2, <2>5
    <2> QED BY <2>1, <2>2, <2>6
<1>9. ASSUME NEW z \in Y PROVE \E x \in X : f[x] = z
    <2>1. /\ z[1] \in 1..Len(rs) /\ z[2] \in 1..Len(rs[z[1]].content) /\ z \in Nat \X Nat
          /\ rs[z[1]].content[z[2]].type = k /\ z = <<z[1], z[2]>> /\ z[1] > t
        BY <1>n, <1>1, AtIs
    <2>2. rs[z[1]] \in StoredRows /\ z[2] \in Nat
        BY <1>1, <2>1
    <2>3. ~IsCompaction(rs[z[1]]) /\ ~rs[z[1]].is_partial
        BY <1>5, <1>6, <2>1, <2>2
    <2>4. PICK i \in 1..Len(h) : h[i].sequence = z[1]
        BY <2>1, <2>3 DEF Hist
    <2>5. h[i] = rs[z[1]]
        BY <1>2, <2>4
    <2> DEFINE p == <<i, z[2]>>
    <2>6. p \in At(h, {k}) /\ p[1] = i /\ p[2] = z[2]
        <3>1. <<i, z[2]>> \in At(h, {k})
            BY <1>1, <2>1, <2>2, <2>5, AtIs
        <3> QED BY <3>1
    <2> HIDE DEF p
    <2>7. <<h[p[1]].sequence, p[2]>> = z
        BY <2>1, <2>4, <2>6
    <2>8. p \in X
        BY <1>n, <2>6, <2>7
    <2>9. f[p] = z
        BY <1>4, <2>7, <2>8
    <2> QED BY <2>8, <2>9
<1>10. IsFiniteSet(X)
    BY <1>n, <1>1, AtFinite
<1> QED BY <1>3, <1>8, <1>9, <1>10, SameCount

LEMMA HistLabels ==
    ASSUME NEW sc, NEW rs, Counted(sc, rs), NEW h, NEW t, Hist(rs, h, t)
    PROVE  GoodLabels(h)
<1>1. rs \in Seq(StoredRows) /\ h \in Seq(StoredRows) /\ t \in Nat
    BY DEF Counted, Hist
<1>2. DOMAIN h = 1..Len(h) /\ \A i \in 1..Len(h) : h[i] \in StoredRows
    BY <1>1
<1>3. \A i \in 1..Len(h) : h[i].sequence \in 1..Len(rs) /\ h[i] = rs[h[i].sequence]
    BY DEF Hist
<1> SUFFICES ASSUME NEW i \in 1..Len(h), NEW j \in 1..Len(h[i].content),
                    h[i].content[j].type \in LabeledKinds
             PROVE  Label(h, i, j) = h[i].content[j].id
    BY <1>2, BlocksOf DEF GoodLabels
<1> DEFINE k == h[i].content[j].type
           s == h[i].sequence
           before(p) == p[1] < i \/ (p[1] = i /\ p[2] <= j)
           X == {p \in At(h, {k}) : h[p[1]].role = "user" /\ before(p)}
           Y == {q \in Upto(rs, k, s, j) : q[1] > t}
           Z == Through(rs, k, t)
<1>4. s \in 1..Len(rs) /\ h[i] = rs[s]
    BY <1>3
<1>5. Label(h, i, j) = LabelsStart(h)[k] + Cardinality(X)
    BY DEF Label
<1>6. LabelsStart(h)[k] = Cardinality(Z)
    BY DEF Hist
<1>7. h[i].content[j].id = Cardinality(Upto(rs, k, s, j))
    BY <1>4 DEF Counted, MediaNumbered
<1>8. ASSUME NEW p \in At(h, {k})
      PROVE  /\ p[1] \in 1..Len(h) /\ p[2] \in Nat
             /\ p[2] \in 1..Len(h[p[1]].content) /\ h[p[1]].content[p[2]].type = k
             /\ ~IsCompaction(h[p[1]]) /\ h[p[1]].role = "user"
    <2> HIDE DEF k
    <2>1. /\ p[1] \in 1..Len(h) /\ p[2] \in 1..Len(h[p[1]].content) /\ p \in Nat \X Nat
          /\ h[p[1]].content[p[2]].type = k
        BY <1>1, AtIs, SMTT(30)
    <2>2. HasMedia(h[p[1]])
        BY <1>2, <2>1, BlocksOf DEF HasMedia, k
    <2>3. MediaPlaced(sc, h[p[1]])
        BY <1>3, <2>1 DEF Counted
    <2> QED BY <2>1, <2>2, <2>3 DEF MediaPlaced
<1>9. <<i, j>> \in At(h, {k})
    <2>1. j \in Nat
        OBVIOUS
    <2> QED BY <1>1, <2>1, AtIs
<1>10. ~IsCompaction(h[i]) /\ s > t /\ s \in Nat
    <2> DEFINE p == <<i, j>>
    <2>1. p \in At(h, {k}) /\ p[1] = i
        BY <1>9
    <2> HIDE DEF p, k, X, Y, Z
    <2>2. ~IsCompaction(h[i])
        BY <1>8, <2>1
    <2> QED BY <1>4, <2>2 DEF Hist
<1>11. ASSUME NEW p \in At(h, {k})
       PROVE  p \in X <=> <<h[p[1]].sequence, p[2]>> \in Y
    <2> DEFINE q == <<h[p[1]].sequence, p[2]>>
    <2>1. q[1] = h[p[1]].sequence /\ q[2] = p[2]
        OBVIOUS
    <2>2. q \in At(rs, {k})
        <3> HIDE DEF k, X, Y, Z
        <3>1. /\ h[p[1]].sequence \in 1..Len(rs) /\ h[p[1]] = rs[h[p[1]].sequence]
              /\ p[2] \in Nat /\ p[2] \in 1..Len(h[p[1]].content) /\ h[p[1]].content[p[2]].type = k
            BY <1>3, <1>8
        <3>2. <<h[p[1]].sequence, p[2]>> \in At(rs, {k})
            BY <1>1, <3>1, AtIs
        <3> QED BY <3>2
    <2>3. h[p[1]].sequence > t /\ h[p[1]].sequence \in Nat
        <3> HIDE DEF k, X, Y, Z
        <3>1. p[1] \in 1..Len(h) /\ ~IsCompaction(h[p[1]])
            BY <1>8
        <3> QED BY <1>3, <3>1 DEF Hist
    <2>4. before(p) <=> (q[1] < s \/ (q[1] = s /\ q[2] <= j))
        <3> HIDE DEF k, X, Y, Z, q
        <3>1. p[1] \in 1..Len(h) /\ ~IsCompaction(h[p[1]])
            BY <1>8
        <3>2. p[1] < i => h[p[1]].sequence < s
            BY <3>1 DEF Hist
        <3>3. i < p[1] => s < h[p[1]].sequence
            BY <1>10, <3>1 DEF Hist
        <3>4. p[1] \in Nat /\ i \in Nat
            BY <3>1
        <3> HIDE DEF s
        <3>5. CASE p[1] < i
            BY <1>10, <2>1, <2>3, <3>2, <3>4, <3>5
        <3>6. CASE i < p[1]
            BY <1>10, <2>1, <2>3, <3>3, <3>4, <3>6
        <3>7. CASE i = p[1]
            BY <1>10, <2>1, <2>3, <3>4, <3>7 DEF s
        <3> QED BY <3>4, <3>5, <3>6, <3>7
    <2>5. h[p[1]].role = "user"
        <3> HIDE DEF k, X, Y, Z
        <3> QED BY <1>8
    <2> HIDE DEF q
    <2>6. p \in X <=> q \in Y
        BY <2>1, <2>2, <2>3, <2>4, <2>5 DEF Upto
    <2> QED BY <2>6 DEF q
<1>12. X \in SUBSET At(h, {k}) /\ Y \in SUBSET At(rs, {k}) /\ \A q \in Y : q[1] > t
    BY DEF Upto
<1>13. Z \in SUBSET At(rs, {k})
    BY DEF Through
<1>14. Upto(rs, k, s, j) = Z \union Y /\ Z \intersect Y = {}
    <2>1. \A q \in At(rs, {k}) : q[1] \in Nat
        <3> HIDE DEF k, X, Y, Z
        <3>1. \A q \in At(rs, {k}) : q[1] \in 1..Len(rs)
            BY <1>1, AtIs
        <3> QED BY <3>1
    <2> HIDE DEF k, s
    <2>2. \A q \in Z : q[1] <= t /\ q[1] \in Nat /\ q \in At(rs, {k}) /\ q[1] < s
        <3>1. \A q \in Z : q[1] <= t /\ q \in At(rs, {k})
            BY DEF Through
        <3>2. \A q \in Z : q[1] \in Nat
            BY <2>1, <3>1
        <3> HIDE DEF Z
        <3>3. \A x \in Nat : x <= t => x < s
            BY <1>1, <1>10 DEF s
        <3> QED BY <3>1, <3>2, <3>3
    <2>3. \A q \in Upto(rs, k, s, j) : q \in At(rs, {k}) /\ q[1] \in Nat
        BY <2>1 DEF Upto
    <2>4. Z \subseteq Upto(rs, k, s, j)
        BY <2>2 DEF Upto
    <2>5. \A q \in Upto(rs, k, s, j) : q[1] <= t => q \in Z
        BY <2>3 DEF Through
    <2>6. \A q \in Upto(rs, k, s, j) : q[1] <= t \/ q[1] > t
        BY <1>1, <2>3
    <2>7. \A q \in Z : ~(q[1] > t)
        BY <1>1, <2>2
    <2> HIDE DEF Z
    <2> QED BY <2>4, <2>5, <2>6, <2>7
<1> HIDE DEF X, Y, Z, s
<1>15. k \in LabeledKinds
    OBVIOUS
<1>16. Cardinality(Y) = Cardinality(X)
    <2> HIDE DEF k
    <2>1. Names(rs, h, t, k, X, Y)
        BY <1>11, <1>12 DEF Names
    <2> QED BY <1>15, <2>1, HistCount
<1>17. /\ IsFiniteSet(Z) /\ Cardinality(Z) \in Nat
       /\ IsFiniteSet(Y) /\ Cardinality(Y) \in Nat
    <2> HIDE DEF k
    <2> QED BY <1>1, <1>12, <1>13, AtFinite
<1>18. Cardinality(Upto(rs, k, s, j)) = Cardinality(Z) + Cardinality(Y)
    <2> HIDE DEF k
    <2> QED BY <1>14, <1>17, CountApart
<1> QED BY <1>5, <1>6, <1>7, <1>16, <1>18

\* What a compaction of the first m rows of a history counts.
LEMMA HistMarks ==
    ASSUME NEW sc, NEW rs, Counted(sc, rs), NEW h, NEW t, Hist(rs, h, t),
           NEW m \in 1..Len(h), 1 < m
    PROVE  /\ h[m].sequence \in 1..Len(rs)
           /\ \A k \in LabeledKinds :
                MediaCounts(SubSeq(h, 1, m))[k] = Cardinality(Through(rs, k, h[m].sequence))
<1> DEFINE g == SubSeq(h, 1, m)
           s == h[m].sequence
<1>1. rs \in Seq(StoredRows) /\ h \in Seq(StoredRows) /\ t \in Nat
    BY DEF Counted, Hist
<1>2. \A i \in 1..Len(h) : h[i].sequence \in 1..Len(rs) /\ h[i] = rs[h[i].sequence] /\ h[i] \in StoredRows
    BY <1>1 DEF Hist
<1>3. /\ g \in Seq(StoredRows) /\ Len(g) = m /\ \A i \in 1..m : g[i] = h[i] /\ i \in 1..Len(h)
    BY <1>1
<1>4. g[1] = h[1] /\ 1 \in 1..m /\ h # <<>>
    BY <1>1, <1>3
<1> HIDE DEF g
<1>5. s \in 1..Len(rs) /\ s \in Nat /\ s > t /\ ~IsCompaction(h[m])
    BY <1>2 DEF Hist
<1> SUFFICES ASSUME NEW k \in LabeledKinds
             PROVE  MediaCounts(g)[k] = Cardinality(Through(rs, k, s))
    BY <1>5 DEF g
<1> DEFINE X == {p \in At(g, {k}) : g[p[1]].role = "user"}
           Y == {q \in Through(rs, k, s) : q[1] > t}
           Z == Through(rs, k, t)
<1>6. MediaCounts(g)[k] = LabelsStart(h)[k] + Cardinality(X)
    BY <1>4 DEF MediaCounts, LabelsStart
<1>7. LabelsStart(h)[k] = Cardinality(Z)
    BY DEF Hist
<1>8. ASSUME NEW p \in At(h, {k})
      PROVE  /\ p[1] \in 1..Len(h) /\ p[2] \in Nat /\ p = <<p[1], p[2]>>
             /\ p[2] \in 1..Len(h[p[1]].content) /\ h[p[1]].content[p[2]].type = k
             /\ ~IsCompaction(h[p[1]]) /\ h[p[1]].role = "user"
    <2>1. /\ p[1] \in 1..Len(h) /\ p[2] \in 1..Len(h[p[1]].content) /\ p \in Nat \X Nat
          /\ h[p[1]].content[p[2]].type = k /\ p = <<p[1], p[2]>>
        BY <1>1, AtIs
    <2>2. HasMedia(h[p[1]])
        BY <1>2, <2>1, BlocksOf DEF HasMedia
    <2>3. MediaPlaced(sc, h[p[1]])
        BY <1>2, <2>1 DEF Counted
    <2> QED BY <2>1, <2>2, <2>3 DEF MediaPlaced
<1>9. ASSUME NEW p \in At(h, {k}) PROVE p \in At(g, {k}) <=> p[1] <= m
    <2>1. /\ p[1] \in 1..Len(h) /\ p[2] \in Nat /\ p = <<p[1], p[2]>>
          /\ p[2] \in 1..Len(h[p[1]].content) /\ h[p[1]].content[p[2]].type = k
        BY <1>8
    <2>2. ASSUME p[1] <= m PROVE p \in At(g, {k})
        <3>1. p[1] \in 1..m /\ g[p[1]] = h[p[1]]
            BY <1>3, <2>1, <2>2
        <3>2. <<p[1], p[2]>> \in At(g, {k})
            BY <1>3, <2>1, <3>1, AtIs
        <3> QED BY <2>1, <3>2
    <2>3. ASSUME p \in At(g, {k}) PROVE p[1] <= m
        <3>1. p[1] \in 1..Len(g)
            BY <1>3, <2>3, AtIs
        <3> QED BY <1>3, <3>1
    <2> QED BY <2>2, <2>3
<1>10. ASSUME NEW p \in At(g, {k}) PROVE p \in At(h, {k}) /\ g[p[1]].role = "user"
    <2>1. /\ p[1] \in 1..m /\ p[2] \in 1..Len(g[p[1]].content) /\ p \in Nat \X Nat
          /\ g[p[1]].content[p[2]].type = k /\ p = <<p[1], p[2]>>
        BY <1>3, AtIs
    <2>2. g[p[1]] = h[p[1]] /\ p[1] \in 1..Len(h) /\ p[2] \in Nat
        BY <1>3, <2>1
    <2>3. <<p[1], p[2]>> \in At(h, {k})
        BY <1>1, <2>1, <2>2, AtIs
    <2>4. p \in At(h, {k})
        BY <2>1, <2>3
    <2> QED BY <1>8, <2>2, <2>4
<1>11. X = {p \in At(h, {k}) : p[1] <= m}
    BY <1>9, <1>10
<1>12. ASSUME NEW p \in At(h, {k})
       PROVE  p \in X <=> <<h[p[1]].sequence, p[2]>> \in Y
    <2> DEFINE q == <<h[p[1]].sequence, p[2]>>
    <2>1. q[1] = h[p[1]].sequence /\ q[2] = p[2]
        OBVIOUS
    <2>2. q \in At(rs, {k})
        <3> HIDE DEF X, Y, Z
        <3>1. /\ h[p[1]].sequence \in 1..Len(rs) /\ h[p[1]] = rs[h[p[1]].sequence]
              /\ p[2] \in Nat /\ p[2] \in 1..Len(h[p[1]].content) /\ h[p[1]].content[p[2]].type = k
            BY <1>2, <1>8
        <3>2. <<h[p[1]].sequence, p[2]>> \in At(rs, {k})
            BY <1>1, <3>1, AtIs
        <3> QED BY <3>2
    <2>3. h[p[1]].sequence > t /\ h[p[1]].sequence \in Nat
        <3> HIDE DEF X, Y, Z
        <3>1. p[1] \in 1..Len(h) /\ ~IsCompaction(h[p[1]])
            BY <1>8
        <3> QED BY <1>2, <3>1 DEF Hist
    <2>4. p[1] <= m <=> q[1] <= s
        <3> HIDE DEF X, Y, Z, q
        <3>1. p[1] \in 1..Len(h) /\ ~IsCompaction(h[p[1]])
            BY <1>8
        <3>2. p[1] < m => h[p[1]].sequence < s
            BY <3>1 DEF Hist
        <3>3. m < p[1] => s < h[p[1]].sequence
            BY <1>5, <3>1 DEF Hist
        <3>4. p[1] \in Nat /\ m \in Nat
            BY <3>1
        <3> HIDE DEF s
        <3>5. CASE p[1] < m
            BY <1>5, <2>1, <2>3, <3>2, <3>4, <3>5
        <3>6. CASE m < p[1]
            BY <1>5, <2>1, <2>3, <3>3, <3>4, <3>6
        <3>7. CASE m = p[1]
            BY <1>5, <2>1, <2>3, <3>4, <3>7 DEF s
        <3> QED BY <3>4, <3>5, <3>6, <3>7
    <2> HIDE DEF q, X
    <2>5. p \in X <=> q \in Y
        BY <1>11, <2>1, <2>2, <2>3, <2>4 DEF Through
    <2> QED BY <2>5 DEF q
<1>13. X \in SUBSET At(h, {k}) /\ Y \in SUBSET At(rs, {k}) /\ \A q \in Y : q[1] > t
    BY <1>11 DEF Through
<1>14. Z \in SUBSET At(rs, {k})
    BY DEF Through
<1>15. Through(rs, k, s) = Z \union Y /\ Z \intersect Y = {}
    <2>1. \A q \in At(rs, {k}) : q[1] \in Nat
        <3>1. \A q \in At(rs, {k}) : q[1] \in 1..Len(rs)
            BY <1>1, AtIs
        <3> QED BY <3>1
    <2> HIDE DEF s
    <2>2. \A q \in At(rs, {k}) : (q[1] <= t => q[1] <= s) /\ (q[1] > t <=> ~(q[1] <= t))
        BY <1>1, <1>5, <2>1
    <2> QED BY <2>2 DEF Through
<1> HIDE DEF X, Y, Z, s
<1>16. Cardinality(Y) = Cardinality(X)
    <2>1. Names(rs, h, t, k, X, Y)
        BY <1>12, <1>13 DEF Names
    <2> QED BY <2>1, HistCount
<1>17. /\ IsFiniteSet(Z) /\ Cardinality(Z) \in Nat
       /\ IsFiniteSet(Y) /\ Cardinality(Y) \in Nat
    BY <1>1, <1>13, <1>14, AtFinite
<1>18. Cardinality(Through(rs, k, s)) = Cardinality(Z) + Cardinality(Y)
    BY <1>15, <1>17, CountApart
<1> QED BY <1>6, <1>7, <1>16, <1>18

-----------------------------------------------------------------------------
(* The stored rows stay counted.                                           *)

WireTypeOK ==
    /\ scope \in {"chat", "flow"} /\ rows \in Seq(StoredRows)
    /\ model \in Models /\ lastId \in Nat /\ open \in BOOLEAN

PlainBlocks == {b \in Blocks : b.type \notin LabeledKinds /\ b.type # "compaction"}

LEMMA RowTyped ==
    ASSUME rows \in Seq(StoredRows), NEW role \in {"user", "assistant", "system"},
           NEW node \in Nodes, NEW partial \in BOOLEAN, NEW blocks \in Seq(Blocks), NEW mark \in Marks,
           NEW r, r = Row(role, node, partial, blocks, mark)
    PROVE  /\ r \in StoredRows /\ r.sequence = Len(rows) + 1 /\ r.role = role /\ r.node = node
           /\ r.is_partial = partial /\ r.content = blocks /\ r.mark = mark
<1>1. Len(rows) + 1 \in Nat
    OBVIOUS
<1> QED BY <1>1 DEF Row, StoredRows

LEMMA NoMarkTyped == NoMark \in Marks
BY DEF NoMark, Marks

LEMMA PlainRow ==
    ASSUME NEW r \in StoredRows, r.content \in Seq(PlainBlocks)
    PROVE  ~HasMedia(r) /\ ~IsCompaction(r)
<1>1. \A j \in DOMAIN r.content : r.content[j] \in PlainBlocks
    OBVIOUS
<1> QED BY <1>1 DEF HasMedia, IsCompaction, PlainBlocks

LEMMA StoreStep ==
    ASSUME WireTypeOK, Counted(scope, rows), NEW role \in {"user", "assistant", "system"},
           NEW node \in Nodes, NEW partial \in BOOLEAN, NEW blocks \in Seq(PlainBlocks),
           rows' = Append(rows, Row(role, node, partial, blocks, NoMark))
    PROVE  Counted(scope, rows')
<1> DEFINE r == Row(role, node, partial, blocks, NoMark)
<1>1. blocks \in Seq(Blocks) /\ rows \in Seq(StoredRows)
    BY DEF PlainBlocks, WireTypeOK
<1>0. r = Row(role, node, partial, blocks, NoMark)
    OBVIOUS
<1> HIDE DEF r
<1>2. r \in StoredRows /\ r.sequence = Len(rows) + 1 /\ r.content = blocks
    BY <1>0, <1>1, RowTyped, NoMarkTyped
<1>3. ~HasMedia(r) /\ ~IsCompaction(r)
    BY <1>2, PlainRow
<1>4. Counted(scope, Append(rows, r))
    BY <1>2, <1>3, StorePlain
<1> QED BY <1>0, <1>4

LEMMA AssistantCounted ==
    ASSUME WireTypeOK, Counted(scope, rows), NEW node \in Nodes, NEW said \in BOOLEAN,
           NEW n \in {0, 2}, NEW partial \in BOOLEAN, AssistantTurn(node, said, n, partial)
    PROVE  Counted(scope, rows')
<1> DEFINE a == <<Block("thinking", 0)>>
           b == IF said THEN <<Block("text", 0)>> ELSE <<>>
           c == NewCalls(n)
<1>1. \A x \in Nat : /\ Block("thinking", x) \in PlainBlocks /\ Block("text", x) \in PlainBlocks
                     /\ Block("tool_use", x) \in PlainBlocks
    BY DEF Block, PlainBlocks, Blocks, Types, LabeledKinds
<1>2. a \in Seq(PlainBlocks) /\ b \in Seq(PlainBlocks)
    BY <1>1
<1>3. c \in Seq(PlainBlocks)
    <2>1. \A j \in 1..n : Block("tool_use", lastId + j) \in PlainBlocks
        BY <1>1 DEF WireTypeOK
    <2>2. c \in [1..n -> PlainBlocks] /\ n \in Nat
        BY <2>1 DEF NewCalls
    <2> HIDE DEF c
    <2> QED BY <2>2
<1>4. rows' = Append(rows, Row("assistant", node, partial, (a \o b) \o c, NoMark))
    BY DEF AssistantTurn, Store
<1> HIDE DEF a, b, c
<1>5. (a \o b) \o c \in Seq(PlainBlocks)
    BY <1>2, <1>3
<1> QED BY <1>4, <1>5, StoreStep

LEMMA AnswersPlain ==
    ASSUME NEW r \in StoredRows
    PROVE  Answers(r) \in Seq(PlainBlocks)
<1> DEFINE n == Len(r.content)
           s == [j \in 1..n |-> IF r.content[j].type = "tool_use"
                                THEN <<Block("tool_result", r.content[j].id)>> ELSE <<>>]
<1>1. DOMAIN r.content = 1..n /\ n \in Nat /\ \A j \in 1..n : r.content[j].id \in Nat
    BY BlocksOf DEF Blocks
<1>2. Answers(r) = FlattenSeq(s)
    BY <1>1 DEF Answers
<1>3. \A x \in Nat : Block("tool_result", x) \in PlainBlocks
    BY DEF Block, PlainBlocks, Blocks, Types, LabeledKinds
<1>4. \A x \in PlainBlocks : <<x>> \in Seq(PlainBlocks)
    OBVIOUS
<1>5. <<>> \in Seq(PlainBlocks)
    OBVIOUS
<1>6. s \in [1..n -> Seq(PlainBlocks)]
    BY <1>1, <1>3, <1>4, <1>5
<1> HIDE DEF s, n
<1> QED BY <1>1, <1>2, <1>6, FlattenIn

LEMMA ToolResultsCounted ==
    ASSUME WireTypeOK, Counted(scope, rows), NEW i \in DOMAIN rows, ToolResults(i)
    PROVE  Counted(scope, rows')
<1>1. rows[i] \in StoredRows
    BY DEF WireTypeOK
<1>2. rows[i].node \in Nodes
    BY <1>1 DEF StoredRows
<1>3. rows' = Append(rows, Row("user", rows[i].node, FALSE, Answers(rows[i]), NoMark))
    BY DEF ToolResults, Store
<1> QED BY <1>1, <1>2, <1>3, AnswersPlain, StoreStep

LEMMA CompactCounted ==
    ASSUME WireTypeOK, Counted(scope, rows), CompactIfDue
    PROVE  Counted(scope, rows')
<1> DEFINE h == HistoryRows
           g == IF h[Len(h)].role = "assistant" THEN SubSeq(h, 1, Len(h) - 1) ELSE h
           mark == [media |-> MediaCounts(g), through |-> g[Len(g)].sequence, model |-> model]
           r == Row("system", "own", FALSE, <<Block("compaction", 0)>>, mark)
<1>1. rows' = Append(rows, r) /\ scope = "chat" /\ Len(h) >= 3
    BY DEF CompactIfDue, Store
<1>2. PICK t \in Nat : Hist(rows, h, t)
    BY HistoryIsHist
<1> HIDE DEF h
<1>3. h \in Seq(StoredRows) /\ Len(h) \in Nat
    BY <1>2 DEF Hist
<1>4. PICK m \in 1..Len(h) : 1 < m /\ g = SubSeq(h, 1, m)
    <2>1. CASE h[Len(h)].role = "assistant"
        <3>1. Len(h) - 1 \in 1..Len(h) /\ 1 < Len(h) - 1
            BY <1>1, <1>3
        <3> QED BY <2>1, <3>1
    <2>2. CASE h[Len(h)].role # "assistant"
        <3>1. Len(h) \in 1..Len(h) /\ 1 < Len(h) /\ h = SubSeq(h, 1, Len(h))
            BY <1>1, <1>3
        <3> QED BY <2>2, <3>1
    <2> QED BY <2>1, <2>2
<1>m. g = SubSeq(h, 1, m)
    BY <1>4
<1>s. g[Len(g)].sequence = mark.through
    OBVIOUS
<1>r. r = Row("system", "own", FALSE, <<Block("compaction", 0)>>, mark)
    OBVIOUS
<1> HIDE DEF g, r
<1>5. /\ h[m].sequence \in 1..Len(rows)
      /\ \A k \in LabeledKinds : MediaCounts(g)[k] = Cardinality(Through(rows, k, h[m].sequence))
    <2> DEFINE l == SubSeq(h, 1, m)
    <2>1. l = SubSeq(h, 1, m)
        OBVIOUS
    <2> HIDE DEF mark, r
    <2>2. /\ h[m].sequence \in 1..Len(rows)
          /\ \A k \in LabeledKinds :
                MediaCounts(SubSeq(h, 1, m))[k] = Cardinality(Through(rows, k, h[m].sequence))
        BY <1>2, <1>4, HistMarks
    <2>3. MediaCounts(l) = MediaCounts(g)
        BY <1>m
    <2> QED BY <2>2, <2>3
<1>6. Len(g) = m /\ g[m] = h[m]
    BY <1>3, <1>m
<1>7. rows \in Seq(StoredRows)
    BY DEF WireTypeOK
<1>8. mark \in Marks
    <2>1. MediaCounts(g) = [k \in LabeledKinds |-> MediaCounts(g)[k]]
        BY DEF MediaCounts
    <2>2. \A k \in LabeledKinds : MediaCounts(g)[k] \in Nat
        <3> SUFFICES ASSUME NEW k \in LabeledKinds PROVE MediaCounts(g)[k] \in Nat
            OBVIOUS
        <3>1. Through(rows, k, h[m].sequence) \in SUBSET At(rows, {k})
            BY DEF Through
        <3> QED BY <1>5, <1>7, <3>1, AtFinite
    <2>3. MediaCounts(g) \in [LabeledKinds -> Nat]
        BY <2>1, <2>2
    <2>4. g[Len(g)].sequence \in Nat
        BY <1>5, <1>6
    <2>5. model \in Models
        BY DEF WireTypeOK
    <2> QED BY <2>3, <2>4, <2>5 DEF Marks
<1>9. mark.media = MediaCounts(g) /\ mark.through = h[m].sequence
    BY <1>6
<1> HIDE DEF mark
<1>10. Block("compaction", 0) \in Blocks /\ Block("compaction", 0).type = "compaction"
    BY DEF Block, Blocks, Types
<1>11. <<Block("compaction", 0)>> \in Seq(Blocks)
    BY <1>10
<1>12. /\ r \in StoredRows /\ r.sequence = Len(rows) + 1 /\ r.is_partial = FALSE
       /\ r.content = <<Block("compaction", 0)>> /\ r.mark = mark
    <2> DEFINE c == <<Block("compaction", 0)>>
    <2>1. c \in Seq(Blocks) /\ r = Row("system", "own", FALSE, c, mark)
        BY <1>11, <1>r
    <2>2. c = <<Block("compaction", 0)>>
        OBVIOUS
    <2> HIDE DEF c
    <2>3. /\ r \in StoredRows /\ r.sequence = Len(rows) + 1 /\ r.is_partial = FALSE
          /\ r.content = c /\ r.mark = mark
        <3>1. Len(rows) + 1 \in Nat
            BY <1>7
        <3> HIDE DEF mark
        <3> QED BY <1>8, <2>1, <3>1 DEF Row, StoredRows, Nodes
    <2> QED BY <2>2, <2>3
<1>13. \A j \in DOMAIN r.content : r.content[j].type \notin LabeledKinds
    BY <1>10, <1>12 DEF LabeledKinds
<1>14. MediaPlaced(scope, r)
    BY <1>13 DEF MediaPlaced, HasMedia
<1>15. MediaNumbered(Append(rows, r), Len(rows) + 1)
    <2>1. Append(rows, r)[Len(rows) + 1] = r
        BY <1>7, <1>12, AppendAt
    <2>2. \A j \in 1..Len(r.content) : r.content[j].type \notin LabeledKinds
        BY <1>12, <1>13, BlocksOf
    <2> QED BY <2>1, <2>2 DEF MediaNumbered
<1>16. IsCompaction(r) => /\ scope = "chat" /\ ~r.is_partial /\ r.mark.through <= Len(rows)
                          /\ \A k \in LabeledKinds :
                                r.mark.media[k] = Cardinality(Through(rows, k, r.mark.through))
    <2>1. Len(rows) \in Nat
        BY <1>7
    <2> QED BY <1>1, <1>5, <1>9, <1>12, <2>1
<1> QED BY <1>1, <1>12, <1>14, <1>15, <1>16, StoreCounted

\* What is attached to a turn, and how the host has it among the blocks.
Attached(r, kinds) ==
    /\ Len(r.content) = Len(kinds) + 1 /\ r.content[1].type = "text"
    /\ \A x \in 1..Len(kinds) : r.content[x + 1].type = kinds[x]

LEMMA AttachedCount ==
    ASSUME NEW rs \in Seq(StoredRows), NEW r \in StoredRows, NEW kinds \in Seq(LabeledKinds),
           Attached(r, kinds), NEW x \in 1..Len(kinds), NEW k, k = kinds[x]
    PROVE  Cardinality(Upto(Append(rs, r), k, Len(rs) + 1, x + 1))
             = Cardinality(At(rs, {k})) + Cardinality({y \in 1..x : kinds[y] = k})
<1> DEFINE a == Append(rs, r)
           n == Len(rs) + 1
           S == {y \in 1..x : kinds[y] = k}
           U == Upto(a, k, n, x + 1)
           X == At(rs, {k})
           Y == {p \in At(a, {k}) : p[1] = n /\ p[2] <= x + 1}
           f == [y \in S |-> <<n, y + 1>>]
<1>1. /\ a \in Seq(StoredRows) /\ Len(a) = n /\ n \in Nat /\ a[n] = r
      /\ \A p : p \in X <=> p \in At(a, {k}) /\ p[1] <= n - 1
    BY AppendAt
<1>2. Len(kinds) \in Nat /\ x \in Nat /\ x <= Len(kinds)
    OBVIOUS
<1>3. /\ Len(r.content) = Len(kinds) + 1 /\ r.content[1].type = "text"
      /\ \A y \in 1..Len(kinds) : r.content[y + 1].type = kinds[y]
    BY DEF Attached
<1>4. k \in LabeledKinds /\ "text" # k
    BY DEF LabeledKinds
<1>5. U = {p \in At(a, {k}) : p[1] < n \/ (p[1] = n /\ p[2] <= x + 1)}
    BY DEF Upto
<1>6. S \subseteq 1..x /\ IsFiniteSet(S)
    <2>1. IsFiniteSet(1..x)
        BY <1>2, FS_Interval
    <2> QED BY <2>1, FS_Subset
<1>f. \A y \in S : f[y] = <<n, y + 1>>
    OBVIOUS
<1>d. DOMAIN f = S /\ f = [y \in S |-> f[y]]
    OBVIOUS
<1>s. \A y : y \in S <=> y \in 1..x /\ kinds[y] = k
    OBVIOUS
<1> HIDE DEF a, n, f, S, U
<1>7. \A p \in At(a, {k}) : /\ p[1] \in 1..n /\ p[2] \in 1..Len(a[p[1]].content)
                            /\ a[p[1]].content[p[2]].type = k /\ p = <<p[1], p[2]>>
    BY <1>1, AtIs
<1>8. U = X \union Y /\ X \intersect Y = {}
    <2>1. \A p \in At(a, {k}) : (p[1] <= n - 1 <=> p[1] < n) /\ p[1] \in Nat
        <3>1. \A p \in At(a, {k}) : p[1] \in 1..n
            BY <1>7
        <3>2. \A y \in 1..n : (y <= n - 1 <=> y < n) /\ y \in Nat
            BY <1>1
        <3> QED BY <3>1, <3>2
    <2>2. \A p : p \in X <=> p \in At(a, {k}) /\ p[1] < n
        BY <1>1, <2>1
    <2>3. \A p \in Y : p[1] = n /\ ~(p[1] < n)
        BY <1>1
    <2> HIDE DEF X
    <2> QED BY <1>5, <2>2, <2>3
<1>9. ASSUME NEW y \in S PROVE f[y] \in Y
    <2>1. y \in 1..x /\ kinds[y] = k /\ y \in Nat /\ y \in 1..Len(kinds) /\ y + 1 <= x + 1
        BY <1>2, <1>s
    <2>2. y + 1 \in Nat /\ y + 1 \in 1..Len(r.content) /\ r.content[y + 1].type = k
        BY <1>2, <1>3, <2>1
    <2>3. n \in 1..Len(a)
        BY <1>1 DEF n
    <2> DEFINE j == y + 1
    <2>4. j \in Nat /\ j \in 1..Len(a[n].content) /\ a[n].content[j].type \in {k} /\ j <= x + 1
        BY <1>1, <2>1, <2>2
    <2>5. f[y] = <<n, j>>
        BY <1>f
    <2> HIDE DEF j
    <2>6. <<n, j>> \in At(a, {k})
        BY <1>1, <2>3, <2>4, AtIs
    <2> DEFINE p == <<n, j>>
    <2>7. p \in At(a, {k}) /\ p[1] = n /\ p[2] = j /\ p = f[y]
        BY <2>5, <2>6
    <2> HIDE DEF p
    <2>8. p \in Y
        BY <2>4, <2>7
    <2> QED BY <2>7, <2>8
<1>10. f \in [S -> Y]
    BY <1>d, <1>9
<1>11. ASSUME NEW y \in S, NEW z \in S, f[y] = f[z] PROVE y = z
    <2>1. y + 1 = z + 1 /\ y \in Nat /\ z \in Nat
        BY <1>f, <1>s, <1>11
    <2> QED BY <2>1
<1>12. ASSUME NEW p \in Y PROVE \E y \in S : f[y] = p
    <2>1. /\ p \in At(a, {k}) /\ p[1] = n /\ p[2] <= x + 1 /\ p = <<p[1], p[2]>>
          /\ p[2] \in 1..Len(a[p[1]].content) /\ a[p[1]].content[p[2]].type = k
        BY <1>7
    <2> DEFINE j == p[2]
    <2>2. j \in 1..(Len(kinds) + 1) /\ r.content[j].type = k /\ j <= x + 1 /\ p = <<n, j>>
        BY <1>1, <1>3, <2>1
    <2> HIDE DEF j
    <2>3. j # 1
        BY <1>3, <1>4, <2>2
    <2> DEFINE y == j - 1
    <2>4. y \in 1..x /\ y \in 1..Len(kinds) /\ y + 1 = j
        BY <1>2, <2>2, <2>3
    <2> HIDE DEF y
    <2>5. r.content[y + 1].type = kinds[y]
        BY <1>3, <2>4
    <2>6. y \in S
        BY <1>s, <2>2, <2>4, <2>5
    <2>7. f[y] = p
        BY <1>f, <2>2, <2>4, <2>6
    <2> QED BY <2>6, <2>7
<1> HIDE DEF Y
<1>13. Cardinality(Y) = Cardinality(S) /\ IsFiniteSet(Y)
    BY <1>6, <1>10, <1>11, <1>12, SameCount
<1>14. IsFiniteSet(X)
    BY AtFinite
<1> HIDE DEF X
<1>15. Cardinality(U) = Cardinality(X) + Cardinality(Y)
    BY <1>8, <1>13, <1>14, CountApart
<1> QED BY <1>13, <1>15 DEF X, U, S, a, n

LEMMA OneBefore ==
    ASSUME NEW A, NEW b \in Seq(A), NEW d \in Seq(A)
    PROVE  Len(b) = 1 => /\ b \o d \in Seq(A) /\ Len(b \o d) = Len(d) + 1 /\ (b \o d)[1] = b[1]
                         /\ \A x \in 1..Len(d) : (b \o d)[x + 1] = d[x]
<1> DEFINE c == b \o d
<1>1. /\ c \in Seq(A) /\ Len(d) \in Nat /\ Len(c) = Len(b) + Len(d)
      /\ \A x \in 1..Len(b) : c[x] = b[x]
      /\ \A k \in 1..Len(d) : c[Len(b) + k] = d[k]
    BY ConcatAt
<1> HIDE DEF c
<1> DEFINE m == Len(b)
           n == Len(d)
<1>2. /\ n \in Nat /\ Len(c) = m + n
      /\ \A x \in 1..m : c[x] = b[x]
      /\ \A k \in 1..n : c[m + k] = d[k]
    BY <1>1
<1> HIDE DEF m, n
<1>3. ASSUME m = 1 PROVE Len(c) = n + 1 /\ c[1] = b[1] /\ \A x \in 1..n : c[x + 1] = d[x]
    <2>1. Len(c) = n + 1 /\ c[1] = b[1]
        BY <1>2, <1>3
    <2>2. \A x \in 1..n : m + x = x + 1
        BY <1>2, <1>3
    <2> QED BY <1>2, <2>1, <2>2
<1>4. m = 1 => Len(c) = n + 1 /\ c[1] = b[1] /\ \A x \in 1..n : c[x + 1] = d[x]
    BY <1>3
<1> QED BY <1>1, <1>4 DEF c, m, n

LEMMA UserTurnCounted ==
    ASSUME WireTypeOK, Counted(scope, rows), NEW kinds \in Seq(LabeledKinds), UserTurn(kinds)
    PROVE  Counted(scope, rows')
<1> DEFINE b == <<Block("text", 0)>>
           c == b \o Numbered(kinds)
           r == Row("user", "own", FALSE, c, NoMark)
           l == Len(kinds)
           n == Len(rows) + 1
           a == Append(rows, r)
<1>1. rows \in Seq(StoredRows) /\ l \in Nat /\ DOMAIN kinds = 1..l
    BY DEF WireTypeOK
<1>2. rows' = a /\ (scope = "flow" => kinds = <<>>) /\ scope \in {"chat", "flow"}
    BY DEF UserTurn, Store, WireTypeOK
<1> DEFINE count(x) == Cardinality({y \in 1..x : kinds[y] = kinds[x]})
<1>3. \A x \in 1..l : /\ kinds[x] \in LabeledKinds
                      /\ Numbered(kinds)[x] = Block(kinds[x], MediaCount(kinds[x]) + count(x))
                      /\ MediaCount(kinds[x]) + count(x) \in Nat
    <2> SUFFICES ASSUME NEW x \in 1..l
                 PROVE  /\ kinds[x] \in LabeledKinds
                        /\ Numbered(kinds)[x] = Block(kinds[x], MediaCount(kinds[x]) + count(x))
                        /\ MediaCount(kinds[x]) + count(x) \in Nat
        OBVIOUS
    <2>1. kinds[x] \in LabeledKinds /\ x \in Nat
        BY <1>1
    <2>2. Numbered(kinds)[x] = Block(kinds[x], MediaCount(kinds[x]) + count(x))
        BY <1>1 DEF Numbered
    <2>3. MediaCount(kinds[x]) \in Nat
        <3>1. At(rows, {kinds[x]}) \in SUBSET At(rows, {kinds[x]})
            OBVIOUS
        <3>2. Cardinality(At(rows, {kinds[x]})) \in Nat
            BY <1>1, <3>1, AtFinite
        <3> QED BY <3>2 DEF MediaCount
    <2>4. count(x) \in Nat
        <3>1. IsFiniteSet(1..x)
            BY <2>1, FS_Interval
        <3>2. IsFiniteSet({y \in 1..x : kinds[y] = kinds[x]})
            BY <3>1, FS_Subset
        <3> QED BY <3>2, FS_CardinalityType
    <2> HIDE DEF count
    <2> QED BY <2>1, <2>2, <2>3, <2>4
<1> HIDE DEF count
<1>4. \A x \in 1..l : /\ Numbered(kinds)[x] \in Blocks
                      /\ Numbered(kinds)[x].type = kinds[x]
                      /\ Numbered(kinds)[x].id = MediaCount(kinds[x]) + count(x)
    <2>1. \A k \in LabeledKinds, x \in Nat :
             Block(k, x) \in Blocks /\ Block(k, x).type = k /\ Block(k, x).id = x
        BY DEF Block, Blocks, Types
    <2> SUFFICES ASSUME NEW x \in 1..l
                 PROVE  /\ Numbered(kinds)[x] \in Blocks
                        /\ Numbered(kinds)[x].type = kinds[x]
                        /\ Numbered(kinds)[x].id = MediaCount(kinds[x]) + count(x)
        OBVIOUS
    <2> DEFINE y == MediaCount(kinds[x]) + count(x)
    <2>2. kinds[x] \in LabeledKinds /\ y \in Nat /\ Numbered(kinds)[x] = Block(kinds[x], y)
        BY <1>3
    <2> HIDE DEF y
    <2>3. /\ Numbered(kinds)[x] \in Blocks /\ Numbered(kinds)[x].type = kinds[x]
          /\ Numbered(kinds)[x].id = y
        BY <2>1, <2>2
    <2> QED BY <2>3 DEF y
<1>5. DOMAIN Numbered(kinds) = 1..l
    BY <1>1 DEF Numbered
<1>6. Numbered(kinds) \in Seq(Blocks) /\ Len(Numbered(kinds)) = l
    <2>1. Numbered(kinds) = [x \in 1..l |-> Numbered(kinds)[x]]
        BY <1>1 DEF Numbered
    <2>2. Numbered(kinds) \in [1..l -> Blocks]
        BY <1>4, <2>1
    <2> QED BY <1>1, <1>5, <2>2
<1>7. b \in Seq(Blocks) /\ Len(b) = 1 /\ b[1].type = "text"
    BY DEF Block, Blocks, Types
<1> HIDE DEF b, l
<1>8. /\ c \in Seq(Blocks) /\ Len(c) = l + 1 /\ c[1].type = "text"
      /\ \A x \in 1..l : c[x + 1] = Numbered(kinds)[x]
      /\ \A j \in 1..(l + 1) : j = 1 \/ j - 1 \in 1..l
    <2> DEFINE d == Numbered(kinds)
    <2>1. d \in Seq(Blocks) /\ Len(d) = l /\ c = b \o d
        BY <1>6
    <2> HIDE DEF c, d
    <2>2. c \in Seq(Blocks) /\ Len(c) = l + 1 /\ c[1] = b[1]
        BY <1>7, <2>1, OneBefore
    <2>3. \A x \in 1..l : c[x + 1] = d[x]
        BY <1>7, <2>1, OneBefore
    <2>4. \A j \in 1..(l + 1) : j = 1 \/ j - 1 \in 1..l
        BY <1>1
    <2> QED BY <1>7, <2>2, <2>3, <2>4 DEF d
<1>r. r = Row("user", "own", FALSE, c, NoMark)
    OBVIOUS
<1> HIDE DEF c, r
<1>9. /\ r \in StoredRows /\ r.sequence = n /\ r.is_partial = FALSE /\ r.role = "user"
      /\ r.content = c
    <2>1. Len(rows) + 1 \in Nat
        BY <1>1
    <2> QED BY <1>8, <1>r, <2>1, NoMarkTyped DEF Row, StoredRows, Nodes
<1>10. Attached(r, kinds)
    BY <1>4, <1>8, <1>9 DEF Attached, l
<1>11. ~IsCompaction(r)
    <2>1. \A j \in 1..(l + 1) : c[j].type # "compaction"
        <3> SUFFICES ASSUME NEW j \in 1..(l + 1) PROVE c[j].type # "compaction"
            OBVIOUS
        <3>1. CASE j = 1
            BY <1>8, <3>1
        <3>2. CASE j # 1
            <4> DEFINE x == j - 1
            <4>1. x \in 1..l /\ x + 1 = j
                BY <1>1, <1>8, <3>2
            <4> HIDE DEF x
            <4>2. c[j].type = kinds[x]
                BY <1>4, <1>8, <4>1
            <4> QED BY <1>3, <4>1, <4>2 DEF LabeledKinds
        <3> QED BY <3>1, <3>2
    <2>2. DOMAIN r.content = 1..(l + 1)
        BY <1>8, <1>9, BlocksOf
    <2> QED BY <1>9, <2>1, <2>2 DEF IsCompaction
<1>12. MediaPlaced(scope, r)
    <2>1. CASE scope = "chat"
        BY <1>9, <1>11, <2>1 DEF MediaPlaced
    <2>2. CASE scope = "flow"
        <3>1. l = 0
            BY <1>2, <2>2 DEF l
        <3>2. DOMAIN r.content = 1..1
            BY <1>8, <1>9, <3>1, BlocksOf
        <3>3. ~HasMedia(r)
            BY <1>8, <1>9, <3>2 DEF HasMedia, LabeledKinds
        <3> QED BY <3>3 DEF MediaPlaced
    <2> QED BY <1>2, <2>1, <2>2
<1>13. a[n] = r /\ n \in Nat
    BY <1>1, <1>9, AppendAt
<1>14. MediaNumbered(a, n)
    <2> SUFFICES ASSUME NEW j \in 1..Len(c), c[j].type \in LabeledKinds
                 PROVE  c[j].id = Cardinality(Upto(a, c[j].type, n, j))
        BY <1>9, <1>13 DEF MediaNumbered
    <2>1. j # 1 /\ j \in 1..(l + 1)
        BY <1>8 DEF LabeledKinds
    <2> DEFINE x == j - 1
    <2>2. x \in 1..l /\ x + 1 = j
        BY <1>1, <1>8, <2>1
    <2> HIDE DEF x
    <2>3. c[j] = Numbered(kinds)[x]
        BY <1>8, <2>2
    <2> DEFINE k == kinds[x]
    <2>4. c[j].type = k /\ c[j].id = MediaCount(k) + count(x)
        BY <1>4, <2>2, <2>3
    <2>5. Cardinality(Upto(a, k, n, x + 1))
            = Cardinality(At(rows, {k})) + Cardinality({y \in 1..x : kinds[y] = k})
        <3>1. k = kinds[x] /\ x \in 1..Len(kinds)
            BY <2>2 DEF l
        <3> HIDE DEF k
        <3> QED BY <1>1, <1>9, <1>10, <3>1, AttachedCount, SMTT(30)
    <2> QED BY <2>2, <2>4, <2>5 DEF MediaCount, count
<1>15. Counted(scope, Append(rows, r))
    BY <1>9, <1>11, <1>12, <1>14, StoreCounted
<1> QED BY <1>2, <1>15

LEMMA FinalizeCounted ==
    ASSUME WireTypeOK, Counted(scope, rows), FinalizePartialMessages
    PROVE  Counted(scope, rows')
<1> DEFINE n == Len(rows)
           a == [i \in 1..n |-> [rows[i] EXCEPT !.is_partial = FALSE]]
<1>1. rows \in Seq(StoredRows) /\ n \in Nat /\ DOMAIN rows = 1..n
    BY DEF WireTypeOK
<1>2. rows' = a
    BY <1>1 DEF FinalizePartialMessages
<1>3. \A i \in 1..n : /\ a[i] \in StoredRows /\ a[i].sequence = rows[i].sequence
                      /\ a[i].role = rows[i].role /\ a[i].content = rows[i].content
                      /\ a[i].mark = rows[i].mark /\ a[i].is_partial = FALSE
    <2> SUFFICES ASSUME NEW i \in 1..n
                 PROVE  /\ a[i] \in StoredRows /\ a[i].sequence = rows[i].sequence
                        /\ a[i].role = rows[i].role /\ a[i].content = rows[i].content
                        /\ a[i].mark = rows[i].mark /\ a[i].is_partial = FALSE
        OBVIOUS
    <2>1. rows[i] \in StoredRows /\ a[i] = [rows[i] EXCEPT !.is_partial = FALSE]
        BY <1>1
    <2> HIDE DEF a
    <2> QED BY <2>1 DEF StoredRows
<1>4. a \in Seq(StoredRows) /\ Len(a) = n
    BY <1>1, <1>3
<1> HIDE DEF a, n
<1>5. \A i \in 1..n : (HasMedia(a[i]) <=> HasMedia(rows[i])) /\ (IsCompaction(a[i]) <=> IsCompaction(rows[i]))
    BY <1>3 DEF HasMedia, IsCompaction
<1>6. \A T, p : p \in At(a, T) <=> p \in At(rows, T)
    <2>1. ASSUME NEW T, NEW p \in At(a, T) PROVE p \in At(rows, T)
        <3>1. /\ p[1] \in 1..Len(a) /\ p[2] \in 1..Len(a[p[1]].content) /\ p \in Nat \X Nat
              /\ a[p[1]].content[p[2]].type \in T /\ p = <<p[1], p[2]>>
            BY <1>4, AtIs
        <3>2. p[1] \in 1..Len(rows) /\ a[p[1]].content = rows[p[1]].content /\ p[2] \in Nat
            BY <1>3, <1>4, <3>1 DEF n
        <3>3. <<p[1], p[2]>> \in At(rows, T)
            BY <1>1, <3>1, <3>2, AtIs
        <3> QED BY <3>1, <3>3
    <2>2. ASSUME NEW T, NEW p \in At(rows, T) PROVE p \in At(a, T)
        <3>1. /\ p[1] \in 1..Len(rows) /\ p[2] \in 1..Len(rows[p[1]].content) /\ p \in Nat \X Nat
              /\ rows[p[1]].content[p[2]].type \in T /\ p = <<p[1], p[2]>>
            BY <1>1, AtIs
        <3>2. p[1] \in 1..Len(a) /\ a[p[1]].content = rows[p[1]].content /\ p[2] \in Nat
            BY <1>3, <1>4, <3>1 DEF n
        <3>3. <<p[1], p[2]>> \in At(a, T)
            BY <1>4, <3>1, <3>2, AtIs
        <3> QED BY <3>1, <3>3
    <2> QED BY <2>1, <2>2
<1>7. \A k, t : Through(a, k, t) = Through(rows, k, t)
    BY <1>6 DEF Through
<1>8. \A k, i, j : Upto(a, k, i, j) = Upto(rows, k, i, j)
    BY <1>6 DEF Upto
<1>9. ASSUME NEW i \in 1..n
      PROVE  a[i].sequence = i /\ MediaPlaced(scope, a[i]) /\ MediaNumbered(a, i) /\ MarkCounts(scope, a, i)
    <2>1. /\ rows[i].sequence = i /\ MediaPlaced(scope, rows[i])
          /\ MediaNumbered(rows, i) /\ MarkCounts(scope, rows, i)
        BY DEF Counted, n
    <2>2. MediaPlaced(scope, a[i])
        BY <1>3, <1>5, <2>1 DEF MediaPlaced
    <2>3. MediaNumbered(a, i)
        BY <1>3, <1>8, <2>1 DEF MediaNumbered
    <2>4. MarkCounts(scope, a, i)
        BY <1>3, <1>5, <1>7, <2>1 DEF MarkCounts
    <2> QED BY <1>3, <2>1, <2>2, <2>3, <2>4
<1> QED BY <1>2, <1>4, <1>9 DEF Counted

\* A step leaves the scope alone, adds to the ids and keeps the model one of the models.
LEMMA RestTyped ==
    ASSUME WireTypeOK, [WireNext]_wireVars
    PROVE  scope' = scope /\ model' \in Models /\ lastId' \in Nat /\ open' \in BOOLEAN
<1> USE DEF WireTypeOK
<1>1. ASSUME NEW kinds \in Attachments, UserTurn(kinds)
      PROVE  scope' = scope /\ model' \in Models /\ lastId' \in Nat /\ open' \in BOOLEAN
    BY <1>1 DEF UserTurn
<1>2. ASSUME NEW node \in Nodes, NEW said \in BOOLEAN, NEW n \in {0, 2}, NEW partial \in BOOLEAN,
             AssistantTurn(node, said, n, partial)
      PROVE  scope' = scope /\ model' \in Models /\ lastId' \in Nat /\ open' \in BOOLEAN
    BY <1>2 DEF AssistantTurn
<1>3. ASSUME NEW i \in Unanswered, ToolResults(i)
      PROVE  scope' = scope /\ model' \in Models /\ lastId' \in Nat /\ open' \in BOOLEAN
    BY <1>3 DEF ToolResults
<1>4. CASE CompactIfDue
    BY <1>4 DEF CompactIfDue
<1>5. CASE Handoff
    BY <1>5 DEF Handoff
<1>6. CASE FinalizePartialMessages
    BY <1>6 DEF FinalizePartialMessages
<1>7. CASE AbandonCalls
    BY <1>7 DEF AbandonCalls
<1>8. CASE UNCHANGED wireVars
    BY <1>8 DEF wireVars
<1> QED BY <1>1, <1>2, <1>3, <1>4, <1>5, <1>6, <1>7, <1>8 DEF WireNext

LEMMA RowsCounted ==
    ASSUME WireTypeOK, Counted(scope, rows), [WireNext]_wireVars
    PROVE  Counted(scope, rows')
<1>1. ASSUME NEW kinds \in Attachments, UserTurn(kinds) PROVE Counted(scope, rows')
    <2>1. kinds \in Seq(LabeledKinds)
        BY WireAssumption
    <2> QED BY <1>1, <2>1, UserTurnCounted
<1>2. ASSUME NEW node \in Nodes, NEW said \in BOOLEAN, NEW n \in {0, 2}, NEW partial \in BOOLEAN,
             AssistantTurn(node, said, n, partial)
      PROVE  Counted(scope, rows')
    BY <1>2, AssistantCounted
<1>3. ASSUME NEW i \in Unanswered, ToolResults(i) PROVE Counted(scope, rows')
    <2>1. i \in DOMAIN rows
        BY DEF Unanswered
    <2> QED BY <1>3, <2>1, ToolResultsCounted
<1>4. CASE CompactIfDue
    BY <1>4, CompactCounted
<1>5. CASE Handoff
    BY <1>5 DEF Handoff
<1>6. CASE FinalizePartialMessages
    BY <1>6, FinalizeCounted
<1>7. CASE AbandonCalls
    BY <1>7 DEF AbandonCalls
<1>8. CASE UNCHANGED wireVars
    BY <1>8 DEF wireVars
<1> QED BY <1>1, <1>2, <1>3, <1>4, <1>5, <1>6, <1>7, <1>8 DEF WireNext

LEMMA WireStart == WireInit => WireTypeOK /\ Counted(scope, rows)
<1> SUFFICES ASSUME WireInit PROVE WireTypeOK /\ Counted(scope, rows)
    OBVIOUS
<1>1. rows = <<>> /\ rows \in Seq(StoredRows) /\ Len(rows) = 0
    BY DEF WireInit
<1>2. Counted(scope, rows)
    BY <1>1 DEF Counted
<1> QED BY <1>1, <1>2 DEF WireInit, WireTypeOK, Models

\* A compaction's block counts the attachments of the rows it summarizes and the
\* stored attachments are numbered in order, whatever was stored, summarized or
\* promoted before (_media_counts, _MediaLabels.__init__).
THEOREM MediaAreCounted == WireSpec => [](WireTypeOK /\ Counted(scope, rows))
<1>1. WireTypeOK /\ Counted(scope, rows) /\ [WireNext]_wireVars
         => (WireTypeOK /\ Counted(scope, rows))'
    <2> SUFFICES ASSUME WireTypeOK, Counted(scope, rows), [WireNext]_wireVars
                 PROVE  WireTypeOK' /\ Counted(scope', rows')
        OBVIOUS
    <2>1. scope' = scope /\ model' \in Models /\ lastId' \in Nat /\ open' \in BOOLEAN
        BY RestTyped
    <2>2. Counted(scope, rows')
        BY RowsCounted
    <2>3. rows' \in Seq(StoredRows)
        BY <2>2 DEF Counted
    <2> QED BY <2>1, <2>2, <2>3 DEF WireTypeOK
<1> QED BY <1>1, WireStart, PTL DEF WireSpec

\* The stored rows, the model that answers and the ids of the calls keep their
\* types: a row holds typed blocks and its mark a count per kind.
THEOREM WireTypeCorrect == WireSpec => []WireTypeOK
BY MediaAreCounted, PTL

-----------------------------------------------------------------------------
(* The labels.                                                             *)

Unmarked == {r \in StoredRows : ~HasMedia(r)}
NoMedia == {b \in Blocks : b.type \notin LabeledKinds}

LEMMA CutUnmarked ==
    ASSUME NEW r \in Unmarked, NEW S
    PROVE  [r EXCEPT !.content = Kept(r.content, S)] \in Unmarked
<1>1. r \in StoredRows /\ ~HasMedia(r)
    BY DEF Unmarked
<1>2. r.content \in Seq(NoMedia)
    <2>1. /\ r.content \in Seq(Blocks) /\ DOMAIN r.content = 1..Len(r.content)
          /\ \A j \in 1..Len(r.content) : r.content[j] \in Blocks
        BY <1>1, BlocksOf
    <2>2. \A j \in 1..Len(r.content) : r.content[j] \in NoMedia
        BY <1>1, <2>1 DEF HasMedia, NoMedia
    <2> QED BY <2>1, <2>2
<1> DEFINE c == Kept(r.content, S)
           q == [r EXCEPT !.content = c]
<1>3. c \in Seq(NoMedia)
    BY <1>2, KeptPicks
<1> HIDE DEF c
<1>4. c \in Seq(Blocks) /\ \A j \in DOMAIN c : c[j].type \notin LabeledKinds
    BY <1>3 DEF NoMedia
<1>5. q \in StoredRows /\ q.content = c
    BY <1>1, <1>4 DEF StoredRows
<1> HIDE DEF q
<1>6. ~HasMedia(q)
    BY <1>4, <1>5 DEF HasMedia
<1> QED BY <1>5, <1>6 DEF Unmarked, q, c

\* A flow's history has no attachments.
LEMMA LoadedUnmarked ==
    ASSUME rows \in Seq(Unmarked), NEW own \in BOOLEAN, NEW tools \in BOOLEAN
    PROVE  LoadHistory(own, tools) \in Seq(Unmarked)
<1> DEFINE mine == Kept(rows, {r \in ToSet(rows) : /\ r.node = "up" \/ own
                                                   /\ ~(r.node = "own" /\ r.is_partial)})
           pairs == ValidPairIds(mine)
           stays(r, b) == b.type \in {"tool_use", "tool_result"} =>
                             (r.node = "own" \/ tools) /\ b.id \in pairs
           only(i) == {b \in ToSet(mine[i].content) : stays(mine[i], b)}
           cut == [i \in DOMAIN mine |-> [mine[i] EXCEPT !.content = Kept(mine[i].content, only(i))]]
<1>1. LoadHistory(own, tools) = Kept(cut, {r \in ToSet(cut) : r.content # <<>>})
    BY DEF LoadHistory
<1>2. mine \in Seq(Unmarked)
    BY KeptPicks
<1> HIDE DEF mine, only
<1>3. cut \in Seq(Unmarked)
    <2>1. DOMAIN mine = 1..Len(mine) /\ Len(mine) \in Nat /\ \A i \in DOMAIN mine : mine[i] \in Unmarked
        BY <1>2
    <2>2. \A i \in DOMAIN mine : [mine[i] EXCEPT !.content = Kept(mine[i].content, only(i))] \in Unmarked
        BY <2>1, CutUnmarked
    <2>3. cut \in [1..Len(mine) -> Unmarked]
        BY <2>1, <2>2
    <2> HIDE DEF cut
    <2> QED BY <2>1, <2>3
<1> HIDE DEF cut
<1> QED BY <1>1, <1>3, KeptPicks

\* A history that may be sent, and the labels its media get.
LEMMA HistoriesLabelled ==
    ASSUME WireTypeOK, Counted(scope, rows), NEW h \in Histories
    PROVE  h \in Seq(StoredRows) /\ GoodLabels(h)
<1>1. CASE scope = "chat"
    <2>1. h = HistoryRows
        BY <1>1 DEF Histories
    <2>2. PICK t \in Nat : Hist(rows, HistoryRows, t)
        BY HistoryIsHist
    <2>3. Hist(rows, h, t)
        BY <2>1, <2>2
    <2>4. GoodLabels(h)
        BY <2>3, HistLabels
    <2>5. h \in Seq(StoredRows)
        BY <2>3 DEF Hist
    <2> QED BY <2>4, <2>5
<1>2. CASE scope = "flow"
    <2>1. PICK own \in BOOLEAN, tools \in BOOLEAN : h = LoadHistory(own, tools)
        BY <1>2 DEF Histories
    <2>2. rows \in Seq(Unmarked)
        <3>1. rows \in Seq(StoredRows) /\ \A i \in 1..Len(rows) : rows[i] \in StoredRows
            BY DEF WireTypeOK
        <3>2. \A i \in 1..Len(rows) : ~HasMedia(rows[i])
            BY <1>2 DEF Counted, MediaPlaced
        <3>3. \A i \in 1..Len(rows) : rows[i] \in Unmarked
            BY <3>1, <3>2 DEF Unmarked
        <3> QED BY <3>1, <3>3
    <2>3. h \in Seq(Unmarked)
        BY <2>1, <2>2, LoadedUnmarked
    <2>4. DOMAIN h = 1..Len(h) /\ \A i \in 1..Len(h) : h[i] \in StoredRows /\ ~HasMedia(h[i])
        BY <2>3 DEF Unmarked
    <2>5. GoodLabels(h)
        BY <2>4 DEF GoodLabels, HasMedia
    <2> QED BY <2>3, <2>4, <2>5
<1> QED BY <1>1, <1>2 DEF WireTypeOK

LEMMA LabelsHold ==
    ASSUME WireTypeOK, Counted(scope, rows)
    PROVE  LabelsNameTheHostsMedia
<1>1. ASSUME NEW h \in Histories PROVE h \in Seq(StoredRows) /\ GoodLabels(h)
    BY <1>1, HistoriesLabelled
<1>2. ASSUME NEW h \in Histories, NEW w \in Payloads(h) PROVE w \in Aligned
    BY <1>1, PayloadsAligned
<1>3. SUFFICES ASSUME NEW h \in Histories, NEW w \in Payloads(h)
      PROVE  LET announced == Kept(w, {x \in ToSet(w) : x.w = "note" /\ x.shown})
                 pictures == CollectImages(w)
             IN  /\ \A i \in DOMAIN w : w[i].w = "note" => w[i].label = w[i].id
                 /\ Len(announced) = Len(pictures)
                 /\ \A i \in DOMAIN pictures : /\ pictures[i].kind = announced[i].kind
                                               /\ pictures[i].id = announced[i].id
    BY DEF LabelsNameTheHostsMedia
<1>4. w \in Aligned
    BY <1>2
<1> QED BY <1>4, AlignedMeans

\* Every provider labels an attachment with the number the host counts for it,
\* and shows the pictures in the order of the notes that announce them.
THEOREM LabelsAreTheHosts == WireSpec => []LabelsNameTheHostsMedia
<1>1. WireTypeOK /\ Counted(scope, rows) => LabelsNameTheHostsMedia
    BY LabelsHold
<1> QED BY <1>1, MediaAreCounted, PTL

-----------------------------------------------------------------------------
(* Payloads: the calls of a payload and their results.                     *)

Inert == {x \in Items : x.w \notin {"call", "result"}}

\* What may be between a call and its result.  No result is stored for the calls
\* of Abandoned: no row and no message has to answer them.
Between(x) == x.w \in {"call", "result"} \/ x \in {Start("user"), Start("latest")}

\* The result at j answers the call at i; nothing else comes between them.
Answers2(w, i, j, strict) ==
    /\ i < j /\ w[j].w = "result" /\ w[j].id = w[i].id
    /\ strict => \A k \in 1..Len(w) : i < k /\ k < j => Between(w[k])

Pairs(strict) ==
    {w \in Seq(Items) : \A i \in 1..Len(w) :
        /\ w[i].w = "call" /\ w[i].id \notin Abandoned =>
              \E j \in 1..Len(w) : Answers2(w, i, j, strict)
        /\ w[i].w = "result" => \E j \in 1..Len(w) : j < i /\ w[j].w = "call" /\ w[j].id = w[i].id}

\* The property's own words for it.
LEMMA PairsMean ==
    ASSUME NEW strict \in BOOLEAN, NEW w \in Pairs(strict)
    PROVE  \A i \in DOMAIN w :
              /\ w[i].w = "call" => w[i].id \in Abandoned \/ Answered(w, i, strict)
              /\ w[i].w = "result" => Called(w, i)
<1>1. w \in Seq(Items) /\ DOMAIN w = 1..Len(w) /\ Len(w) \in Nat
    BY DEF Pairs
<1>2. ASSUME NEW i \in 1..Len(w), w[i].w = "call", w[i].id \notin Abandoned
      PROVE  Answered(w, i, strict)
    <2>1. PICK j \in 1..Len(w) : Answers2(w, i, j, strict)
        BY <1>2 DEF Pairs
    <2>2. j \in (i + 1)..Len(w) /\ w[j].w = "result" /\ w[j].id = w[i].id
        BY <1>1, <2>1 DEF Answers2
    <2>3. ASSUME strict, NEW k \in (i + 1)..(j - 1)
          PROVE  w[k].w \in {"call", "result"} \/ w[k] \in {Start("user"), Start("latest")}
        <3>1. k \in 1..Len(w) /\ i < k /\ k < j
            BY <1>1, <2>2
        <3> QED BY <2>1, <2>3, <3>1 DEF Answers2, Between
    <2> QED BY <2>2, <2>3 DEF Answered
<1>3. ASSUME NEW i \in 1..Len(w), w[i].w = "result" PROVE Called(w, i)
    <2>1. PICK j \in 1..Len(w) : j < i /\ w[j].w = "call" /\ w[j].id = w[i].id
        BY <1>3 DEF Pairs
    <2>2. j \in 1..(i - 1)
        BY <1>1, <2>1
    <2> QED BY <2>1, <2>2 DEF Called
<1> QED BY <1>1, <1>2, <1>3

LEMMA WireConcat ==
    ASSUME NEW v \in Seq(Items), NEW w \in Seq(Items)
    PROVE  /\ v \o w \in Seq(Items) /\ Len(v) \in Nat /\ Len(w) \in Nat
           /\ Len(v \o w) = Len(v) + Len(w)
           /\ \A x \in 1..Len(v) : x \in 1..Len(v \o w) /\ (v \o w)[x] = v[x]
           /\ \A k \in 1..Len(w) : Len(v) + k \in 1..Len(v \o w) /\ (v \o w)[Len(v) + k] = w[k]
           /\ \A x \in 1..Len(v \o w) : x \in 1..Len(v) \/ \E k \in 1..Len(w) : x = Len(v) + k
BY ConcatAt

LEMMA PairsConcat ==
    ASSUME NEW strict \in BOOLEAN, NEW v \in Pairs(strict), NEW w \in Pairs(strict)
    PROVE  v \o w \in Pairs(strict)
<1> DEFINE c == v \o w
           m == Len(v)
           n == Len(w)
<1>1. v \in Seq(Items) /\ w \in Seq(Items)
    BY DEF Pairs
<1>2. /\ c \in Seq(Items) /\ m \in Nat /\ n \in Nat /\ Len(c) = m + n
      /\ \A x \in 1..m : x \in 1..Len(c) /\ c[x] = v[x]
      /\ \A k \in 1..n : m + k \in 1..Len(c) /\ c[m + k] = w[k]
      /\ \A x \in 1..Len(c) : x \in 1..m \/ \E k \in 1..n : x = m + k
    BY <1>1, WireConcat
<1> HIDE DEF c, m, n
<1>3. ASSUME NEW i \in 1..m
      PROVE  /\ c[i].w = "call" /\ c[i].id \notin Abandoned =>
                   \E j \in 1..Len(c) : Answers2(c, i, j, strict)
             /\ c[i].w = "result" => \E j \in 1..Len(c) : j < i /\ c[j].w = "call" /\ c[j].id = c[i].id
    <2>0. c[i] = v[i]
        BY <1>2
    <2>1. ASSUME c[i].w = "call", c[i].id \notin Abandoned
          PROVE  \E j \in 1..Len(c) : Answers2(c, i, j, strict)
        <3>1. PICK j \in 1..m : Answers2(v, i, j, strict)
            BY <2>0, <2>1 DEF Pairs, m
        <3>2. c[j] = v[j] /\ j \in 1..Len(c)
            BY <1>2
        <3>3. ASSUME strict, NEW k \in 1..Len(c), i < k, k < j PROVE Between(c[k])
            <4>1. k \in 1..m /\ c[k] = v[k]
                BY <1>2, <3>3
            <4> QED BY <3>1, <3>3, <4>1 DEF Answers2, m
        <3>4. Answers2(c, i, j, strict)
            BY <2>0, <3>1, <3>2, <3>3 DEF Answers2
        <3> QED BY <3>2, <3>4
    <2>2. ASSUME c[i].w = "result"
          PROVE  \E j \in 1..Len(c) : j < i /\ c[j].w = "call" /\ c[j].id = c[i].id
        <3>1. PICK j \in 1..m : j < i /\ v[j].w = "call" /\ v[j].id = v[i].id
            BY <2>0, <2>2 DEF Pairs, m
        <3> QED BY <1>2, <2>0, <3>1
    <2> QED BY <2>1, <2>2
<1>4. ASSUME NEW i \in 1..n
      PROVE  /\ c[m + i].w = "call" /\ c[m + i].id \notin Abandoned =>
                   \E j \in 1..Len(c) : Answers2(c, m + i, j, strict)
             /\ c[m + i].w = "result" =>
                   \E j \in 1..Len(c) : j < m + i /\ c[j].w = "call" /\ c[j].id = c[m + i].id
    <2>0. c[m + i] = w[i]
        BY <1>2
    <2>1. ASSUME c[m + i].w = "call", c[m + i].id \notin Abandoned
          PROVE  \E j \in 1..Len(c) : Answers2(c, m + i, j, strict)
        <3>1. PICK j \in 1..n : Answers2(w, i, j, strict)
            BY <2>0, <2>1 DEF Pairs, n
        <3>2. c[m + j] = w[j] /\ m + j \in 1..Len(c) /\ m + i < m + j
            BY <1>2, <3>1 DEF Answers2
        <3>3. ASSUME strict, NEW k \in 1..Len(c), m + i < k, k < m + j PROVE Between(c[k])
            <4>1. PICK q \in 1..n : k = m + q
                BY <1>2, <3>3
            <4>2. i < q /\ q < j /\ c[k] = w[q]
                BY <1>2, <3>3, <4>1
            <4> QED BY <3>1, <3>3, <4>2 DEF Answers2, n
        <3> DEFINE a == m + i
                   b == m + j
        <3>4. a < b /\ c[b].w = "result" /\ c[b].id = c[a].id
            BY <2>0, <3>1, <3>2 DEF Answers2
        <3>5. strict => \A k \in 1..Len(c) : a < k /\ k < b => Between(c[k])
            BY <3>3
        <3> HIDE DEF a, b
        <3>6. Answers2(c, a, b, strict)
            BY <3>4, <3>5 DEF Answers2
        <3> QED BY <3>2, <3>6 DEF a, b
    <2>2. ASSUME c[m + i].w = "result"
          PROVE  \E j \in 1..Len(c) : j < m + i /\ c[j].w = "call" /\ c[j].id = c[m + i].id
        <3>1. PICK j \in 1..n : j < i /\ w[j].w = "call" /\ w[j].id = w[i].id
            BY <2>0, <2>2 DEF Pairs, n
        <3>2. m + j \in 1..Len(c) /\ c[m + j] = w[j] /\ m + j < m + i
            BY <1>2, <3>1
        <3> QED BY <2>0, <3>1, <3>2
    <2> QED BY <2>1, <2>2
<1>5. ASSUME NEW i \in 1..Len(c)
      PROVE  /\ c[i].w = "call" /\ c[i].id \notin Abandoned =>
                   \E j \in 1..Len(c) : Answers2(c, i, j, strict)
             /\ c[i].w = "result" => \E j \in 1..Len(c) : j < i /\ c[j].w = "call" /\ c[j].id = c[i].id
    <2>1. CASE i \in 1..m
        BY <1>3, <2>1
    <2>2. ASSUME NEW q \in 1..n, i = m + q
          PROVE  /\ c[i].w = "call" /\ c[i].id \notin Abandoned =>
                       \E j \in 1..Len(c) : Answers2(c, i, j, strict)
                 /\ c[i].w = "result" => \E j \in 1..Len(c) : j < i /\ c[j].w = "call" /\ c[j].id = c[i].id
        BY <1>4, <2>2
    <2> QED BY <1>2, <2>1, <2>2
<1>6. c \in Pairs(strict)
    BY <1>2, <1>5 DEF Pairs
<1> QED BY <1>6 DEF c

\* The ids of the items of a kind.
Ids(p, kind) == {p[x].id : x \in {y \in 1..Len(p) : p[y].w = kind}}

LEMMA IdsConcat ==
    ASSUME NEW v \in Seq(Items), NEW w \in Seq(Items), NEW kind
    PROVE  Ids(v \o w, kind) = Ids(v, kind) \union Ids(w, kind)
<1> DEFINE c == v \o w
           m == Len(v)
           n == Len(w)
<1>1. /\ c \in Seq(Items) /\ m \in Nat /\ n \in Nat /\ Len(c) = m + n
      /\ \A x \in 1..m : x \in 1..Len(c) /\ c[x] = v[x]
      /\ \A k \in 1..n : m + k \in 1..Len(c) /\ c[m + k] = w[k]
      /\ \A x \in 1..Len(c) : x \in 1..m \/ \E k \in 1..n : x = m + k
    BY WireConcat
<1> HIDE DEF c
<1>2. ASSUME NEW d \in Ids(c, kind) PROVE d \in Ids(v, kind) \union Ids(w, kind)
    <2>1. PICK x \in 1..Len(c) : c[x].w = kind /\ d = c[x].id
        BY DEF Ids
    <2>2. CASE x \in 1..m
        BY <1>1, <2>1, <2>2 DEF Ids
    <2>3. ASSUME NEW k \in 1..n, x = m + k PROVE d \in Ids(w, kind)
        BY <1>1, <2>1, <2>3 DEF Ids
    <2> QED BY <1>1, <2>2, <2>3
<1>3. ASSUME NEW d \in Ids(v, kind) PROVE d \in Ids(c, kind)
    <2>1. PICK x \in 1..m : v[x].w = kind /\ d = v[x].id
        BY DEF Ids
    <2> QED BY <1>1, <2>1 DEF Ids
<1>4. ASSUME NEW d \in Ids(w, kind) PROVE d \in Ids(c, kind)
    <2>1. PICK x \in 1..n : w[x].w = kind /\ d = w[x].id
        BY DEF Ids
    <2>2. m + x \in 1..Len(c) /\ c[m + x].w = kind /\ c[m + x].id = d
        BY <1>1, <2>1
    <2> QED BY <2>2 DEF Ids
<1>5. Ids(c, kind) = Ids(v, kind) \union Ids(w, kind)
    BY <1>2, <1>3, <1>4
<1> QED BY <1>5 DEF c

LEMMA InertIds ==
    ASSUME NEW w \in Seq(Inert)
    PROVE  /\ w \in Seq(Items) /\ Ids(w, "call") = {} /\ Ids(w, "result") = {}
<1>1. \A x \in 1..Len(w) : w[x] \in Inert
    OBVIOUS
<1>2. w \in Seq(Items)
    BY DEF Inert
<1> QED BY <1>1, <1>2 DEF Ids, Inert

LEMMA NoCallsPairs ==
    ASSUME NEW w \in Seq(Items), Ids(w, "call") = {}, Ids(w, "result") = {}, NEW strict
    PROVE  w \in Pairs(strict)
<1>1. \A x \in 1..Len(w) : w[x].w # "call" /\ w[x].w # "result"
    BY DEF Ids
<1> QED BY <1>1 DEF Pairs

\* Calls stand at the end of what their row is sent as, results at the start.
CallsLast(p) == \A x, y \in 1..Len(p) : x < y /\ p[x].w = "call" => p[y].w = "call"
ResultsFirst(p) == \A x, y \in 1..Len(p) : x < y /\ p[y].w = "result" => Between(p[x])

\* A call stays with its result when the pictures are taken out.
LEMMA OthersPaired ==
    ASSUME NEW strict \in BOOLEAN, NEW w \in Pairs(strict)
    PROVE  Kept(w, Others) \in Pairs(strict)
<1> DEFINE k == Kept(w, Others)
<1>1. w \in Seq(Items)
    BY DEF Pairs
<1>2. k \in Seq(Items)
    BY <1>1, KeptPicks
<1>3. PICK e : Places(e, w, Others, k)
    BY <1>1, KeptPlaces
<1> HIDE DEF k
<1>4. /\ e \in [1..Len(k) -> 1..Len(w)]
      /\ \A x \in 1..Len(k) : k[x] = w[e[x]]
      /\ \A x, y \in 1..Len(k) : x < y => e[x] < e[y]
      /\ \A i \in 1..Len(w) : w[i] \in Others => \E x \in 1..Len(k) : e[x] = i
    BY <1>3 DEF Places
<1>5. \A x \in 1..Len(k) : e[x] \in 1..Len(w)
    BY <1>4
<1>6. ASSUME NEW i \in 1..Len(w), w[i].w \in {"call", "result"} PROVE \E x \in 1..Len(k) : e[x] = i
    <2>1. w[i] \in Others
        BY <1>1, <1>6 DEF Others
    <2> QED BY <1>4, <2>1
<1>7. ASSUME NEW x \in 1..Len(k), NEW y \in 1..Len(k), e[x] < e[y] PROVE x < y
    <2>1. x # y /\ ~(y < x)
        <3>1. e[x] \in Nat /\ e[y] \in Nat
            BY <1>5
        <3> QED BY <1>4, <1>7, <3>1
    <2> QED BY <2>1
<1>8. ASSUME NEW x \in 1..Len(k), k[x].w = "call", k[x].id \notin Abandoned
      PROVE  \E y \in 1..Len(k) : Answers2(k, x, y, strict)
    <2>1. /\ w[e[x]].w = "call" /\ w[e[x]].id \notin Abandoned
          /\ e[x] \in 1..Len(w) /\ k[x] = w[e[x]]
        BY <1>4, <1>5, <1>8
    <2>2. PICK j \in 1..Len(w) : Answers2(w, e[x], j, strict)
        BY <2>1 DEF Pairs
    <2>3. w[j].w = "result" /\ w[j].id = w[e[x]].id /\ e[x] < j
        BY <2>2 DEF Answers2
    <2>4. PICK y \in 1..Len(k) : e[y] = j
        BY <1>6, <2>3
    <2>5. k[y] = w[j] /\ x < y
        BY <1>4, <1>7, <2>3, <2>4
    <2>6. ASSUME strict, NEW z \in 1..Len(k), x < z, z < y PROVE Between(k[z])
        <3>1. e[x] < e[z] /\ e[z] < e[y] /\ e[z] \in 1..Len(w) /\ k[z] = w[e[z]]
            BY <1>4, <1>5, <2>6
        <3> QED BY <2>2, <2>4, <2>6, <3>1 DEF Answers2
    <2>7. Answers2(k, x, y, strict)
        BY <2>1, <2>3, <2>5, <2>6 DEF Answers2
    <2> QED BY <2>7
<1>9. ASSUME NEW x \in 1..Len(k), k[x].w = "result"
      PROVE  \E y \in 1..Len(k) : y < x /\ k[y].w = "call" /\ k[y].id = k[x].id
    <2>1. w[e[x]].w = "result" /\ e[x] \in 1..Len(w) /\ k[x] = w[e[x]]
        BY <1>4, <1>5, <1>9
    <2>2. PICK j \in 1..Len(w) : j < e[x] /\ w[j].w = "call" /\ w[j].id = w[e[x]].id
        BY <2>1 DEF Pairs
    <2>3. PICK y \in 1..Len(k) : e[y] = j
        BY <1>6, <2>2
    <2>4. k[y] = w[j] /\ y < x
        BY <1>4, <1>7, <2>2, <2>3
    <2> QED BY <2>1, <2>2, <2>4
<1>10. k \in Pairs(strict)
    BY <1>2, <1>8, <1>9 DEF Pairs
<1> QED BY <1>10 DEF k

\* Nor does the <latest> of a transcript part them.
LEMMA LatestPaired ==
    ASSUME NEW strict \in BOOLEAN, NEW a \in Seq(Items), NEW b \in Seq(Items),
           a \o b \in Pairs(strict)
    PROVE  (a \o <<Start("latest")>>) \o b \in Pairs(strict)
<1> DEFINE l == <<Start("latest")>>
           w == a \o b
           d == a \o l
           c == d \o b
           m == Len(a)
           n == Len(b)
           f == [x \in 1..(m + n) |-> IF x <= m THEN x ELSE x + 1]
<1>1. Start("latest") \in Items /\ Start("latest").w = "start" /\ Between(Start("latest"))
    <2>1. Start("latest") \in Plain
        BY ItemTypes
    <2> QED BY <2>1 DEF Plain, Start, Item, Between
<1>2. l \in Seq(Items) /\ Len(l) = 1 /\ l[1] = Start("latest")
    BY <1>1
<1> HIDE DEF l
<1>3. /\ w \in Seq(Items) /\ m \in Nat /\ n \in Nat /\ Len(w) = m + n
      /\ \A x \in 1..m : w[x] = a[x]
      /\ \A k \in 1..n : w[m + k] = b[k]
    BY ConcatAt
<1>4. /\ d \in Seq(Items) /\ Len(d) = m + Len(l)
      /\ \A x \in 1..m : d[x] = a[x]
      /\ \A k \in 1..Len(l) : d[m + k] = l[k]
    <2>1. a \in Seq(Items) /\ l \in Seq(Items)
        BY <1>2
    <2> QED BY <2>1, ConcatAt
<1> HIDE DEF d
<1>5. /\ c \in Seq(Items) /\ Len(c) = Len(d) + n
      /\ \A x \in 1..Len(d) : c[x] = d[x]
      /\ \A k \in 1..n : c[Len(d) + k] = b[k]
    <2>1. d \in Seq(Items) /\ b \in Seq(Items)
        BY <1>4
    <2> QED BY <2>1, ConcatAt
<1>w. w \in Pairs(strict)
    OBVIOUS
<1>f. \A x \in 1..(m + n) : f[x] = IF x <= m THEN x ELSE x + 1
    OBVIOUS
<1> HIDE DEF c, w, f, m, n
<1>6. Len(d) = m + 1 /\ d[m + 1] = Start("latest") /\ Len(c) = (m + n) + 1
    <2>1. Len(d) = m + 1 /\ m + 1 \in Nat /\ 1 \in 1..Len(l)
        BY <1>2, <1>3, <1>4
    <2>2. d[m + 1] = Start("latest")
        BY <1>2, <1>4, <2>1
    <2>3. Len(c) = (m + n) + 1
        BY <1>3, <1>5, <2>1
    <2> QED BY <2>1, <2>2, <2>3
<1>7. c[m + 1] = Start("latest")
    <2>1. m + 1 \in 1..Len(d)
        BY <1>3, <1>6
    <2> QED BY <1>5, <1>6, <2>1
<1>8. ASSUME NEW x \in 1..(m + n)
      PROVE  f[x] \in 1..Len(c) /\ c[f[x]] = w[x] /\ f[x] # m + 1
    <2>1. CASE x <= m
        <3>1. f[x] = x /\ x \in 1..m /\ x \in 1..Len(d)
            BY <1>f, <1>3, <1>6, <2>1
        <3>2. x \in 1..Len(c) /\ x # m + 1
            BY <1>3, <1>6, <2>1, <3>1
        <3>3. c[x] = d[x]
            BY <1>5, <3>1
        <3>4. d[x] = a[x] /\ a[x] = w[x]
            BY <1>3, <1>4, <3>1
        <3> QED BY <3>1, <3>2, <3>3, <3>4
    <2>2. CASE ~(x <= m)
        <3> DEFINE k == x - m
        <3>1. k \in 1..n /\ m + k = x /\ f[x] = Len(d) + k
            BY <1>f, <1>3, <1>6, <2>2
        <3> HIDE DEF k
        <3>2. w[x] = b[k] /\ c[f[x]] = b[k]
            BY <1>3, <1>5, <3>1
        <3>3. f[x] \in 1..Len(c) /\ f[x] # m + 1
            BY <1>3, <1>6, <2>2, <3>1
        <3> QED BY <3>2, <3>3
    <2> QED BY <2>1, <2>2
<1>9. ASSUME NEW y \in 1..Len(c), y # m + 1 PROVE \E x \in 1..(m + n) : f[x] = y
    <2>1. CASE y <= m
        <3>1. y \in 1..(m + n)
            BY <1>3, <1>6, <2>1
        <3> QED BY <1>f, <2>1, <3>1
    <2>2. CASE ~(y <= m)
        <3> DEFINE x == y - 1
        <3>1. x \in 1..(m + n) /\ ~(x <= m) /\ x + 1 = y
            BY <1>3, <1>6, <1>9, <2>2
        <3> HIDE DEF x
        <3> QED BY <1>f, <3>1
    <2> QED BY <2>1, <2>2
<1>10. \A x, y \in 1..(m + n) : x < y <=> f[x] < f[y]
    BY <1>f, <1>3
<1>11. ASSUME NEW i \in 1..Len(c), c[i].w = "call", c[i].id \notin Abandoned
       PROVE  \E j \in 1..Len(c) : Answers2(c, i, j, strict)
    <2>1. PICK x \in 1..(m + n) : f[x] = i
        BY <1>1, <1>7, <1>9, <1>11
    <2>2. w[x].w = "call" /\ w[x].id \notin Abandoned /\ c[i] = w[x]
        BY <1>8, <1>11, <2>1
    <2>3. PICK y \in 1..(m + n) : Answers2(w, x, y, strict)
        BY <1>3, <1>w, <2>2 DEF Pairs
    <2>4. x < y /\ w[y].w = "result" /\ w[y].id = w[x].id
        BY <2>3 DEF Answers2
    <2>5. f[y] \in 1..Len(c) /\ c[f[y]] = w[y] /\ i < f[y]
        BY <1>8, <1>10, <2>1, <2>4
    <2>6. ASSUME strict, NEW k \in 1..Len(c), i < k, k < f[y] PROVE Between(c[k])
        <3>1. CASE k = m + 1
            BY <1>1, <1>7, <3>1
        <3>2. CASE k # m + 1
            <4>1. PICK z \in 1..(m + n) : f[z] = k
                BY <1>9, <3>2
            <4>2. x < z /\ z < y /\ c[k] = w[z]
                BY <1>8, <1>10, <2>1, <2>6, <4>1
            <4>3. z \in 1..Len(w)
                BY <1>3
            <4> QED BY <2>3, <2>6, <4>2, <4>3 DEF Answers2
        <3> QED BY <3>1, <3>2
    <2>7. Answers2(c, i, f[y], strict)
        BY <2>2, <2>4, <2>5, <2>6 DEF Answers2
    <2> QED BY <2>5, <2>7
<1>12. ASSUME NEW i \in 1..Len(c), c[i].w = "result"
       PROVE  \E j \in 1..Len(c) : j < i /\ c[j].w = "call" /\ c[j].id = c[i].id
    <2>1. PICK x \in 1..(m + n) : f[x] = i
        BY <1>1, <1>7, <1>9, <1>12
    <2>2. w[x].w = "result" /\ c[i] = w[x]
        BY <1>8, <1>12, <2>1
    <2>3. PICK y \in 1..(m + n) : y < x /\ w[y].w = "call" /\ w[y].id = w[x].id
        BY <1>3, <1>w, <2>2 DEF Pairs
    <2>4. f[y] \in 1..Len(c) /\ c[f[y]] = w[y] /\ f[y] < i
        BY <1>8, <1>10, <2>1, <2>3
    <2> QED BY <2>2, <2>3, <2>4
<1>13. c \in Pairs(strict)
    BY <1>5, <1>11, <1>12 DEF Pairs
<1> QED BY <1>13 DEF c, d, l

LEMMA CLIPaired ==
    ASSUME NEW strict \in BOOLEAN, NEW w \in Pairs(strict)
    PROVE  RenderTranscript(w) \o CollectImages(w) \in Pairs(strict)
<1> DEFINE k == Kept(w, Others)
           t == RenderTranscript(w)
           p == CollectImages(w)
<1>1. w \in Seq(Items)
    BY DEF Pairs
<1>2. k \in Seq(Items) /\ k \in Pairs(strict)
    BY <1>1, KeptPicks, OthersPaired
<1>3. t \in Pairs(strict)
    <2>1. CASE t = k
        BY <1>2, <2>1
    <2>2. ASSUME NEW c \in 0..Len(k),
                 t = (SubSeq(k, 1, c) \o <<Start("latest")>>) \o SubSeq(k, c + 1, Len(k))
          PROVE  t \in Pairs(strict)
        <3> HIDE DEF k, t
        <3>1. /\ SubSeq(k, 1, c) \in Seq(Items) /\ SubSeq(k, c + 1, Len(k)) \in Seq(Items)
              /\ k = SubSeq(k, 1, c) \o SubSeq(k, c + 1, Len(k))
            BY <1>2, CutInTwo
        <3> DEFINE a == SubSeq(k, 1, c)
                   b == SubSeq(k, c + 1, Len(k))
        <3>2. a \in Seq(Items) /\ b \in Seq(Items) /\ k = a \o b /\ t = (a \o <<Start("latest")>>) \o b
            BY <2>2, <3>1
        <3> HIDE DEF a, b
        <3>3. a \o b \in Pairs(strict)
            BY <1>2, <3>2
        <3>4. (a \o <<Start("latest")>>) \o b \in Pairs(strict)
            BY <3>2, <3>3, LatestPaired
        <3> QED BY <3>2, <3>4
    <2> QED BY <1>1, <2>1, <2>2, TranscriptShape
<1>4. p = Kept(w, Shots)
    <2>1. \A i \in 1..Len(w) : w[i] \in {x \in ToSet(w) : x.w = "picture"} <=> w[i] \in Shots
        BY <1>1 DEF Shots, ToSet
    <2>2. Kept(w, {x \in ToSet(w) : x.w = "picture"}) = Kept(w, Shots)
        BY <1>1, <2>1, KeptSame
    <2> QED BY <2>2 DEF CollectImages
<1>5. p \in Pairs(strict)
    <2>1. PICK e : Places(e, w, Shots, p)
        BY <1>1, <1>4, KeptPlaces
    <2> HIDE DEF p
    <2>2. \A x \in 1..Len(p) : p[x] \in Shots
        BY <2>1 DEF Places
    <2>3. p \in Seq(Items)
        BY <1>1, <1>4, KeptPicks
    <2>4. p \in Seq(Inert)
        <3>1. \A x \in 1..Len(p) : p[x] \in Inert
            BY <2>2 DEF Shots, Inert
        <3> QED BY <2>3, <3>1
    <2> QED BY <2>4, InertIds, NoCallsPairs
<1> HIDE DEF t, p
<1>6. t \o p \in Pairs(strict)
    BY <1>3, <1>5, PairsConcat
<1> QED BY <1>6 DEF t, p

\* Every call of a part that has a result has it in a later one, the next if
\* strict, and every result its call in an earlier one.
PartsPaired(ss, n, strict) ==
    \A i \in 1..n :
        /\ \A d \in Ids(ss[i], "call") \ Abandoned : \E j \in 1..n :
              /\ i < j /\ d \in Ids(ss[j], "result")
              /\ strict => j = i + 1 /\ CallsLast(ss[i]) /\ ResultsFirst(ss[j])
        /\ \A d \in Ids(ss[i], "result") : \E j \in 1..n : j < i /\ d \in Ids(ss[j], "call")

LEMMA FlattenPaired ==
    ASSUME NEW strict \in BOOLEAN, NEW n \in Nat, NEW ss \in [1..n -> Seq(Items)],
           PartsPaired(ss, n, strict)
    PROVE  FlattenSeq(ss) \in Pairs(strict)
<1> DEFINE w == FlattenSeq(ss)
<1>1. w \in Seq(Items) /\ \E O : LaidOut(ss, n, O, w)
    BY FlattenLaidOut
<1> HIDE DEF w
<1>2. PICK O : LaidOut(ss, n, O, w)
    BY <1>1
<1>3. /\ \A i \in 1..n : O[i] \in Nat /\ Len(ss[i]) \in Nat
      /\ \A i \in 1..n : \A k \in 1..Len(ss[i]) : O[i] + k \in 1..Len(w) /\ w[O[i] + k] = ss[i][k]
      /\ \A x \in 1..Len(w) : \E i \in 1..n : \E k \in 1..Len(ss[i]) : x = O[i] + k
      /\ \A i, j \in 1..n : i < j => O[i] + Len(ss[i]) <= O[j]
      /\ \A i \in 1..n : i + 1 \in 1..n => O[i + 1] = O[i] + Len(ss[i])
    BY <1>2 DEF LaidOut
<1>4. ASSUME NEW i \in 1..n, NEW k \in 1..Len(ss[i]), NEW j \in 1..n, NEW l \in 1..Len(ss[j]), i < j
      PROVE  O[i] + k < O[j] + l
    <2>1. O[i] \in Nat /\ O[j] \in Nat /\ Len(ss[i]) \in Nat /\ Len(ss[j]) \in Nat
        BY <1>3
    <2>2. O[i] + Len(ss[i]) <= O[j]
        BY <1>3, <1>4
    <2>3. k <= Len(ss[i]) /\ 1 <= l /\ k \in Nat /\ l \in Nat
        BY <2>1
    <2> DEFINE p == O[i]
               q == O[j]
               len == Len(ss[i])
    <2> HIDE DEF p, q, len
    <2>4. p + len <= q /\ p \in Nat /\ q \in Nat /\ len \in Nat
        BY <2>1, <2>2 DEF p, q, len
    <2>5. k <= len
        BY <2>3 DEF len
    <2>6. p + k < q + l
        BY <2>3, <2>4, <2>5
    <2> QED BY <2>6 DEF p, q
<1>b. ASSUME NEW i \in 1..n, NEW k \in 1..Len(ss[i]), NEW j \in 1..n, NEW l \in 1..Len(ss[j]),
             O[i] + k < O[j] + l
      PROVE  i < j \/ (i = j /\ k < l)
    <2>1. O[i] \in Nat /\ O[j] \in Nat /\ k \in Nat /\ l \in Nat
        BY <1>3
    <2> DEFINE p == O[i]
               q == O[j]
    <2> HIDE DEF p, q
    <2>2. p \in Nat /\ q \in Nat /\ p + k < q + l
        BY <1>b, <2>1 DEF p, q
    <2>3. CASE j < i
        <3>1. q + l < p + k
            BY <1>4, <2>3 DEF p, q
        <3> QED BY <2>1, <2>2, <3>1
    <2>4. CASE i = j
        <3>1. p = q
            BY <2>4 DEF p, q
        <3> QED BY <2>1, <2>2, <2>4, <3>1
    <2> QED BY <2>3, <2>4
<1>5. ASSUME NEW x \in 1..Len(w), w[x].w = "call", w[x].id \notin Abandoned
      PROVE  \E y \in 1..Len(w) : Answers2(w, x, y, strict)
    <2>0. PICK i \in 1..n : \E k \in 1..Len(ss[i]) : x = O[i] + k
        BY <1>3
    <2>1. PICK k \in 1..Len(ss[i]) : x = O[i] + k
        BY <2>0
    <2>2. ss[i][k].w = "call" /\ w[x] = ss[i][k]
        BY <1>3, <1>5, <2>1
    <2>3. ss[i][k].id \in Ids(ss[i], "call") \ Abandoned
        BY <1>5, <2>2 DEF Ids
    <2>4. PICK j \in 1..n : /\ i < j /\ ss[i][k].id \in Ids(ss[j], "result")
                            /\ strict => j = i + 1 /\ CallsLast(ss[i]) /\ ResultsFirst(ss[j])
        BY <2>3 DEF PartsPaired
    <2>5. PICK l \in 1..Len(ss[j]) : ss[j][l].w = "result" /\ ss[j][l].id = ss[i][k].id
        BY <2>4 DEF Ids
    <2> DEFINE y == O[j] + l
    <2>6. y \in 1..Len(w) /\ w[y] = ss[j][l]
        BY <1>3
    <2>y. y = O[j] + l
        OBVIOUS
    <2> HIDE DEF y
    <2>7. x < y
        <3>1. O[i] + k < O[j] + l
            BY <1>4, <2>4
        <3> QED BY <2>1, <2>y, <3>1
    <2>8. ASSUME strict, NEW z \in 1..Len(w), x < z, z < y PROVE Between(w[z])
        <3>0. PICK m \in 1..n : \E q \in 1..Len(ss[m]) : z = O[m] + q
            BY <1>3
        <3>1. PICK q \in 1..Len(ss[m]) : z = O[m] + q
            BY <3>0
        <3>2. w[z] = ss[m][q]
            BY <1>3, <3>1
        <3>3. i < m \/ (i = m /\ k < q)
            <4>1. O[i] + k < O[m] + q
                BY <2>1, <2>8, <3>1
            <4> QED BY <1>b, <4>1
        <3>4. m < j \/ (m = j /\ q < l)
            <4>1. O[m] + q < O[j] + l
                BY <2>8, <2>y, <3>1
            <4> QED BY <1>b, <4>1
        <3>5. m = i \/ m = j
            <4>1. j = i + 1
                BY <2>4, <2>8
            <4> QED BY <3>3, <3>4, <4>1
        <3>6. CASE m = i
            <4>1. k < q
                BY <3>3, <3>6
            <4>2. ss[i][q].w = "call"
                BY <2>2, <2>4, <2>8, <3>6, <4>1 DEF CallsLast
            <4> QED BY <3>2, <3>6, <4>2 DEF Between
        <3>7. CASE m = j
            <4>1. q < l
                BY <3>4, <3>7
            <4> QED BY <2>4, <2>5, <2>8, <3>2, <3>7, <4>1 DEF ResultsFirst
        <3> QED BY <3>5, <3>6, <3>7
    <2>9. Answers2(w, x, y, strict)
        BY <2>2, <2>5, <2>6, <2>7, <2>8 DEF Answers2
    <2> QED BY <2>6, <2>9
<1>6. ASSUME NEW x \in 1..Len(w), w[x].w = "result"
      PROVE  \E y \in 1..Len(w) : y < x /\ w[y].w = "call" /\ w[y].id = w[x].id
    <2>0. PICK i \in 1..n : \E k \in 1..Len(ss[i]) : x = O[i] + k
        BY <1>3
    <2>1. PICK k \in 1..Len(ss[i]) : x = O[i] + k
        BY <2>0
    <2>2. ss[i][k].w = "result" /\ w[x] = ss[i][k]
        BY <1>3, <1>6, <2>1
    <2>3. ss[i][k].id \in Ids(ss[i], "result")
        BY <2>2 DEF Ids
    <2>4. PICK j \in 1..n : j < i /\ ss[i][k].id \in Ids(ss[j], "call")
        BY <2>3 DEF PartsPaired
    <2>5. PICK l \in 1..Len(ss[j]) : ss[j][l].w = "call" /\ ss[j][l].id = ss[i][k].id
        BY <2>4 DEF Ids
    <2>6. O[j] + l \in 1..Len(w) /\ w[O[j] + l] = ss[j][l]
        BY <1>3
    <2>7. O[j] + l < x
        BY <1>4, <2>1, <2>4
    <2> QED BY <2>2, <2>5, <2>6, <2>7
<1>7. w \in Pairs(strict)
    BY <1>1, <1>5, <1>6 DEF Pairs
<1> QED BY <1>7 DEF w

\* Sequences of one thing or nothing, and the things one after the other.
Ones(p, n) == \A i \in 1..n : Len(p[i]) \in {0, 1}
OnesIn(w, p, n) ==
    /\ \A x \in 1..Len(w) : \E i \in 1..n : Len(p[i]) = 1 /\ w[x] = p[i][1]
    /\ \A i \in 1..n : Len(p[i]) = 1 => \E x \in 1..Len(w) : w[x] = p[i][1]
    /\ \A x, y \in 1..Len(w) : x < y => \E i, j \in 1..n :
          i < j /\ Len(p[i]) = 1 /\ Len(p[j]) = 1 /\ w[x] = p[i][1] /\ w[y] = p[j][1]

LEMMA OnesOf ==
    ASSUME NEW n, NEW p, NEW w, NEW O, LaidOut(p, n, O, w), Ones(p, n)
    PROVE  OnesIn(w, p, n)
<1>0. \A i \in 1..n : Len(p[i]) \in {0, 1}
    BY DEF Ones
<1>1. PICK e \in [1..Len(w) -> 1..n] :
              /\ \A x \in 1..Len(w) : Len(p[e[x]]) = 1 /\ w[x] = p[e[x]][1]
              /\ \A x, y \in 1..Len(w) : x < y => e[x] < e[y]
              /\ \A i \in 1..n : Len(p[i]) = 1 => \E x \in 1..Len(w) : e[x] = i
    BY <1>0, PlacesOf
<1>2. \A x \in 1..Len(w) : e[x] \in 1..n
    OBVIOUS
<1>3. ASSUME NEW x \in 1..Len(w), NEW y \in 1..Len(w), x < y
      PROVE  \E i, j \in 1..n :
                i < j /\ Len(p[i]) = 1 /\ Len(p[j]) = 1 /\ w[x] = p[i][1] /\ w[y] = p[j][1]
    <2>1. e[x] < e[y]
        BY <1>1, <1>3
    <2> QED BY <1>1, <1>2, <2>1
<1> QED BY <1>1, <1>2, <1>3 DEF OnesIn

LEMMA FlattenOnes ==
    ASSUME NEW A, NEW n \in Nat, NEW p \in [1..n -> Seq(A)], Ones(p, n)
    PROVE  FlattenSeq(p) \in Seq(A) /\ OnesIn(FlattenSeq(p), p, n)
<1> DEFINE w == FlattenSeq(p)
<1>1. w \in Seq(A) /\ \E O : LaidOut(p, n, O, w)
    BY FlattenLaidOut
<1> HIDE DEF w
<1>2. PICK O : LaidOut(p, n, O, w)
    BY <1>1
<1>3. OnesIn(w, p, n)
    BY <1>2, OnesOf
<1> QED BY <1>1, <1>3 DEF w

-----------------------------------------------------------------------------
(* What a row is sent as: its calls and its results.                       *)

IdsIn(r, type) == {r.content[j].id : j \in {k \in 1..Len(r.content) : r.content[k].type = type}}
TypesIn(r, T) == \A j \in 1..Len(r.content) : r.content[j].type \in T

\* After a call there is nothing but calls in its row.
CallsEnd(r) ==
    \A x, y \in 1..Len(r.content) :
        x < y /\ r.content[x].type = "tool_use" => r.content[y].type = "tool_use"

\* Calls are an assistant's and end its row, results are a complete user row of
\* their own, and so is a compaction.
WellKept(r) ==
    /\ IdsIn(r, "tool_use") # {} => r.role = "assistant"
    /\ CallsEnd(r)
    /\ IdsIn(r, "tool_result") # {} =>
          r.role = "user" /\ ~r.is_partial /\ TypesIn(r, {"tool_result"})
    /\ IsCompaction(r) => TypesIn(r, {"compaction"})

CallItems == {x \in Items : x.w = "call"}
ResultItems == {x \in Items : x.w = "result"}

\* A part of a payload with these calls at its end and these results at its start.
Sends(p, calls, results) ==
    /\ p \in Seq(Items)
    /\ Ids(p, "call") = calls /\ Ids(p, "result") = results
    /\ CallsLast(p) /\ ResultsFirst(p)

LEMMA NoIds ==
    ASSUME NEW w \in Seq(Items), NEW kind, \A x \in 1..Len(w) : w[x].w # kind
    PROVE  Ids(w, kind) = {}
BY DEF Ids

LEMMA SendsInert ==
    ASSUME NEW w \in Seq(Inert)
    PROVE  Sends(w, {}, {})
<1>1. \A x \in 1..Len(w) : w[x] \in Inert
    OBVIOUS
<1>2. CallsLast(w) /\ ResultsFirst(w)
    BY <1>1 DEF CallsLast, ResultsFirst, Inert
<1> QED BY <1>2, InertIds DEF Sends

LEMMA SendsAfter ==
    ASSUME NEW a \in Seq(Inert), NEW b, NEW calls, Sends(b, calls, {})
    PROVE  Sends(a \o b, calls, {})
<1> DEFINE c == a \o b
           m == Len(a)
           n == Len(b)
<1>0. /\ b \in Seq(Items) /\ Ids(b, "call") = calls /\ Ids(b, "result") = {}
      /\ CallsLast(b)
    BY DEF Sends
<1>1. a \in Seq(Items) /\ Ids(a, "call") = {} /\ Ids(a, "result") = {}
    BY InertIds DEF Inert
<1>2. /\ c \in Seq(Items) /\ m \in Nat /\ n \in Nat /\ Len(c) = m + n
      /\ \A x \in 1..m : x \in 1..Len(c) /\ c[x] = a[x]
      /\ \A k \in 1..n : m + k \in 1..Len(c) /\ c[m + k] = b[k]
      /\ \A x \in 1..Len(c) : x \in 1..m \/ \E k \in 1..n : x = m + k
    BY <1>0, <1>1, ConcatAt
<1>3. Ids(c, "call") = calls /\ Ids(c, "result") = {}
    <2>1. /\ Ids(c, "call") = Ids(a, "call") \union Ids(b, "call")
          /\ Ids(c, "result") = Ids(a, "result") \union Ids(b, "result")
        BY <1>0, <1>1, IdsConcat
    <2> QED BY <1>0, <1>1, <2>1
<1>4. \A x \in 1..m : a[x].w # "call"
    BY DEF Inert
<1> HIDE DEF c
<1>5. CallsLast(c)
    <2> SUFFICES ASSUME NEW x \in 1..Len(c), NEW y \in 1..Len(c), x < y, c[x].w = "call"
                 PROVE  c[y].w = "call"
        BY DEF CallsLast
    <2>1. x \notin 1..m
        BY <1>2, <1>4
    <2>2. y \notin 1..m
        BY <1>2, <2>1
    <2>3. PICK k \in 1..n : x = m + k
        BY <1>2, <2>1
    <2>4. PICK l \in 1..n : y = m + l
        BY <1>2, <2>2
    <2>5. k < l /\ c[x] = b[k] /\ c[y] = b[l]
        BY <1>2, <2>3, <2>4
    <2> QED BY <1>0, <2>5 DEF CallsLast
<1>6. ResultsFirst(c)
    <2>1. \A x \in 1..Len(c) : c[x].w = "result" => c[x].id \in Ids(c, "result")
        BY DEF Ids
    <2> QED BY <1>3, <2>1 DEF ResultsFirst
<1>7. Sends(c, calls, {})
    BY <1>2, <1>3, <1>5, <1>6 DEF Sends
<1> QED BY <1>7 DEF c

LEMMA SendsCalls ==
    ASSUME NEW b \in Seq(CallItems)
    PROVE  Sends(b, Ids(b, "call"), {})
<1>1. b \in Seq(Items) /\ \A x \in 1..Len(b) : b[x].w = "call"
    BY DEF CallItems
<1>2. Ids(b, "result") = {}
    BY <1>1, NoIds
<1>3. CallsLast(b) /\ ResultsFirst(b)
    BY <1>1 DEF CallsLast, ResultsFirst
<1> QED BY <1>1, <1>2, <1>3 DEF Sends

LEMMA SendsResults ==
    ASSUME NEW a \in Seq(ResultItems), NEW b \in Seq(Inert)
    PROVE  Sends(a \o b, {}, Ids(a, "result"))
<1> DEFINE c == a \o b
           m == Len(a)
           n == Len(b)
<1>1. a \in Seq(Items) /\ b \in Seq(Items)
    BY DEF ResultItems, Inert
<1>2. /\ c \in Seq(Items) /\ m \in Nat /\ n \in Nat /\ Len(c) = m + n
      /\ \A x \in 1..m : x \in 1..Len(c) /\ c[x] = a[x]
      /\ \A k \in 1..n : m + k \in 1..Len(c) /\ c[m + k] = b[k]
      /\ \A x \in 1..Len(c) : x \in 1..m \/ \E k \in 1..n : x = m + k
    BY <1>1, ConcatAt
<1>3. /\ Ids(c, "call") = Ids(a, "call") \union Ids(b, "call")
      /\ Ids(c, "result") = Ids(a, "result") \union Ids(b, "result")
    BY <1>1, IdsConcat
<1>4. /\ \A x \in 1..n : b[x].w # "call" /\ b[x].w # "result"
      /\ \A x \in 1..m : a[x].w = "result"
    BY DEF Inert, ResultItems
<1> HIDE DEF c
<1>5. Ids(b, "call") = {} /\ Ids(b, "result") = {} /\ Ids(a, "call") = {}
    BY <1>4 DEF Ids
<1>6. ASSUME NEW x \in 1..Len(c) PROVE c[x].w # "call" /\ (c[x].w = "result" => x \in 1..m)
    <2>1. CASE x \in 1..m
        BY <1>2, <1>4, <2>1
    <2>2. CASE x \notin 1..m
        <3>1. PICK k \in 1..n : x = m + k
            BY <1>2, <2>2
        <3>2. c[x] = b[k]
            BY <1>2, <3>1
        <3> QED BY <1>4, <2>2, <3>2
    <2> QED BY <2>1, <2>2
<1>7. ResultsFirst(c)
    <2> SUFFICES ASSUME NEW x \in 1..Len(c), NEW y \in 1..Len(c), x < y, c[y].w = "result"
                 PROVE  Between(c[x])
        BY DEF ResultsFirst
    <2>1. y \in 1..m
        BY <1>6
    <2>2. x \in 1..m
        BY <1>2, <2>1
    <2> QED BY <1>2, <1>4, <2>2 DEF Between
<1>8. CallsLast(c)
    BY <1>6 DEF CallsLast
<1>9. Sends(c, {}, Ids(a, "result"))
    BY <1>2, <1>3, <1>5, <1>7, <1>8 DEF Sends
<1> QED BY <1>9 DEF c

\* A part that opens with a user's message start.
LEMMA SendsStart ==
    ASSUME NEW p, NEW results, Sends(p, {}, results), NEW a \in Seq({Start("user")})
    PROVE  Sends(a \o p, {}, results)
<1> DEFINE c == a \o p
           m == Len(a)
           n == Len(p)
<1>0. /\ p \in Seq(Items) /\ Ids(p, "call") = {} /\ Ids(p, "result") = results
      /\ CallsLast(p) /\ ResultsFirst(p)
    BY DEF Sends
<1>1. Start("user") \in Items /\ Start("user").w = "start"
    <2>1. Start("user") \in Plain
        BY ItemTypes
    <2> QED BY <2>1 DEF Plain, Start, Item
<1>2. a \in Seq(Inert) /\ a \in Seq(Items)
    BY <1>1 DEF Inert
<1>3. /\ c \in Seq(Items) /\ m \in Nat /\ n \in Nat /\ Len(c) = m + n
      /\ \A x \in 1..m : x \in 1..Len(c) /\ c[x] = a[x]
      /\ \A k \in 1..n : m + k \in 1..Len(c) /\ c[m + k] = p[k]
      /\ \A x \in 1..Len(c) : x \in 1..m \/ \E k \in 1..n : x = m + k
    BY <1>0, <1>2, ConcatAt
<1>4. /\ Ids(c, "call") = Ids(a, "call") \union Ids(p, "call")
      /\ Ids(c, "result") = Ids(a, "result") \union Ids(p, "result")
    BY <1>0, <1>2, IdsConcat
<1>5. Ids(a, "call") = {} /\ Ids(a, "result") = {}
    BY <1>2, InertIds
<1>6. \A x \in 1..m : a[x] = Start("user")
    OBVIOUS
<1> HIDE DEF c
<1>7. Ids(c, "call") = {} /\ Ids(c, "result") = results
    BY <1>0, <1>4, <1>5
<1>8. CallsLast(c)
    <2>1. \A x \in 1..Len(c) : c[x].w = "call" => c[x].id \in Ids(c, "call")
        BY DEF Ids
    <2> QED BY <1>7, <2>1 DEF CallsLast
<1>9. ResultsFirst(c)
    <2> SUFFICES ASSUME NEW x \in 1..Len(c), NEW y \in 1..Len(c), x < y, c[y].w = "result"
                 PROVE  Between(c[x])
        BY DEF ResultsFirst
    <2>1. CASE x \in 1..m
        BY <1>3, <1>6, <2>1 DEF Between
    <2>2. ASSUME NEW k \in 1..n, x = m + k PROVE Between(c[x])
        <3>0. ~(y \in 1..m)
            BY <1>3, <2>2
        <3>1. PICK l \in 1..n : y = m + l
            BY <1>3, <3>0
        <3>2. k < l /\ c[x] = p[k] /\ c[y] = p[l]
            BY <1>3, <2>2, <3>1
        <3> QED BY <1>0, <3>2 DEF ResultsFirst
    <2> QED BY <1>3, <2>1, <2>2
<1>10. Sends(c, {}, results)
    BY <1>3, <1>7, <1>8, <1>9 DEF Sends
<1> QED BY <1>10 DEF c

LEMMA Single ==
    /\ \A x : Len(<<x>>) = 1 /\ <<x>>[1] = x
    /\ Len(<<>>) = 0
OBVIOUS

\* The calls and the results of a row, as items.
LEMMA RowItems ==
    ASSUME NEW r \in StoredRows
    PROVE  /\ Calls(r) \in Seq(CallItems) /\ Ids(Calls(r), "call") = IdsIn(r, "tool_use")
           /\ Results(r) \in Seq(ResultItems) /\ Ids(Results(r), "result") = IdsIn(r, "tool_result")
<1> DEFINE n == Len(r.content)
           c == [j \in 1..n |->
                   IF r.content[j].type = "tool_use" THEN <<Call(r.content[j])>> ELSE <<>>]
           d == [j \in 1..n |->
                   IF r.content[j].type = "tool_result" THEN <<Result(r.content[j])>> ELSE <<>>]
<1>1. /\ DOMAIN r.content = 1..n /\ n \in Nat
      /\ \A j \in 1..n : r.content[j] \in Blocks
    BY BlocksOf
<1>2. Calls(r) = FlattenSeq(c) /\ Results(r) = FlattenSeq(d)
    BY <1>1 DEF Calls, Results
<1>3. \A j \in 1..n : /\ Call(r.content[j]) \in CallItems
                      /\ Call(r.content[j]).w = "call" /\ Call(r.content[j]).id = r.content[j].id
                      /\ Result(r.content[j]) \in ResultItems
                      /\ Result(r.content[j]).w = "result"
                      /\ Result(r.content[j]).id = r.content[j].id
    <2>1. \A j \in 1..n : Call(r.content[j]) \in Plain /\ Result(r.content[j]) \in Plain
        BY <1>1, ItemTypes
    <2> QED BY <2>1 DEF Plain, CallItems, ResultItems, Call, Result, Item
<1>4. /\ \A x \in CallItems : <<x>> \in Seq(CallItems)
      /\ \A x \in ResultItems : <<x>> \in Seq(ResultItems)
      /\ <<>> \in Seq(CallItems) /\ <<>> \in Seq(ResultItems)
    OBVIOUS
<1>5. c \in [1..n -> Seq(CallItems)] /\ d \in [1..n -> Seq(ResultItems)]
    BY <1>3, <1>4
<1>6. \A j \in 1..n :
         /\ c[j] = IF r.content[j].type = "tool_use" THEN <<Call(r.content[j])>> ELSE <<>>
         /\ d[j] = IF r.content[j].type = "tool_result" THEN <<Result(r.content[j])>> ELSE <<>>
    OBVIOUS
<1> HIDE DEF c, d
<1>7. \A j \in 1..n :
         /\ Len(c[j]) \in {0, 1} /\ Len(d[j]) \in {0, 1}
         /\ Len(c[j]) = 1 <=> r.content[j].type = "tool_use"
         /\ Len(d[j]) = 1 <=> r.content[j].type = "tool_result"
         /\ Len(c[j]) = 1 => c[j][1] = Call(r.content[j])
         /\ Len(d[j]) = 1 => d[j][1] = Result(r.content[j])
    <2>1. ASSUME NEW j \in 1..n
          PROVE  /\ Len(c[j]) \in {0, 1} /\ (Len(c[j]) = 1 <=> r.content[j].type = "tool_use")
                 /\ Len(c[j]) = 1 => c[j][1] = Call(r.content[j])
        <3>1. CASE r.content[j].type = "tool_use"
            <4>1. c[j] = <<Call(r.content[j])>>
                BY <1>6, <3>1
            <4> QED BY <3>1, <4>1, Single
        <3>2. CASE r.content[j].type # "tool_use"
            <4>1. c[j] = <<>>
                BY <1>6, <3>2
            <4> QED BY <3>2, <4>1, Single
        <3> QED BY <3>1, <3>2
    <2>2. ASSUME NEW j \in 1..n
          PROVE  /\ Len(d[j]) \in {0, 1} /\ (Len(d[j]) = 1 <=> r.content[j].type = "tool_result")
                 /\ Len(d[j]) = 1 => d[j][1] = Result(r.content[j])
        <3>1. CASE r.content[j].type = "tool_result"
            <4>1. d[j] = <<Result(r.content[j])>>
                BY <1>6, <3>1
            <4> QED BY <3>1, <4>1, Single
        <3>2. CASE r.content[j].type # "tool_result"
            <4>1. d[j] = <<>>
                BY <1>6, <3>2
            <4> QED BY <3>2, <4>1, Single
        <3> QED BY <3>1, <3>2
    <2> QED BY <2>1, <2>2
<1>8. Ones(c, n) /\ Ones(d, n)
    BY <1>7 DEF Ones
<1> DEFINE w == FlattenSeq(c)
           v == FlattenSeq(d)
<1>9. w \in Seq(CallItems) /\ OnesIn(w, c, n) /\ v \in Seq(ResultItems) /\ OnesIn(v, d, n)
    <2> HIDE DEF n
    <2> QED BY <1>1, <1>5, <1>8, FlattenOnes
<1> HIDE DEF w, v
<1>10. Ids(w, "call") = IdsIn(r, "tool_use")
    <2>1. ASSUME NEW e \in Ids(w, "call") PROVE e \in IdsIn(r, "tool_use")
        <3>1. PICK x \in 1..Len(w) : e = w[x].id
            BY DEF Ids
        <3>2. PICK j \in 1..n : Len(c[j]) = 1 /\ w[x] = c[j][1]
            BY <1>9 DEF OnesIn
        <3>3. r.content[j].type = "tool_use" /\ e = r.content[j].id
            BY <1>3, <1>7, <3>1, <3>2
        <3> QED BY <3>3 DEF IdsIn
    <2>2. ASSUME NEW e \in IdsIn(r, "tool_use") PROVE e \in Ids(w, "call")
        <3>1. PICK j \in 1..n : r.content[j].type = "tool_use" /\ e = r.content[j].id
            BY DEF IdsIn
        <3>2. PICK x \in 1..Len(w) : w[x] = c[j][1]
            BY <1>7, <1>9, <3>1 DEF OnesIn
        <3>3. w[x].w = "call" /\ w[x].id = e
            BY <1>3, <1>7, <3>1, <3>2
        <3> QED BY <3>3 DEF Ids
    <2> QED BY <2>1, <2>2
<1>11. Ids(v, "result") = IdsIn(r, "tool_result")
    <2>1. ASSUME NEW e \in Ids(v, "result") PROVE e \in IdsIn(r, "tool_result")
        <3>1. PICK x \in 1..Len(v) : e = v[x].id
            BY DEF Ids
        <3>2. PICK j \in 1..n : Len(d[j]) = 1 /\ v[x] = d[j][1]
            BY <1>9 DEF OnesIn
        <3>3. r.content[j].type = "tool_result" /\ e = r.content[j].id
            BY <1>3, <1>7, <3>1, <3>2
        <3> QED BY <3>3 DEF IdsIn
    <2>2. ASSUME NEW e \in IdsIn(r, "tool_result") PROVE e \in Ids(v, "result")
        <3>1. PICK j \in 1..n : r.content[j].type = "tool_result" /\ e = r.content[j].id
            BY DEF IdsIn
        <3>2. PICK x \in 1..Len(v) : v[x] = d[j][1]
            BY <1>7, <1>9, <3>1 DEF OnesIn
        <3>3. v[x].w = "result" /\ v[x].id = e
            BY <1>3, <1>7, <3>1, <3>2
        <3> QED BY <3>3 DEF Ids
    <2> QED BY <2>1, <2>2
<1> QED BY <1>2, <1>9, <1>10, <1>11 DEF w, v

\* What anthropic's blocks are for a row, with the tools declared or without.
LEMMA BlockItems ==
    ASSUME NEW r \in StoredRows
    PROVE  /\ ToolBlocks(r, TRUE) = Results(r) /\ ToolBlocks(r, FALSE) \in Seq(Inert)
           /\ ReplyBlocks(r, FALSE) \in Seq(Inert)
<1> DEFINE n == Len(r.content)
           e == [j \in 1..n |->
                   IF r.content[j].type = "tool_result" THEN <<Text>> ELSE <<>>]
           f == [j \in 1..n |->
                   IF r.content[j].type = "text" THEN <<Text>>
                   ELSE IF r.content[j].type = "tool_use" THEN <<Text>> ELSE <<>>]
<1>1. DOMAIN r.content = 1..n /\ n \in Nat
    BY BlocksOf
<1>2. ToolBlocks(r, TRUE) = Results(r)
    BY DEF ToolBlocks, Results, FlattenToolBlock
<1>3. ToolBlocks(r, FALSE) = FlattenSeq(e) /\ ReplyBlocks(r, FALSE) = FlattenSeq(f)
    BY <1>1 DEF ToolBlocks, ReplyBlocks, FlattenToolBlock
<1>4. <<Text>> \in Seq(Inert) /\ <<>> \in Seq(Inert)
    <2>1. Text \in Plain
        BY ItemTypes
    <2>2. Text \in Inert
        BY <2>1 DEF Plain, Inert, Text, Item
    <2> QED BY <2>2
<1>5. e \in [1..n -> Seq(Inert)] /\ f \in [1..n -> Seq(Inert)]
    BY <1>4
<1> HIDE DEF e, f, n
<1>6. FlattenSeq(e) \in Seq(Inert) /\ FlattenSeq(f) \in Seq(Inert)
    BY <1>1, <1>5, FlattenIn
<1> QED BY <1>2, <1>3, <1>6

\* An assistant's blocks, the tools declared: its calls come last.
LEMMA ReplySends ==
    ASSUME NEW r \in StoredRows, CallsEnd(r)
    PROVE  Sends(ReplyBlocks(r, TRUE), IdsIn(r, "tool_use"), {})
<1> DEFINE n == Len(r.content)
           A == {Text} \union CallItems
           text(j) == r.content[j].type = "text"
           call(j) == r.content[j].type = "tool_use"
           g == [j \in 1..n |-> IF text(j) THEN <<Text>>
                                ELSE IF call(j) THEN <<Call(r.content[j])>> ELSE <<>>]
           w == FlattenSeq(g)
<1>1. DOMAIN r.content = 1..n /\ n \in Nat /\ \A j \in 1..n : r.content[j] \in Blocks
    BY BlocksOf
<1>2. ReplyBlocks(r, TRUE) = w
    BY <1>1 DEF ReplyBlocks, FlattenToolBlock
<1>3. /\ Text \in Items /\ Text.w = "text"
      /\ \A j \in 1..n : /\ Call(r.content[j]) \in CallItems
                         /\ Call(r.content[j]).w = "call"
                         /\ Call(r.content[j]).id = r.content[j].id
    <2>1. Text \in Plain /\ \A j \in 1..n : Call(r.content[j]) \in Plain
        BY <1>1, ItemTypes
    <2> QED BY <2>1 DEF Plain, CallItems, Call, Text, Item
<1>4. <<>> \in Seq(A) /\ \A x \in A : <<x>> \in Seq(A)
    OBVIOUS
<1>5. g \in [1..n -> Seq(A)]
    BY <1>3, <1>4
<1>6. ASSUME NEW j \in 1..n
      PROVE  /\ Len(g[j]) \in {0, 1}
             /\ Len(g[j]) = 1 => \/ text(j) /\ g[j][1] = Text
                                 \/ call(j) /\ g[j][1] = Call(r.content[j])
             /\ call(j) => Len(g[j]) = 1 /\ g[j][1] = Call(r.content[j])
    <2>1. g[j] = IF text(j) THEN <<Text>>
                 ELSE IF call(j) THEN <<Call(r.content[j])>> ELSE <<>>
        OBVIOUS
    <2>2. text(j) => ~call(j)
        OBVIOUS
    <2> HIDE DEF g, text, call
    <2>3. CASE text(j)
        <3>1. g[j] = <<Text>>
            BY <2>1, <2>3
        <3> QED BY <2>2, <2>3, <3>1, Single
    <2>4. CASE ~text(j) /\ call(j)
        <3>1. g[j] = <<Call(r.content[j])>>
            BY <2>1, <2>4
        <3> QED BY <2>4, <3>1, Single
    <2>5. CASE ~text(j) /\ ~call(j)
        <3>1. g[j] = <<>>
            BY <2>1, <2>5
        <3> QED BY <2>5, <3>1, Single
    <2> QED BY <2>3, <2>4, <2>5
<1>7. Ones(g, n)
    BY <1>6 DEF Ones
<1> HIDE DEF g, A
<1>8. w \in Seq(A) /\ OnesIn(w, g, n)
    <2> HIDE DEF n
    <2> QED BY <1>1, <1>5, <1>7, FlattenOnes
<1> HIDE DEF w
<1>9. ASSUME NEW x \in 1..Len(w) PROVE w[x] = Text \/ \E j \in 1..n : call(j) /\ w[x] = Call(r.content[j])
    <2>1. PICK j \in 1..n : Len(g[j]) = 1 /\ w[x] = g[j][1]
        BY <1>8 DEF OnesIn
    <2> QED BY <1>6, <2>1
<1>10. w \in Seq(Items) /\ Len(w) \in Nat
    BY <1>3, <1>8 DEF A, CallItems
<1>11. \A x \in 1..Len(w) : w[x].w # "result"
    BY <1>3, <1>9
<1>12. Ids(w, "result") = {} /\ ResultsFirst(w)
    BY <1>11 DEF Ids, ResultsFirst
<1>13. Ids(w, "call") = IdsIn(r, "tool_use")
    <2>1. ASSUME NEW d \in Ids(w, "call") PROVE d \in IdsIn(r, "tool_use")
        <3>1. PICK x \in 1..Len(w) : d = w[x].id /\ w[x].w = "call"
            BY DEF Ids
        <3>2. PICK j \in 1..n : call(j) /\ w[x] = Call(r.content[j])
            BY <1>3, <1>9, <3>1
        <3> QED BY <1>3, <3>1, <3>2 DEF IdsIn
    <2>2. ASSUME NEW d \in IdsIn(r, "tool_use") PROVE d \in Ids(w, "call")
        <3>1. PICK j \in 1..n : call(j) /\ d = r.content[j].id
            BY DEF IdsIn
        <3>2. PICK x \in 1..Len(w) : w[x] = g[j][1]
            BY <1>6, <1>8, <3>1 DEF OnesIn
        <3>3. w[x].w = "call" /\ w[x].id = d
            BY <1>3, <1>6, <3>1, <3>2
        <3> QED BY <3>3 DEF Ids
    <2> QED BY <2>1, <2>2
<1>14. CallsLast(w)
    <2> SUFFICES ASSUME NEW x \in 1..Len(w), NEW y \in 1..Len(w), x < y, w[x].w = "call"
                 PROVE  w[y].w = "call"
        BY DEF CallsLast
    <2>1. PICK i \in 1..n, j \in 1..n :
             i < j /\ Len(g[i]) = 1 /\ Len(g[j]) = 1 /\ w[x] = g[i][1] /\ w[y] = g[j][1]
        BY <1>8 DEF OnesIn
    <2>2. call(i)
        BY <1>3, <1>6, <2>1
    <2>3. call(j)
        BY <2>1, <2>2 DEF CallsEnd
    <2> QED BY <1>3, <1>6, <2>1, <2>3
<1>15. Sends(w, IdsIn(r, "tool_use"), {})
    BY <1>10, <1>12, <1>13, <1>14 DEF Sends
<1> QED BY <1>2, <1>15

LEMMA InertItems ==
    /\ \A role \in {"user", "assistant", "system"} :
          Start(role) \in Inert /\ <<Start(role)>> \in Seq(Inert)
          /\ <<Start(role), Text>> \in Seq(Inert)
    /\ <<Text>> \in Seq(Inert) /\ <<>> \in Seq(Inert)
<1>1. Text \in Inert /\ \A role \in {"user", "assistant", "system"} : Start(role) \in Inert
    BY ItemTypes DEF Plain, Inert, Text, Start, Item
<1> QED BY <1>1

LEMMA InertConcat ==
    ASSUME NEW a \in Seq(Inert), NEW b \in Seq(Inert)
    PROVE  a \o b \in Seq(Inert)
OBVIOUS

LEMMA UserMessageInert ==
    ASSUME NEW h \in Seq(StoredRows), NEW i \in DOMAIN h, GoodLabels(h), h[i].role = "user",
           NEW seeing \in BOOLEAN
    PROVE  UserMessage(h, i, seeing) \in Seq(Inert)
<1>1. Notes(h, i, seeing) \in Seq(RightNotes) /\ Pictures(h[i], seeing) \in Seq(Shots)
    BY NotesAndPictures
<1>2. Notes(h, i, seeing) \in Seq(Inert) /\ Pictures(h[i], seeing) \in Seq(Inert)
    <2>1. RightNotes \subseteq Inert /\ Shots \subseteq Inert
        BY DEF RightNotes, Shots, Inert
    <2> QED BY <1>1, <2>1
<1> DEFINE a == IF HasText(h[i]) THEN <<Text>> ELSE <<>>
           b == Notes(h, i, seeing)
           c == Pictures(h[i], seeing)
<1>3. a \in Seq(Inert) /\ b \in Seq(Inert) /\ c \in Seq(Inert)
    BY <1>2, InertItems
<1>4. UserMessage(h, i, seeing) = (a \o b) \o c
    BY DEF UserMessage
<1> HIDE DEF a, b, c
<1>5. a \o b \in Seq(Inert)
    BY <1>3, InertConcat
<1>6. (a \o b) \o c \in Seq(Inert)
    BY <1>3, <1>5, InertConcat
<1> QED BY <1>4, <1>6

\* The notes and the pictures that alternate.
LEMMA ResponsesMediaInert ==
    ASSUME NEW h \in Seq(StoredRows), NEW i \in DOMAIN h, GoodLabels(h), h[i].role = "user",
           NEW seeing \in BOOLEAN
    PROVE  ResponsesMedia(h, i, seeing) \in Seq(Inert)
<1> DEFINE n == Len(h[i].content)
           d == [j \in 1..n |->
                   IF h[i].content[j].type \in LabeledKinds
                   THEN <<Note(h, i, j, seeing)>>
                        \o IF Url(seeing, h[i].content[j]) THEN <<Picture(h[i].content[j])>> ELSE <<>>
                   ELSE <<>>]
<1>0. h[i] \in StoredRows
    OBVIOUS
<1>1. /\ DOMAIN h[i].content = 1..n /\ n \in Nat
      /\ \A j \in 1..n : h[i].content[j] \in Blocks
    BY <1>0, BlocksOf
<1>2. ResponsesMedia(h, i, seeing) = FlattenSeq(d)
    BY <1>1 DEF ResponsesMedia
<1>3. ASSUME NEW j \in 1..n, h[i].content[j].type \in LabeledKinds
      PROVE  Note(h, i, j, seeing) \in Inert /\ Picture(h[i].content[j]) \in Inert
    <2>1. h[i].content[j] \in Blocks /\ h[i].content[j].id \in Nat
        BY <1>1 DEF Blocks
    <2>2. Picture(h[i].content[j]) \in Shots
        BY <1>3, <2>1, ItemTypes
    <2>3. Label(h, i, j) = h[i].content[j].id
        BY <1>1, <1>3 DEF GoodLabels
    <2>4. Url(seeing, h[i].content[j]) \in BOOLEAN
        BY DEF Url
    <2>5. Note(h, i, j, seeing) \in Inert
        BY <1>3, <2>1, <2>3, <2>4 DEF Note, Item, Inert, Items
    <2> QED BY <2>2, <2>5 DEF Shots, Inert
<1>4. \A j \in 1..n : d[j] \in Seq(Inert)
    <2> SUFFICES ASSUME NEW j \in 1..n PROVE d[j] \in Seq(Inert)
        OBVIOUS
    <2> DEFINE a == <<Note(h, i, j, seeing)>>
               b == IF Url(seeing, h[i].content[j]) THEN <<Picture(h[i].content[j])>> ELSE <<>>
    <2>1. CASE h[i].content[j].type \in LabeledKinds
        <3>1. d[j] = a \o b
            BY <2>1
        <3>2. a \in Seq(Inert) /\ b \in Seq(Inert)
            BY <1>3, <2>1
        <3> HIDE DEF a, b, d
        <3> QED BY <3>1, <3>2, InertConcat
    <2>2. CASE h[i].content[j].type \notin LabeledKinds
        BY <2>2, InertItems
    <2> QED BY <2>1, <2>2
<1>5. d \in [1..n -> Seq(Inert)]
    BY <1>4
<1> HIDE DEF d, n
<1> QED BY <1>1, <1>2, <1>5, FlattenIn

\* The results of a row and then what is no call and no result.
LEMMA ResultsThen ==
    ASSUME NEW r \in StoredRows, NEW b \in Seq(Inert), IdsIn(r, "tool_use") = {}
    PROVE  Sends(Results(r) \o b, IdsIn(r, "tool_use"), IdsIn(r, "tool_result"))
<1> DEFINE a == Results(r)
<1>1. a \in Seq(ResultItems) /\ Ids(a, "result") = IdsIn(r, "tool_result")
    BY RowItems
<1> HIDE DEF a
<1>2. Sends(a \o b, {}, Ids(a, "result"))
    BY <1>1, SendsResults
<1> QED BY <1>1, <1>2 DEF a

\* What is no call and no result and then the calls of a row.
LEMMA ThenCalls ==
    ASSUME NEW r \in StoredRows, NEW a \in Seq(Inert), IdsIn(r, "tool_result") = {}
    PROVE  Sends(a \o Calls(r), IdsIn(r, "tool_use"), IdsIn(r, "tool_result"))
<1> DEFINE b == Calls(r)
<1>1. b \in Seq(CallItems) /\ Ids(b, "call") = IdsIn(r, "tool_use")
    BY RowItems
<1> HIDE DEF b
<1>2. Sends(a \o b, Ids(b, "call"), {})
    BY <1>1, SendsCalls, SendsAfter
<1> QED BY <1>1, <1>2 DEF b

\* Who has calls, who has results.
LEMMA WhoseIds ==
    ASSUME NEW r \in StoredRows, WellKept(r)
    PROVE  /\ IsCompaction(r) => IdsIn(r, "tool_use") = {} /\ IdsIn(r, "tool_result") = {}
           /\ r.role = "user" => IdsIn(r, "tool_use") = {}
           /\ r.role # "user" => IdsIn(r, "tool_result") = {}
<1>1. ASSUME IsCompaction(r) PROVE IdsIn(r, "tool_use") = {} /\ IdsIn(r, "tool_result") = {}
    <2>1. \A j \in 1..Len(r.content) : r.content[j].type = "compaction"
        BY <1>1 DEF WellKept, TypesIn
    <2> QED BY <2>1 DEF IdsIn
<1> QED BY <1>1 DEF WellKept

\* A row is sent as its calls and its results, by every provider.
LEMMA OpenAIMessageSends ==
    ASSUME NEW h \in Seq(StoredRows), NEW i \in DOMAIN h, GoodLabels(h), WellKept(h[i]),
           NEW seeing \in BOOLEAN
    PROVE  Sends(OpenAIMessage(h, i, seeing), IdsIn(h[i], "tool_use"), IdsIn(h[i], "tool_result"))
<1> DEFINE r == h[i]
           p == OpenAIMessage(h, i, seeing)
<1>1. r \in StoredRows /\ WellKept(r)
    OBVIOUS
<1>2. /\ IsCompaction(r) => IdsIn(r, "tool_use") = {} /\ IdsIn(r, "tool_result") = {}
      /\ r.role = "user" => IdsIn(r, "tool_use") = {}
      /\ r.role # "user" => IdsIn(r, "tool_result") = {}
    <2> HIDE DEF r
    <2> QED BY <1>1, WhoseIds
<1>3. CASE IsCompaction(r)
    <2>1. p = <<Start("user"), Text>>
        BY <1>3 DEF OpenAIMessage
    <2>2. p \in Seq(Inert)
        BY <2>1, InertItems
    <2> HIDE DEF p, r
    <2> QED BY <1>2, <1>3, <2>2, SendsInert DEF p, r
<1>4. CASE ~IsCompaction(r) /\ r.role = "user"
    <2> DEFINE s == <<Start("user")>>
               u == UserMessage(h, i, seeing)
               b == IF HasText(r) \/ HasMedia(r) THEN s \o u ELSE <<>>
    <2>1. p = Results(r) \o b
        BY <1>4 DEF OpenAIMessage
    <2>2. s \in Seq(Inert) /\ u \in Seq(Inert) /\ <<>> \in Seq(Inert)
        BY <1>4, InertItems, UserMessageInert
    <2> HIDE DEF s, u
    <2>3. s \o u \in Seq(Inert)
        BY <2>2, InertConcat
    <2>4. b \in Seq(Inert)
        BY <2>2, <2>3
    <2> HIDE DEF b, p, r
    <2>5. Sends(Results(r) \o b, IdsIn(r, "tool_use"), IdsIn(r, "tool_result"))
        BY <1>1, <1>2, <1>4, <2>4, ResultsThen
    <2> QED BY <2>1, <2>5 DEF p, r
<1>5. CASE ~IsCompaction(r) /\ r.role # "user"
    <2> DEFINE s == <<Start("assistant")>>
               u == IF HasText(r) THEN <<Text>> ELSE <<>>
               a == s \o u
    <2>1. p = a \o Calls(r)
        BY <1>5 DEF OpenAIMessage
    <2>2. s \in Seq(Inert) /\ u \in Seq(Inert)
        BY InertItems
    <2> HIDE DEF s, u
    <2>3. a \in Seq(Inert)
        BY <2>2, InertConcat
    <2> HIDE DEF a, p, r
    <2>4. Sends(a \o Calls(r), IdsIn(r, "tool_use"), IdsIn(r, "tool_result"))
        BY <1>1, <1>2, <1>5, <2>3, ThenCalls
    <2> QED BY <2>1, <2>4 DEF p, r
<1> QED BY <1>3, <1>4, <1>5

LEMMA ResponsesItemsSend ==
    ASSUME NEW h \in Seq(StoredRows), NEW i \in DOMAIN h, GoodLabels(h), WellKept(h[i]),
           NEW seeing \in BOOLEAN
    PROVE  Sends(ResponsesItems(h, i, seeing), IdsIn(h[i], "tool_use"), IdsIn(h[i], "tool_result"))
<1> DEFINE r == h[i]
           p == ResponsesItems(h, i, seeing)
<1>1. r \in StoredRows /\ WellKept(r)
    OBVIOUS
<1>2. /\ IsCompaction(r) => IdsIn(r, "tool_use") = {} /\ IdsIn(r, "tool_result") = {}
      /\ r.role = "user" => IdsIn(r, "tool_use") = {}
      /\ r.role # "user" => IdsIn(r, "tool_result") = {}
    <2> HIDE DEF r
    <2> QED BY <1>1, WhoseIds
<1>3. CASE IsCompaction(r)
    <2>1. p = <<Start("user"), Text>>
        BY <1>3 DEF ResponsesItems
    <2>2. p \in Seq(Inert)
        BY <2>1, InertItems
    <2> HIDE DEF p, r
    <2> QED BY <1>2, <1>3, <2>2, SendsInert DEF p, r
<1>4. CASE ~IsCompaction(r) /\ r.role = "user"
    <2> DEFINE s == <<Start("user")>>
               t == IF HasText(r) THEN <<Text>> ELSE <<>>
               u == ResponsesMedia(h, i, seeing)
               b == IF HasText(r) \/ HasMedia(r) THEN (s \o t) \o u ELSE <<>>
    <2>1. p = Results(r) \o b
        BY <1>4 DEF ResponsesItems
    <2>2. s \in Seq(Inert) /\ t \in Seq(Inert) /\ u \in Seq(Inert) /\ <<>> \in Seq(Inert)
        BY <1>4, InertItems, ResponsesMediaInert
    <2> HIDE DEF s, t, u
    <2>3. s \o t \in Seq(Inert)
        BY <2>2, InertConcat
    <2>4. (s \o t) \o u \in Seq(Inert)
        BY <2>2, <2>3, InertConcat
    <2>5. b \in Seq(Inert)
        BY <2>2, <2>4
    <2> HIDE DEF b, p, r
    <2>6. Sends(Results(r) \o b, IdsIn(r, "tool_use"), IdsIn(r, "tool_result"))
        BY <1>1, <1>2, <1>4, <2>5, ResultsThen
    <2> QED BY <2>1, <2>6 DEF p, r
<1>5. CASE ~IsCompaction(r) /\ r.role # "user"
    <2> DEFINE a == IF HasText(r) THEN <<Start("assistant"), Text>> ELSE <<>>
    <2>1. p = a \o Calls(r)
        BY <1>5 DEF ResponsesItems
    <2>2. a \in Seq(Inert)
        BY InertItems
    <2> HIDE DEF a, p, r
    <2>3. Sends(a \o Calls(r), IdsIn(r, "tool_use"), IdsIn(r, "tool_result"))
        BY <1>1, <1>2, <1>5, <2>2, ThenCalls
    <2> QED BY <2>1, <2>3 DEF p, r
<1> QED BY <1>3, <1>4, <1>5

\* Without tools anthropic is sent no call and no result.
LEMMA AnthropicMessageSends ==
    ASSUME NEW h \in Seq(StoredRows), NEW i \in DOMAIN h, GoodLabels(h), WellKept(h[i]),
           NEW seeing \in BOOLEAN
    PROVE  /\ Sends(AnthropicMessage(h, i, seeing, TRUE), IdsIn(h[i], "tool_use"),
                    IdsIn(h[i], "tool_result"))
           /\ AnthropicMessage(h, i, seeing, FALSE) \in Seq(Inert)
<1> DEFINE r == h[i]
           p == AnthropicMessage(h, i, seeing, TRUE)
           q == AnthropicMessage(h, i, seeing, FALSE)
           u == UserMessage(h, i, seeing)
<1>1. r \in StoredRows /\ WellKept(r) /\ r.role \in {"user", "assistant", "system"}
    <2>1. r \in StoredRows
        OBVIOUS
    <2> QED BY <2>1, BlocksOf
<1>2. /\ IsCompaction(r) => IdsIn(r, "tool_use") = {} /\ IdsIn(r, "tool_result") = {}
      /\ r.role = "user" => IdsIn(r, "tool_use") = {}
      /\ r.role # "user" => IdsIn(r, "tool_result") = {}
    <2> HIDE DEF r
    <2> QED BY <1>1, WhoseIds
<1>3. /\ ToolBlocks(r, TRUE) = Results(r) /\ ToolBlocks(r, FALSE) \in Seq(Inert)
      /\ ReplyBlocks(r, FALSE) \in Seq(Inert)
    <2> HIDE DEF r
    <2> QED BY <1>1, BlockItems
<1>4. CASE IsCompaction(r)
    <2>1. p \in {<<Start("assistant")>>, <<Start("user"), Text>>} /\ q = p
        BY <1>4 DEF AnthropicMessage
    <2>2. p \in Seq(Inert)
        BY <2>1, InertItems
    <2>3. q \in Seq(Inert)
        BY <2>1, <2>2
    <2> HIDE DEF p, q, r
    <2>4. Sends(p, {}, {})
        BY <2>2, SendsInert
    <2> QED BY <1>2, <1>4, <2>3, <2>4 DEF p, q, r
<1>5. CASE ~IsCompaction(r) /\ r.role = "user"
    <2> DEFINE s == <<Start("user")>>
               a == Results(r) \o u
               b == ToolBlocks(r, FALSE) \o u
    <2>1. /\ p = IF a = <<>> THEN <<>> ELSE s \o a
          /\ q = IF b = <<>> THEN <<>> ELSE s \o b
        BY <1>3, <1>5 DEF AnthropicMessage
    <2>2. u \in Seq(Inert) /\ s \in Seq(Inert) /\ <<>> \in Seq(Inert)
        BY <1>5, InertItems, UserMessageInert
    <2>3. s \in Seq({Start("user")})
        OBVIOUS
    <2> HIDE DEF p, q, r, u, s
    <2>4. Sends(a, {}, IdsIn(r, "tool_result"))
        <3>1. IdsIn(r, "tool_use") = {}
            BY <1>2, <1>5
        <3>2. Sends(a, IdsIn(r, "tool_use"), IdsIn(r, "tool_result"))
            BY <1>1, <2>2, <3>1, ResultsThen
        <3> QED BY <3>1, <3>2
    <2>5. b \in Seq(Inert)
        BY <1>3, <2>2, InertConcat
    <2> HIDE DEF a, b
    <2>6. Sends(s \o a, {}, IdsIn(r, "tool_result"))
        BY <2>3, <2>4, SendsStart
    <2>7. Sends(p, {}, IdsIn(r, "tool_result"))
        BY <2>1, <2>4, <2>6
    <2>8. s \o b \in Seq(Inert)
        BY <2>2, <2>5, InertConcat
    <2>9. q \in Seq(Inert)
        BY <2>1, <2>2, <2>8
    <2> QED BY <1>2, <1>5, <2>7, <2>9 DEF p, q, r
<1>6. CASE ~IsCompaction(r) /\ r.role # "user"
    <2> DEFINE s == <<Start(r.role)>>
               a == ReplyBlocks(r, TRUE)
               b == ReplyBlocks(r, FALSE)
    <2>1. /\ p = IF a = <<>> THEN <<>> ELSE s \o a
          /\ q = IF b = <<>> THEN <<>> ELSE s \o b
        BY <1>6 DEF AnthropicMessage
    <2>2. s \in Seq(Inert) /\ <<>> \in Seq(Inert) /\ b \in Seq(Inert)
        BY <1>1, <1>3, InertItems
    <2> HIDE DEF p, q, r, s, b
    <2>3. s \o b \in Seq(Inert)
        BY <2>2, InertConcat
    <2>4. q \in Seq(Inert)
        BY <2>1, <2>2, <2>3
    <2>5. Sends(a, IdsIn(r, "tool_use"), {})
        BY <1>1, ReplySends DEF WellKept
    <2> HIDE DEF a
    <2>6. Sends(s \o a, IdsIn(r, "tool_use"), {})
        BY <2>2, <2>5, SendsAfter
    <2>7. Sends(p, IdsIn(r, "tool_use"), {})
        BY <2>1, <2>5, <2>6
    <2> QED BY <1>2, <1>6, <2>4, <2>7 DEF p, q, r
<1> QED BY <1>4, <1>5, <1>6

\* Every call of a history that has a result is answered in a later row, the next
\* if strict, and every result answers an earlier one.
RowsPaired(h, strict) ==
    \A i \in 1..Len(h) :
        /\ \A d \in IdsIn(h[i], "tool_use") \ Abandoned : \E j \in 1..Len(h) :
              i < j /\ d \in IdsIn(h[j], "tool_result") /\ (strict => j = i + 1)
        /\ \A d \in IdsIn(h[i], "tool_result") : \E j \in 1..Len(h) :
              j < i /\ d \in IdsIn(h[j], "tool_use")

\* One part for each row.
SentAs(ss, h) ==
    \A i \in 1..Len(h) : Sends(ss[i], IdsIn(h[i], "tool_use"), IdsIn(h[i], "tool_result"))

LEMMA SentPaired ==
    ASSUME NEW strict \in BOOLEAN, NEW h \in Seq(StoredRows), NEW ss \in [1..Len(h) -> Seq(Items)],
           RowsPaired(h, strict), SentAs(ss, h)
    PROVE  FlattenSeq(ss) \in Pairs(strict)
<1> DEFINE n == Len(h)
<1>1. n \in Nat
    OBVIOUS
<1>2. \A i \in 1..n : /\ Ids(ss[i], "call") = IdsIn(h[i], "tool_use")
                      /\ Ids(ss[i], "result") = IdsIn(h[i], "tool_result")
                      /\ CallsLast(ss[i]) /\ ResultsFirst(ss[i])
    BY DEF SentAs, Sends
<1>3. PartsPaired(ss, n, strict)
    <2>1. ASSUME NEW i \in 1..n, NEW d \in Ids(ss[i], "call") \ Abandoned
          PROVE  \E j \in 1..n : /\ i < j /\ d \in Ids(ss[j], "result")
                                 /\ strict => j = i + 1 /\ CallsLast(ss[i]) /\ ResultsFirst(ss[j])
        <3>1. d \in IdsIn(h[i], "tool_use") \ Abandoned
            BY <1>2
        <3>2. PICK j \in 1..n : /\ i < j /\ d \in IdsIn(h[j], "tool_result")
                                /\ strict => j = i + 1
            BY <3>1 DEF RowsPaired
        <3> QED BY <1>2, <3>2
    <2>2. ASSUME NEW i \in 1..n, NEW d \in Ids(ss[i], "result")
          PROVE  \E j \in 1..n : j < i /\ d \in Ids(ss[j], "call")
        <3>1. d \in IdsIn(h[i], "tool_result")
            BY <1>2
        <3>2. PICK j \in 1..n : j < i /\ d \in IdsIn(h[j], "tool_use")
            BY <3>1 DEF RowsPaired
        <3> QED BY <1>2, <3>2
    <2> QED BY <2>1, <2>2 DEF PartsPaired
<1>4. ss \in [1..n -> Seq(Items)]
    OBVIOUS
<1> HIDE DEF n
<1> QED BY <1>1, <1>3, <1>4, FlattenPaired

PairedRows(h, strict) ==
    /\ h \in Seq(StoredRows) /\ GoodLabels(h) /\ RowsPaired(h, strict)
    /\ \A i \in 1..Len(h) : WellKept(h[i])

LEMMA MessagesPaired ==
    ASSUME NEW strict \in BOOLEAN, NEW h, PairedRows(h, strict), NEW seeing \in BOOLEAN
    PROVE  /\ OpenAIMessages(h, seeing) \in Pairs(strict)
           /\ ResponsesInput(h, seeing) \in Pairs(strict)
           /\ AnthropicMessages(h, seeing, TRUE) \in Pairs(strict)
           /\ AnthropicMessages(h, seeing, FALSE) \in Pairs(strict)
<1> DEFINE n == Len(h)
           a == [i \in 1..n |-> OpenAIMessage(h, i, seeing)]
           b == [i \in 1..n |-> ResponsesItems(h, i, seeing)]
           c == [i \in 1..n |-> AnthropicMessage(h, i, seeing, TRUE)]
           d == [i \in 1..n |-> AnthropicMessage(h, i, seeing, FALSE)]
<1>1. /\ h \in Seq(StoredRows) /\ GoodLabels(h) /\ RowsPaired(h, strict)
      /\ n \in Nat /\ DOMAIN h = 1..n
      /\ \A i \in 1..n : WellKept(h[i])
    BY DEF PairedRows
<1>2. /\ OpenAIMessages(h, seeing) = FlattenSeq(a) /\ ResponsesInput(h, seeing) = FlattenSeq(b)
      /\ AnthropicMessages(h, seeing, TRUE) = FlattenSeq(c)
      /\ AnthropicMessages(h, seeing, FALSE) = FlattenSeq(d)
    BY <1>1 DEF OpenAIMessages, ResponsesInput, AnthropicMessages
<1>3. \A i \in 1..n :
         /\ Sends(OpenAIMessage(h, i, seeing), IdsIn(h[i], "tool_use"), IdsIn(h[i], "tool_result"))
         /\ Sends(ResponsesItems(h, i, seeing), IdsIn(h[i], "tool_use"), IdsIn(h[i], "tool_result"))
         /\ Sends(AnthropicMessage(h, i, seeing, TRUE), IdsIn(h[i], "tool_use"),
                  IdsIn(h[i], "tool_result"))
         /\ AnthropicMessage(h, i, seeing, FALSE) \in Seq(Inert)
    <2> HIDE DEF n
    <2> QED BY <1>1, OpenAIMessageSends, ResponsesItemsSend, AnthropicMessageSends
<1>4. \A i \in 1..n : a[i] = OpenAIMessage(h, i, seeing) /\ b[i] = ResponsesItems(h, i, seeing)
                      /\ c[i] = AnthropicMessage(h, i, seeing, TRUE)
    OBVIOUS
<1>5. SentAs(a, h) /\ SentAs(b, h) /\ SentAs(c, h)
    <2> HIDE DEF a, b, c
    <2> QED BY <1>3, <1>4 DEF SentAs
<1>6. /\ a \in [1..n -> Seq(Items)] /\ b \in [1..n -> Seq(Items)] /\ c \in [1..n -> Seq(Items)]
      /\ d \in [1..n -> Seq(Inert)]
    BY <1>3 DEF Sends
<1> HIDE DEF a, b, c, d
<1>7. /\ FlattenSeq(a) \in Pairs(strict) /\ FlattenSeq(b) \in Pairs(strict)
      /\ FlattenSeq(c) \in Pairs(strict)
    BY <1>1, <1>5, <1>6, SentPaired
<1>8. FlattenSeq(d) \in Seq(Inert)
    <2> HIDE DEF n
    <2> QED BY <1>1, <1>6, FlattenIn
<1>9. FlattenSeq(d) \in Pairs(strict)
    <2> DEFINE w == FlattenSeq(d)
    <2> HIDE DEF w
    <2>1. w \in Seq(Items) /\ Ids(w, "call") = {} /\ Ids(w, "result") = {}
        BY <1>8, InertIds DEF w
    <2>2. w \in Pairs(strict)
        BY <2>1, NoCallsPairs
    <2> QED BY <2>2 DEF w
<1> QED BY <1>2, <1>7, <1>9

\* What every provider is sent has the pairs of the rows.
LEMMA PayloadsPaired ==
    ASSUME NEW strict \in BOOLEAN, NEW h, PairedRows(h, strict), NEW w \in Payloads(h)
    PROVE  w \in Pairs(strict)
<1>1. \A seeing \in BOOLEAN :
         /\ OpenAIMessages(h, seeing) \in Pairs(strict)
         /\ ResponsesInput(h, seeing) \in Pairs(strict)
         /\ \A declared \in BOOLEAN : AnthropicMessages(h, seeing, declared) \in Pairs(strict)
    <2> SUFFICES ASSUME NEW seeing \in BOOLEAN
                 PROVE  /\ OpenAIMessages(h, seeing) \in Pairs(strict)
                        /\ ResponsesInput(h, seeing) \in Pairs(strict)
                        /\ \A declared \in BOOLEAN :
                              AnthropicMessages(h, seeing, declared) \in Pairs(strict)
        OBVIOUS
    <2>1. /\ OpenAIMessages(h, seeing) \in Pairs(strict)
          /\ ResponsesInput(h, seeing) \in Pairs(strict)
          /\ AnthropicMessages(h, seeing, TRUE) \in Pairs(strict)
          /\ AnthropicMessages(h, seeing, FALSE) \in Pairs(strict)
        BY MessagesPaired
    <2> QED BY <2>1
<1>2. \A seeing \in BOOLEAN : CLIMessage(h, seeing) \in Pairs(strict)
    BY <1>1, CLIPaired DEF CLIMessage
<1> QED BY <1>1, <1>2 DEF Payloads

-----------------------------------------------------------------------------
(* The stored rows keep their calls and results together.                  *)

\* A row of results answers all the calls of one earlier, complete row of its
\* node; in a chat, of the row before it.
AnswersOne(sc, rs, i) ==
    IdsIn(rs[i], "tool_result") # {} => \E j \in 1..Len(rs) :
        /\ j < i /\ IdsIn(rs[j], "tool_use") = IdsIn(rs[i], "tool_result")
        /\ rs[j].node = rs[i].node /\ ~rs[j].is_partial
        /\ sc = "chat" => j + 1 = i

\* A compaction ends before a row that is no result.
CutBetween(rs, i) ==
    IsCompaction(rs[i]) => /\ rs[i].mark.through < i
                           /\ IdsIn(rs[rs[i].mark.through + 1], "tool_result") = {}

\* Call ids are given out once.
OwnIds(rs, last, i) ==
    /\ IdsIn(rs[i], "tool_use") \subseteq 1..last
    /\ \A j \in 1..Len(rs) : j < i => IdsIn(rs[j], "tool_use") \intersect IdsIn(rs[i], "tool_use") = {}

RowReplied(sc, rs, last, i) ==
    WellKept(rs[i]) /\ AnswersOne(sc, rs, i) /\ CutBetween(rs, i) /\ OwnIds(rs, last, i)
Replied(sc, rs, last) == \A i \in 1..Len(rs) : RowReplied(sc, rs, last, i)

LEMMA StoreReplied ==
    ASSUME NEW sc, NEW rs \in Seq(StoredRows), NEW last \in Nat, NEW more \in Nat, last <= more,
           Replied(sc, rs, last), NEW r \in StoredRows,
           RowReplied(sc, Append(rs, r), more, Len(rs) + 1)
    PROVE  Replied(sc, Append(rs, r), more)
<1> DEFINE a == Append(rs, r)
           n == Len(rs)
<1>1. n \in Nat /\ Len(a) = n + 1 /\ \A i \in 1..n : a[i] = rs[i]
    BY AppendAt
<1> HIDE DEF a, n
<1>2. ASSUME NEW i \in 1..n PROVE RowReplied(sc, a, more, i)
    <2>1. i \in 1..Len(rs) /\ a[i] = rs[i]
        BY <1>1 DEF n
    <2>2. WellKept(rs[i]) /\ AnswersOne(sc, rs, i) /\ CutBetween(rs, i) /\ OwnIds(rs, last, i)
        BY <2>1 DEF Replied, RowReplied
    <2>3. AnswersOne(sc, a, i)
        <3> SUFFICES ASSUME IdsIn(rs[i], "tool_result") # {}
                     PROVE  \E j \in 1..Len(a) :
                               /\ j < i /\ IdsIn(a[j], "tool_use") = IdsIn(a[i], "tool_result")
                               /\ a[j].node = a[i].node /\ ~a[j].is_partial
                               /\ sc = "chat" => j + 1 = i
            BY <2>1 DEF AnswersOne
        <3>1. PICK j \in 1..n : /\ j < i /\ IdsIn(rs[j], "tool_use") = IdsIn(rs[i], "tool_result")
                                /\ rs[j].node = rs[i].node /\ ~rs[j].is_partial
                                /\ sc = "chat" => j + 1 = i
            BY <2>2 DEF AnswersOne, n
        <3>2. a[j] = rs[j] /\ j \in 1..Len(a)
            BY <1>1
        <3> QED BY <2>1, <3>1, <3>2
    <2>4. CutBetween(a, i)
        <3> SUFFICES ASSUME IsCompaction(rs[i])
                     PROVE  /\ rs[i].mark.through < i
                            /\ IdsIn(a[rs[i].mark.through + 1], "tool_result") = {}
            BY <2>1 DEF CutBetween
        <3>1. rs[i].mark.through < i /\ rs[i].mark.through \in Nat
            <4>1. rs[i] \in StoredRows
                BY <2>1
            <4>2. rs[i].mark \in Marks
                BY <4>1, BlocksOf
            <4> QED BY <2>2, <4>2 DEF CutBetween, Marks
        <3>2. rs[i].mark.through + 1 \in 1..n
            <4> DEFINE t == rs[i].mark.through
            <4>1. t < i /\ t \in Nat /\ i <= n /\ i \in Nat /\ n \in Nat
                BY <1>1, <3>1
            <4> HIDE DEF t
            <4>2. t + 1 \in 1..n
                BY <4>1
            <4> QED BY <4>2 DEF t
        <3> QED BY <1>1, <2>2, <3>1, <3>2 DEF CutBetween
    <2>5. OwnIds(a, more, i)
        <3>1. 1..last \subseteq 1..more
            OBVIOUS
        <3>2. ASSUME NEW j \in 1..Len(a), j < i
              PROVE  IdsIn(a[j], "tool_use") \intersect IdsIn(a[i], "tool_use") = {}
            <4>1. j \in 1..n /\ a[j] = rs[j]
                BY <1>1, <3>2
            <4> QED BY <2>1, <2>2, <3>2, <4>1 DEF OwnIds, n
        <3> QED BY <2>1, <2>2, <3>1, <3>2 DEF OwnIds
    <2> QED BY <2>1, <2>2, <2>3, <2>4, <2>5 DEF RowReplied
<1>3. RowReplied(sc, a, more, n + 1)
    BY DEF a, n
<1>4. \A i \in 1..Len(a) : i \in 1..n \/ i = n + 1
    BY <1>1
<1>5. Replied(sc, a, more)
    BY <1>2, <1>3, <1>4 DEF Replied
<1> QED BY <1>5 DEF a

\* A row without calls and results, and without a compaction, changes nothing.
Quiet(r) == \A j \in 1..Len(r.content) :
                r.content[j].type \notin {"tool_use", "tool_result", "compaction"}

LEMMA StoreQuiet ==
    ASSUME NEW sc, NEW rs \in Seq(StoredRows), NEW last \in Nat, Replied(sc, rs, last),
           NEW r \in StoredRows, Quiet(r)
    PROVE  Replied(sc, Append(rs, r), last)
<1> DEFINE a == Append(rs, r)
           n == Len(rs)
<1>1. a[n + 1] = r
    BY AppendAt
<1>2. /\ IdsIn(r, "tool_use") = {} /\ IdsIn(r, "tool_result") = {}
      /\ CallsEnd(r) /\ ~IsCompaction(r)
    <2>1. DOMAIN r.content = 1..Len(r.content)
        BY BlocksOf
    <2> QED BY <2>1 DEF Quiet, IdsIn, IsCompaction, CallsEnd
<1> HIDE DEF a
<1>3. RowReplied(sc, a, last, n + 1)
    BY <1>1, <1>2 DEF RowReplied, WellKept, AnswersOne, CutBetween, OwnIds
<1>4. RowReplied(sc, Append(rs, r), last, Len(rs) + 1)
    BY <1>3 DEF a
<1>5. last <= last
    OBVIOUS
<1> QED BY <1>4, <1>5, StoreReplied

LEMMA AppendedRow ==
    ASSUME NEW rs \in Seq(StoredRows), NEW r, Append(rs, r) \in Seq(StoredRows)
    PROVE  r \in StoredRows /\ Append(rs, r)[Len(rs) + 1] = r
<1>1. Append(rs, r)[Len(rs) + 1] = r /\ Len(rs) + 1 \in 1..Len(Append(rs, r))
    OBVIOUS
<1>2. Append(rs, r)[Len(rs) + 1] \in StoredRows
    BY <1>1
<1> QED BY <1>1, <1>2

LEMMA UserTurnReplied ==
    ASSUME WireTypeOK, Counted(scope, rows'), Replied(scope, rows, lastId),
           NEW kinds \in Seq(LabeledKinds), UserTurn(kinds)
    PROVE  Replied(scope, rows', lastId')
<1> DEFINE t == Block("text", 0)
           b == <<t>>
           m == Numbered(kinds)
           l == Len(kinds)
           c == b \o m
           r == Row("user", "own", FALSE, c, NoMark)
           A == {t} \union {m[x] : x \in 1..l}
<1>1. rows \in Seq(StoredRows) /\ l \in Nat /\ DOMAIN kinds = 1..l /\ lastId \in Nat
    BY DEF WireTypeOK
<1>2. rows' = Append(rows, r) /\ lastId' = lastId
    BY DEF UserTurn, Store
<1>3. r.content = c
    BY DEF Row
<1>4. t.type = "text" /\ \A x \in 1..l : m[x].type = kinds[x] /\ kinds[x] \in LabeledKinds
    BY <1>1 DEF Numbered, Block
<1>5. \A e \in A : e.type \in {"text", "image", "video"}
    BY <1>4 DEF LabeledKinds
<1>6. b \in Seq(A) /\ m \in Seq(A)
    <2>1. m = [x \in 1..l |-> m[x]]
        BY <1>1 DEF Numbered
    <2>2. b \in Seq(A)
        OBVIOUS
    <2> HIDE DEF m, l
    <2> QED BY <1>1, <2>1, <2>2
<1> HIDE DEF b, m, A, t
<1>7. c \in Seq(A)
    BY <1>6
<1>8. \A j \in 1..Len(c) : c[j].type \in {"text", "image", "video"}
    BY <1>5, <1>7
<1>9. Quiet(r)
    BY <1>3, <1>8 DEF Quiet
<1> HIDE DEF r, c
<1>10. r \in StoredRows
    <2>1. Append(rows, r) \in Seq(StoredRows)
        BY <1>2 DEF Counted
    <2> QED BY <1>1, <2>1, AppendedRow
<1>11. Replied(scope, Append(rows, r), lastId)
    BY <1>1, <1>9, <1>10, StoreQuiet
<1> QED BY <1>2, <1>11

LEMMA AssistantReplied ==
    ASSUME WireTypeOK, Counted(scope, rows'), Replied(scope, rows, lastId),
           NEW node \in Nodes, NEW said \in BOOLEAN, NEW n \in {0, 2}, NEW partial \in BOOLEAN,
           AssistantTurn(node, said, n, partial)
    PROVE  Replied(scope, rows', lastId')
<1> DEFINE k == Block("thinking", 0)
           t == Block("text", 0)
           a == <<k>>
           b == IF said THEN <<t>> ELSE <<>>
           m == NewCalls(n)
           c == (a \o b) \o m
           r == Row("assistant", node, partial, c, NoMark)
           A == {k, t} \union {m[x] : x \in 1..n}
<1>1. rows \in Seq(StoredRows) /\ lastId \in Nat
    BY DEF WireTypeOK
<1>2. rows' = Append(rows, r) /\ lastId' = lastId + n
    BY DEF AssistantTurn, Store
<1>3. r.content = c /\ r.role = "assistant"
    BY DEF Row
<1>4. /\ k.type = "thinking" /\ t.type = "text"
      /\ \A x \in 1..n : m[x].type = "tool_use" /\ m[x].id = lastId + x
    BY DEF NewCalls, Block
<1>5. a \o b \in Seq({k, t}) /\ a \o b \in Seq(A) /\ m \in Seq(A) /\ Len(m) = n
    <2>1. m = [x \in 1..n |-> m[x]] /\ n \in Nat
        BY DEF NewCalls
    <2>2. a \o b \in Seq({k, t}) /\ a \o b \in Seq(A)
        <3>1. k \in A /\ t \in A
            OBVIOUS
        <3> HIDE DEF A, k, t
        <3>2. ASSUME NEW B, k \in B, t \in B PROVE a \in Seq(B) /\ b \in Seq(B)
            <4>1. CASE said
                <5>1. b = <<t>>
                    BY <4>1
                <5> HIDE DEF b
                <5> QED BY <3>2, <5>1
            <4>2. CASE ~said
                <5>1. b = <<>>
                    BY <4>2
                <5> HIDE DEF b
                <5> QED BY <3>2, <5>1
            <4> QED BY <4>1, <4>2
        <3>3. a \in Seq({k, t}) /\ b \in Seq({k, t}) /\ a \in Seq(A) /\ b \in Seq(A)
            BY <3>1, <3>2
        <3> HIDE DEF a, b
        <3> QED BY <3>3
    <2>3. m \in Seq(A)
        <3>1. \A x \in 1..n : m[x] \in A
            OBVIOUS
        <3> HIDE DEF m, A
        <3> QED BY <2>1, <3>1
    <2> QED BY <2>1, <2>2, <2>3
<1> HIDE DEF m, k, t
<1>6. c \in Seq(A)
    BY <1>5
<1>c. CallsEnd(r)
    <2> DEFINE u == a \o b
    <2>1. u \in Seq({k, t}) /\ u \in Seq(A) /\ m \in Seq(A) /\ c = u \o m
        BY <1>5
    <2> HIDE DEF u, A, c
    <2>2. /\ Len(u) \in Nat /\ Len(m) = n
          /\ \A x \in 1..Len(u) : c[x] = u[x]
          /\ \A l \in 1..n : c[Len(u) + l] = m[l]
          /\ \A x \in 1..Len(c) : x \in 1..Len(u) \/ \E l \in 1..n : x = Len(u) + l
        <3>1. /\ Len(u) \in Nat
              /\ \A x \in 1..Len(u) : (u \o m)[x] = u[x]
              /\ \A l \in 1..Len(m) : (u \o m)[Len(u) + l] = m[l]
              /\ \A x \in 1..Len(u \o m) : x \in 1..Len(u) \/ \E l \in 1..Len(m) : x = Len(u) + l
            BY <2>1, ConcatAt
        <3> QED BY <1>5, <2>1, <3>1
    <2>3. \A x \in 1..Len(u) : u[x].type # "tool_use"
        <3>1. \A x \in 1..Len(u) : u[x] \in {k, t}
            BY <2>1
        <3>2. k.type # "tool_use" /\ t.type # "tool_use"
            BY <1>4
        <3> QED BY <3>1, <3>2
    <2> SUFFICES ASSUME NEW x \in 1..Len(c), NEW y \in 1..Len(c), x < y, c[x].type = "tool_use"
                 PROVE  c[y].type = "tool_use"
        BY <1>3 DEF CallsEnd
    <2>4. y \notin 1..Len(u)
        BY <2>2, <2>3
    <2>5. PICK l \in 1..n : y = Len(u) + l
        BY <2>2, <2>4
    <2> QED BY <1>4, <2>2, <2>5
<1> HIDE DEF a, b
<1> HIDE DEF c
<1>7. \A j \in 1..Len(r.content) : r.content[j] \in A
    BY <1>3, <1>6
<1> HIDE DEF r
<1>8. r \in StoredRows /\ Append(rows, r)[Len(rows) + 1] = r
    <2>1. Append(rows, r) \in Seq(StoredRows)
        BY <1>2 DEF Counted
    <2> QED BY <1>1, <2>1, AppendedRow
<1>9. CASE n = 0
    <2>1. Quiet(r)
        BY <1>4, <1>7, <1>9 DEF Quiet
    <2>2. Replied(scope, Append(rows, r), lastId)
        BY <1>1, <1>8, <2>1, StoreQuiet
    <2> QED BY <1>1, <1>2, <1>9, <2>2
<1>10. CASE n = 2
    <2> DEFINE last == lastId + 2
               w == Append(rows, r)
               o == Len(rows) + 1
    <2>1. \A j \in 1..Len(r.content) :
             /\ r.content[j].type \in {"thinking", "text", "tool_use"}
             /\ r.content[j].type = "tool_use" => r.content[j].id \in {lastId + 1, lastId + 2}
        <3>1. \A e \in A : /\ e.type \in {"thinking", "text", "tool_use"}
                           /\ e.type = "tool_use" => e.id \in {lastId + 1, lastId + 2}
            BY <1>4, <1>10
        <3> QED BY <1>7, <3>1
    <2>2. /\ IdsIn(r, "tool_result") = {}
          /\ IdsIn(r, "tool_use") \subseteq {lastId + 1, lastId + 2}
        BY <2>1 DEF IdsIn
    <2>3. ~IsCompaction(r)
        <3>1. DOMAIN r.content = 1..Len(r.content)
            BY <1>8, BlocksOf
        <3> QED BY <2>1, <3>1 DEF IsCompaction
    <2>4. WellKept(r)
        BY <1>3, <1>c, <2>2, <2>3 DEF WellKept, r
    <2>5. OwnIds(w, last, o)
        <3>1. IdsIn(r, "tool_use") \subseteq 1..last
            BY <1>1, <2>2
        <3>2. ASSUME NEW j \in 1..Len(w), j < o
              PROVE  IdsIn(w[j], "tool_use") \intersect IdsIn(r, "tool_use") = {}
            <4>1. j \in 1..Len(rows) /\ w[j] = rows[j]
                BY <1>1, <1>8, <3>2, AppendAt
            <4>2. IdsIn(rows[j], "tool_use") \subseteq 1..lastId
                BY <4>1 DEF Replied, RowReplied, OwnIds
            <4> QED BY <1>1, <2>2, <4>1, <4>2
        <3> QED BY <1>8, <3>1, <3>2 DEF OwnIds
    <2>6. AnswersOne(scope, w, o) /\ CutBetween(w, o)
        BY <1>8, <2>2, <2>3 DEF AnswersOne, CutBetween
    <2>7. RowReplied(scope, Append(rows, r), last, Len(rows) + 1)
        BY <1>8, <2>4, <2>5, <2>6 DEF RowReplied
    <2>8. last \in Nat /\ lastId <= last
        BY <1>1
    <2> HIDE DEF last
    <2>9. Replied(scope, Append(rows, r), last)
        BY <1>1, <1>8, <2>7, <2>8, StoreReplied
    <2> QED BY <1>2, <1>10, <2>9 DEF last
<1> QED BY <1>9, <1>10

\* Results are answers to the calls of their row.
LEMMA AnswersIds ==
    ASSUME NEW r \in StoredRows
    PROVE  /\ \A j \in 1..Len(Answers(r)) : Answers(r)[j].type = "tool_result"
           /\ {Answers(r)[j].id : j \in 1..Len(Answers(r))} = IdsIn(r, "tool_use")
<1> DEFINE n == Len(r.content)
           s == [j \in 1..n |-> IF r.content[j].type = "tool_use"
                                THEN <<Block("tool_result", r.content[j].id)>> ELSE <<>>]
           w == FlattenSeq(s)
<1>1. DOMAIN r.content = 1..n /\ n \in Nat /\ \A j \in 1..n : r.content[j].id \in Nat
    BY BlocksOf DEF Blocks
<1>2. Answers(r) = w
    BY <1>1 DEF Answers
<1>3. \A x \in Nat : /\ Block("tool_result", x) \in Blocks
                     /\ Block("tool_result", x).type = "tool_result" /\ Block("tool_result", x).id = x
    BY DEF Block, Blocks, Types
<1>4. \A x \in Blocks : <<x>> \in Seq(Blocks)
    OBVIOUS
<1>5. <<>> \in Seq(Blocks)
    OBVIOUS
<1>6. s \in [1..n -> Seq(Blocks)]
    BY <1>1, <1>3, <1>4, <1>5
<1>7. \A j \in 1..n : s[j] = IF r.content[j].type = "tool_use"
                             THEN <<Block("tool_result", r.content[j].id)>> ELSE <<>>
    OBVIOUS
<1> HIDE DEF s
<1>8. ASSUME NEW j \in 1..n
      PROVE  /\ Len(s[j]) \in {0, 1} /\ (Len(s[j]) = 1 <=> r.content[j].type = "tool_use")
             /\ Len(s[j]) = 1 => s[j][1].type = "tool_result" /\ s[j][1].id = r.content[j].id
    <2>1. CASE r.content[j].type = "tool_use"
        <3>1. s[j] = <<Block("tool_result", r.content[j].id)>>
            BY <1>7, <2>1
        <3>2. Len(s[j]) = 1 /\ s[j][1] = Block("tool_result", r.content[j].id)
            BY <3>1, Single
        <3> QED BY <1>1, <1>3, <2>1, <3>2
    <2>2. CASE r.content[j].type # "tool_use"
        <3>1. s[j] = <<>>
            BY <1>7, <2>2
        <3> QED BY <2>2, <3>1, Single
    <2> QED BY <2>1, <2>2
<1>9. Ones(s, n)
    BY <1>8 DEF Ones
<1>10. w \in Seq(Blocks) /\ OnesIn(w, s, n)
    <2> HIDE DEF n
    <2> QED BY <1>1, <1>6, <1>9, FlattenOnes
<1> HIDE DEF w
<1>11. ASSUME NEW x \in 1..Len(w)
       PROVE  w[x].type = "tool_result" /\ w[x].id \in IdsIn(r, "tool_use")
    <2>1. PICK j \in 1..n : Len(s[j]) = 1 /\ w[x] = s[j][1]
        BY <1>10 DEF OnesIn
    <2>2. r.content[j].type = "tool_use" /\ w[x].type = "tool_result" /\ w[x].id = r.content[j].id
        BY <1>8, <2>1
    <2> QED BY <2>2 DEF IdsIn
<1>12. ASSUME NEW e \in IdsIn(r, "tool_use") PROVE \E x \in 1..Len(w) : w[x].id = e
    <2>1. PICK j \in 1..n : r.content[j].type = "tool_use" /\ e = r.content[j].id
        BY DEF IdsIn
    <2>2. PICK x \in 1..Len(w) : w[x] = s[j][1]
        BY <1>8, <1>10, <2>1 DEF OnesIn
    <2> QED BY <1>8, <2>1, <2>2
<1> QED BY <1>2, <1>11, <1>12

LEMMA ResultsReplied ==
    ASSUME WireTypeOK, Counted(scope, rows'), Replied(scope, rows, lastId),
           NEW i \in Unanswered, ToolResults(i)
    PROVE  Replied(scope, rows', lastId')
<1> DEFINE c == Answers(rows[i])
           r == Row("user", rows[i].node, FALSE, c, NoMark)
           w == Append(rows, r)
           o == Len(rows) + 1
<1>1. rows \in Seq(StoredRows) /\ lastId \in Nat /\ Len(rows) \in Nat
    BY DEF WireTypeOK
<1>2. rows' = w /\ lastId' = lastId /\ (scope = "chat" => i = Len(rows))
    BY DEF ToolResults, Store
<1>3. r.content = c /\ r.role = "user" /\ r.node = rows[i].node /\ r.is_partial = FALSE
    BY DEF Row
<1>4. i \in 1..Len(rows) /\ ~rows[i].is_partial /\ rows[i] \in StoredRows
    BY <1>1 DEF Unanswered
<1>5. /\ \A j \in 1..Len(c) : c[j].type = "tool_result"
      /\ {c[j].id : j \in 1..Len(c)} = IdsIn(rows[i], "tool_use")
    BY <1>4, AnswersIds
<1> HIDE DEF r, c
<1>6. r \in StoredRows /\ w[o] = r
    <2>1. Append(rows, r) \in Seq(StoredRows)
        BY <1>2 DEF Counted
    <2> QED BY <1>1, <2>1, AppendedRow
<1>7. /\ TypesIn(r, {"tool_result"}) /\ IdsIn(r, "tool_use") = {}
      /\ IdsIn(r, "tool_result") = IdsIn(rows[i], "tool_use")
    BY <1>3, <1>5 DEF TypesIn, IdsIn
<1>8. ~IsCompaction(r)
    <2>1. DOMAIN r.content = 1..Len(r.content)
        BY <1>6, BlocksOf
    <2> QED BY <1>7, <2>1 DEF IsCompaction, TypesIn
<1>9. WellKept(r)
    <2>1. CallsEnd(r)
        BY <1>7 DEF CallsEnd, TypesIn
    <2> QED BY <1>3, <1>7, <1>8, <2>1 DEF WellKept
<1>10. AnswersOne(scope, w, o)
    <2>1. i \in 1..Len(w) /\ w[i] = rows[i] /\ i < o
        BY <1>1, <1>4, <1>6, AppendAt
    <2> QED BY <1>2, <1>3, <1>4, <1>6, <1>7, <2>1 DEF AnswersOne
<1>11. OwnIds(w, lastId, o) /\ CutBetween(w, o)
    BY <1>6, <1>7, <1>8 DEF OwnIds, CutBetween
<1>12. RowReplied(scope, Append(rows, r), lastId, Len(rows) + 1)
    BY <1>6, <1>9, <1>10, <1>11 DEF RowReplied
<1>13. lastId <= lastId
    BY <1>1
<1>14. Replied(scope, Append(rows, r), lastId)
    BY <1>1, <1>6, <1>12, <1>13, StoreReplied
<1> QED BY <1>2, <1>14

\* The row after the last one of a history, or after the last before its reply,
\* holds no result: it would be in the history.
LEMMA CutClean ==
    ASSUME NEW rs \in Seq(StoredRows), NEW h, NEW t, Hist(rs, h, t),
           \A i \in 1..Len(rs) : WellKept(rs[i]),
           NEW m \in 1..Len(h), 1 < m, m = Len(h) \/ (m + 1 = Len(h) /\ h[Len(h)].role # "user"),
           h[m].sequence + 1 \in 1..Len(rs)
    PROVE  IdsIn(rs[h[m].sequence + 1], "tool_result") = {}
<1> DEFINE q == h[m].sequence + 1
<1>1. /\ t \in Nat /\ h \in Seq(StoredRows) /\ Len(h) \in Nat
      /\ \A i \in 1..Len(h) : h[i].sequence \in 1..Len(rs) /\ h[i] = rs[h[i].sequence]
      /\ \A i \in 1..Len(h) : ~IsCompaction(h[i]) => h[i].sequence > t /\ ~h[i].is_partial
      /\ \A i \in 1..Len(h) : 1 < i => ~IsCompaction(h[i])
      /\ \A i, j \in 1..Len(h) : i < j /\ ~IsCompaction(h[i]) => h[i].sequence < h[j].sequence
      /\ \A x \in 1..Len(rs) : x > t /\ ~rs[x].is_partial /\ ~IsCompaction(rs[x]) =>
            \E i \in 1..Len(h) : h[i].sequence = x
    BY DEF Hist
<1>2. /\ m \in 1..Len(h) /\ 1 < m /\ (m = Len(h) \/ (m + 1 = Len(h) /\ h[Len(h)].role # "user"))
      /\ q \in 1..Len(rs) /\ q = h[m].sequence + 1 /\ h[m].sequence \in Nat
    BY <1>1
<1>3. ~IsCompaction(h[m]) /\ h[m].sequence > t
    BY <1>1, <1>2
<1> HIDE DEF q
<1>4. ASSUME IdsIn(rs[q], "tool_result") # {} PROVE FALSE
    <2>1. WellKept(rs[q]) /\ rs[q] \in StoredRows
        BY <1>2
    <2>2. rs[q].role = "user" /\ ~rs[q].is_partial /\ ~IsCompaction(rs[q])
        BY <1>4, <2>1, WhoseIds DEF WellKept
    <2>3. q > t
        BY <1>1, <1>2, <1>3
    <2>4. PICK i \in 1..Len(h) : h[i].sequence = q
        BY <1>1, <1>2, <2>2, <2>3
    <2>5. h[i] = rs[q]
        BY <1>1, <2>4
    <2>6. i # m /\ ~(i < m)
        <3>1. ASSUME i < m PROVE FALSE
            <4>1. h[i].sequence < h[m].sequence
                BY <1>1, <2>2, <2>5, <3>1
            <4> QED BY <1>2, <2>4, <4>1
        <3> QED BY <1>2, <2>4, <3>1
    <2>7. i = Len(h) /\ h[Len(h)].role # "user"
        BY <1>1, <1>2, <2>6
    <2> QED BY <2>2, <2>5, <2>7
<1> QED BY <1>4 DEF q

LEMMA CompactReplied ==
    ASSUME WireTypeOK, Counted(scope, rows), Counted(scope, rows'), Replied(scope, rows, lastId),
           CompactIfDue
    PROVE  Replied(scope, rows', lastId')
<1> DEFINE h == HistoryRows
           g == IF h[Len(h)].role = "assistant" THEN SubSeq(h, 1, Len(h) - 1) ELSE h
           mark == [media |-> MediaCounts(g), through |-> g[Len(g)].sequence, model |-> model]
           k == Block("compaction", 0)
           c == <<k>>
           r == Row("system", "own", FALSE, c, mark)
           w == Append(rows, r)
           o == Len(rows) + 1
<1>1. rows' = w /\ lastId' = lastId /\ scope = "chat" /\ Len(h) >= 3
    BY DEF CompactIfDue, Store
<1>2. PICK t \in Nat : Hist(rows, h, t)
    BY HistoryIsHist
<1> HIDE DEF h
<1>3. /\ h \in Seq(StoredRows) /\ Len(h) \in Nat /\ \A i \in 1..Len(h) : h[i].sequence \in 1..Len(rows)
      /\ rows \in Seq(StoredRows) /\ Len(rows) \in Nat /\ lastId \in Nat
    BY <1>2 DEF Hist, WireTypeOK
<1>4. PICK m \in 1..Len(h) : /\ 1 < m /\ g = SubSeq(h, 1, m)
                             /\ m = Len(h) \/ (m + 1 = Len(h) /\ h[Len(h)].role # "user")
    <2>1. CASE h[Len(h)].role = "assistant"
        <3>1. Len(h) - 1 \in 1..Len(h) /\ 1 < Len(h) - 1 /\ (Len(h) - 1) + 1 = Len(h)
            BY <1>1, <1>3
        <3> QED BY <2>1, <3>1
    <2>2. CASE h[Len(h)].role # "assistant"
        <3>1. Len(h) \in 1..Len(h) /\ 1 < Len(h) /\ h = SubSeq(h, 1, Len(h))
            BY <1>1, <1>3
        <3> QED BY <2>2, <3>1
    <2> QED BY <2>1, <2>2
<1>5. Len(g) = m /\ g[m] = h[m]
    <2> HIDE DEF g
    <2> QED BY <1>3, <1>4
<1>6. mark.through = h[m].sequence
    BY <1>5
<1>7. r.content = c /\ r.mark = mark
    BY DEF Row
<1>8. k.type = "compaction" /\ Len(c) = 1 /\ c[1] = k
    BY DEF Block
<1> HIDE DEF g, mark, r, c, k
<1>9. r \in StoredRows /\ w[o] = r
    <2>1. Append(rows, r) \in Seq(StoredRows)
        BY <1>1 DEF Counted
    <2> QED BY <1>3, <2>1, AppendedRow
<1>10. \A j \in 1..Len(r.content) : r.content[j].type = "compaction"
    BY <1>7, <1>8
<1>11. IdsIn(r, "tool_use") = {} /\ IdsIn(r, "tool_result") = {} /\ WellKept(r)
    <2>1. IdsIn(r, "tool_use") = {} /\ IdsIn(r, "tool_result") = {} /\ CallsEnd(r)
        BY <1>10 DEF IdsIn, CallsEnd
    <2> QED BY <1>10, <2>1 DEF WellKept, TypesIn
<1>12. CutBetween(w, o)
    <2> DEFINE q == h[m].sequence + 1
    <2>1. r.mark.through = h[m].sequence /\ r.mark.through < o /\ q \in 1..o
        BY <1>3, <1>6, <1>7
    <2>2. IdsIn(w[q], "tool_result") = {}
        <3>1. CASE q = o
            BY <1>9, <1>11, <3>1
        <3>2. CASE q \in 1..Len(rows)
            <4>1. \A i \in 1..Len(rows) : WellKept(rows[i])
                BY DEF Replied, RowReplied
            <4>2. IdsIn(rows[h[m].sequence + 1], "tool_result") = {}
                BY <1>2, <1>3, <1>4, <3>2, <4>1, CutClean
            <4>3. w[q] = rows[q]
                BY <1>3, <1>9, <3>2, AppendAt
            <4> QED BY <4>2, <4>3
        <3>3. q = o \/ q \in 1..Len(rows)
            <4>1. q \in 1..o
                BY <2>1
            <4> HIDE DEF q
            <4> QED BY <1>3, <4>1
        <3> HIDE DEF q
        <3> QED BY <3>1, <3>2, <3>3
    <2> QED BY <1>9, <2>1, <2>2 DEF CutBetween
<1>13. RowReplied(scope, Append(rows, r), lastId, Len(rows) + 1)
    BY <1>9, <1>11, <1>12 DEF RowReplied, AnswersOne, OwnIds
<1>14. lastId <= lastId
    BY <1>3
<1>15. Replied(scope, Append(rows, r), lastId)
    BY <1>3, <1>9, <1>13, <1>14, StoreReplied
<1> QED BY <1>1, <1>15

LEMMA FinalizeReplied ==
    ASSUME WireTypeOK, Replied(scope, rows, lastId), FinalizePartialMessages
    PROVE  Replied(scope, rows', lastId')
<1> DEFINE n == Len(rows)
           a == [i \in 1..n |-> [rows[i] EXCEPT !.is_partial = FALSE]]
<1>1. rows \in Seq(StoredRows) /\ n \in Nat /\ DOMAIN rows = 1..n
    BY DEF WireTypeOK
<1>2. rows' = a /\ lastId' = lastId
    BY <1>1 DEF FinalizePartialMessages
<1>3. \A i \in 1..n : /\ a[i].role = rows[i].role /\ a[i].content = rows[i].content
                      /\ a[i].mark = rows[i].mark /\ a[i].is_partial = FALSE
                      /\ a[i].node = rows[i].node
    <2> SUFFICES ASSUME NEW i \in 1..n
                 PROVE  /\ a[i].role = rows[i].role /\ a[i].content = rows[i].content
                        /\ a[i].mark = rows[i].mark /\ a[i].is_partial = FALSE
                        /\ a[i].node = rows[i].node
        OBVIOUS
    <2>1. rows[i] \in StoredRows /\ a[i] = [rows[i] EXCEPT !.is_partial = FALSE]
        BY <1>1
    <2> HIDE DEF a
    <2> QED BY <2>1 DEF StoredRows
<1>4. Len(a) = n
    BY <1>1
<1> HIDE DEF a
<1>5. \A i \in 1..n : /\ IdsIn(a[i], "tool_use") = IdsIn(rows[i], "tool_use")
                      /\ IdsIn(a[i], "tool_result") = IdsIn(rows[i], "tool_result")
                      /\ IsCompaction(a[i]) <=> IsCompaction(rows[i])
                      /\ \A T : TypesIn(a[i], T) <=> TypesIn(rows[i], T)
                      /\ CallsEnd(rows[i]) => CallsEnd(a[i])
    <2> SUFFICES ASSUME NEW i \in 1..n
                 PROVE  /\ IdsIn(a[i], "tool_use") = IdsIn(rows[i], "tool_use")
                        /\ IdsIn(a[i], "tool_result") = IdsIn(rows[i], "tool_result")
                        /\ IsCompaction(a[i]) <=> IsCompaction(rows[i])
                        /\ \A T : TypesIn(a[i], T) <=> TypesIn(rows[i], T)
                        /\ CallsEnd(rows[i]) => CallsEnd(a[i])
        OBVIOUS
    <2>1. a[i].content = rows[i].content
        BY <1>3
    <2> HIDE DEF a
    <2> QED BY <2>1 DEF IdsIn, IsCompaction, TypesIn, CallsEnd
<1>6. ASSUME NEW i \in 1..n PROVE RowReplied(scope, a, lastId, i)
    <2>1. /\ WellKept(rows[i]) /\ AnswersOne(scope, rows, i) /\ CutBetween(rows, i)
          /\ OwnIds(rows, lastId, i)
        BY DEF Replied, RowReplied
    <2>2. WellKept(a[i])
        <3>1. /\ a[i].role = rows[i].role /\ a[i].is_partial = FALSE
              /\ IdsIn(a[i], "tool_use") = IdsIn(rows[i], "tool_use")
              /\ IdsIn(a[i], "tool_result") = IdsIn(rows[i], "tool_result")
              /\ IsCompaction(a[i]) <=> IsCompaction(rows[i])
              /\ \A T : TypesIn(a[i], T) <=> TypesIn(rows[i], T)
              /\ CallsEnd(a[i])
            <4>1. CallsEnd(rows[i])
                BY <2>1 DEF WellKept
            <4> QED BY <1>3, <1>5, <4>1
        <3> QED BY <2>1, <3>1 DEF WellKept
    <2>3. AnswersOne(scope, a, i)
        BY <1>3, <1>4, <1>5, <2>1 DEF AnswersOne
    <2>4. CutBetween(a, i)
        <3> SUFFICES ASSUME IsCompaction(rows[i])
                     PROVE  /\ rows[i].mark.through < i
                            /\ IdsIn(a[rows[i].mark.through + 1], "tool_result") = {}
            BY <1>3, <1>5 DEF CutBetween
        <3> DEFINE t == rows[i].mark.through
        <3>1. t < i /\ t \in Nat /\ IdsIn(rows[t + 1], "tool_result") = {}
            <4>1. rows[i] \in StoredRows
                BY <1>1
            <4>2. rows[i].mark \in Marks
                BY <4>1, BlocksOf
            <4> QED BY <2>1, <4>2 DEF CutBetween, Marks
        <3> HIDE DEF t
        <3>2. t + 1 \in 1..n
            BY <1>1, <3>1
        <3>3. t < i /\ IdsIn(a[t + 1], "tool_result") = {}
            BY <1>5, <3>1, <3>2
        <3> QED BY <3>3 DEF t
    <2>5. OwnIds(a, lastId, i)
        BY <1>4, <1>5, <2>1 DEF OwnIds
    <2> QED BY <2>2, <2>3, <2>4, <2>5 DEF RowReplied
<1> QED BY <1>2, <1>4, <1>6 DEF Replied

LEMMA RowsReplied ==
    ASSUME WireTypeOK, Counted(scope, rows), Replied(scope, rows, lastId), [WireNext]_wireVars
    PROVE  Replied(scope, rows', lastId')
<1>0. Counted(scope, rows')
    BY RowsCounted
<1>1. ASSUME NEW kinds \in Attachments, UserTurn(kinds) PROVE Replied(scope, rows', lastId')
    <2>1. kinds \in Seq(LabeledKinds)
        BY WireAssumption
    <2> QED BY <1>0, <1>1, <2>1, UserTurnReplied
<1>2. ASSUME NEW node \in Nodes, NEW said \in BOOLEAN, NEW n \in {0, 2}, NEW partial \in BOOLEAN,
             AssistantTurn(node, said, n, partial)
      PROVE  Replied(scope, rows', lastId')
    BY <1>0, <1>2, AssistantReplied
<1>3. ASSUME NEW i \in Unanswered, ToolResults(i) PROVE Replied(scope, rows', lastId')
    BY <1>0, <1>3, ResultsReplied
<1>4. CASE CompactIfDue
    BY <1>0, <1>4, CompactReplied
<1>5. CASE Handoff
    BY <1>5 DEF Handoff
<1>6. CASE FinalizePartialMessages
    BY <1>6, FinalizeReplied
<1>7. CASE AbandonCalls
    BY <1>7 DEF AbandonCalls
<1>8. CASE UNCHANGED wireVars
    BY <1>8 DEF wireVars
<1> QED BY <1>1, <1>2, <1>3, <1>4, <1>5, <1>6, <1>7, <1>8 DEF WireNext

-----------------------------------------------------------------------------
(* The pairs of a history.                                                 *)

\* A call and its result are in the rows that answer one another.
LEMMA AnswerOf ==
    ASSUME NEW sc, NEW rs \in Seq(StoredRows), NEW last, Replied(sc, rs, last),
           NEW i \in 1..Len(rs), NEW j \in 1..Len(rs), NEW d,
           d \in IdsIn(rs[i], "tool_use"), d \in IdsIn(rs[j], "tool_result")
    PROVE  /\ i < j /\ rs[i].node = rs[j].node /\ ~rs[i].is_partial /\ ~rs[j].is_partial
           /\ sc = "chat" => i + 1 = j
           /\ ~IsCompaction(rs[i]) /\ ~IsCompaction(rs[j])
<1>1. /\ WellKept(rs[i]) /\ WellKept(rs[j]) /\ AnswersOne(sc, rs, j)
      /\ rs[i] \in StoredRows /\ rs[j] \in StoredRows
      /\ \A x \in 1..Len(rs) : OwnIds(rs, last, x)
    BY DEF Replied, RowReplied
<1>2. PICK x \in 1..Len(rs) :
         /\ x < j /\ IdsIn(rs[x], "tool_use") = IdsIn(rs[j], "tool_result")
         /\ rs[x].node = rs[j].node /\ ~rs[x].is_partial
         /\ sc = "chat" => x + 1 = j
    BY <1>1 DEF AnswersOne
<1>3. x = i
    <2>1. d \in IdsIn(rs[x], "tool_use") /\ d \in IdsIn(rs[i], "tool_use")
        BY <1>2
    <2>2. ~(x < i) /\ ~(i < x)
        BY <1>1, <2>1 DEF OwnIds
    <2> QED BY <2>2
<1>4. ~IsCompaction(rs[i]) /\ ~IsCompaction(rs[j])
    BY <1>1, WhoseIds
<1>5. ~rs[j].is_partial
    BY <1>1 DEF WellKept
<1> QED BY <1>2, <1>3, <1>4, <1>5

LEMMA CallOf ==
    ASSUME NEW sc, NEW rs \in Seq(StoredRows), NEW last, Replied(sc, rs, last),
           NEW j \in 1..Len(rs), NEW d, d \in IdsIn(rs[j], "tool_result")
    PROVE  \E i \in 1..Len(rs) : d \in IdsIn(rs[i], "tool_use")
<1>1. AnswersOne(sc, rs, j)
    BY DEF Replied, RowReplied
<1> QED BY <1>1 DEF AnswersOne

\* Every call that was not abandoned has its result in some row.
AllAnswered(rs) ==
    \A i \in 1..Len(rs) : \A d \in IdsIn(rs[i], "tool_use") \ Abandoned :
        \E j \in 1..Len(rs) : d \in IdsIn(rs[j], "tool_result")

\* S has complete rows, and a row with the row that answers it.
Unparted(rs, S) ==
    /\ \A i \in 1..Len(rs) : rs[i] \in S => ~rs[i].is_partial
    /\ \A i, j \in 1..Len(rs) : \A d \in IdsIn(rs[i], "tool_use") :
          d \in IdsIn(rs[j], "tool_result") => (rs[i] \in S <=> rs[j] \in S)

\* The pairs of a chat stand next to one another when they are kept together.
LEMMA KeptRowsPaired ==
    ASSUME NEW rs \in Seq(StoredRows), NEW last, NEW sc, sc = "chat", Replied(sc, rs, last),
           \A i \in 1..Len(rs) : rs[i].sequence = i,
           AllAnswered(rs), NEW S, Unparted(rs, S), NEW h, RowsOf(rs, h, S), NEW strict \in BOOLEAN
    PROVE  RowsPaired(h, strict)
<1>1. /\ h \in Seq(StoredRows) /\ Len(h) \in Nat
      /\ \A x \in 1..Len(h) : /\ h[x].sequence \in 1..Len(rs) /\ h[x] = rs[h[x].sequence]
                              /\ h[x] \in S
      /\ \A x, y \in 1..Len(h) : x < y => h[x].sequence < h[y].sequence
      /\ \A i \in 1..Len(rs) : rs[i] \in S => \E x \in 1..Len(h) : h[x].sequence = i
    BY DEF RowsOf
<1>2. \A x \in 1..Len(h) : h[x].sequence \in Nat
    BY <1>1
<1>3. ASSUME NEW x \in 1..Len(h), NEW y \in 1..Len(h), h[x].sequence < h[y].sequence PROVE x < y
    <2>1. x # y /\ ~(y < x)
        BY <1>1, <1>2, <1>3
    <2> QED BY <2>1
<1>4. ASSUME NEW x \in 1..Len(h), NEW d \in IdsIn(h[x], "tool_use") \ Abandoned
      PROVE  \E y \in 1..Len(h) :
                x < y /\ d \in IdsIn(h[y], "tool_result") /\ (strict => y = x + 1)
    <2> DEFINE i == h[x].sequence
    <2>1. i \in 1..Len(rs) /\ h[x] = rs[i] /\ rs[i] \in S
        BY <1>1
    <2> HIDE DEF i
    <2>2. PICK j \in 1..Len(rs) : d \in IdsIn(rs[j], "tool_result")
        BY <2>1 DEF AllAnswered
    <2>3. i < j /\ i + 1 = j
        BY <2>1, <2>2, AnswerOf
    <2>4. rs[j] \in S
        BY <2>1, <2>2 DEF Unparted
    <2>5. PICK y \in 1..Len(h) : h[y].sequence = j
        BY <1>1, <2>4
    <2>6. h[y] = rs[j] /\ x < y
        BY <1>1, <1>3, <2>3, <2>5 DEF i
    <2>7. y = x + 1
        <3>1. ASSUME x + 1 < y PROVE FALSE
            <4> DEFINE z == x + 1
            <4>1. z \in 1..Len(h) /\ x < z /\ z < y
                BY <3>1
            <4> HIDE DEF z
            <4>2. h[x].sequence < h[z].sequence /\ h[z].sequence < h[y].sequence
                BY <1>1, <4>1
            <4>3. h[z].sequence \in Nat /\ h[x].sequence \in Nat
                BY <1>2, <4>1
            <4> QED BY <2>3, <2>5, <4>2, <4>3 DEF i
        <3> QED BY <2>6, <3>1
    <2> QED BY <2>2, <2>6, <2>7
<1>5. ASSUME NEW x \in 1..Len(h), NEW d \in IdsIn(h[x], "tool_result")
      PROVE  \E y \in 1..Len(h) : y < x /\ d \in IdsIn(h[y], "tool_use")
    <2> DEFINE j == h[x].sequence
    <2>1. j \in 1..Len(rs) /\ h[x] = rs[j] /\ rs[j] \in S
        BY <1>1
    <2> HIDE DEF j
    <2>2. PICK i \in 1..Len(rs) : d \in IdsIn(rs[i], "tool_use")
        BY <2>1, CallOf
    <2>3. i < j
        BY <2>1, <2>2, AnswerOf
    <2>4. rs[i] \in S
        BY <2>1, <2>2 DEF Unparted
    <2>5. PICK y \in 1..Len(h) : h[y].sequence = i
        BY <1>1, <2>4
    <2>6. h[y] = rs[i] /\ y < x
        BY <1>1, <1>3, <2>3, <2>5 DEF j
    <2> QED BY <2>2, <2>6
<1> QED BY <1>4, <1>5 DEF RowsPaired

\* A row without calls and results before the others.
LEMMA MarkerFirst ==
    ASSUME NEW r, NEW k \in Seq(StoredRows), NEW b \in Seq(StoredRows), NEW strict \in BOOLEAN,
           RowsPaired(k, strict), IdsIn(r, "tool_use") = {}, IdsIn(r, "tool_result") = {}
    PROVE  Len(b) = 1 /\ b[1] = r => RowsPaired(b \o k, strict)
<1> HAVE Len(b) = 1 /\ b[1] = r
<1> DEFINE h == b \o k
           n == Len(k)
<1>1. /\ Len(h) = n + 1 /\ n \in Nat /\ h[1] = r
      /\ \A x \in 1..n : h[x + 1] = k[x] /\ x + 1 \in 1..(n + 1)
    BY OneBefore
<1> HIDE DEF h
<1>2. ASSUME NEW x \in 1..(n + 1) PROVE x = 1 \/ \E y \in 1..n : x = y + 1
    <2> DEFINE y == x - 1
    <2>1. x = 1 \/ (y \in 1..n /\ x = y + 1)
        BY <1>1
    <2> HIDE DEF y
    <2> QED BY <2>1
<1>3. ASSUME NEW x \in 1..Len(h), NEW d \in IdsIn(h[x], "tool_use") \ Abandoned
      PROVE  \E y \in 1..Len(h) :
                x < y /\ d \in IdsIn(h[y], "tool_result") /\ (strict => y = x + 1)
    <2>1. PICK i \in 1..n : x = i + 1
        BY <1>1, <1>2, <1>3
    <2>2. d \in IdsIn(k[i], "tool_use") \ Abandoned
        BY <1>1, <1>3, <2>1
    <2>3. PICK j \in 1..n : i < j /\ d \in IdsIn(k[j], "tool_result") /\ (strict => j = i + 1)
        BY <2>2 DEF RowsPaired, n
    <2>4. j + 1 \in 1..Len(h) /\ h[j + 1] = k[j] /\ x < j + 1 /\ (strict => j + 1 = x + 1)
        BY <1>1, <2>1, <2>3
    <2> QED BY <2>3, <2>4
<1>4. ASSUME NEW x \in 1..Len(h), NEW d \in IdsIn(h[x], "tool_result")
      PROVE  \E y \in 1..Len(h) : y < x /\ d \in IdsIn(h[y], "tool_use")
    <2>1. PICK i \in 1..n : x = i + 1
        BY <1>1, <1>2, <1>4
    <2>2. d \in IdsIn(k[i], "tool_result")
        BY <1>1, <1>4, <2>1
    <2>3. PICK j \in 1..n : j < i /\ d \in IdsIn(k[j], "tool_use")
        BY <2>2 DEF RowsPaired, n
    <2>4. j + 1 \in 1..Len(h) /\ h[j + 1] = k[j] /\ j + 1 < x
        BY <1>1, <2>1, <2>3
    <2> QED BY <2>3, <2>4
<1>5. RowsPaired(h, strict)
    BY <1>3, <1>4 DEF RowsPaired
<1> QED BY <1>5 DEF h

LEMMA IdsOfRows ==
    ASSUME NEW rs \in Seq(StoredRows), NEW type, NEW d
    PROVE  d \in IdsOf(rs, type) <=> \E i \in 1..Len(rs) : d \in IdsIn(rs[i], type)
<1>1. /\ At(rs, {type}) \subseteq Nat \X Nat
      /\ \A p \in At(rs, {type}) :
            /\ p[1] \in 1..Len(rs) /\ p[2] \in 1..Len(rs[p[1]].content)
            /\ rs[p[1]].content[p[2]].type \in {type} /\ p = <<p[1], p[2]>>
      /\ \A i \in 1..Len(rs), j \in Nat :
            j \in 1..Len(rs[i].content) /\ rs[i].content[j].type \in {type}
               <=> <<i, j>> \in At(rs, {type})
    BY AtIs
<1>2. ASSUME d \in IdsOf(rs, type) PROVE \E i \in 1..Len(rs) : d \in IdsIn(rs[i], type)
    <2>1. PICK p \in At(rs, {type}) : d = rs[p[1]].content[p[2]].id
        BY <1>2 DEF IdsOf
    <2> DEFINE i == p[1]
               j == p[2]
    <2>2. /\ i \in 1..Len(rs) /\ j \in 1..Len(rs[i].content) /\ rs[i].content[j].type = type
          /\ d = rs[i].content[j].id
        BY <1>1, <2>1
    <2> HIDE DEF i, j
    <2> QED BY <2>2 DEF IdsIn
<1>3. ASSUME NEW i \in 1..Len(rs), d \in IdsIn(rs[i], type) PROVE d \in IdsOf(rs, type)
    <2>1. PICK j \in 1..Len(rs[i].content) : rs[i].content[j].type = type /\ d = rs[i].content[j].id
        BY <1>3 DEF IdsIn
    <2>2. j \in Nat
        <3>1. rs[i] \in StoredRows
            OBVIOUS
        <3>2. Len(rs[i].content) \in Nat
            BY <3>1, BlocksOf
        <3> QED BY <3>2
    <2>3. <<i, j>> \in At(rs, {type})
        BY <1>1, <2>1, <2>2
    <2> DEFINE p == <<i, j>>
    <2>4. p \in At(rs, {type}) /\ p[1] = i /\ p[2] = j
        BY <2>3
    <2> HIDE DEF p
    <2>5. d = rs[p[1]].content[p[2]].id
        BY <2>1, <2>4
    <2> QED BY <2>4, <2>5 DEF IdsOf
<1> QED BY <1>2, <1>3

\* In a chat the calls without a result are the abandoned ones.
LEMMA ChatAnswered ==
    ASSUME WireTypeOK, scope = "chat"
    PROVE  AllAnswered(rows)
<1>1. rows \in Seq(StoredRows)
    BY DEF WireTypeOK
<1> SUFFICES ASSUME NEW i \in 1..Len(rows), NEW d \in IdsIn(rows[i], "tool_use") \ Abandoned
             PROVE  \E j \in 1..Len(rows) : d \in IdsIn(rows[j], "tool_result")
    BY DEF AllAnswered
<1>2. d \in IdsOf(rows, "tool_use")
    BY <1>1, IdsOfRows
<1>3. d \in IdsOf(rows, "tool_result")
    BY <1>2 DEF Abandoned
<1> QED BY <1>1, <1>3, IdsOfRows

\* A compaction's cut leaves a row with the row that answers it.
LEMMA CutsUnparted ==
    ASSUME NEW sc, NEW rs \in Seq(StoredRows), NEW last, sc = "chat", Replied(sc, rs, last),
           \A i \in 1..Len(rs) : rs[i].sequence = i,
           NEW m \in 1..Len(rs), IsCompaction(rs[m])
    PROVE  Unparted(rs, NotPartial \intersect After(rs[m].mark.through))
<1> DEFINE t == rs[m].mark.through
           S == NotPartial \intersect After(t)
<1>1. t \in Nat /\ IdsIn(rs[t + 1], "tool_result") = {}
    <2>1. CutBetween(rs, m) /\ rs[m] \in StoredRows
        BY DEF Replied, RowReplied
    <2>2. rs[m].mark \in Marks
        BY <2>1, BlocksOf
    <2> QED BY <2>1, <2>2 DEF CutBetween, Marks
<1> HIDE DEF t
<1>2. ASSUME NEW i \in 1..Len(rs), NEW j \in 1..Len(rs), NEW d,
             d \in IdsIn(rs[i], "tool_use"), d \in IdsIn(rs[j], "tool_result")
      PROVE  rs[i] \in S <=> rs[j] \in S
    <2>1. /\ i + 1 = j /\ ~rs[i].is_partial /\ ~rs[j].is_partial
          /\ ~IsCompaction(rs[i]) /\ ~IsCompaction(rs[j])
        BY <1>2, AnswerOf
    <2>2. j # t + 1
        BY <1>1, <1>2
    <2>3. rs[i].sequence = i /\ rs[j].sequence = j /\ rs[i] \in StoredRows /\ rs[j] \in StoredRows
        OBVIOUS
    <2>4. i > t <=> j > t
        BY <1>1, <2>1, <2>2
    <2> QED BY <2>1, <2>3, <2>4 DEF NotPartial, After
<1>3. \A i \in 1..Len(rs) : rs[i] \in S => ~rs[i].is_partial
    BY DEF NotPartial
<1>4. Unparted(rs, S)
    <2> HIDE DEF S
    <2> QED BY <1>2, <1>3 DEF Unparted
<1> QED BY <1>4 DEF t

LEMMA CompleteUnparted ==
    ASSUME NEW sc, NEW rs \in Seq(StoredRows), NEW last, Replied(sc, rs, last)
    PROVE  Unparted(rs, NotPartial)
<1>1. ASSUME NEW i \in 1..Len(rs), NEW j \in 1..Len(rs), NEW d,
             d \in IdsIn(rs[i], "tool_use"), d \in IdsIn(rs[j], "tool_result")
      PROVE  rs[i] \in NotPartial <=> rs[j] \in NotPartial
    <2>1. ~rs[i].is_partial /\ ~rs[j].is_partial
        BY <1>1, AnswerOf
    <2> QED BY <2>1 DEF NotPartial
<1> QED BY <1>1 DEF Unparted, NotPartial

LEMMA ChatPaired ==
    ASSUME WireTypeOK, Counted(scope, rows), Replied(scope, rows, lastId),
           scope = "chat", NEW strict \in BOOLEAN
    PROVE  /\ RowsPaired(HistoryRows, strict)
           /\ \A i \in 1..Len(HistoryRows) : WellKept(HistoryRows[i])
<1>1. /\ rows \in Seq(StoredRows) /\ \A i \in 1..Len(rows) : rows[i].sequence = i
      /\ \A i \in 1..Len(rows) : WellKept(rows[i]) /\ rows[i] \in StoredRows
    BY DEF WireTypeOK, Counted, Replied, RowReplied
<1>2. AllAnswered(rows)
    BY ChatAnswered
<1>3. \A i \in 1..Len(HistoryRows) : WellKept(HistoryRows[i])
    <2>1. PICK t \in Nat : Hist(rows, HistoryRows, t)
        BY HistoryIsHist
    <2> QED BY <1>1, <2>1 DEF Hist
<1>4. CASE HistoryRows = Kept(rows, NotPartial)
    <2>1. RowsOf(rows, Kept(rows, NotPartial), NotPartial)
        BY <1>1, KeptRows
    <2>2. Unparted(rows, NotPartial)
        BY <1>1, CompleteUnparted
    <2>3. RowsPaired(Kept(rows, NotPartial), strict)
        BY <1>1, <1>2, <2>1, <2>2, KeptRowsPaired
    <2> QED BY <1>3, <1>4, <2>3
<1>5. ASSUME NEW m \in 1..Len(rows), IsCompaction(rows[m]),
             HistoryRows = <<rows[m]>> \o Kept(rows, NotPartial \intersect After(rows[m].mark.through))
      PROVE  RowsPaired(HistoryRows, strict)
    <2> DEFINE S == NotPartial \intersect After(rows[m].mark.through)
               k == Kept(rows, S)
               b == <<rows[m]>>
    <2>1. Unparted(rows, S)
        BY <1>1, <1>5, CutsUnparted
    <2>0. HistoryRows = b \o k
        BY <1>5
    <2> HIDE DEF S
    <2>2. RowsOf(rows, k, S)
        BY <1>1, KeptRows
    <2> HIDE DEF k
    <2>3. RowsPaired(k, strict)
        BY <1>1, <1>2, <2>1, <2>2, KeptRowsPaired
    <2>4. k \in Seq(StoredRows)
        BY <2>2 DEF RowsOf
    <2>5. b \in Seq(StoredRows) /\ Len(b) = 1 /\ b[1] = rows[m]
        BY <1>1
    <2>6. IdsIn(rows[m], "tool_use") = {} /\ IdsIn(rows[m], "tool_result") = {}
        BY <1>1, <1>5, WhoseIds
    <2> HIDE DEF b
    <2>7. RowsPaired(b \o k, strict)
        BY <2>3, <2>4, <2>5, <2>6, MarkerFirst
    <2> QED BY <2>0, <2>7
<1> QED BY <1>1, <1>3, <1>4, <1>5, HistoryShape

\* Some of a row's blocks: the ids of a type that stay, and the row well kept.
LEMMA CutIds ==
    ASSUME NEW r \in StoredRows, NEW S
    PROVE  LET c == [r EXCEPT !.content = Kept(r.content, S)] IN
           /\ c \in StoredRows /\ c.node = r.node /\ c.role = r.role /\ c.is_partial = r.is_partial
           /\ \A d, type : d \in IdsIn(c, type) <=>
                 \E j \in 1..Len(r.content) : /\ r.content[j].type = type /\ r.content[j].id = d
                                              /\ r.content[j] \in S
           /\ \A T : TypesIn(r, T) => TypesIn(c, T)
           /\ CallsEnd(r) => CallsEnd(c)
           /\ IsCompaction(c) => IsCompaction(r)
           /\ \A d, type : d \in IdsIn(c, type) => c.content # <<>>
<1> DEFINE s == r.content
           k == Kept(s, S)
           c == [r EXCEPT !.content = k]
<1>1. s \in Seq(Blocks) /\ DOMAIN s = 1..Len(s)
    BY BlocksOf
<1>2. k \in Seq(Blocks)
    BY <1>1, KeptPicks
<1>3. PICK e : Places(e, s, S, k)
    BY <1>1, KeptPlaces
<1> HIDE DEF k
<1>4. c \in StoredRows /\ c.content = k /\ c.node = r.node /\ c.role = r.role /\ c.is_partial = r.is_partial
    BY <1>2 DEF StoredRows
<1> HIDE DEF c, s
<1>5. /\ \A x \in 1..Len(k) : e[x] \in 1..Len(s) /\ k[x] = s[e[x]] /\ s[e[x]] \in S
      /\ \A i \in 1..Len(s) : s[i] \in S => \E x \in 1..Len(k) : e[x] = i
      /\ \A x, y \in 1..Len(k) : x < y => e[x] < e[y]
    BY <1>3 DEF Places
<1>6. DOMAIN k = 1..Len(k)
    BY <1>2
<1>7. ASSUME NEW d, NEW type, d \in IdsIn(c, type)
      PROVE  \E j \in 1..Len(s) : s[j].type = type /\ s[j].id = d /\ s[j] \in S
    <2>1. PICK x \in 1..Len(k) : k[x].type = type /\ d = k[x].id
        BY <1>4, <1>7 DEF IdsIn
    <2> QED BY <1>5, <2>1
<1>8. ASSUME NEW d, NEW type, NEW j \in 1..Len(s), s[j].type = type, s[j].id = d, s[j] \in S
      PROVE  d \in IdsIn(c, type)
    <2>1. PICK x \in 1..Len(k) : e[x] = j
        BY <1>5, <1>8
    <2>2. k[x].type = type /\ k[x].id = d
        BY <1>5, <1>8, <2>1
    <2> QED BY <1>4, <2>2 DEF IdsIn
<1>9. ASSUME NEW T, TypesIn(r, T) PROVE TypesIn(c, T)
    BY <1>4, <1>5, <1>9 DEF TypesIn, s
<1>10. IsCompaction(c) => IsCompaction(r)
    BY <1>1, <1>4, <1>5, <1>6 DEF IsCompaction, s
<1>11. ASSUME NEW d, NEW type, d \in IdsIn(c, type) PROVE c.content # <<>>
    <2>1. PICK x \in 1..Len(k) : k[x].type = type
        BY <1>4, <1>11 DEF IdsIn
    <2>2. Len(k) # 0
        BY <1>2, <2>1
    <2> QED BY <1>4, <2>2
<1>12. ASSUME CallsEnd(r) PROVE CallsEnd(c)
    <2> SUFFICES ASSUME NEW x \in 1..Len(k), NEW y \in 1..Len(k), x < y, k[x].type = "tool_use"
                 PROVE  k[y].type = "tool_use"
        BY <1>4 DEF CallsEnd
    <2>1. e[x] < e[y] /\ s[e[x]].type = "tool_use"
        BY <1>5
    <2>2. s[e[y]].type = "tool_use"
        BY <1>5, <1>12, <2>1 DEF CallsEnd, s
    <2> QED BY <1>5, <2>2
<1> QED BY <1>4, <1>7, <1>8, <1>9, <1>10, <1>11, <1>12 DEF c, k, s

LEMMA CutKept ==
    ASSUME NEW r \in StoredRows, WellKept(r), NEW S
    PROVE  WellKept([r EXCEPT !.content = Kept(r.content, S)])
<1> DEFINE c == [r EXCEPT !.content = Kept(r.content, S)]
<1>1. /\ c.role = r.role /\ c.is_partial = r.is_partial
      /\ \A d, type : d \in IdsIn(c, type) <=>
            \E j \in 1..Len(r.content) : /\ r.content[j].type = type /\ r.content[j].id = d
                                         /\ r.content[j] \in S
      /\ \A T : TypesIn(r, T) => TypesIn(c, T)
      /\ CallsEnd(r) => CallsEnd(c)
      /\ IsCompaction(c) => IsCompaction(r)
    BY CutIds
<1> HIDE DEF c
<1>2. ASSUME NEW type, IdsIn(c, type) # {} PROVE IdsIn(r, type) # {}
    <2>1. PICK d : d \in IdsIn(c, type)
        BY <1>2
    <2>2. PICK j \in 1..Len(r.content) : r.content[j].type = type /\ r.content[j].id = d
        BY <1>1, <2>1
    <2>3. d \in IdsIn(r, type)
        BY <2>2 DEF IdsIn
    <2> QED BY <2>3
<1>3. WellKept(c)
    BY <1>1, <1>2 DEF WellKept
<1> QED BY <1>3 DEF c

\* Rows without calls and results may go.
LEMMA FewerPaired ==
    ASSUME NEW c \in Seq(StoredRows), NEW S, NEW strict \in BOOLEAN, ~strict,
           RowsPaired(c, strict),
           \A x \in 1..Len(c) : \A d, type : d \in IdsIn(c[x], type) => c[x] \in S
    PROVE  RowsPaired(Kept(c, S), strict)
<1> DEFINE h == Kept(c, S)
<1>1. PICK f : Places(f, c, S, h)
    BY KeptPlaces
<1> HIDE DEF h
<1>2. /\ \A x \in 1..Len(h) : f[x] \in 1..Len(c) /\ h[x] = c[f[x]]
      /\ \A x, y \in 1..Len(h) : x < y => f[x] < f[y]
      /\ \A i \in 1..Len(c) : c[i] \in S => \E x \in 1..Len(h) : f[x] = i
    BY <1>1 DEF Places
<1>3. ASSUME NEW x \in 1..Len(h), NEW y \in 1..Len(h), f[x] < f[y] PROVE x < y
    <2>1. f[x] \in Nat /\ f[y] \in Nat
        BY <1>2
    <2>2. x # y /\ ~(y < x)
        BY <1>2, <1>3, <2>1
    <2> QED BY <2>2
<1>4. ASSUME NEW x \in 1..Len(h), NEW d \in IdsIn(h[x], "tool_use") \ Abandoned
      PROVE  \E y \in 1..Len(h) :
                x < y /\ d \in IdsIn(h[y], "tool_result") /\ (strict => y = x + 1)
    <2>1. f[x] \in 1..Len(c) /\ d \in IdsIn(c[f[x]], "tool_use") \ Abandoned
        BY <1>2
    <2>2. PICK j \in 1..Len(c) : f[x] < j /\ d \in IdsIn(c[j], "tool_result")
        BY <2>1 DEF RowsPaired
    <2>3. PICK y \in 1..Len(h) : f[y] = j
        BY <1>2, <2>2
    <2>4. x < y /\ d \in IdsIn(h[y], "tool_result")
        BY <1>2, <1>3, <2>2, <2>3
    <2> QED BY <2>4
<1>5. ASSUME NEW x \in 1..Len(h), NEW d \in IdsIn(h[x], "tool_result")
      PROVE  \E y \in 1..Len(h) : y < x /\ d \in IdsIn(h[y], "tool_use")
    <2>1. f[x] \in 1..Len(c) /\ d \in IdsIn(c[f[x]], "tool_result")
        BY <1>2
    <2>2. PICK j \in 1..Len(c) : j < f[x] /\ d \in IdsIn(c[j], "tool_use")
        BY <2>1 DEF RowsPaired
    <2>3. PICK y \in 1..Len(h) : f[y] = j
        BY <1>2, <2>2
    <2>4. y < x /\ d \in IdsIn(h[y], "tool_use")
        BY <1>2, <1>3, <2>2, <2>3
    <2> QED BY <2>4
<1>6. RowsPaired(h, strict)
    BY <1>4, <1>5 DEF RowsPaired
<1> QED BY <1>6 DEF h

\* A call and its result stay or go together: rows c keep of the rows v the ids
\* that are in pairs, in the nodes of `keep'.
CutTo(c, v, pairs, keep) ==
    /\ Len(c) = Len(v)
    /\ \A x \in 1..Len(v) : \A type \in {"tool_use", "tool_result"} : \A d :
          d \in IdsIn(c[x], type) <=>
             d \in IdsIn(v[x], type) /\ v[x].node \in keep /\ d \in pairs

LEMMA CutPaired ==
    ASSUME NEW sc, NEW rs \in Seq(StoredRows), NEW last, Replied(sc, rs, last),
           NEW S, NEW keep, NEW c, CutTo(c, Kept(rs, S), ValidPairIds(Kept(rs, S)), keep),
           NEW strict \in BOOLEAN, ~strict
    PROVE  RowsPaired(c, strict)
<1> DEFINE v == Kept(rs, S)
           pairs == ValidPairIds(v)
<1>1. PICK e : Places(e, rs, S, v)
    BY KeptPlaces
<1>2. v \in Seq(StoredRows)
    BY KeptPicks
<1> HIDE DEF v
<1>3. /\ \A x \in 1..Len(v) : e[x] \in 1..Len(rs) /\ v[x] = rs[e[x]]
      /\ \A x, y \in 1..Len(v) : x < y => e[x] < e[y]
    BY <1>1 DEF Places
<1>4. ASSUME NEW x \in 1..Len(v), NEW y \in 1..Len(v), e[x] < e[y] PROVE x < y
    <2>1. e[x] \in Nat /\ e[y] \in Nat
        BY <1>3
    <2>2. x # y /\ ~(y < x)
        BY <1>3, <1>4, <2>1
    <2> QED BY <2>2
<1>5. ASSUME NEW x \in 1..Len(v), NEW y \in 1..Len(v), NEW d,
             d \in IdsIn(v[x], "tool_use"), d \in IdsIn(v[y], "tool_result")
      PROVE  x < y /\ v[x].node = v[y].node
    <2> DEFINE i == e[x]
               j == e[y]
    <2>1. /\ i \in 1..Len(rs) /\ j \in 1..Len(rs) /\ v[x] = rs[i] /\ v[y] = rs[j]
        BY <1>3
    <2> HIDE DEF i, j
    <2>2. i < j /\ rs[i].node = rs[j].node
        BY <1>5, <2>1, AnswerOf
    <2> QED BY <1>4, <2>1, <2>2 DEF i, j
<1>6. \A d \in pairs : /\ \E x \in 1..Len(v) : d \in IdsIn(v[x], "tool_use")
                       /\ \E x \in 1..Len(v) : d \in IdsIn(v[x], "tool_result")
    BY <1>2, IdsOfRows DEF ValidPairIds
<1>7. /\ Len(c) = Len(v)
      /\ \A x \in 1..Len(v) : \A type \in {"tool_use", "tool_result"} : \A d :
          d \in IdsIn(c[x], type) <=>
             d \in IdsIn(v[x], type) /\ v[x].node \in keep /\ d \in pairs
    BY DEF CutTo, v
<1> HIDE DEF pairs
<1>8. ASSUME NEW x \in 1..Len(c), NEW d \in IdsIn(c[x], "tool_use") \ Abandoned
      PROVE  \E y \in 1..Len(c) :
                x < y /\ d \in IdsIn(c[y], "tool_result") /\ (strict => y = x + 1)
    <2>1. d \in IdsIn(v[x], "tool_use") /\ v[x].node \in keep /\ d \in pairs /\ x \in 1..Len(v)
        BY <1>7
    <2>2. PICK y \in 1..Len(v) : d \in IdsIn(v[y], "tool_result")
        BY <1>6, <2>1
    <2>3. x < y /\ v[y].node \in keep
        BY <1>5, <2>1, <2>2
    <2> QED BY <1>7, <2>1, <2>2, <2>3
<1>9. ASSUME NEW x \in 1..Len(c), NEW d \in IdsIn(c[x], "tool_result")
      PROVE  \E y \in 1..Len(c) : y < x /\ d \in IdsIn(c[y], "tool_use")
    <2>1. d \in IdsIn(v[x], "tool_result") /\ v[x].node \in keep /\ d \in pairs /\ x \in 1..Len(v)
        BY <1>7
    <2>2. PICK y \in 1..Len(v) : d \in IdsIn(v[y], "tool_use")
        BY <1>6, <2>1
    <2>3. y < x /\ v[y].node \in keep
        BY <1>5, <2>1, <2>2
    <2> QED BY <1>7, <2>1, <2>2, <2>3
<1> QED BY <1>8, <1>9 DEF RowsPaired

LEMMA FlowPaired ==
    ASSUME WireTypeOK, Replied(scope, rows, lastId), NEW own \in BOOLEAN, NEW tools \in BOOLEAN,
           NEW strict \in BOOLEAN, ~strict
    PROVE  /\ RowsPaired(LoadHistory(own, tools), strict)
           /\ \A i \in 1..Len(LoadHistory(own, tools)) : WellKept(LoadHistory(own, tools)[i])
<1> DEFINE M == {r \in ToSet(rows) : /\ r.node = "up" \/ own
                                     /\ ~(r.node = "own" /\ r.is_partial)}
           mine == Kept(rows, M)
           pairs == ValidPairIds(mine)
           stays(r, b) == b.type \in {"tool_use", "tool_result"} =>
                             (r.node = "own" \/ tools) /\ b.id \in pairs
           only(i) == {b \in ToSet(mine[i].content) : stays(mine[i], b)}
           cut == [i \in DOMAIN mine |-> [mine[i] EXCEPT !.content = Kept(mine[i].content, only(i))]]
           N == {r \in ToSet(cut) : r.content # <<>>}
           keep == {n \in Nodes : n = "own" \/ tools}
           h == Kept(cut, N)
<1>1. LoadHistory(own, tools) = h
    BY DEF LoadHistory
<1>2. rows \in Seq(StoredRows) /\ \A i \in 1..Len(rows) : rows[i] \in StoredRows /\ WellKept(rows[i])
    BY DEF WireTypeOK, Replied, RowReplied
<1>3. mine \in Seq(StoredRows) /\ \A x \in 1..Len(mine) : WellKept(mine[x]) /\ mine[x] \in StoredRows
    <2> HIDE DEF M
    <2>1. PICK e : Places(e, rows, M, mine)
        BY <1>2, KeptPlaces
    <2>2. mine \in Seq(StoredRows)
        BY <1>2, KeptPicks
    <2> HIDE DEF mine
    <2>3. \A x \in 1..Len(mine) : e[x] \in 1..Len(rows) /\ mine[x] = rows[e[x]]
        BY <2>1 DEF Places
    <2> QED BY <1>2, <2>2, <2>3
<1>m. mine = Kept(rows, M)
    OBVIOUS
<1> HIDE DEF mine, M
<1>4. DOMAIN mine = 1..Len(mine) /\ Len(mine) \in Nat
    BY <1>3
<1> HIDE DEF pairs
<1>5. ASSUME NEW x \in 1..Len(mine), NEW j \in 1..Len(mine[x].content),
             mine[x].content[j].type \in {"tool_use", "tool_result"}
      PROVE  mine[x].content[j] \in only(x)
                <=> mine[x].node \in keep /\ mine[x].content[j].id \in pairs
    <2>1. mine[x].node \in Nodes /\ DOMAIN mine[x].content = 1..Len(mine[x].content)
        BY <1>3, BlocksOf DEF StoredRows
    <2>2. mine[x].content[j] \in ToSet(mine[x].content)
        BY <2>1 DEF ToSet
    <2> QED BY <1>5, <2>1, <2>2
<1> HIDE DEF only, keep
<1>6. ASSUME NEW x \in 1..Len(mine)
      PROVE  /\ cut[x] \in StoredRows /\ WellKept(cut[x])
             /\ \A type \in {"tool_use", "tool_result"} : \A d :
                  d \in IdsIn(cut[x], type) <=>
                     d \in IdsIn(mine[x], type) /\ mine[x].node \in keep /\ d \in pairs
             /\ \A d, type : d \in IdsIn(cut[x], type) => cut[x].content # <<>>
    <2> DEFINE r == mine[x]
               S == only(x)
               c == [r EXCEPT !.content = Kept(r.content, S)]
    <2>1. cut[x] = c /\ r \in StoredRows /\ WellKept(r)
        BY <1>3, <1>4
    <2>2. \A j \in 1..Len(r.content) : r.content[j].type \in {"tool_use", "tool_result"} =>
             (r.content[j] \in S <=> r.node \in keep /\ r.content[j].id \in pairs)
        BY <1>5
    <2> HIDE DEF r, S, cut
    <2>3. WellKept(c)
        BY <2>1, CutKept
    <2>4. /\ c \in StoredRows
          /\ \A d, type : d \in IdsIn(c, type) <=>
                \E j \in 1..Len(r.content) : /\ r.content[j].type = type /\ r.content[j].id = d
                                             /\ r.content[j] \in S
          /\ \A d, type : d \in IdsIn(c, type) => c.content # <<>>
        BY <2>1, CutIds
    <2> HIDE DEF c
    <2>5. ASSUME NEW type \in {"tool_use", "tool_result"}, NEW d
          PROVE  d \in IdsIn(c, type) <=> d \in IdsIn(r, type) /\ r.node \in keep /\ d \in pairs
        <3>1. ASSUME d \in IdsIn(c, type)
              PROVE  d \in IdsIn(r, type) /\ r.node \in keep /\ d \in pairs
            <4>1. PICK j \in 1..Len(r.content) :
                     r.content[j].type = type /\ r.content[j].id = d /\ r.content[j] \in S
                BY <2>4, <3>1
            <4>2. d \in IdsIn(r, type)
                BY <4>1 DEF IdsIn
            <4> QED BY <2>2, <4>1, <4>2
        <3>2. ASSUME d \in IdsIn(r, type), r.node \in keep, d \in pairs
              PROVE  d \in IdsIn(c, type)
            <4>1. PICK j \in 1..Len(r.content) : r.content[j].type = type /\ r.content[j].id = d
                BY <3>2 DEF IdsIn
            <4>2. r.content[j] \in S
                BY <2>2, <3>2, <4>1
            <4> QED BY <2>4, <4>1, <4>2
        <3> QED BY <3>1, <3>2
    <2> QED BY <2>1, <2>3, <2>4, <2>5 DEF r
<1>7. cut \in Seq(StoredRows) /\ Len(cut) = Len(mine) /\ DOMAIN cut = 1..Len(cut)
    <2>1. DOMAIN cut = 1..Len(mine) /\ \A x \in 1..Len(mine) : cut[x] \in StoredRows
        BY <1>4, <1>6
    <2>2. cut = [x \in 1..Len(mine) |-> cut[x]]
        BY <1>4
    <2> HIDE DEF cut
    <2> QED BY <1>4, <2>1, <2>2
<1> HIDE DEF cut
<1>8. CutTo(cut, mine, pairs, keep)
    BY <1>6, <1>7 DEF CutTo
<1>9. RowsPaired(cut, strict)
    <2>1. CutTo(cut, Kept(rows, M), ValidPairIds(Kept(rows, M)), keep)
        BY <1>8, <1>m DEF pairs
    <2> QED BY <1>2, <2>1, CutPaired
<1>10. \A x \in 1..Len(cut) : \A d, type : d \in IdsIn(cut[x], type) => cut[x] \in N
    <2>1. \A x \in 1..Len(cut) : cut[x] \in ToSet(cut)
        BY <1>7 DEF ToSet
    <2> QED BY <1>6, <1>7, <2>1
<1> HIDE DEF N
<1>11. RowsPaired(h, strict)
    BY <1>7, <1>9, <1>10, FewerPaired
<1>12. \A i \in 1..Len(h) : WellKept(h[i])
    <2>1. PICK f : Places(f, cut, N, h)
        BY <1>7, KeptPlaces
    <2> HIDE DEF h
    <2>2. \A x \in 1..Len(h) : f[x] \in 1..Len(cut) /\ h[x] = cut[f[x]]
        BY <2>1 DEF Places
    <2> QED BY <1>6, <1>7, <2>2
<1> HIDE DEF h
<1> QED BY <1>1, <1>11, <1>12

LEMMA PairsHold ==
    ASSUME WireTypeOK, Counted(scope, rows), Replied(scope, rows, lastId)
    PROVE  CallsAndResultsPaired
<1> DEFINE strict == scope = "chat"
<1>1. strict \in BOOLEAN /\ (strict <=> scope = "chat")
    OBVIOUS
<1> HIDE DEF strict
<1>2. ASSUME NEW h \in Histories PROVE PairedRows(h, strict)
    <2>1. h \in Seq(StoredRows) /\ GoodLabels(h)
        BY HistoriesLabelled
    <2>2. CASE scope = "chat"
        <3>1. h = HistoryRows
            BY <2>2 DEF Histories
        <3>2. /\ RowsPaired(HistoryRows, strict)
              /\ \A i \in 1..Len(HistoryRows) : WellKept(HistoryRows[i])
            BY <1>1, <1>2, <2>2, <3>1, ChatPaired
        <3> QED BY <2>1, <3>1, <3>2 DEF PairedRows
    <2>3. CASE scope = "flow"
        <3>1. PICK own \in BOOLEAN, tools \in BOOLEAN : h = LoadHistory(own, tools)
            BY <2>3 DEF Histories
        <3>2. ~strict
            BY <1>1, <2>3
        <3>3. /\ RowsPaired(LoadHistory(own, tools), strict)
              /\ \A i \in 1..Len(LoadHistory(own, tools)) : WellKept(LoadHistory(own, tools)[i])
            BY <1>1, <3>2, FlowPaired
        <3> QED BY <2>1, <3>1, <3>3 DEF PairedRows
    <2> QED BY <2>2, <2>3 DEF WireTypeOK
<1>3. ASSUME NEW h \in Histories, NEW w \in Payloads(h)
      PROVE  \A i \in DOMAIN w :
                /\ w[i].w = "call" => w[i].id \in Abandoned \/ Answered(w, i, scope = "chat")
                /\ w[i].w = "result" => Called(w, i)
    <2>1. w \in Pairs(strict)
        BY <1>1, <1>2, <1>3, PayloadsPaired
    <2>2. \A i \in DOMAIN w :
             /\ w[i].w = "call" => w[i].id \in Abandoned \/ Answered(w, i, strict)
             /\ w[i].w = "result" => Called(w, i)
        BY <1>1, <2>1, PairsMean
    <2> QED BY <2>2 DEF strict
<1> QED BY <1>3 DEF CallsAndResultsPaired

\* In every payload of every provider each result follows its call, and a call
\* whose result is stored has it, right after it in a chat: whatever turns were
\* left behind, promoted, compacted or handed over before (_load_history,
\* _history_rows, _compact_if_due); in a flow every call sent has one.
THEOREM CallsArePaired == WireSpec => []CallsAndResultsPaired
<1> DEFINE Inv == WireTypeOK /\ Counted(scope, rows) /\ Replied(scope, rows, lastId)
<1>1. WireInit => Inv
    <2> SUFFICES ASSUME WireInit PROVE Inv
        OBVIOUS
    <2>1. Len(rows) = 0
        BY DEF WireInit
    <2>2. Replied(scope, rows, lastId)
        BY <2>1 DEF Replied
    <2> QED BY <2>2, WireStart
<1>2. Inv /\ [WireNext]_wireVars => Inv'
    <2> SUFFICES ASSUME WireTypeOK, Counted(scope, rows), Replied(scope, rows, lastId),
                        [WireNext]_wireVars
                 PROVE  Inv'
        OBVIOUS
    <2>1. scope' = scope /\ model' \in Models /\ lastId' \in Nat /\ open' \in BOOLEAN
        BY RestTyped
    <2>2. Counted(scope, rows') /\ Replied(scope, rows', lastId')
        BY RowsCounted, RowsReplied
    <2>3. rows' \in Seq(StoredRows)
        BY <2>2 DEF Counted
    <2> QED BY <2>1, <2>2, <2>3 DEF WireTypeOK
<1>3. Inv => CallsAndResultsPaired
    BY PairsHold
<1> QED BY <1>1, <1>2, <1>3, PTL DEF WireSpec
=============================================================================
