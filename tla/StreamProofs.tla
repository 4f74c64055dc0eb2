---------------------------- MODULE StreamProofs ----------------------------
(***************************************************************************)
(* Proofs about Stream, for any turns, clients and numbers of chunks: the  *)
(* stream implements TurnFeed step by step, and a full fetch leaves a page *)
(* without a hole.                                                         *)
(***************************************************************************)
EXTENDS Stream, WellFoundedInduction, TLAPS

USE DEF turnVars, pumpVars, sockVars, pageVars, restVars

\* The chunks of turn t among the frames of z (0 stands for its closing event).
Nums(z, t) == {z[i].n : i \in {j \in 1..Len(z) : z[j].turn = t}}

\* In z every chunk of turn t comes after its predecessor, or that is in have.
Follows(z, t, have) ==
    \A i \in 1..Len(z) :
        z[i].turn = t /\ z[i].n > 1 =>
            \/ z[i].n - 1 \in have
            \/ \E j \in 1..(i - 1) : z[j].turn = t /\ z[j].n = z[i].n - 1

\* The chunks of a turn that have been published.
Published(t) == IF stage[t] = "publishing" THEN pushed[t] - 1 ELSE pushed[t]

\* A turn is cached from its first chunk to its DELETE, and stored, if at all,
\* before that.
TurnInv ==
    \A t \in Turns :
        /\ t \in coming => stage[t] = "idle"
        /\ stage[t] = "idle" => pushed[t] = 0 /\ ~cached[t] /\ ~row[t]
        /\ stage[t] \in {"streaming", "publishing"} => cached[t] /\ ~row[t]
        /\ stage[t] = "publishing" => pushed[t] > 0
        /\ stage[t] = "saved" => cached[t]
        /\ stage[t] \in {"ended", "closed"} => ~cached[t]
        /\ row[t] => pushed[t] > 0

\* A client that has its snapshot, and is not blind, has a subscription that has
\* been in place since before it was read, or the pump is dead.
PumpInv ==
    /\ acked => pump = "listening"
    /\ \A c \in Clients :
          /\ cl[c] \in {"reading", "sending"} /\ ~blind[c] => acked \/ pump = "dead"
          /\ cl[c] = "sending" => left[c] = {}
          /\ rest[c] \in {"full", "fullDone"} => cl[c] \in {"sending", "off"}

\* No frame is ahead of the turn's list.
Bounded ==
    \A t \in Turns :
        /\ Nums(wire, t) \subseteq 0..pushed[t]
        /\ \A c \in Clients :
              /\ Nums(queue[c], t) \cup Nums(snap[c], t) \subseteq 0..pushed[t]
              /\ view[c][t] \subseteq 1..pushed[t]

\* What the client has and will get of a turn: its page, then the snapshot it is
\* still to be sent, then its queue, then the subscription, in that order; and
\* what is published next follows the last of it.
Have1(c, t) == view[c][t] \cup Nums(snap[c], t)
Have2(c, t) == Have1(c, t) \cup Nums(queue[c], t)

\* Snapshots are whole lists, one after the other.
SnapInv == \A c \in Clients : \A t \in Untagged : Follows(snap[c], t, view[c][t])

Ordered(c, t) ==
    /\ Follows(queue[c], t, Have1(c, t))
    /\ Follows(wire, t, Have2(c, t))
    /\ acked => Published(t) \in {0} \cup Have2(c, t) \cup Nums(wire, t)

\* A turn in flight reaches every client that is not blind without a hole.
LiveInv ==
    \A c \in Clients : \A t \in Untagged :
        ~blind[c] /\ cached[t] =>
            /\ NoHole(view[c][t])
            /\ cl[c] \in {"reading", "sending"} /\ t \notin left[c] => Ordered(c, t)

\* A full fetch leaves a turn complete, or one that is still delivered in order,
\* unless the server lost it.
FetchedInv ==
    \A c \in Clients : \A t \in Untagged :
        ~blind[c] /\ rest[c] \in {"full", "fullDone"} /\ ~Lost(t) =>
            /\ NoHole(view[c][t])
            /\ cl[c] = "sending" =>
                  Ordered(c, t) \/ (row[t] /\ view[c][t] = 1..pushed[t])

-----------------------------------------------------------------------------
(* Sequences of frames *)

\* The chunks of a sequence, by membership.
LEMMA NumsMember ==
    ASSUME NEW z \in Seq(Frames), NEW t
    PROVE  \A x : x \in Nums(z, t) <=> \E i \in 1..Len(z) : z[i].turn = t /\ z[i].n = x
BY DEF Nums

\* A frame put on a queue.
LEMMA NumsAppend ==
    ASSUME NEW z \in Seq(Frames), NEW f \in Frames, NEW t
    PROVE  Nums(Append(z, f), t) = Nums(z, t) \cup (IF f.turn = t THEN {f.n} ELSE {})
<1> DEFINE a == Append(z, f)
<1>1. /\ a \in Seq(Frames) /\ Len(a) = Len(z) + 1 /\ Len(z) \in Nat
      /\ \A i \in 1..Len(z) : a[i] = z[i]
      /\ a[Len(z) + 1] = f
    OBVIOUS
<1> HIDE DEF a
<1>2. ASSUME NEW x \in Nums(a, t) PROVE x \in Nums(z, t) \cup (IF f.turn = t THEN {f.n} ELSE {})
    <2>1. PICK i \in 1..Len(a) : a[i].turn = t /\ a[i].n = x
        BY <1>1, NumsMember
    <2> QED BY <1>1, <2>1, NumsMember
<1>3. ASSUME NEW x \in Nums(z, t) PROVE x \in Nums(a, t)
    <2>1. PICK i \in 1..Len(z) : z[i].turn = t /\ z[i].n = x
        BY NumsMember
    <2>2. i \in 1..Len(a) /\ a[i] = z[i]
        BY <1>1
    <2> QED BY <1>1, <2>1, <2>2, NumsMember
<1>4. ASSUME f.turn = t PROVE f.n \in Nums(a, t)
    <2>1. Len(z) + 1 \in 1..Len(a) /\ a[Len(z) + 1] = f
        BY <1>1
    <2> QED BY <1>1, <1>4, <2>1, NumsMember
<1> QED BY <1>2, <1>3, <1>4 DEF a

\* A frame taken off a queue.
LEMMA NumsTail ==
    ASSUME NEW z \in Seq(Frames), z # <<>>, NEW t
    PROVE  Nums(z, t) = Nums(Tail(z), t) \cup (IF Head(z).turn = t THEN {Head(z).n} ELSE {})
<1> DEFINE a == Tail(z)
<1>1. /\ a \in Seq(Frames) /\ Len(z) = Len(a) + 1 /\ Len(a) \in Nat
      /\ \A i \in 1..Len(a) : a[i] = z[i + 1]
      /\ z[1] = Head(z)
    OBVIOUS
<1> HIDE DEF a
<1>2. ASSUME NEW x \in Nums(z, t)
      PROVE x \in Nums(a, t) \cup (IF Head(z).turn = t THEN {Head(z).n} ELSE {})
    <2>1. PICK i \in 1..Len(z) : z[i].turn = t /\ z[i].n = x
        BY NumsMember
    <2>2. CASE i = 1
        BY <1>1, <2>1, <2>2
    <2>3. CASE i # 1
        <3>1. i - 1 \in 1..Len(a) /\ a[i - 1] = z[i]
            BY <1>1, <2>3
        <3> QED BY <1>1, <2>1, <3>1, NumsMember
    <2> QED BY <2>2, <2>3
<1>3. ASSUME NEW x \in Nums(a, t) PROVE x \in Nums(z, t)
    <2>1. PICK i \in 1..Len(a) : a[i].turn = t /\ a[i].n = x
        BY <1>1, NumsMember
    <2>2. i + 1 \in 1..Len(z) /\ a[i] = z[i + 1]
        BY <1>1
    <2> QED BY <2>1, <2>2, NumsMember
<1>4. ASSUME Head(z).turn = t PROVE Head(z).n \in Nums(z, t)
    <2>1. 1 \in 1..Len(z)
        BY <1>1
    <2> QED BY <1>1, <1>4, <2>1, NumsMember
<1> QED BY <1>2, <1>3, <1>4 DEF a

\* Having more does not break the order; nor does a closing event matter to it.
LEMMA FollowsMore ==
    ASSUME NEW z \in Seq(Frames), NEW t, NEW have, NEW more, have \ {0} \subseteq more,
           Follows(z, t, have)
    PROVE  Follows(z, t, more)
<1>1. ASSUME NEW i \in 1..Len(z), z[i].n > 1, z[i].n - 1 \in have PROVE z[i].n - 1 \in more
    <2>1. z[i] \in Frames
        OBVIOUS
    <2> QED BY <1>1, <2>1 DEF Frames
<1> QED BY <1>1 DEF Follows

\* The empty queue.
LEMMA EmptyList ==
    ASSUME NEW t, NEW have
    PROVE  /\ <<>> \in Seq(Frames) /\ Nums(<<>>, t) = {} /\ Follows(<<>>, t, have)
BY DEF Nums, Follows

\* A chunk whose predecessor is there may be put on the queue.
LEMMA FollowsAppend ==
    ASSUME NEW z \in Seq(Frames), NEW f \in Frames, NEW t, NEW have, Follows(z, t, have),
           f.turn = t /\ f.n > 1 => f.n - 1 \in have \cup Nums(z, t)
    PROVE  Follows(Append(z, f), t, have)
<1> DEFINE a == Append(z, f)
<1>1. /\ Len(a) = Len(z) + 1 /\ Len(z) \in Nat
      /\ \A i \in 1..Len(z) : a[i] = z[i]
      /\ a[Len(z) + 1] = f
    OBVIOUS
<1> HIDE DEF a
<1> SUFFICES ASSUME NEW i \in 1..Len(a), a[i].turn = t, a[i].n > 1, a[i].n - 1 \notin have
             PROVE \E j \in 1..(i - 1) : a[j].turn = t /\ a[j].n = a[i].n - 1
    BY DEF Follows, a
<1>2. CASE i \in 1..Len(z)
    <2>1. PICK j \in 1..(i - 1) : z[j].turn = t /\ z[j].n = z[i].n - 1
        BY <1>1, <1>2 DEF Follows
    <2>2. a[j] = z[j] /\ a[i] = z[i]
        BY <1>1, <1>2, <2>1
    <2> QED BY <2>1, <2>2
<1>3. CASE i = Len(z) + 1
    <2>1. f.n - 1 \in Nums(z, t)
        BY <1>1, <1>3
    <2>2. PICK j \in 1..Len(z) : z[j].turn = t /\ z[j].n = f.n - 1
        BY <2>1, NumsMember
    <2>3. j \in 1..(i - 1) /\ a[j] = z[j]
        BY <1>1, <1>3
    <2> QED BY <1>1, <1>3, <2>2, <2>3
<1> QED BY <1>1, <1>2, <1>3

\* The first frame follows what is there; the others follow it.
LEMMA FollowsTail ==
    ASSUME NEW z \in Seq(Frames), z # <<>>, NEW t, NEW have, Follows(z, t, have)
    PROVE  /\ Head(z).turn = t /\ Head(z).n > 1 => Head(z).n - 1 \in have
           /\ Follows(Tail(z), t, have \cup (IF Head(z).turn = t THEN {Head(z).n} ELSE {}))
<1> DEFINE a == Tail(z)
           more == have \cup (IF Head(z).turn = t THEN {Head(z).n} ELSE {})
<1>1. /\ Len(z) = Len(a) + 1 /\ Len(a) \in Nat
      /\ \A i \in 1..Len(a) : a[i] = z[i + 1]
      /\ z[1] = Head(z)
    OBVIOUS
<1>2. 1 \in 1..Len(z) /\ 1..(1 - 1) = {}
    BY <1>1
<1>3. Head(z).turn = t /\ Head(z).n > 1 => Head(z).n - 1 \in have
    BY <1>1, <1>2 DEF Follows
<1> HIDE DEF a
<1>4. ASSUME NEW i \in 1..Len(a), a[i].turn = t, a[i].n > 1, a[i].n - 1 \notin more
      PROVE \E j \in 1..(i - 1) : a[j].turn = t /\ a[j].n = a[i].n - 1
    <2>1. i + 1 \in 1..Len(z) /\ a[i] = z[i + 1]
        BY <1>1
    <2>2. PICK j \in 1..i : z[j].turn = t /\ z[j].n = a[i].n - 1
        BY <1>4, <2>1 DEF Follows
    <2>3. j # 1
        BY <1>1, <1>4, <2>2
    <2>4. j - 1 \in 1..(i - 1) /\ j - 1 \in 1..Len(a) /\ a[j - 1] = z[j]
        BY <1>1, <2>3
    <2> QED BY <2>2, <2>4
<1>5. Follows(a, t, more)
    <2> HIDE DEF more
    <2> QED BY <1>4 DEF Follows
<1> QED BY <1>3, <1>5 DEF a

\* The list of a turn in the cache, read behind what the snapshot holds already.
LEMMA ReadList ==
    ASSUME TypeOK, NEW z \in Seq(Frames), NEW u \in Turns, NEW t
    PROVE  /\ z \o Chunks(u) \in Seq(Frames)
           /\ Nums(z \o Chunks(u), t)
                = Nums(z, t) \cup (IF cached[u] /\ u = t THEN 1..pushed[u] ELSE {})
           /\ \A have : Follows(z, t, have) => Follows(z \o Chunks(u), t, have)
<1>1. pushed[u] \in Nat
    BY DEF TypeOK
<1>2. CASE ~cached[u]
    <2>1. Chunks(u) = <<>>
        BY <1>2 DEF Chunks
    <2>2. z \o <<>> = z
        OBVIOUS
    <2> QED BY <1>2, <2>1, <2>2
<1>3. CASE cached[u]
    <2> DEFINE p == pushed[u]
               list == [n \in 1..p |-> Frame(u, n)]
               a == z \o list
    <2>1. Chunks(u) = list
        BY <1>3 DEF Chunks
    <2>2. list \in Seq(Frames) /\ Len(list) = p
        <3>1. \A n \in 1..p : Frame(u, n) \in Frames
            BY DEF Frame, Frames
        <3>2. list \in [1..p -> Frames]
            BY <3>1
        <3> HIDE DEF list
        <3> QED BY <1>1, <3>2
    <2>3. \A n \in 1..p : list[n].turn = u /\ list[n].n = n
        BY DEF Frame
    <2> HIDE DEF list
    <2>4. /\ a \in Seq(Frames) /\ Len(a) = Len(z) + p /\ Len(z) \in Nat
          /\ \A i \in 1..Len(z) : a[i] = z[i]
          /\ \A n \in 1..p : a[Len(z) + n] = list[n]
        BY <1>1, <2>2
    <2> HIDE DEF a
    <2>5. \A i \in 1..Len(a) : i \in 1..Len(z) \/ \E n \in 1..p : i = Len(z) + n
        <3> SUFFICES ASSUME NEW i \in 1..Len(a), i \notin 1..Len(z)
                     PROVE \E n \in 1..p : i = Len(z) + n
            OBVIOUS
        <3>1. i - Len(z) \in 1..p /\ i = Len(z) + (i - Len(z))
            BY <1>1, <2>4
        <3> QED BY <3>1
    <2>6. ASSUME NEW x \in Nums(a, t)
          PROVE x \in Nums(z, t) \cup (IF u = t THEN 1..p ELSE {})
        <3>1. PICK i \in 1..Len(a) : a[i].turn = t /\ a[i].n = x
            BY <2>4, NumsMember
        <3>2. CASE i \in 1..Len(z)
            BY <2>4, <3>1, <3>2, NumsMember
        <3>3. ASSUME NEW n \in 1..p, i = Len(z) + n PROVE u = t /\ x = n
            BY <2>3, <2>4, <3>1, <3>3
        <3> QED BY <2>5, <3>2, <3>3
    <2>7. ASSUME NEW x \in Nums(z, t) PROVE x \in Nums(a, t)
        <3>1. PICK i \in 1..Len(z) : z[i].turn = t /\ z[i].n = x
            BY NumsMember
        <3>2. i \in 1..Len(a) /\ a[i] = z[i]
            BY <1>1, <2>4
        <3> QED BY <2>4, <3>1, <3>2, NumsMember
    <2>8. ASSUME NEW n \in 1..p, u = t PROVE n \in Nums(a, t)
        <3>1. Len(z) + n \in 1..Len(a) /\ a[Len(z) + n] = list[n]
            BY <1>1, <2>4
        <3> QED BY <2>3, <2>4, <2>8, <3>1, NumsMember
    <2>9. ASSUME NEW have, Follows(z, t, have) PROVE Follows(a, t, have)
        <3> SUFFICES ASSUME NEW i \in 1..Len(a), a[i].turn = t, a[i].n > 1,
                            a[i].n - 1 \notin have
                     PROVE \E j \in 1..(i - 1) : a[j].turn = t /\ a[j].n = a[i].n - 1
            BY DEF Follows
        <3>1. CASE i \in 1..Len(z)
            <4>1. PICK j \in 1..(i - 1) : z[j].turn = t /\ z[j].n = z[i].n - 1
                BY <2>4, <2>9, <3>1 DEF Follows
            <4>2. a[j] = z[j] /\ a[i] = z[i]
                BY <2>4, <3>1
            <4> QED BY <4>1, <4>2
        <3>2. ASSUME NEW n \in 1..p, i = Len(z) + n
              PROVE \E j \in 1..(i - 1) : a[j].turn = t /\ a[j].n = a[i].n - 1
            <4>1. a[i].turn = u /\ a[i].n = n
                BY <2>3, <2>4, <3>2
            <4>2. n - 1 \in 1..p /\ i - 1 \in 1..(i - 1) /\ i - 1 = Len(z) + (n - 1)
                BY <1>1, <2>4, <3>2, <4>1
            <4>3. a[i - 1].turn = u /\ a[i - 1].n = n - 1
                <5>1. a[Len(z) + (n - 1)] = list[n - 1]
                    BY <2>4, <4>2
                <5>2. a[i - 1] = list[n - 1]
                    BY <4>2, <5>1
                <5> QED BY <2>3, <4>2, <5>2
            <4>4. a[i - 1].turn = t /\ a[i - 1].n = a[i].n - 1
                BY <4>1, <4>3
            <4> QED BY <4>2, <4>4
        <3> QED BY <2>5, <3>1, <3>2
    <2>10. Nums(a, t) = Nums(z, t) \cup (IF u = t THEN 1..p ELSE {})
        BY <2>6, <2>7, <2>8
    <2> QED BY <1>3, <2>1, <2>4, <2>9, <2>10 DEF a
<1> QED BY <1>2, <1>3

-----------------------------------------------------------------------------
(* Sets of chunks without a hole *)

\* A set of naturals that is not empty has a least element.
LEMMA LeastNatural ==
    ASSUME NEW S, S \subseteq Nat, S # {}
    PROVE  \E x \in S : \A y \in S : x <= y
<1>1. PICK x \in S : \A y \in S : ~(<<y, x>> \in OpToRel(<, Nat))
    BY NatLessThanWellFounded, WFMin, Zenon
<1>2. ASSUME NEW y \in S PROVE ~(y < x)
    <2>1. y \in Nat /\ x \in Nat
        OBVIOUS
    <2> QED BY <1>1, <2>1, Zenon DEF OpToRel
<1>3. \A y \in S : x <= y
    BY <1>2
<1> QED BY <1>3

\* Chunks without a hole are the first so many of the turn.
LEMMA NoHoleIsPrefix ==
    ASSUME NEW m \in Nat, NEW s, s \subseteq 1..m, NoHole(s)
    PROVE  \E k \in 0..m : s = 1..k
<1> DEFINE missing == {j \in 1..(m + 1) : j \notin s}
<1>1. missing \subseteq Nat /\ missing # {}
    <2>1. m + 1 \in 1..(m + 1) /\ m + 1 \notin s
        OBVIOUS
    <2> QED BY <2>1
<1>2. PICK j \in missing : \A i \in missing : j <= i
    BY <1>1, LeastNatural
<1>3. j \in 1..(m + 1) /\ j \notin s /\ j - 1 \in 0..m
    BY <1>2
<1>4. \A n \in s : n <= j - 1
    <2> SUFFICES ASSUME NEW n \in s, n > j - 1 PROVE FALSE
        BY <1>3
    <2>1. j \in 1..n
        BY <1>3
    <2> QED BY <1>3, <2>1 DEF NoHole
<1>5. \A n \in 1..(j - 1) : n \in s
    <2> SUFFICES ASSUME NEW n \in 1..(j - 1), n \notin s PROVE FALSE
        OBVIOUS
    <2>1. n \in missing
        BY <1>3
    <2> QED BY <1>2, <1>3, <2>1
<1>6. \A n \in s : n \in 1..(j - 1)
    BY <1>3, <1>4
<1>7. s = 1..(j - 1)
    BY <1>5, <1>6
<1> QED BY <1>3, <1>7

\* The next chunk leaves no hole.
LEMMA NoHoleNext ==
    ASSUME NEW s, s \subseteq Nat, NoHole(s), NEW n \in Nat, n > 1 => n - 1 \in s
    PROVE  NoHole(s \cup {n})
<1> SUFFICES ASSUME NEW i \in s \cup {n}, NEW j \in 1..i PROVE j \in s \cup {n}
    BY DEF NoHole
<1>1. CASE i \in s
    BY <1>1 DEF NoHole
<1>2. CASE i = n /\ j # n
    <2>1. n > 1 /\ j \in 1..(n - 1) /\ n - 1 \in s
        BY <1>2
    <2> QED BY <2>1 DEF NoHole
<1> QED BY <1>1, <1>2

\* Nor does the whole list, or what of it lies above what is there.
LEMMA NoHoleAbove ==
    ASSUME NEW m \in Nat, NEW s, s \subseteq 1..m, NoHole(s)
    PROVE  /\ NoHole(1..m)
           /\ NoHole(s \cup {n \in 1..m : \A i \in s : n > i})
<1>1. NoHole(1..m)
    BY DEF NoHole
<1>2. ASSUME NEW n \in 1..m, \A i \in s : n > i, NEW j \in 1..n
      PROVE j \in s \/ \A i \in s : j > i
    <2> SUFFICES ASSUME j \notin s, NEW i \in s, ~(j > i) PROVE FALSE
        OBVIOUS
    <2>1. j \in 1..i
        OBVIOUS
    <2> QED BY <2>1 DEF NoHole
<1>3. NoHole(s \cup {n \in 1..m : \A i \in s : n > i})
    <2> SUFFICES ASSUME NEW n \in s \cup {x \in 1..m : \A i \in s : x > i}, NEW j \in 1..n
                 PROVE j \in s \cup {x \in 1..m : \A i \in s : x > i}
        BY DEF NoHole
    <2>1. CASE n \in s
        BY <2>1 DEF NoHole
    <2>2. CASE n \notin s
        <3>1. j \in 1..m
            BY <2>2
        <3> QED BY <1>2, <2>2, <3>1
    <2> QED BY <2>1, <2>2
<1> QED BY <1>1, <1>3


-----------------------------------------------------------------------------
(* The turns, the pump and the types *)

\* The actions, one by one.
LEMMA StepCases ==
    ASSUME Next, NEW P,
           \A t \in Turns : StartTurn(t) => P,
           \A t \in Turns : PushChunk(t) => P,
           \A t \in Turns : PublishChunk(t) => P,
           \A t \in Turns : SaveTurn(t) => P,
           \A t \in Turns : DropCache(t) => P,
           \A t \in Turns : CloseTurn(t) => P,
           PumpSubscribe => P, RedisSubscribes => P, PumpDies => P, Fanout => P,
           \A c \in Clients : Connect(c) => P,
           \A c \in Clients : Scan(c) => P,
           \A c \in Clients, t \in Turns : ReadChunks(c, t) => P,
           \A c \in Clients : StartLoops(c) => P,
           \A c \in Clients : SnapshotFails(c) => P,
           \A c \in Clients : SendSnapshot(c) => P,
           \A c \in Clients : SendQueued(c) => P,
           \A c \in Clients, i \in Tagged : Control(c, i) => P,
           \A c \in Clients : Disconnect(c) => P,
           \A c \in Clients, mode \in FetchModes : FetchRows(c, mode) => P,
           \A c \in Clients, t \in Turns : FetchChunks(c, t) => P,
           \A c \in Clients : FetchEnds(c) => P
    PROVE  P
<1>1. Readers \subseteq Clients
    BY StreamAssumption
<1>2. ASSUME NEW t \in Turns, TurnStep(t) PROVE P
    BY <1>2 DEF TurnStep
<1>3. CASE PumpStep
    BY <1>3 DEF PumpStep
<1>4. ASSUME NEW c \in Clients, ClientStep(c) PROVE P
    BY <1>4 DEF ClientStep
<1>5. ASSUME NEW c \in Readers, FetchStep(c) PROVE P
    BY <1>1, <1>5 DEF FetchStep
<1> QED BY <1>2, <1>3, <1>4, <1>5 DEF Next

\* What a page takes keeps the type of the page.
LEMMA TakeTyped ==
    ASSUME TypeOK, NEW c \in Clients, NEW f \in Frames, Take(c, f)
    PROVE  /\ view' \in [Clients -> [Turns -> SUBSET Nat]]
           /\ closed' \in [Clients -> SUBSET Turns]
BY DEF TypeOK, Take, Frames

\* A published frame is a frame of the subscription.
LEMMA PublishTyped ==
    ASSUME TypeOK, NEW t \in Turns, NEW n \in Nat, Publish(t, n)
    PROVE  wire' \in Seq(Frames)
<1>1. Frame(t, n) \in Frames
    BY DEF Frame, Frames
<1> QED BY <1>1 DEF TypeOK, Publish

\* Every step keeps the types.
LEMMA TypeStep ==
    ASSUME TypeOK, [Next]_vars
    PROVE  TypeOK'
<1> USE StreamAssumption
<1>1. CASE UNCHANGED vars
    BY <1>1 DEF TypeOK, vars
<1>2. CASE Next
    <2>1. ASSUME NEW t \in Turns, StartTurn(t) PROVE TypeOK'
        BY <2>1 DEF TypeOK, StartTurn, Stages
    <2>2. ASSUME NEW t \in Turns, PushChunk(t) PROVE TypeOK'
        BY <2>2 DEF TypeOK, PushChunk, Stages
    <2>3. ASSUME NEW t \in Turns, PublishChunk(t) PROVE TypeOK'
        <3>1. wire' \in Seq(Frames)
            BY <2>3, PublishTyped DEF TypeOK, PublishChunk
        <3> QED BY <2>3, <3>1 DEF TypeOK, PublishChunk, Stages
    <2>4. ASSUME NEW t \in Turns, SaveTurn(t) PROVE TypeOK'
        BY <2>4 DEF TypeOK, SaveTurn, Stages
    <2>5. ASSUME NEW t \in Turns, DropCache(t) PROVE TypeOK'
        BY <2>5 DEF TypeOK, DropCache, Stages
    <2>6. ASSUME NEW t \in Turns, CloseTurn(t) PROVE TypeOK'
        <3>1. wire' \in Seq(Frames)
            BY <2>6, PublishTyped DEF TypeOK, CloseTurn
        <3> QED BY <2>6, <3>1 DEF TypeOK, CloseTurn, Stages
    <2>7. CASE PumpSubscribe
        BY <2>7 DEF TypeOK, PumpSubscribe
    <2>8. CASE RedisSubscribes
        BY <2>8 DEF TypeOK, RedisSubscribes
    <2>0. <<>> \in Seq(Frames)
        OBVIOUS
    <2>9. CASE PumpDies
        BY <2>0, <2>9 DEF TypeOK, PumpDies
    <2>10. CASE Fanout
        <3>1. Head(wire) \in Frames /\ Tail(wire) \in Seq(Frames)
            BY <2>10 DEF TypeOK, Fanout
        <3>2. ASSUME NEW c \in Clients PROVE Append(queue[c], Head(wire)) \in Seq(Frames)
            BY <3>1 DEF TypeOK
        <3>3. queue' \in [Clients -> Seq(Frames)]
            BY <2>10, <3>2 DEF TypeOK, Fanout
        <3> QED BY <2>10, <3>1, <3>3 DEF TypeOK, Fanout
    <2>11. ASSUME NEW c \in Clients, Connect(c) PROVE TypeOK'
        BY <2>11 DEF TypeOK, Connect
    <2>12. ASSUME NEW c \in Clients, Scan(c) PROVE TypeOK'
        BY <2>12 DEF TypeOK, Scan
    <2>13. ASSUME NEW c \in Clients, NEW t \in Turns, ReadChunks(c, t) PROVE TypeOK'
        <3>1. snap[c] \o Chunks(t) \in Seq(Frames)
            BY ReadList DEF TypeOK
        <3>2. snap' \in [Clients -> Seq(Frames)]
            BY <2>13, <3>1 DEF TypeOK, ReadChunks
        <3> QED BY <2>13, <3>2 DEF TypeOK, ReadChunks
    <2>14. ASSUME NEW c \in Clients, StartLoops(c) PROVE TypeOK'
        BY <2>14 DEF TypeOK, StartLoops
    <2>15. ASSUME NEW c \in Clients, SnapshotFails(c) PROVE TypeOK'
        BY <2>15 DEF TypeOK, SnapshotFails
    <2>16. ASSUME NEW c \in Clients, SendSnapshot(c) PROVE TypeOK'
        <3>1. Head(snap[c]) \in Frames /\ Tail(snap[c]) \in Seq(Frames)
            BY <2>16 DEF TypeOK, SendSnapshot
        <3>2. /\ view' \in [Clients -> [Turns -> SUBSET Nat]]
              /\ closed' \in [Clients -> SUBSET Turns]
            BY <2>16, <3>1, TakeTyped DEF TypeOK, SendSnapshot
        <3> QED BY <2>16, <3>1, <3>2 DEF TypeOK, SendSnapshot
    <2>17. ASSUME NEW c \in Clients, SendQueued(c) PROVE TypeOK'
        <3>1. Head(queue[c]) \in Frames /\ Tail(queue[c]) \in Seq(Frames)
            BY <2>17 DEF TypeOK, SendQueued
        <3>2. /\ view' \in [Clients -> [Turns -> SUBSET Nat]]
              /\ closed' \in [Clients -> SUBSET Turns]
            BY <2>17, <3>1, TakeTyped DEF SendQueued
        <3> QED BY <2>17, <3>1, <3>2 DEF TypeOK, SendQueued
    <2>18. ASSUME NEW c \in Clients, NEW i \in Tagged, Control(c, i) PROVE TypeOK'
        BY <2>18 DEF TypeOK, Control
    <2>19. ASSUME NEW c \in Clients, Disconnect(c) PROVE TypeOK'
        <3>1. /\ pump' \in {"none", "starting", "listening", "dead"}
              /\ ready' \in BOOLEAN /\ acked' \in BOOLEAN /\ wire' \in Seq(Frames)
            BY <2>0, <2>19 DEF TypeOK, Disconnect, RemovePump
        <3> QED BY <2>0, <2>19, <3>1 DEF TypeOK, Disconnect, Unregister
    <2>20. ASSUME NEW c \in Clients, NEW mode \in FetchModes, FetchRows(c, mode)
           PROVE TypeOK'
        <3>1. view' \in [Clients -> [Turns -> SUBSET Nat]]
            BY <2>20 DEF TypeOK, FetchRows
        <3>2. mode \in {"full", "since"}
            OBVIOUS
        <3> QED BY <2>20, <3>1, <3>2 DEF TypeOK, FetchRows
    <2>21. ASSUME NEW c \in Clients, NEW t \in Turns, FetchChunks(c, t) PROVE TypeOK'
        <3>1. Above(c, t, 1..pushed[t]) \subseteq Nat
            BY DEF TypeOK, Above
        <3>2. view' \in [Clients -> [Turns -> SUBSET Nat]]
            BY <2>21, <3>1 DEF TypeOK, FetchChunks
        <3> QED BY <2>21, <3>2 DEF TypeOK, FetchChunks
    <2>22. ASSUME NEW c \in Clients, FetchEnds(c) PROVE TypeOK'
        BY <2>22 DEF TypeOK, FetchEnds
    <2> HIDE DEF TypeOK
    <2> QED BY <1>2, <2>1, <2>2, <2>3, <2>4, <2>5, <2>6, <2>7, <2>8, <2>9, <2>10, <2>11,
              <2>12, <2>13, <2>14, <2>15, <2>16, <2>17, <2>18, <2>19, <2>20, <2>21,
              <2>22, StepCases
<1> QED BY <1>1, <1>2

\* The initial state.
LEMMA TypeInit == ASSUME Init PROVE TypeOK
<1>1. coming \subseteq Turns /\ guests \subseteq Clients
    BY StreamAssumption DEF Init
<1>2. <<>> \in Seq(Frames)
    OBVIOUS
<1> QED BY <1>1, <1>2 DEF Init, TypeOK, Stages

\* A turn goes through its stages alone.
LEMMA TurnStepInv ==
    ASSUME TypeOK, TurnInv, [Next]_vars
    PROVE  TurnInv'
<1>1. CASE UNCHANGED <<coming, stage, pushed, cached, row>>
    BY <1>1 DEF TurnInv
<1>2. ASSUME NEW t \in Turns, TurnStep(t) PROVE TurnInv'
    <2>1. CASE StartTurn(t)
        BY <2>1 DEF TypeOK, TurnInv, StartTurn
    <2>2. CASE PushChunk(t)
        BY <2>2 DEF TypeOK, TurnInv, PushChunk
    <2>3. CASE PublishChunk(t)
        BY <2>3 DEF TypeOK, TurnInv, PublishChunk
    <2>4. CASE SaveTurn(t)
        BY <2>4 DEF TypeOK, TurnInv, SaveTurn
    <2>5. CASE DropCache(t)
        BY <2>5 DEF TypeOK, TurnInv, DropCache
    <2>6. CASE CloseTurn(t)
        BY <2>6 DEF TypeOK, TurnInv, CloseTurn
    <2> QED BY <1>2, <2>1, <2>2, <2>3, <2>4, <2>5, <2>6 DEF TurnStep
<1>3. ASSUME PumpStep PROVE UNCHANGED turnVars
    BY <1>3 DEF PumpStep, PumpSubscribe, RedisSubscribes, PumpDies, Fanout
<1>4. ASSUME NEW c \in Clients, ClientStep(c) PROVE UNCHANGED turnVars
    BY <1>4 DEF ClientStep, Connect, Scan, StartLoops, SnapshotFails, SendSnapshot,
                SendQueued, Disconnect, Unregister, ReadChunks, Control
<1>5. ASSUME NEW c \in Readers, FetchStep(c) PROVE UNCHANGED turnVars
    BY <1>5 DEF FetchStep, FetchRows, FetchEnds, FetchChunks
<1> QED BY <1>1, <1>2, <1>3, <1>4, <1>5 DEF Next, vars

\* The pump comes before the snapshots that count on it, and goes with the last
\* client.
LEMMA PumpStepInv ==
    ASSUME TypeOK, PumpInv, [Next]_vars
    PROVE  PumpInv'
<1>1. CASE UNCHANGED <<pump, acked, cl, blind, left, rest>>
    BY <1>1 DEF PumpInv
<1>2. CASE Next
    <2>1. ASSUME NEW t \in Turns, TurnStep(t) PROVE PumpInv'
        BY <1>1, <2>1 DEF TurnStep, StartTurn, PushChunk, PublishChunk, SaveTurn, DropCache,
                          CloseTurn
    <2>2. CASE PumpSubscribe
        BY <2>2 DEF TypeOK, PumpInv, PumpSubscribe
    <2>3. CASE RedisSubscribes
        BY <2>3 DEF TypeOK, PumpInv, RedisSubscribes
    <2>4. CASE PumpDies
        BY <2>4 DEF TypeOK, PumpInv, PumpDies
    <2>5. CASE Fanout
        BY <1>1, <2>5 DEF Fanout
    <2>6. ASSUME NEW c \in Clients, Connect(c) PROVE PumpInv'
        BY <2>6 DEF TypeOK, PumpInv, Connect
    <2>7. ASSUME NEW c \in Clients, Scan(c) PROVE PumpInv'
        BY <2>7 DEF TypeOK, PumpInv, Scan
    <2>8. ASSUME NEW c \in Clients, NEW t \in Turns, ReadChunks(c, t) PROVE PumpInv'
        BY <2>8 DEF TypeOK, PumpInv, ReadChunks
    <2>9. ASSUME NEW c \in Clients, StartLoops(c) PROVE PumpInv'
        BY <2>9 DEF TypeOK, PumpInv, StartLoops
    <2>10. ASSUME NEW c \in Clients, SnapshotFails(c) PROVE PumpInv'
        BY <2>10 DEF TypeOK, PumpInv, SnapshotFails
    <2>11. ASSUME NEW c \in Clients, SendSnapshot(c) \/ SendQueued(c) PROVE PumpInv'
        BY <1>1, <2>11 DEF SendSnapshot, SendQueued
    <2>12. ASSUME NEW c \in Clients, NEW i \in Tagged, Control(c, i) PROVE PumpInv'
        BY <1>1, <2>12 DEF Control
    <2>13. ASSUME NEW c \in Clients, Disconnect(c) PROVE PumpInv'
        <3>1. CASE \A d \in Clients \ {c} : cl[d] = "off"
            BY <2>13, <3>1 DEF TypeOK, PumpInv, Disconnect, Unregister, RemovePump
        <3>2. CASE ~\A d \in Clients \ {c} : cl[d] = "off"
            BY <2>13, <3>2 DEF TypeOK, PumpInv, Disconnect, Unregister
        <3> QED BY <3>1, <3>2
    <2>14. ASSUME NEW c \in Clients, NEW mode \in FetchModes, FetchRows(c, mode) PROVE PumpInv'
        BY <2>14 DEF TypeOK, PumpInv, FetchRows
    <2>15. ASSUME NEW c \in Clients, NEW t \in Turns, FetchChunks(c, t) PROVE PumpInv'
        BY <1>1, <2>15 DEF FetchChunks
    <2>16. ASSUME NEW c \in Clients, FetchEnds(c) PROVE PumpInv'
        BY <2>16 DEF TypeOK, PumpInv, FetchEnds
    <2> QED BY <1>2, <2>1, <2>2, <2>3, <2>4, <2>5, <2>6, <2>7, <2>8, <2>9, <2>10, <2>11,
              <2>12, <2>13, <2>14, <2>15, <2>16, StepCases DEF TurnStep
<1> QED BY <1>1, <1>2 DEF vars

-----------------------------------------------------------------------------
(* What the page shows *)

\* A frame outside the iterations is for everyone.
LEMMA UntaggedIsAllowed ==
    ASSUME NEW c, NEW f, f.turn \in Untagged
    PROVE  Allowed(c, f)
BY DEF Allowed, Broadcast, Untagged

\* A page gains the chunk it takes.
LEMMA TakeView ==
    ASSUME TypeOK, NEW c \in Clients, NEW f \in Frames, Take(c, f)
    PROVE  \A d \in Clients, t \in Turns :
              view'[d][t] = IF d = c /\ t = f.turn /\ f.n > 0
                            THEN view[d][t] \cup {f.n} ELSE view[d][t]
<1> SUFFICES ASSUME NEW d \in Clients, NEW t \in Turns
             PROVE view'[d][t] = IF d = c /\ t = f.turn /\ f.n > 0
                                 THEN view[d][t] \cup {f.n} ELSE view[d][t]
    OBVIOUS
<1>1. /\ f.turn \in Turns /\ DOMAIN view = Clients
      /\ DOMAIN view[c] = Turns
    BY DEF TypeOK, Frames
<1>2. CASE f.n > 0
    BY <1>1, <1>2 DEF Take
<1>3. CASE ~(f.n > 0)
    BY <1>3 DEF Take
<1> QED BY <1>2, <1>3

\* How what a client has of a turn may change in one step.
Sent(c, t, z) ==
    /\ Head(z).turn = t /\ Head(z).n > 0
    /\ view'[c][t] = view[c][t] \cup {Head(z).n}

Fetched(c, t) ==
    \/ view'[c][t] = 1..pushed[t]
    \/ view'[c][t] = view[c][t] \cup {n \in 1..pushed[t] : \A m \in view[c][t] : n > m}

LEMMA ViewMoves ==
    ASSUME TypeOK, Bounded, [Next]_vars, NEW c \in Clients, NEW t \in Turns
    PROVE  \/ view'[c][t] = view[c][t]
           \/ SendSnapshot(c) /\ Sent(c, t, snap[c])
           \/ SendQueued(c) /\ Sent(c, t, queue[c])
           \/ Fetched(c, t) /\ UNCHANGED <<turnVars, pumpVars, sockVars>>
<1> DEFINE P == \/ view'[c][t] = view[c][t]
                \/ SendSnapshot(c) /\ Sent(c, t, snap[c])
                \/ SendQueued(c) /\ Sent(c, t, queue[c])
                \/ Fetched(c, t) /\ UNCHANGED <<turnVars, pumpVars, sockVars>>
<1>1. CASE UNCHANGED view
    BY <1>1
<1>2. CASE Next
    <2>1. ASSUME NEW u \in Turns, TurnStep(u) PROVE UNCHANGED view
        BY <2>1 DEF TurnStep, StartTurn, PushChunk, PublishChunk, SaveTurn, DropCache, CloseTurn
    <2>2. ASSUME PumpStep PROVE UNCHANGED view
        BY <2>2 DEF PumpStep, PumpSubscribe, RedisSubscribes, PumpDies, Fanout
    <2>3. ASSUME NEW d \in Clients, ClientStep(d) PROVE P
        <3>1. CASE SendSnapshot(d)
            <4>1. Head(snap[d]) \in Frames
                BY <3>1 DEF TypeOK, SendSnapshot
            <4>2. CASE UNCHANGED pageVars
                BY <1>1, <4>2
            <4>3. CASE Take(d, Head(snap[d]))
                <5>1. view'[c][t] = IF c = d /\ t = Head(snap[d]).turn /\ Head(snap[d]).n > 0
                                        THEN view[c][t] \cup {Head(snap[d]).n} ELSE view[c][t]
                    BY <4>1, <4>3, TakeView
                <5>2. CASE c = d
                    BY <3>1, <5>1, <5>2 DEF Sent
                <5> QED BY <5>1, <5>2
            <4> QED BY <3>1, <4>2, <4>3 DEF SendSnapshot
        <3>2. CASE SendQueued(d)
            <4>1. Head(queue[d]) \in Frames
                BY <3>2 DEF TypeOK, SendQueued
            <4>2. Take(d, Head(queue[d]))
                BY <3>2 DEF SendQueued
            <4>3. view'[c][t] = IF c = d /\ t = Head(queue[d]).turn /\ Head(queue[d]).n > 0
                                    THEN view[c][t] \cup {Head(queue[d]).n} ELSE view[c][t]
                BY <4>1, <4>2, TakeView
            <4>4. CASE c = d
                BY <3>2, <4>3, <4>4 DEF Sent
            <4> QED BY <4>3, <4>4
        <3>3. CASE ~SendSnapshot(d) /\ ~SendQueued(d)
            <4>1. UNCHANGED view
                BY <2>3, <3>3 DEF ClientStep, Connect, Scan, StartLoops, SnapshotFails,
                                  Disconnect, Unregister, ReadChunks, Control
            <4> QED BY <1>1, <4>1
        <3> QED BY <3>1, <3>2, <3>3
    <2>4. ASSUME NEW d \in Readers, FetchStep(d) PROVE P
        <3>0. d \in Clients
            BY StreamAssumption
        <3>1. ASSUME NEW mode \in FetchModes, FetchRows(d, mode) PROVE P
            <4>0. PICK all : view' = [view EXCEPT ![d] =
                          [x \in Turns |-> IF x \in all THEN 1..pushed[x] ELSE view[d][x]]]
                BY <3>1 DEF FetchRows
            <4>1. view'[c][t] = view[c][t] \/ view'[c][t] = 1..pushed[t]
                BY <3>0, <4>0 DEF TypeOK
            <4> QED BY <3>1, <4>1 DEF Fetched, FetchRows
        <3>2. ASSUME NEW u \in Turns, FetchChunks(d, u) PROVE P
            <4>1. CASE d = c /\ u = t /\ cached[t]
                <5>0. view' = [view EXCEPT ![c][t] = view[c][t] \cup Above(c, t, 1..pushed[t])]
                    BY <3>2, <4>1 DEF FetchChunks
                <5>1. view'[c][t] = view[c][t] \cup Above(c, t, 1..pushed[t])
                    BY <5>0 DEF TypeOK
                <5>2. view[c][t] \subseteq 1..pushed[t]
                    BY DEF Bounded
                <5>3. \/ Above(c, t, 1..pushed[t]) = 1..pushed[t]
                      \/ Above(c, t, 1..pushed[t])
                            = {n \in 1..pushed[t] : \A m \in view[c][t] : n > m}
                    BY DEF Above
                <5>4. Fetched(c, t)
                    BY <5>1, <5>2, <5>3 DEF Fetched
                <5> QED BY <3>2, <5>4 DEF FetchChunks
            <4>2. CASE ~(d = c /\ u = t /\ cached[t])
                BY <3>0, <3>2, <4>2 DEF TypeOK, FetchChunks
            <4> QED BY <4>1, <4>2
        <3>3. CASE FetchEnds(d)
            BY <1>1, <3>3 DEF FetchEnds
        <3> QED BY <2>4, <3>1, <3>2, <3>3 DEF FetchStep
    <2> QED BY <1>1, <1>2, <2>1, <2>2, <2>3, <2>4 DEF Next
<1> QED BY <1>1, <1>2 DEF vars

\* A page never loses a chunk.
LEMMA ViewGrows ==
    ASSUME TypeOK, Bounded, [Next]_vars, NEW c \in Clients, NEW t \in Turns
    PROVE  view[c][t] \subseteq view'[c][t]
<1>1. view[c][t] \subseteq 1..pushed[t]
    BY DEF Bounded
<1> QED BY <1>1, ViewMoves DEF Sent, Fetched

-----------------------------------------------------------------------------
(* The sequences a frame goes through *)

\* How the subscription may change.
LEMMA WireMoves ==
    ASSUME TypeOK, [Next]_vars
    PROVE  \/ wire' = wire \/ wire' = <<>>
           \/ Fanout
           \/ \E u \in Turns : PublishChunk(u) \/ CloseTurn(u)
<1>1. ASSUME NEW t \in Turns, TurnStep(t)
      PROVE UNCHANGED wire \/ PublishChunk(t) \/ CloseTurn(t)
    BY <1>1 DEF TurnStep, StartTurn, PushChunk, SaveTurn, DropCache
<1>2. ASSUME PumpStep PROVE UNCHANGED wire \/ wire' = <<>> \/ Fanout
    BY <1>2 DEF PumpStep, PumpSubscribe, RedisSubscribes, PumpDies
<1>3. ASSUME NEW c \in Clients, ClientStep(c) PROVE UNCHANGED wire \/ wire' = <<>>
    BY <1>3 DEF ClientStep, Connect, Scan, StartLoops, SnapshotFails, SendSnapshot, SendQueued,
                Disconnect, RemovePump, ReadChunks, Control
<1>4. ASSUME NEW c \in Readers, FetchStep(c) PROVE UNCHANGED wire
    BY <1>4 DEF FetchStep, FetchRows, FetchEnds, FetchChunks
<1> QED BY <1>1, <1>2, <1>3, <1>4 DEF Next, vars

\* ... and a queue.
LEMMA QueueMoves ==
    ASSUME TypeOK, [Next]_vars, NEW c \in Clients
    PROVE  \/ queue'[c] = queue[c] \/ queue'[c] = <<>>
           \/ SendQueued(c) /\ queue'[c] = Tail(queue[c])
           \/ Fanout /\ queue'[c] = Append(queue[c], Head(wire))
<1>1. ASSUME NEW t \in Turns, TurnStep(t) PROVE UNCHANGED queue
    BY <1>1 DEF TurnStep, StartTurn, PushChunk, PublishChunk, SaveTurn, DropCache, CloseTurn
<1>2. ASSUME PumpStep
      PROVE UNCHANGED queue \/ (Fanout /\ queue'[c] \in {queue[c], Append(queue[c], Head(wire))})
    BY <1>2 DEF PumpStep, PumpSubscribe, RedisSubscribes, PumpDies, Fanout
<1>3. ASSUME NEW d \in Clients, ClientStep(d)
      PROVE \/ queue'[c] = queue[c] \/ queue'[c] = <<>>
            \/ SendQueued(c) /\ queue'[c] = Tail(queue[c])
    <2>1. CASE SendQueued(d)
        <3>1. CASE c = d
            BY <2>1, <3>1 DEF TypeOK, SendQueued
        <3>2. CASE c # d
            BY <2>1, <3>2 DEF TypeOK, SendQueued
        <3> QED BY <3>1, <3>2
    <2>2. CASE Disconnect(d)
        BY <2>2 DEF TypeOK, Disconnect, Unregister
    <2>3. CASE ~SendQueued(d) /\ ~Disconnect(d)
        BY <1>3, <2>3 DEF ClientStep, Connect, Scan, StartLoops, SnapshotFails, SendSnapshot,
                          ReadChunks, Control
    <2> QED BY <2>1, <2>2, <2>3
<1>4. ASSUME NEW d \in Readers, FetchStep(d) PROVE UNCHANGED queue
    BY <1>4 DEF FetchStep, FetchRows, FetchEnds, FetchChunks
<1> QED BY <1>1, <1>2, <1>3, <1>4 DEF Next, vars

\* ... and a snapshot.
LEMMA SnapMoves ==
    ASSUME TypeOK, [Next]_vars, NEW c \in Clients
    PROVE  \/ snap'[c] = snap[c] \/ snap'[c] = <<>>
           \/ SendSnapshot(c) /\ snap[c] # <<>> /\ snap'[c] = Tail(snap[c])
           \/ \E u \in Turns : ReadChunks(c, u) /\ snap'[c] = snap[c] \o Chunks(u)
<1>1. ASSUME NEW t \in Turns, TurnStep(t) PROVE UNCHANGED snap
    BY <1>1 DEF TurnStep, StartTurn, PushChunk, PublishChunk, SaveTurn, DropCache, CloseTurn
<1>2. ASSUME PumpStep PROVE UNCHANGED snap
    BY <1>2 DEF PumpStep, PumpSubscribe, RedisSubscribes, PumpDies, Fanout
<1>3. ASSUME NEW d \in Clients, ClientStep(d)
      PROVE \/ snap'[c] = snap[c] \/ snap'[c] = <<>>
            \/ SendSnapshot(c) /\ snap[c] # <<>> /\ snap'[c] = Tail(snap[c])
            \/ \E u \in Turns : ReadChunks(c, u) /\ snap'[c] = snap[c] \o Chunks(u)
    <2>1. CASE SendSnapshot(d)
        <3>1. CASE c = d
            BY <2>1, <3>1 DEF TypeOK, SendSnapshot
        <3>2. CASE c # d
            BY <2>1, <3>2 DEF TypeOK, SendSnapshot
        <3> QED BY <3>1, <3>2
    <2>2. ASSUME NEW u \in Turns, ReadChunks(d, u)
          PROVE snap'[c] = snap[c] \/ (ReadChunks(c, u) /\ snap'[c] = snap[c] \o Chunks(u))
        <3>1. CASE c = d
            BY <2>2, <3>1 DEF TypeOK, ReadChunks
        <3>2. CASE c # d
            BY <2>2, <3>2 DEF TypeOK, ReadChunks
        <3> QED BY <3>1, <3>2
    <2>3. CASE Disconnect(d) \/ SnapshotFails(d)
        BY <2>3 DEF TypeOK, Disconnect, Unregister, SnapshotFails
    <2>4. ASSUME Connect(d) \/ Scan(d) \/ StartLoops(d) \/ SendQueued(d)
                 \/ \E i \in Tagged : Control(d, i)
          PROVE UNCHANGED snap
        BY <2>4 DEF Connect, Scan, StartLoops, SendQueued, Control
    <2> QED BY <1>3, <2>1, <2>2, <2>3, <2>4 DEF ClientStep
<1>4. ASSUME NEW d \in Readers, FetchStep(d) PROVE UNCHANGED snap
    BY <1>4 DEF FetchStep, FetchRows, FetchEnds, FetchChunks
<1> QED BY <1>1, <1>2, <1>3, <1>4 DEF Next, vars

\* The list of a turn only grows.
LEMMA PushedGrows ==
    ASSUME TypeOK, [Next]_vars, NEW t \in Turns
    PROVE  pushed[t] \in Nat /\ pushed'[t] \in Nat /\ pushed[t] <= pushed'[t]
<1>1. ASSUME NEW u \in Turns, TurnStep(u)
      PROVE pushed'[t] = pushed[t] \/ pushed'[t] = pushed[t] + 1
    <2>1. CASE PushChunk(u)
        BY <2>1 DEF TypeOK, PushChunk
    <2>2. CASE ~PushChunk(u)
        BY <1>1, <2>2 DEF TurnStep, StartTurn, PublishChunk, SaveTurn, DropCache, CloseTurn
    <2> QED BY <2>1, <2>2
<1>2. ASSUME PumpStep PROVE UNCHANGED pushed
    BY <1>2 DEF PumpStep, PumpSubscribe, RedisSubscribes, PumpDies, Fanout
<1>3. ASSUME NEW c \in Clients, ClientStep(c) PROVE UNCHANGED pushed
    BY <1>3 DEF ClientStep, Connect, Scan, StartLoops, SnapshotFails, SendSnapshot,
                SendQueued, Disconnect, Unregister, ReadChunks, Control
<1>4. ASSUME NEW c \in Readers, FetchStep(c) PROVE UNCHANGED pushed
    BY <1>4 DEF FetchStep, FetchRows, FetchEnds, FetchChunks
<1>5. pushed[t] \in Nat
    BY DEF TypeOK
<1>6. pushed'[t] = pushed[t] \/ pushed'[t] = pushed[t] + 1
    BY <1>1, <1>2, <1>3, <1>4 DEF Next, vars
<1> QED BY <1>5, <1>6

\* A frame is never ahead of its turn's list: it is pushed before it is published.
LEMMA BoundedStep ==
    ASSUME TypeOK, Bounded, [Next]_vars
    PROVE  Bounded'
<1> SUFFICES ASSUME NEW t \in Turns
             PROVE  /\ Nums(wire', t) \subseteq 0..pushed'[t]
                    /\ \A c \in Clients : /\ Nums(queue'[c], t) \subseteq 0..pushed'[t]
                                          /\ Nums(snap'[c], t) \subseteq 0..pushed'[t]
                                          /\ view'[c][t] \subseteq 1..pushed'[t]
    <2>1. Bounded' <=> \A t \in Turns :
              /\ Nums(wire', t) \subseteq 0..pushed'[t]
              /\ \A c \in Clients : /\ Nums(queue'[c], t) \cup Nums(snap'[c], t)
                                         \subseteq 0..pushed'[t]
                                    /\ view'[c][t] \subseteq 1..pushed'[t]
        BY DEF Bounded, Nums
    <2> QED BY <2>1
<1>1. pushed[t] \in Nat /\ pushed'[t] \in Nat /\ pushed[t] <= pushed'[t]
    BY PushedGrows
<1>2. 0..pushed[t] \subseteq 0..pushed'[t] /\ 1..pushed[t] \subseteq 1..pushed'[t]
    BY <1>1
<1>3. Nums(wire, t) \subseteq 0..pushed'[t]
    BY <1>2 DEF Bounded
<1>4. ASSUME Fanout
      PROVE /\ Nums(Tail(wire), t) \subseteq Nums(wire, t)
            /\ Head(wire) \in Frames
            /\ Head(wire).turn = t => Head(wire).n \in Nums(wire, t)
    <2>1. wire \in Seq(Frames) /\ wire # <<>>
        BY <1>4 DEF TypeOK, Fanout
    <2>2. Head(wire) \in Frames
        BY <2>1
    <2> QED BY <2>1, <2>2, NumsTail
<1>5. Nums(wire', t) \subseteq 0..pushed'[t]
    <2>1. ASSUME NEW u \in Turns, NEW n \in 0..pushed'[u], Publish(u, n)
          PROVE Nums(wire', t) \subseteq 0..pushed'[t]
        <3>1. n \in Nat
            BY <2>1, PushedGrows
        <3>2. Frame(u, n) \in Frames /\ Frame(u, n).turn = u /\ Frame(u, n).n = n
            BY <3>1 DEF Frame, Frames
        <3>3. CASE acked
            <4>1. Nums(Append(wire, Frame(u, n)), t)
                    = Nums(wire, t) \cup (IF u = t THEN {n} ELSE {})
                BY <3>2, NumsAppend DEF TypeOK
            <4>2. wire' = Append(wire, Frame(u, n))
                BY <2>1, <3>3 DEF Publish
            <4> QED BY <1>3, <2>1, <4>1, <4>2
        <3> QED BY <1>3, <2>1, <3>3 DEF Publish
    <2>2. ASSUME NEW u \in Turns, PublishChunk(u) PROVE Nums(wire', t) \subseteq 0..pushed'[t]
        <3>1. pushed[u] \in 0..pushed'[u]
            BY PushedGrows
        <3> QED BY <2>1, <2>2, <3>1 DEF PublishChunk
    <2>3. ASSUME NEW u \in Turns, CloseTurn(u) PROVE Nums(wire', t) \subseteq 0..pushed'[t]
        <3>1. 0 \in 0..pushed'[u]
            BY PushedGrows
        <3> QED BY <2>1, <2>3, <3>1 DEF CloseTurn
    <2>4. CASE Fanout
        BY <1>3, <1>4, <2>4 DEF Fanout
    <2> QED BY <1>3, <2>2, <2>3, <2>4, WireMoves, EmptyList
<1>6. ASSUME NEW c \in Clients PROVE Nums(queue'[c], t) \subseteq 0..pushed'[t]
    <2>1. Nums(queue[c], t) \subseteq 0..pushed'[t]
        BY <1>2 DEF Bounded
    <2>2. CASE SendQueued(c) /\ queue'[c] = Tail(queue[c])
        <3>1. queue[c] \in Seq(Frames) /\ queue[c] # <<>>
            BY <2>2 DEF TypeOK, SendQueued
        <3> QED BY <2>1, <2>2, <3>1, NumsTail
    <2>3. CASE Fanout /\ queue'[c] = Append(queue[c], Head(wire))
        <3>1. queue[c] \in Seq(Frames)
            BY DEF TypeOK
        <3> QED BY <1>3, <1>4, <2>1, <2>3, <3>1, NumsAppend
    <2> QED BY <2>1, <2>2, <2>3, QueueMoves, EmptyList
<1>7. ASSUME NEW c \in Clients PROVE Nums(snap'[c], t) \subseteq 0..pushed'[t]
    <2>0. snap[c] \in Seq(Frames)
        BY DEF TypeOK
    <2>1. Nums(snap[c], t) \subseteq 0..pushed'[t]
        BY <1>2 DEF Bounded
    <2>2. CASE snap[c] # <<>> /\ snap'[c] = Tail(snap[c])
        BY <2>0, <2>1, <2>2, NumsTail
    <2>3. ASSUME NEW u \in Turns, snap'[c] = snap[c] \o Chunks(u)
          PROVE Nums(snap'[c], t) \subseteq 0..pushed'[t]
        <3>1. Nums(snap'[c], t) = Nums(snap[c], t)
                     \cup (IF cached[u] /\ u = t THEN 1..pushed[u] ELSE {})
            BY <2>0, <2>3, ReadList
        <3>2. 1..pushed[t] \subseteq 0..pushed'[t]
            BY <1>1
        <3> QED BY <2>1, <3>1, <3>2
    <2> QED BY <2>1, <2>2, <2>3, SnapMoves, EmptyList
<1>8. ASSUME NEW c \in Clients PROVE view'[c][t] \subseteq 1..pushed'[t]
    <2>1. view[c][t] \subseteq 1..pushed'[t]
        BY <1>2 DEF Bounded
    <2>2. ASSUME NEW z \in Seq(Frames), z # <<>>, Nums(z, t) \subseteq 0..pushed[t], Sent(c, t, z)
          PROVE view'[c][t] \subseteq 1..pushed'[t]
        <3>1. Head(z).n \in 0..pushed[t]
            BY <2>2, NumsTail DEF Sent
        <3>2. Head(z).n \in 1..pushed'[t]
            BY <1>1, <2>2, <3>1 DEF Sent
        <3> QED BY <2>1, <2>2, <3>2 DEF Sent
    <2>3. CASE SendSnapshot(c) /\ Sent(c, t, snap[c])
        <3>1. snap[c] \in Seq(Frames) /\ snap[c] # <<>> /\ Nums(snap[c], t) \subseteq 0..pushed[t]
            BY <2>3 DEF TypeOK, SendSnapshot, Bounded
        <3> QED BY <2>2, <2>3, <3>1
    <2>4. CASE SendQueued(c) /\ Sent(c, t, queue[c])
        <3>1. queue[c] \in Seq(Frames) /\ queue[c] # <<>> /\ Nums(queue[c], t) \subseteq 0..pushed[t]
            BY <2>4 DEF TypeOK, SendQueued, Bounded
        <3> QED BY <2>2, <2>4, <3>1
    <2>5. CASE Fetched(c, t)
        BY <1>2, <2>1, <2>5 DEF Fetched
    <2> QED BY <2>1, <2>3, <2>4, <2>5, ViewMoves
<1> QED BY <1>5, <1>6, <1>7, <1>8

-----------------------------------------------------------------------------
(* The order in which a client gets the chunks of a turn *)

\* Ordered, of the next state.
After1(c, t) == view'[c][t] \cup Nums(snap'[c], t)
After2(c, t) == After1(c, t) \cup Nums(queue'[c], t)

LEMMA OrderedNext ==
    ASSUME NEW c, NEW t,
           Follows(queue'[c], t, After1(c, t)),
           Follows(wire', t, After2(c, t)),
           acked' => Published(t)' \in {0} \cup After2(c, t) \cup Nums(wire', t)
    PROVE  Ordered(c, t)'
<1>1. Have1(c, t)' = After1(c, t)
    BY DEF Have1, After1, Nums
<1>2. Have2(c, t)' = After2(c, t)
    BY <1>1 DEF Have2, After2, Nums
<1>3. Follows(queue[c], t, Have1(c, t))'
    BY <1>1 DEF Follows
<1>4. Follows(wire, t, Have2(c, t))'
    BY <1>2 DEF Follows
<1>5. Nums(wire, t)' = Nums(wire', t)
    BY DEF Nums
<1>6. (acked => Published(t) \in {0} \cup Have2(c, t) \cup Nums(wire, t))'
    BY <1>2, <1>5
<1> QED BY <1>3, <1>4, <1>6 DEF Ordered

\* A client that has, or is about to be sent, the whole list cannot find a hole
\* in what follows.
LEMMA WholeListFollows ==
    ASSUME NEW z \in Seq(Frames), NEW t, NEW m \in Nat, NEW have, 1..m \subseteq have,
           Nums(z, t) \subseteq 0..m
    PROVE  Follows(z, t, have)
<1> SUFFICES ASSUME NEW i \in 1..Len(z), z[i].turn = t, z[i].n > 1 PROVE z[i].n - 1 \in have
    BY DEF Follows
<1>1. z[i].n \in 0..m
    BY NumsMember
<1> QED BY <1>1

LEMMA CompleteIsOrdered ==
    ASSUME TypeOK', TurnInv', Bounded', NEW c \in Clients, NEW t \in Turns,
           1..pushed'[t] \subseteq After1(c, t)
    PROVE  Ordered(c, t)'
<1>1. /\ queue'[c] \in Seq(Frames) /\ wire' \in Seq(Frames)
      /\ pushed'[t] \in Nat
    BY DEF TypeOK
<1>2. /\ Nums(wire', t) \subseteq 0..pushed'[t]
      /\ Nums(queue'[c], t) \subseteq 0..pushed'[t]
    BY DEF Bounded, Nums
<1>3. Follows(queue'[c], t, After1(c, t))
    BY <1>1, <1>2, WholeListFollows
<1>4. Follows(wire', t, After2(c, t))
    BY <1>1, <1>2, WholeListFollows DEF After2
<1>5. Published(t)' \in {0} \cup After2(c, t)
    <2>1. Published(t)' \in {pushed'[t], pushed'[t] - 1}
        BY DEF Published
    <2>2. pushed'[t] \in {0} \cup 1..pushed'[t]
        BY <1>1
    <2>3. CASE pushed'[t] # 0
        BY <1>1, <2>1, <2>3 DEF After2
    <2>4. CASE pushed'[t] = 0
        <3>1. stage'[t] # "publishing"
            BY <2>4 DEF TurnInv
        <3> QED BY <2>4, <3>1 DEF Published
    <2> QED BY <2>3, <2>4
<1> QED BY <1>3, <1>4, <1>5, OrderedNext

\* The steps that leave the queue and the subscription alone, and take nothing
\* from the page and its snapshot.
LEMMA OrderedMore ==
    ASSUME TypeOK, NEW c \in Clients, NEW t \in Turns, Ordered(c, t),
           queue'[c] = queue[c], wire' = wire, acked' => acked,
           Have1(c, t) \ {0} \subseteq After1(c, t),
           Published(t)' = Published(t)
    PROVE  Ordered(c, t)'
<1>1. queue[c] \in Seq(Frames) /\ wire \in Seq(Frames)
    BY DEF TypeOK
<1>2. Have2(c, t) \ {0} \subseteq After2(c, t)
    BY DEF Have2, After2
<1>3. Follows(queue'[c], t, After1(c, t))
    BY <1>1, FollowsMore DEF Ordered
<1>4. Follows(wire', t, After2(c, t))
    BY <1>1, <1>2, FollowsMore DEF Ordered
<1>5. acked' => Published(t)' \in {0} \cup After2(c, t) \cup Nums(wire', t)
    BY <1>2 DEF Ordered
<1> QED BY <1>3, <1>4, <1>5, OrderedNext

\* What is published is the successor of what was published before.
LEMMA OrderedTurn ==
    ASSUME TypeOK, TurnInv, NEW c \in Clients, NEW t \in Turns, Ordered(c, t),
           NEW u \in Turns, TurnStep(u)
    PROVE  Ordered(c, t)'
<1>1. queue'[c] = queue[c] /\ view'[c] = view[c] /\ snap'[c] = snap[c] /\ acked' = acked
    BY DEF TurnStep, StartTurn, PushChunk, PublishChunk, SaveTurn, DropCache, CloseTurn
<1>2. After1(c, t) = Have1(c, t) /\ After2(c, t) = Have2(c, t)
    BY <1>1 DEF After1, After2, Have1, Have2
<1>3. /\ wire \in Seq(Frames) /\ pushed[t] \in Nat /\ pushed[u] \in Nat
    BY DEF TypeOK
<1>4. CASE StartTurn(u) \/ PushChunk(u) \/ SaveTurn(u) \/ DropCache(u)
    <2>1. wire' = wire
        BY <1>4 DEF StartTurn, PushChunk, SaveTurn, DropCache
    <2>2. Published(t)' = Published(t)
        <3>1. CASE StartTurn(u)
            BY <3>1 DEF StartTurn, Published, TypeOK, TurnInv
        <3>2. CASE PushChunk(u)
            BY <3>2 DEF PushChunk, Published, TypeOK
        <3>3. CASE SaveTurn(u)
            BY <3>3 DEF SaveTurn, Published, TypeOK
        <3>4. CASE DropCache(u)
            BY <3>4 DEF DropCache, Published, TypeOK
        <3> QED BY <1>4, <3>1, <3>2, <3>3, <3>4
    <2> QED BY <1>1, <1>2, <2>1, <2>2, OrderedMore
<1>5. ASSUME NEW n \in Nat, Publish(u, n),
             acked /\ u = t /\ n > 1 => n - 1 \in Have2(c, t) \cup Nums(wire, t),
             acked => Published(t)' \in {0} \cup Have2(c, t) \cup Nums(wire, t)
                                        \cup (IF u = t THEN {n} ELSE {})
      PROVE  Ordered(c, t)'
    <2>1. Frame(u, n) \in Frames /\ Frame(u, n).turn = u /\ Frame(u, n).n = n
        BY DEF Frame, Frames
    <2>2. CASE acked
        <3>1. wire' = Append(wire, Frame(u, n))
            BY <1>5, <2>2 DEF Publish
        <3>2. Nums(wire', t) = Nums(wire, t) \cup (IF u = t THEN {n} ELSE {})
            BY <1>3, <2>1, <3>1, NumsAppend
        <3>3. Follows(wire', t, Have2(c, t))
            BY <1>3, <1>5, <2>1, <2>2, <3>1, FollowsAppend DEF Ordered
        <3>4. Follows(queue'[c], t, Have1(c, t))
            BY <1>1 DEF Ordered
        <3> QED BY <1>2, <1>5, <2>2, <3>2, <3>3, <3>4, OrderedNext
    <2>3. CASE ~acked
        <3>1. wire' = wire /\ ~acked'
            BY <1>1, <1>5, <2>3 DEF Publish
        <3>2. Follows(wire', t, Have2(c, t)) /\ Follows(queue'[c], t, Have1(c, t))
            BY <1>1, <3>1 DEF Ordered
        <3> QED BY <1>2, <3>1, <3>2, OrderedNext
    <2> QED BY <2>2, <2>3
<1>6. CASE PublishChunk(u)
    <2>1. /\ stage[u] = "publishing" /\ pushed' = pushed /\ Publish(u, pushed[u])
          /\ stage' = [stage EXCEPT ![u] = "streaming"]
        BY <1>6 DEF PublishChunk
    <2>2. pushed[u] > 0
        BY <2>1 DEF TurnInv
    <2>3. acked /\ u = t /\ pushed[u] > 1 => pushed[u] - 1 \in Have2(c, t) \cup Nums(wire, t)
        BY <1>3, <2>1, <2>2 DEF Ordered, Published
    <2>4. CASE u = t
        <3>1. Published(t)' = pushed[u]
            BY <2>1, <2>4 DEF Published, TypeOK
        <3> QED BY <1>3, <1>5, <2>1, <2>3, <2>4, <3>1
    <2>5. CASE u # t
        <3>1. Published(t)' = Published(t)
            BY <2>1, <2>5 DEF Published, TypeOK
        <3> QED BY <1>3, <1>5, <2>1, <2>3, <2>5, <3>1 DEF Ordered
    <2> QED BY <2>4, <2>5
<1>7. CASE CloseTurn(u)
    <2>1. /\ stage[u] = "ended" /\ pushed' = pushed /\ Publish(u, 0)
          /\ stage' = [stage EXCEPT ![u] = "closed"]
        BY <1>7 DEF CloseTurn
    <2>2. Published(t)' = Published(t)
        BY <2>1 DEF Published, TypeOK
    <2> QED BY <1>5, <2>1, <2>2 DEF Ordered
<1> QED BY <1>4, <1>6, <1>7 DEF TurnStep

\* The fan-out moves the first frame of the subscription to the end of the queue.
LEMMA OrderedFanout ==
    ASSUME TypeOK, NEW c \in Clients, NEW t \in Untagged, t \in Turns, Ordered(c, t),
           cl[c] # "off", Fanout
    PROVE  Ordered(c, t)'
<1> DEFINE f == Head(wire)
           new == IF f.turn = t THEN {f.n} ELSE {}
<1>1. /\ wire \in Seq(Frames) /\ wire # <<>> /\ wire' = Tail(wire)
      /\ Tail(wire) \in Seq(Frames) /\ f \in Frames
      /\ queue[c] \in Seq(Frames)
      /\ view' = view /\ snap' = snap /\ acked' = acked /\ Published(t)' = Published(t)
    BY DEF TypeOK, Fanout, Published
<1>2. /\ f.turn = t /\ f.n > 1 => f.n - 1 \in Have2(c, t)
      /\ Follows(Tail(wire), t, Have2(c, t) \cup new)
    BY <1>1, FollowsTail DEF Ordered
<1>3. Nums(wire, t) = Nums(Tail(wire), t) \cup new
    BY <1>1, NumsTail
<1>4. After1(c, t) = Have1(c, t)
    BY <1>1 DEF After1, Have1
<1>5. /\ Nums(queue'[c], t) = Nums(queue[c], t) \cup new
      /\ Follows(queue'[c], t, Have1(c, t))
    <2>1. CASE queue'[c] = Append(queue[c], f)
        <3>1. Nums(queue'[c], t) = Nums(queue[c], t) \cup new
            BY <1>1, <2>1, NumsAppend
        <3>2. Follows(Append(queue[c], f), t, Have1(c, t))
            BY <1>1, <1>2, FollowsAppend DEF Ordered, Have2
        <3> QED BY <2>1, <3>1, <3>2
    <2>2. CASE queue'[c] = queue[c] /\ f.turn # t
        BY <2>2 DEF Ordered
    <2>3. f.turn = t => Allowed(c, f)
        BY UntaggedIsAllowed
    <2> QED BY <2>1, <2>2, <2>3 DEF Fanout, TypeOK
<1>6. After2(c, t) = Have2(c, t) \cup new
    BY <1>4, <1>5 DEF After2, Have2
<1>7. acked' => Published(t)' \in {0} \cup After2(c, t) \cup Nums(wire', t)
    BY <1>1, <1>3, <1>6 DEF Ordered
<1> HIDE DEF new
<1> QED BY <1>1, <1>2, <1>4, <1>5, <1>6, <1>7, OrderedNext

\* A queued frame that is sent moves to the page.
LEMMA OrderedSend ==
    ASSUME TypeOK, NEW c \in Clients, NEW t \in Turns, Ordered(c, t), SendQueued(c)
    PROVE  Ordered(c, t)'
<1> DEFINE f == Head(queue[c])
           new == IF f.turn = t THEN {f.n} ELSE {}
<1>1. /\ queue[c] \in Seq(Frames) /\ queue[c] # <<>> /\ wire \in Seq(Frames)
      /\ Tail(queue[c]) \in Seq(Frames) /\ f \in Frames
      /\ queue'[c] = Tail(queue[c])
      /\ wire' = wire /\ snap' = snap /\ acked' = acked /\ Published(t)' = Published(t)
      /\ Take(c, f)
    BY DEF TypeOK, SendQueued, Published
<1>2. view'[c][t] = IF t = f.turn /\ f.n > 0 THEN view[c][t] \cup {f.n} ELSE view[c][t]
    BY <1>1, TakeView
<1>3. f.n \in Nat
    BY <1>1 DEF Frames
<1>4. (Have1(c, t) \cup new) \ {0} \subseteq After1(c, t)
    BY <1>1, <1>2, <1>3 DEF After1, Have1
<1>5. Nums(queue[c], t) = Nums(Tail(queue[c]), t) \cup new
    BY <1>1, NumsTail
<1>6. Have2(c, t) \ {0} \subseteq After2(c, t)
    BY <1>1, <1>4, <1>5 DEF After2, Have2
<1>7. Follows(queue'[c], t, After1(c, t))
    <2> DEFINE had == Have1(c, t) \cup new
    <2>1. Follows(Tail(queue[c]), t, had) /\ had \ {0} \subseteq After1(c, t)
        BY <1>1, <1>4, FollowsTail DEF Ordered
    <2> HIDE DEF had
    <2>2. Follows(Tail(queue[c]), t, After1(c, t))
        BY <1>1, <2>1, FollowsMore
    <2> QED BY <1>1, <2>2
<1>8. Follows(wire', t, After2(c, t))
    BY <1>1, <1>6, FollowsMore DEF Ordered
<1>9. acked' => Published(t)' \in {0} \cup After2(c, t) \cup Nums(wire', t)
    BY <1>1, <1>6 DEF Ordered
<1> QED BY <1>7, <1>8, <1>9, OrderedNext

\* A registered client that is served keeps getting each turn in order.
LEMMA OrderedStep ==
    ASSUME TypeOK, TurnInv, PumpInv, Bounded, Next,
           NEW c \in Clients, NEW t \in Untagged, Ordered(c, t),
           cl[c] \in {"reading", "sending"}, cl'[c] \in {"reading", "sending"},
           ~blind[c], ~blind'[c]
    PROVE  Ordered(c, t)'
<1>0. t \in Turns /\ Readers \subseteq Clients /\ snap[c] \in Seq(Frames)
    BY StreamAssumption DEF Untagged, TypeOK
<1>1. view[c][t] \subseteq view'[c][t]
    BY <1>0, ViewGrows
<1>2. ASSUME queue'[c] = queue[c], wire' = wire, acked' => acked,
             snap'[c] = snap[c], UNCHANGED <<stage, pushed>>
      PROVE  Ordered(c, t)'
    <2>1. Have1(c, t) \ {0} \subseteq After1(c, t)
        BY <1>1, <1>2 DEF Have1, After1
    <2>2. Published(t)' = Published(t)
        BY <1>2 DEF Published
    <2> QED BY <1>0, <1>2, <2>1, <2>2, OrderedMore
<1>3. ASSUME NEW u \in Turns, TurnStep(u) PROVE Ordered(c, t)'
    BY <1>0, <1>3, OrderedTurn
<1>4. CASE PumpStep
    <2>1. CASE PumpSubscribe
        BY <1>2, <2>1 DEF PumpSubscribe
    <2>2. CASE RedisSubscribes
        BY <2>2 DEF PumpInv, RedisSubscribes
    <2>3. CASE PumpDies
        <3>1. /\ queue' = queue /\ snap' = snap /\ view' = view /\ ~acked' /\ wire' = <<>>
            BY <2>3 DEF PumpDies
        <3>2. Follows(queue'[c], t, After1(c, t))
            BY <3>1 DEF Ordered, After1, Have1
        <3> QED BY <3>1, <3>2, EmptyList, OrderedNext
    <2>4. CASE Fanout
        BY <1>0, <2>4, OrderedFanout
    <2> QED BY <1>4, <2>1, <2>2, <2>3, <2>4 DEF PumpStep
<1>5. ASSUME NEW d \in Clients, ClientStep(d) PROVE Ordered(c, t)'
    <2>1. CASE Connect(d)
        BY <1>2, <2>1 DEF Connect
    <2>2. CASE Scan(d)
        BY <1>2, <2>2 DEF Scan
    <2>3. ASSUME NEW u \in Turns, ReadChunks(d, u) PROVE Ordered(c, t)'
        <3>1. CASE c = d
            <4>1. /\ queue' = queue /\ wire' = wire /\ acked' = acked /\ view' = view
                  /\ snap'[c] = snap[c] \o Chunks(u) /\ Published(t)' = Published(t)
                BY <2>3, <3>1 DEF TypeOK, ReadChunks, Published
            <4>2. Nums(snap[c], t) \subseteq Nums(snap'[c], t)
                BY <1>0, <4>1, ReadList
            <4>3. Have1(c, t) \ {0} \subseteq After1(c, t)
                BY <4>1, <4>2 DEF Have1, After1
            <4> QED BY <1>0, <4>1, <4>3, OrderedMore
        <3>2. CASE c # d
            BY <1>2, <2>3, <3>2 DEF TypeOK, ReadChunks
        <3> QED BY <3>1, <3>2
    <2>4. CASE StartLoops(d)
        BY <1>2, <2>4 DEF StartLoops
    <2>5. CASE SnapshotFails(d)
        <3>1. c # d
            BY <2>5 DEF TypeOK, SnapshotFails
        <3> QED BY <1>2, <2>5, <3>1 DEF TypeOK, SnapshotFails
    <2>6. CASE SendSnapshot(d)
        <3>1. CASE c = d
            <4> DEFINE f == Head(snap[c])
            <4>1. /\ queue' = queue /\ wire' = wire /\ acked' = acked
                  /\ snap[c] # <<>> /\ f \in Frames
                  /\ snap'[c] = Tail(snap[c]) /\ Published(t)' = Published(t)
                BY <1>0, <2>6, <3>1 DEF TypeOK, SendSnapshot, Published
            <4>2. Nums(snap[c], t) = Nums(snap'[c], t) \cup (IF f.turn = t THEN {f.n} ELSE {})
                BY <1>0, <4>1, NumsTail
            <4>3. f.turn = t /\ f.n # 0 => f.n \in view'[c][t]
                <5> SUFFICES ASSUME f.turn = t, f.n # 0 PROVE f.n \in view'[c][t]
                    OBVIOUS
                <5>1. Take(c, f)
                    BY <2>6, <3>1, UntaggedIsAllowed DEF SendSnapshot
                <5>2. f.n > 0
                    BY <4>1 DEF Frames
                <5> QED BY <1>0, <4>1, <5>1, <5>2, TakeView
            <4>4. Have1(c, t) \ {0} \subseteq After1(c, t)
                BY <1>1, <4>2, <4>3 DEF Have1, After1
            <4> QED BY <1>0, <4>1, <4>4, OrderedMore
        <3>2. CASE c # d
            BY <1>2, <2>6, <3>2 DEF TypeOK, SendSnapshot
        <3> QED BY <3>1, <3>2
    <2>7. CASE SendQueued(d)
        <3>1. CASE c = d
            BY <1>0, <2>7, <3>1, OrderedSend
        <3>2. CASE c # d
            BY <1>2, <2>7, <3>2 DEF TypeOK, SendQueued
        <3> QED BY <3>1, <3>2
    <2>8. ASSUME NEW i \in Tagged, Control(d, i) PROVE Ordered(c, t)'
        BY <1>2, <2>8 DEF Control
    <2>9. CASE Disconnect(d)
        <3>1. c # d
            BY <2>9 DEF TypeOK, Disconnect, Unregister
        <3>2. UNCHANGED pumpVars
            BY <2>9, <3>1 DEF Disconnect
        <3> QED BY <1>2, <2>9, <3>1, <3>2 DEF TypeOK, Disconnect, Unregister
    <2> QED BY <1>5, <2>1, <2>2, <2>3, <2>4, <2>5, <2>6, <2>7, <2>8, <2>9 DEF ClientStep
<1>6. ASSUME NEW d \in Readers, FetchStep(d) PROVE Ordered(c, t)'
    BY <1>2, <1>6 DEF FetchStep, FetchRows, FetchEnds, FetchChunks
<1> QED BY <1>3, <1>4, <1>5, <1>6 DEF Next

\* A snapshot is sent in the order of the lists it was read from.
LEMMA SnapStep ==
    ASSUME TypeOK, Bounded, SnapInv, [Next]_vars
    PROVE  SnapInv'
<1> SUFFICES ASSUME NEW c \in Clients, NEW t \in Untagged
             PROVE Follows(snap'[c], t, view'[c][t])
    BY DEF SnapInv, Follows
<1>0. t \in Turns /\ snap[c] \in Seq(Frames)
    BY DEF Untagged, TypeOK
<1>1. view[c][t] \ {0} \subseteq view'[c][t]
    BY <1>0, ViewGrows
<1>2. Follows(snap[c], t, view[c][t])
    BY DEF SnapInv
<1>3. Follows(snap[c], t, view'[c][t])
    BY <1>0, <1>1, <1>2, FollowsMore
<1>4. CASE SendSnapshot(c) /\ snap[c] # <<>> /\ snap'[c] = Tail(snap[c])
    <2> DEFINE f == Head(snap[c])
               had == view[c][t] \cup (IF f.turn = t THEN {f.n} ELSE {})
    <2>1. f \in Frames /\ Tail(snap[c]) \in Seq(Frames)
        BY <1>0, <1>4
    <2>2. Follows(Tail(snap[c]), t, had)
        BY <1>0, <1>2, <1>4, FollowsTail
    <2>3. f.turn = t /\ f.n # 0 => f.n \in view'[c][t]
        <3> SUFFICES ASSUME f.turn = t, f.n # 0 PROVE f.n \in view'[c][t]
            OBVIOUS
        <3>1. Take(c, f)
            BY <1>4, UntaggedIsAllowed DEF SendSnapshot
        <3>2. f.n > 0
            BY <2>1 DEF Frames
        <3> QED BY <1>0, <2>1, <3>1, <3>2, TakeView
    <2>4. had \ {0} \subseteq view'[c][t]
        BY <1>1, <2>3
    <2> HIDE DEF had
    <2>5. Follows(Tail(snap[c]), t, view'[c][t])
        BY <2>1, <2>2, <2>4, FollowsMore
    <2> QED BY <1>4, <2>5
<1>5. ASSUME NEW u \in Turns, snap'[c] = snap[c] \o Chunks(u)
      PROVE Follows(snap'[c], t, view'[c][t])
    BY <1>0, <1>3, <1>5, ReadList
<1> QED BY <1>3, <1>4, <1>5, SnapMoves, EmptyList

-----------------------------------------------------------------------------
(* No hole *)

\* What a page is sent or fetches leaves no hole where there was none.
LEMMA NoHoleStep ==
    ASSUME TypeOK, Bounded, SnapInv, [Next]_vars,
           NEW c \in Clients, NEW t \in Untagged, NoHole(view[c][t]),
           SendQueued(c) => Ordered(c, t) \/ view[c][t] = 1..pushed[t]
    PROVE  NoHole(view'[c][t])
<1>0. t \in Turns /\ snap[c] \in Seq(Frames) /\ queue[c] \in Seq(Frames) /\ pushed[t] \in Nat
    BY DEF Untagged, TypeOK
<1>1. view[c][t] \subseteq 1..pushed[t] /\ view[c][t] \subseteq Nat
    BY <1>0 DEF Bounded, TypeOK
<1>2. ASSUME NEW n \in Nat, n > 1 => n - 1 \in view[c][t],
             view'[c][t] = view[c][t] \cup {n}
      PROVE NoHole(view'[c][t])
    BY <1>1, <1>2, NoHoleNext
<1>3. CASE SendSnapshot(c) /\ Sent(c, t, snap[c])
    <2>1. snap[c] # <<>> /\ Head(snap[c]) \in Frames
        BY <1>0, <1>3 DEF SendSnapshot
    <2>2. Head(snap[c]).n > 1 => Head(snap[c]).n - 1 \in view[c][t]
        BY <1>0, <1>3, <2>1, FollowsTail DEF SnapInv, Sent
    <2>3. Head(snap[c]).n \in Nat
        BY <2>1 DEF Frames
    <2> QED BY <1>2, <1>3, <2>2, <2>3 DEF Sent
<1>4. CASE SendQueued(c) /\ Sent(c, t, queue[c])
    <2>1. queue[c] # <<>> /\ Head(queue[c]) \in Frames /\ snap[c] = <<>>
        BY <1>0, <1>4 DEF SendQueued
    <2>2. Head(queue[c]).n \in Nat
        BY <2>1 DEF Frames
    <2>3. CASE Ordered(c, t)
        <3>1. Have1(c, t) = view[c][t]
            BY <2>1, EmptyList DEF Have1
        <3>2. Head(queue[c]).n > 1 => Head(queue[c]).n - 1 \in view[c][t]
            BY <1>0, <1>4, <2>1, <2>3, <3>1, FollowsTail DEF Ordered, Sent
        <3> QED BY <1>2, <1>4, <2>2, <3>2 DEF Sent
    <2>4. CASE view[c][t] = 1..pushed[t]
        <3>1. Head(queue[c]).n \in 0..pushed[t]
            BY <1>0, <1>4, <2>1, NumsTail DEF Bounded, Sent
        <3>2. Head(queue[c]).n > 1 => Head(queue[c]).n - 1 \in view[c][t]
            BY <1>0, <2>4, <3>1
        <3> QED BY <1>2, <1>4, <2>2, <3>2 DEF Sent
    <2> QED BY <1>4, <2>3, <2>4
<1>5. CASE Fetched(c, t)
    BY <1>0, <1>1, <1>5, NoHoleAbove DEF Fetched
<1> QED BY <1>0, <1>3, <1>4, <1>5, ViewMoves

\* A blind client stays blind; the cache of a turn begins with its start; a client
\* leaves and comes back through "waiting".
LEMMA ClientMoves ==
    ASSUME TypeOK, Next, NEW c \in Clients, NEW t \in Turns
    PROVE  /\ blind[c] => blind'[c]
           /\ cached'[t] => cached[t] \/ StartTurn(t)
           /\ cl'[c] \in {"reading", "sending"} => cl[c] \in {"reading", "sending"} \/ Scan(c)
           /\ cl'[c] = "sending" => cl[c] \in {"sending", "reading"}
           /\ cl'[c] \in {"reading", "sending"} /\ t \in left[c] /\ t \notin left'[c] =>
                 Scan(c) \/ ReadChunks(c, t) \/ blind'[c]
           /\ row[t] => row'[t] \/ SaveTurn(t)
           /\ pushed'[t] # pushed[t] => PushChunk(t)
           /\ rest'[c] \in {"full", "fullDone"} =>
                 rest[c] \in {"full", "fullDone"} \/ FetchRows(c, "full")
           /\ rest'[c] \in {"full", "fullDone"} /\ cl[c] = "off" => cl'[c] = "off"
<1>1. ASSUME NEW u \in Turns, TurnStep(u)
      PROVE /\ UNCHANGED <<sockVars, restVars>>
            /\ cached'[t] => cached[t] \/ StartTurn(t)
            /\ row[t] => row'[t] \/ SaveTurn(t)
            /\ pushed'[t] # pushed[t] => PushChunk(t)
    <2>1. CASE StartTurn(u)
        <3>1. CASE u = t
            BY <2>1, <3>1 DEF StartTurn
        <3>2. CASE u # t
            BY <2>1, <3>2 DEF StartTurn, TypeOK
        <3> QED BY <3>1, <3>2
    <2>2. CASE PushChunk(u)
        <3>1. CASE u = t
            BY <2>2, <3>1 DEF PushChunk
        <3>2. CASE u # t
            BY <2>2, <3>2 DEF PushChunk, TypeOK
        <3> QED BY <3>1, <3>2
    <2>3. CASE SaveTurn(u)
        <3>1. CASE u = t
            BY <2>3, <3>1 DEF SaveTurn
        <3>2. CASE u # t
            BY <2>3, <3>2 DEF SaveTurn, TypeOK
        <3> QED BY <3>1, <3>2
    <2>4. CASE PublishChunk(u) \/ CloseTurn(u)
        BY <2>4 DEF PublishChunk, CloseTurn
    <2>5. CASE DropCache(u)
        BY <2>5 DEF DropCache, TypeOK
    <2> QED BY <1>1, <2>1, <2>2, <2>3, <2>4, <2>5 DEF TurnStep
<1>2. ASSUME PumpStep PROVE UNCHANGED <<turnVars, cl, left, blind, restVars>>
    BY <1>2 DEF PumpStep, PumpSubscribe, RedisSubscribes, PumpDies, Fanout
<1>3. ASSUME NEW d \in Clients, ClientStep(d), c # d
      PROVE UNCHANGED <<turnVars, cl[c], left[c], blind[c], rest[c]>>
    BY <1>3 DEF TypeOK, ClientStep, Connect, Scan, StartLoops, SnapshotFails, SendSnapshot,
                SendQueued, Disconnect, Unregister, ReadChunks, Control
<1>4. ASSUME ClientStep(c)
      PROVE /\ UNCHANGED turnVars
            /\ blind[c] => blind'[c]
            /\ cl'[c] \in {"reading", "sending"} => cl[c] \in {"reading", "sending"} \/ Scan(c)
            /\ cl'[c] = "sending" => cl[c] \in {"sending", "reading"}
            /\ cl'[c] \in {"reading", "sending"} /\ t \in left[c] /\ t \notin left'[c] =>
                  Scan(c) \/ ReadChunks(c, t) \/ blind'[c]
            /\ rest'[c] \in {"full", "fullDone"} => rest[c] \in {"full", "fullDone"}
            /\ rest'[c] \in {"full", "fullDone"} /\ cl[c] = "off" => cl'[c] = "off"
    <2>1. CASE Connect(c)
        BY <2>1 DEF TypeOK, Connect
    <2>2. CASE Scan(c)
        BY <2>2 DEF TypeOK, Scan
    <2>3. ASSUME NEW u \in Turns, ReadChunks(c, u)
          PROVE /\ UNCHANGED <<turnVars, cl, blind, rest>> /\ cl[c] = "reading"
                /\ t \in left[c] /\ t \notin left'[c] => ReadChunks(c, t)
        <3>1. CASE u = t
            BY <2>3, <3>1 DEF ReadChunks
        <3>2. CASE u # t
            BY <2>3, <3>2 DEF TypeOK, ReadChunks
        <3> QED BY <3>1, <3>2
    <2>4. CASE StartLoops(c)
        BY <2>4 DEF TypeOK, StartLoops
    <2>5. CASE SnapshotFails(c)
        BY <2>5 DEF TypeOK, SnapshotFails
    <2>6. CASE SendSnapshot(c) \/ SendQueued(c) \/ \E i \in Tagged : Control(c, i)
        BY <2>6 DEF SendSnapshot, SendQueued, Control
    <2>7. CASE Disconnect(c)
        BY <2>7 DEF TypeOK, Disconnect, Unregister
    <2> QED BY <1>4, <2>1, <2>2, <2>3, <2>4, <2>5, <2>6, <2>7 DEF ClientStep
<1>5. ASSUME NEW d \in Readers, FetchStep(d)
      PROVE /\ UNCHANGED <<turnVars, sockVars>>
            /\ rest'[c] \in {"full", "fullDone"} =>
                  rest[c] \in {"full", "fullDone"} \/ FetchRows(c, "full")
    <2>0. d \in Clients
        BY StreamAssumption
    <2>1. ASSUME NEW mode \in FetchModes, FetchRows(d, mode)
          PROVE rest'[c] \in {"full", "fullDone"} =>
                   rest[c] \in {"full", "fullDone"} \/ FetchRows(c, "full")
        <3>1. rest' = [rest EXCEPT ![d] = mode] /\ mode \in {"full", "since"}
            BY <2>1, StreamAssumption DEF FetchRows
        <3>2. CASE c = d /\ mode = "full"
            BY <2>1, <3>2
        <3>3. CASE c # d \/ mode # "full"
            BY <2>0, <3>1, <3>3 DEF TypeOK
        <3> QED BY <3>2, <3>3
    <2>2. ASSUME NEW u \in Turns, FetchChunks(d, u) PROVE rest' = rest
        BY <2>2 DEF FetchChunks
    <2>3. CASE FetchEnds(d)
        BY <2>0, <2>3 DEF TypeOK, FetchEnds
    <2>4. UNCHANGED <<turnVars, sockVars>>
        BY <1>5 DEF FetchStep, FetchRows, FetchEnds, FetchChunks
    <2> QED BY <1>5, <2>1, <2>2, <2>3, <2>4 DEF FetchStep
<1> QED BY <1>1, <1>2, <1>3, <1>4, <1>5 DEF Next

\* A turn in flight reaches a client without a hole: the snapshot and the
\* subscription overlap, and the snapshot is sent first.
LEMMA LiveStep ==
    ASSUME TypeOK, TurnInv, PumpInv, Bounded, SnapInv, LiveInv,
           TypeOK', TurnInv', Bounded', Next
    PROVE  LiveInv'
<1> SUFFICES ASSUME NEW c \in Clients, NEW t \in Untagged, ~blind'[c], cached'[t]
             PROVE  /\ NoHole(view'[c][t])
                    /\ cl'[c] \in {"reading", "sending"} /\ t \notin left'[c] => Ordered(c, t)'
    BY DEF LiveInv, NoHole
<1>0. t \in Turns /\ ~blind[c] /\ snap[c] \in Seq(Frames)
    BY ClientMoves DEF Untagged, TypeOK
<1>1. CASE StartTurn(t)
    <2>1. pushed'[t] = 0 /\ pushed[t] = 0 /\ view' = view
        BY <1>0, <1>1 DEF StartTurn, TurnInv
    <2>2. view[c][t] \subseteq 1..0 /\ 1..pushed'[t] = {}
        BY <1>0, <2>1 DEF Bounded
    <2>3. NoHole(view'[c][t])
        BY <2>1, <2>2 DEF NoHole
    <2>4. Ordered(c, t)'
        BY <1>0, <2>2, CompleteIsOrdered
    <2> QED BY <2>3, <2>4
<1>2. CASE cached[t]
    <2>1. NoHole(view'[c][t])
        <3>1. NoHole(view[c][t])
            BY <1>0, <1>2 DEF LiveInv
        <3>2. SendQueued(c) => Ordered(c, t)
            BY <1>0, <1>2 DEF SendQueued, LiveInv, PumpInv
        <3> QED BY <3>1, <3>2, NoHoleStep
    <2>2. ASSUME cl'[c] \in {"reading", "sending"}, t \notin left'[c] PROVE Ordered(c, t)'
        <3>1. ~Scan(c)
            BY <1>0, <1>2, <2>2 DEF Scan, TypeOK
        <3>2. cl[c] \in {"reading", "sending"}
            BY <1>0, <2>2, <3>1, ClientMoves
        <3>3. CASE t \notin left[c]
            <4>1. Ordered(c, t)
                BY <1>0, <1>2, <3>2, <3>3 DEF LiveInv
            <4> QED BY <1>0, <2>2, <3>2, <4>1, OrderedStep
        <3>4. CASE t \in left[c]
            <4>1. ReadChunks(c, t)
                BY <1>0, <2>2, <3>1, <3>4, ClientMoves
            <4>2. snap'[c] = snap[c] \o Chunks(t) /\ pushed' = pushed
                BY <4>1 DEF ReadChunks, TypeOK
            <4>3. 1..pushed[t] \subseteq Nums(snap'[c], t)
                BY <1>0, <1>2, <4>2, ReadList
            <4> QED BY <1>0, <4>2, <4>3, CompleteIsOrdered DEF After1
        <3> QED BY <3>3, <3>4
    <2> QED BY <2>1, <2>2
<1> QED BY <1>0, <1>1, <1>2, ClientMoves

\* A turn that is lost stays lost.
LEMMA LostStays ==
    ASSUME TypeOK, TurnInv, Next, NEW t \in Turns, Lost(t)
    PROVE  Lost(t)'
<1>1. ASSUME NEW u \in Turns, TurnStep(u) PROVE Lost(t)'
    <2>1. CASE StartTurn(u)
        BY <2>1 DEF Lost, TypeOK, TurnInv, StartTurn
    <2>2. CASE PushChunk(u)
        BY <2>2 DEF Lost, TypeOK, PushChunk
    <2>3. CASE PublishChunk(u)
        BY <2>3 DEF Lost, TypeOK, PublishChunk
    <2>4. CASE SaveTurn(u)
        BY <2>4 DEF Lost, TypeOK, SaveTurn
    <2>5. CASE DropCache(u)
        BY <2>5 DEF Lost, TypeOK, DropCache
    <2>6. CASE CloseTurn(u)
        BY <2>6 DEF Lost, TypeOK, CloseTurn
    <2> QED BY <1>1, <2>1, <2>2, <2>3, <2>4, <2>5, <2>6 DEF TurnStep
<1>2. ASSUME PumpStep PROVE UNCHANGED turnVars
    BY <1>2 DEF PumpStep, PumpSubscribe, RedisSubscribes, PumpDies, Fanout
<1>3. ASSUME NEW c \in Clients, ClientStep(c) PROVE UNCHANGED turnVars
    BY <1>3 DEF ClientStep, Connect, Scan, StartLoops, SnapshotFails, SendSnapshot,
                SendQueued, Disconnect, Unregister, ReadChunks, Control
<1>4. ASSUME NEW c \in Readers, FetchStep(c) PROVE UNCHANGED turnVars
    BY <1>4 DEF FetchStep, FetchRows, FetchEnds, FetchChunks
<1>5. UNCHANGED turnVars => Lost(t)'
    BY DEF turnVars, Lost
<1> QED BY <1>1, <1>2, <1>3, <1>4, <1>5 DEF Next

\* The SELECT of a full fetch finds the message, or the turn is still in flight,
\* or it is lost: it is stored before its list is deleted.
LEMMA FetchedStep ==
    ASSUME TypeOK, TurnInv, PumpInv, Bounded, SnapInv, LiveInv, FetchedInv,
           TypeOK', TurnInv', PumpInv', Bounded', LiveInv', Next
    PROVE  FetchedInv'
<1> SUFFICES ASSUME NEW c \in Clients, NEW t \in Untagged, ~blind'[c],
                    rest'[c] \in {"full", "fullDone"}, ~Lost(t)'
             PROVE  /\ NoHole(view'[c][t])
                    /\ cl'[c] = "sending" =>
                          Ordered(c, t)' \/ (row'[t] /\ view'[c][t] = 1..pushed'[t])
    BY DEF FetchedInv, NoHole
<1>0. t \in Turns /\ ~blind[c] /\ pushed[t] \in Nat
    BY ClientMoves DEF Untagged, TypeOK
<1>l. ~Lost(t)
    BY <1>0, LostStays
<1>1. CASE FetchRows(c, "full")
    <2>1. /\ UNCHANGED <<turnVars, sockVars>> /\ rest'[c] = "full" /\ cl[c] = "sending"
          /\ row[t] => view'[c][t] = 1..pushed[t]
          /\ ~row[t] => view'[c][t] = view[c][t]
        <3>1. rest'[c] = "full"
            BY <1>1 DEF FetchRows, TypeOK
        <3> DEFINE all == {x \in Turns : row[x] /\ 1 \in Above(c, x, {1})}
        <3>2. view' = [view EXCEPT ![c] =
                          [x \in Turns |-> IF x \in all THEN 1..pushed[x] ELSE view[c][x]]]
            BY <1>1 DEF FetchRows
        <3>3. t \in all <=> row[t]
            BY <1>0, <3>1 DEF Above
        <3> HIDE DEF all
        <3>4. view'[c][t] = IF t \in all THEN 1..pushed[t] ELSE view[c][t]
            BY <1>0, <3>2 DEF TypeOK
        <3> QED BY <1>1, <3>1, <3>3, <3>4 DEF FetchRows
    <2>2. CASE row[t]
        <3>1. NoHole(1..pushed[t])
            BY <1>0 DEF NoHole
        <3> QED BY <2>1, <2>2, <3>1
    <2>3. CASE cached[t]
        <3>1. cl'[c] = "sending" /\ left'[c] = {} /\ cached'[t]
            BY <2>1, <2>3 DEF PumpInv
        <3>2. NoHole(view[c][t]) /\ NoHole(view'[c][t])
            BY <1>0, <2>3, <3>1 DEF LiveInv, NoHole
        <3> QED BY <3>1, <3>2 DEF LiveInv
    <2>4. CASE pushed[t] = 0
        <3>1. 1..pushed'[t] = {} /\ view[c][t] \subseteq 1..0
            BY <1>0, <2>1, <2>4 DEF Bounded
        <3>2. NoHole(view[c][t])
            BY <3>1 DEF NoHole
        <3>3. NoHole(view'[c][t])
            BY <2>1, <2>2, <3>2
        <3> QED BY <1>0, <3>1, <3>3, CompleteIsOrdered
    <2>5. row[t] \/ cached[t] \/ pushed[t] = 0
        <3>1. stage[t] \in Stages
            BY <1>0 DEF TypeOK
        <3>2. CASE stage[t] \in {"idle", "streaming", "publishing", "saved"}
            BY <1>0, <3>2 DEF TurnInv
        <3>3. CASE stage[t] \in {"ended", "closed"}
            BY <1>l, <3>3 DEF Lost
        <3> QED BY <3>1, <3>2, <3>3 DEF Stages
    <2> QED BY <2>2, <2>3, <2>4, <2>5
<1>2. CASE rest[c] \in {"full", "fullDone"}
    <2>1. /\ NoHole(view[c][t])
          /\ cl[c] = "sending" => Ordered(c, t) \/ (row[t] /\ view[c][t] = 1..pushed[t])
        BY <1>0, <1>l, <1>2 DEF FetchedInv
    <2>2. NoHole(view'[c][t])
        <3>1. SendQueued(c) => Ordered(c, t) \/ view[c][t] = 1..pushed[t]
            BY <2>1 DEF SendQueued
        <3> QED BY <2>1, <3>1, NoHoleStep
    <2>3. ASSUME cl'[c] = "sending"
          PROVE Ordered(c, t)' \/ (row'[t] /\ view'[c][t] = 1..pushed'[t])
        <3>1. cl[c] = "sending"
            BY <1>0, <1>2, <2>3, ClientMoves DEF PumpInv
        <3>2. CASE Ordered(c, t)
            BY <1>0, <2>3, <3>1, <3>2, OrderedStep
        <3>3. CASE row[t] /\ view[c][t] = 1..pushed[t]
            <4>1. ~SaveTurn(t) /\ ~PushChunk(t)
                BY <1>0, <3>3 DEF TurnInv, SaveTurn, PushChunk
            <4>2. row'[t] /\ pushed'[t] = pushed[t]
                BY <1>0, <3>3, <4>1, ClientMoves
            <4>3. view[c][t] \subseteq view'[c][t]
                BY <1>0, ViewGrows
            <4>4. view'[c][t] \subseteq 1..pushed'[t]
                BY <1>0 DEF Bounded
            <4> QED BY <3>3, <4>2, <4>3, <4>4
        <3> QED BY <2>1, <3>1, <3>2, <3>3
    <2> QED BY <2>2, <2>3
<1> QED BY <1>0, <1>1, <1>2, ClientMoves

-----------------------------------------------------------------------------
(* Theorems *)

StreamInv ==
    TypeOK /\ TurnInv /\ PumpInv /\ Bounded /\ SnapInv /\ LiveInv /\ FetchedInv

LEMMA StreamInit == ASSUME Init PROVE StreamInv
<1>1. TypeOK
    BY TypeInit
<1>2. TurnInv /\ PumpInv
    BY StreamAssumption DEF Init, TurnInv, PumpInv
<1>3. Bounded
    BY EmptyList DEF Init, Bounded
<1>4. SnapInv
    BY EmptyList DEF Init, SnapInv, Untagged
<1>5. LiveInv /\ FetchedInv
    BY DEF Init, LiveInv, FetchedInv, Untagged
<1> QED BY <1>1, <1>2, <1>3, <1>4, <1>5 DEF StreamInv

LEMMA StreamStep == ASSUME StreamInv, [Next]_vars PROVE StreamInv'
<1> USE DEF StreamInv
<1>1. TypeOK' /\ TurnInv' /\ PumpInv' /\ Bounded' /\ SnapInv'
    BY TypeStep, TurnStepInv, PumpStepInv, BoundedStep, SnapStep
<1>2. CASE Next
    BY <1>1, <1>2, LiveStep, FetchedStep
<1>3. CASE UNCHANGED vars
    <2>1. UNCHANGED <<stage, pushed, cached, row, acked, wire, cl, queue, snap, left, blind, view,
                      rest>>
        BY <1>3 DEF vars
    <2>2. \A c, t : Ordered(c, t)' = Ordered(c, t)
        BY <2>1 DEF Ordered, Published, Have1, Have2, Follows, Nums
    <2>3. \A c, t : NoHole(view[c][t])' = NoHole(view[c][t])
        BY <2>1 DEF NoHole
    <2>4. LiveInv'
        BY <2>1, <2>2, <2>3 DEF LiveInv
    <2>5. \A t : Lost(t)' = Lost(t)
        BY <2>1 DEF Lost
    <2>6. FetchedInv'
        BY <2>1, <2>2, <2>3, <2>5 DEF FetchedInv
    <2> QED BY <1>1, <2>4, <2>6
<1> QED BY <1>2, <1>3

\* BackfilledViewHasNoHole for every run: a page that connected with the
\* subscription in place and fetched the history in full has every turn outside
\* an iteration from its first chunk on.
THEOREM BackfillLeavesNoHole == Spec => []BackfilledViewHasNoHole
<1>1. Init => StreamInv
    BY StreamInit
<1>2. StreamInv /\ [Next]_vars => StreamInv'
    BY StreamStep
<1>3. StreamInv => BackfilledViewHasNoHole
    BY DEF StreamInv, FetchedInv, BackfilledViewHasNoHole
<1> QED BY <1>1, <1>2, <1>3, PTL DEF Spec

-----------------------------------------------------------------------------
(* The stream implements TurnFeed *)

\* The mapped variables.
feedMade == [t \in Untagged |-> pushed[t]]
feedOver == [t \in Untagged |-> ~cached[t] /\ stage[t] # "idle"]
feedView == [c \in Clients |-> [t \in Untagged |-> view[c][t]]]

\* The steps that TurnFeed does not see.
LEMMA FeedStutters ==
    ASSUME TypeOK, TypeOK', UNCHANGED <<pushed, blind, view>>,
           \A t \in Turns : (~cached'[t] /\ stage'[t] # "idle") = (~cached[t] /\ stage[t] # "idle")
    PROVE  UNCHANGED Feed!feedVars
<1>1. feedMade' = feedMade /\ feedView' = feedView
    BY DEF feedMade, feedView
<1>2. feedOver' = feedOver
    BY DEF feedOver, Untagged
<1> QED BY <1>1, <1>2 DEF Feed!feedVars, feedMade, feedOver, feedView

\* A page gets more of one turn.
LEMMA FeedReceives ==
    ASSUME StreamInv, StreamInv', NEW c \in Clients, NEW t \in Turns,
           UNCHANGED <<stage, pushed, cached, blind>>,
           \A d \in Clients, u \in Turns : d # c \/ u # t => view'[d][u] = view[d][u],
           view[c][t] \subseteq view'[c][t]
    PROVE  [Feed!Next]_(Feed!feedVars)
<1> DEFINE s == view'[c][t]
<1>1. feedMade' = feedMade /\ feedOver' = feedOver
    BY DEF feedMade, feedOver
<1>2. CASE t \notin Untagged
    <2>1. feedView' = feedView
        BY <1>2 DEF feedView, Untagged
    <2> QED BY <1>1, <2>1 DEF Feed!feedVars, feedMade, feedOver, feedView
<1>3. CASE t \in Untagged
    <2>1. feedView' = [feedView EXCEPT ![c][t] = s]
        <3>1. \A d \in Clients : feedView'[d] = [feedView EXCEPT ![c][t] = s][d]
            <4> SUFFICES ASSUME NEW d \in Clients
                         PROVE feedView'[d] = [feedView EXCEPT ![c][t] = s][d]
                OBVIOUS
            <4>1. feedView'[d] = [u \in Untagged |-> view'[d][u]]
                BY DEF feedView
            <4>2. [feedView EXCEPT ![c][t] = s][d]
                    = IF d = c THEN [feedView[c] EXCEPT ![t] = s] ELSE feedView[d]
                BY DEF feedView
            <4>3. CASE d = c
                <5>1. [feedView[c] EXCEPT ![t] = s]
                        = [u \in Untagged |-> IF u = t THEN s ELSE view[c][u]]
                    BY DEF feedView
                <5> QED BY <4>1, <4>2, <4>3, <5>1 DEF Untagged
            <4>4. CASE d # c
                BY <4>1, <4>2, <4>4 DEF feedView, Untagged
            <4> QED BY <4>3, <4>4
        <3> QED BY <3>1 DEF feedView
    <2>2. /\ s \subseteq 1..pushed[t] /\ pushed[t] \in Nat
          /\ feedMade[t] = pushed[t]
          /\ feedView[c][t] = view[c][t]
          /\ feedOver[t] = (~cached[t] /\ stage[t] # "idle")
        BY <1>3 DEF StreamInv, Bounded, TypeOK, feedMade, feedView, feedOver
    <2>3. feedOver[t] \/ blind[c] \/ \E k \in 0..feedMade[t] : s = 1..k
        <3>1. CASE ~blind[c] /\ cached[t]
            <4>1. NoHole(s)
                BY <1>3, <3>1 DEF StreamInv, LiveInv, NoHole
            <4> QED BY <2>2, <4>1, NoHoleIsPrefix
        <3>2. CASE stage[t] = "idle"
            <4>1. pushed[t] = 0
                BY <3>2 DEF StreamInv, TurnInv
            <4>2. s = 1..0 /\ 0 \in 0..feedMade[t]
                BY <2>2, <4>1
            <4> QED BY <4>2
        <3> QED BY <2>2, <3>1, <3>2
    <2>4. Feed!Receive(c, t)
        <3>1. s \in SUBSET (1..feedMade[t]) /\ feedView[c][t] \subseteq s
            BY <2>2
        <3> HIDE DEF s
        <3> QED BY <1>1, <2>1, <2>3, <3>1 DEF Feed!Receive, feedMade, feedOver, feedView
    <2> QED BY <1>3, <2>4 DEF Feed!Next
<1> QED BY <1>2, <1>3

\* Every step is a step of TurnFeed, or one it does not see.
LEMMA FeedStep ==
    ASSUME StreamInv, StreamInv', [Next]_vars
    PROVE  [Feed!Next]_(Feed!feedVars)
<1>0. TypeOK /\ TypeOK' /\ TurnInv
    BY DEF StreamInv
<1>1. CASE UNCHANGED <<stage, pushed, cached, blind, view>>
    BY <1>0, <1>1, FeedStutters
<1>2. ASSUME NEW t \in Turns, TurnStep(t) PROVE [Feed!Next]_(Feed!feedVars)
    <2>1. CASE StartTurn(t) \/ PublishChunk(t) \/ SaveTurn(t) \/ CloseTurn(t)
        <3>1. UNCHANGED <<pushed, blind, view>>
            BY <2>1 DEF StartTurn, PublishChunk, SaveTurn, CloseTurn
        <3>2. ASSUME NEW u \in Turns
              PROVE (~cached'[u] /\ stage'[u] # "idle") = (~cached[u] /\ stage[u] # "idle")
            <4>1. CASE StartTurn(t)
                BY <1>0, <4>1 DEF StartTurn, TypeOK, TurnInv
            <4>2. CASE PublishChunk(t) \/ SaveTurn(t) \/ CloseTurn(t)
                BY <1>0, <4>2 DEF PublishChunk, SaveTurn, CloseTurn, TypeOK
            <4> QED BY <2>1, <4>1, <4>2
        <3> QED BY <1>0, <3>1, <3>2, FeedStutters
    <2>2. CASE PushChunk(t)
        <3>1. UNCHANGED <<cached, blind, view>> /\ pushed' = [pushed EXCEPT ![t] = @ + 1]
              /\ stage[t] = "streaming" /\ stage' = [stage EXCEPT ![t] = "publishing"]
            BY <2>2 DEF PushChunk
        <3>2. feedOver' = feedOver /\ feedView' = feedView
            BY <1>0, <3>1 DEF feedOver, feedView, TypeOK, Untagged
        <3>3. CASE t \in Untagged
            <4>1. feedMade' = [feedMade EXCEPT ![t] = @ + 1]
                BY <1>0, <3>1, <3>3 DEF feedMade, TypeOK, Untagged
            <4>2. ~feedOver[t]
                BY <1>0, <3>1, <3>3 DEF feedOver, TurnInv
            <4>3. Feed!Produce(t)
                BY <3>1, <3>2, <4>1, <4>2 DEF Feed!Produce, feedMade, feedOver, feedView
            <4> QED BY <3>3, <4>3 DEF Feed!Next
        <3>4. CASE t \notin Untagged
            <4>1. feedMade' = feedMade
                BY <1>0, <3>1, <3>4 DEF feedMade, TypeOK, Untagged
            <4> QED BY <3>1, <3>2, <4>1 DEF Feed!feedVars, feedMade, feedOver, feedView
        <3> QED BY <3>3, <3>4
    <2>3. CASE DropCache(t)
        <3>1. UNCHANGED <<pushed, blind, view>> /\ cached' = [cached EXCEPT ![t] = FALSE]
              /\ stage[t] = "saved" /\ stage' = [stage EXCEPT ![t] = "ended"]
            BY <2>3 DEF DropCache
        <3>2. feedMade' = feedMade /\ feedView' = feedView
            BY <3>1 DEF feedMade, feedView
        <3>3. CASE t \in Untagged
            <4>1. feedOver' = [feedOver EXCEPT ![t] = TRUE]
                BY <1>0, <3>1, <3>3 DEF feedOver, TypeOK, Untagged
            <4>2. Feed!End(t)
                BY <3>1, <3>2, <4>1 DEF Feed!End, feedMade, feedOver, feedView
            <4> QED BY <3>3, <4>2 DEF Feed!Next
        <3>4. CASE t \notin Untagged
            <4>1. feedOver' = feedOver
                BY <1>0, <3>1, <3>4 DEF feedOver, TypeOK, Untagged
            <4> QED BY <3>1, <3>2, <4>1 DEF Feed!feedVars, feedMade, feedOver, feedView
        <3> QED BY <3>3, <3>4
    <2> QED BY <1>2, <2>1, <2>2, <2>3 DEF TurnStep
<1>3. CASE PumpStep
    BY <1>1, <1>3 DEF PumpStep, PumpSubscribe, RedisSubscribes, PumpDies, Fanout
<1>4. ASSUME NEW c \in Clients, UNCHANGED <<stage, pushed, cached, view>>,
             blind' = [blind EXCEPT ![c] = blind'[c]]
      PROVE [Feed!Next]_(Feed!feedVars)
    <2>1. feedMade' = feedMade /\ feedOver' = feedOver /\ feedView' = feedView
        BY <1>4 DEF feedMade, feedOver, feedView
    <2>2. blind'[c] \in BOOLEAN
        BY <1>0 DEF TypeOK
    <2>3. Feed!Connect(c)
        BY <1>4, <2>1, <2>2 DEF Feed!Connect, feedMade, feedOver, feedView
    <2> QED BY <2>3 DEF Feed!Next
<1>5. ASSUME NEW c \in Clients, NEW f \in Frames, Take(c, f),
             UNCHANGED <<stage, pushed, cached, blind>>
      PROVE [Feed!Next]_(Feed!feedVars)
    <2>1. f.turn \in Turns
        BY DEF Frames
    <2>2. \A d \in Clients, u \in Turns : d # c \/ u # f.turn => view'[d][u] = view[d][u]
        <3> SUFFICES ASSUME NEW d \in Clients, NEW u \in Turns, d # c \/ u # f.turn
                     PROVE view'[d][u] = view[d][u]
            OBVIOUS
        <3>1. view'[d][u] = IF d = c /\ u = f.turn /\ f.n > 0
                            THEN view[d][u] \cup {f.n} ELSE view[d][u]
            BY <1>0, <1>5, TakeView
        <3> QED BY <3>1
    <2>3. view[c][f.turn] \subseteq view'[c][f.turn]
        BY <1>0, <1>5, <2>1, TakeView
    <2> QED BY <1>5, <2>1, <2>2, <2>3, FeedReceives
<1>6. ASSUME NEW c \in Clients, ClientStep(c) PROVE [Feed!Next]_(Feed!feedVars)
    <2>1. CASE Scan(c)
        <3>1. blind' = [blind EXCEPT ![c] = blind'[c]]
            BY <1>0, <2>1 DEF Scan, TypeOK
        <3> QED BY <1>4, <2>1, <3>1 DEF Scan
    <2>2. CASE SnapshotFails(c)
        <3>1. blind' = [blind EXCEPT ![c] = blind'[c]]
            BY <1>0, <2>2 DEF SnapshotFails, TypeOK
        <3> QED BY <1>4, <2>2, <3>1 DEF SnapshotFails
    <2>3. CASE SendSnapshot(c)
        <3>1. Head(snap[c]) \in Frames /\ UNCHANGED <<stage, pushed, cached, blind>>
            BY <1>0, <2>3 DEF SendSnapshot, TypeOK
        <3>2. Take(c, Head(snap[c])) \/ UNCHANGED view
            BY <2>3 DEF SendSnapshot
        <3> QED BY <1>1, <1>5, <3>1, <3>2
    <2>4. CASE SendQueued(c)
        <3>1. Head(queue[c]) \in Frames /\ UNCHANGED <<stage, pushed, cached, blind>>
            BY <1>0, <2>4 DEF SendQueued, TypeOK
        <3>2. Take(c, Head(queue[c]))
            BY <2>4 DEF SendQueued
        <3> QED BY <1>5, <3>1, <3>2
    <2>5. CASE ~Scan(c) /\ ~SnapshotFails(c) /\ ~SendSnapshot(c) /\ ~SendQueued(c)
        BY <1>1, <1>6, <2>5 DEF ClientStep, Connect, StartLoops, Disconnect, Unregister,
                                ReadChunks, Control
    <2> QED BY <2>1, <2>2, <2>3, <2>4, <2>5
<1>7. ASSUME NEW c \in Readers, FetchStep(c) PROVE [Feed!Next]_(Feed!feedVars)
    <2>0. c \in Clients
        BY StreamAssumption
    <2>1. ASSUME NEW mode \in FetchModes, FetchRows(c, mode)
          PROVE [Feed!Next]_(Feed!feedVars)
        <3>1. PICK all : view' = [view EXCEPT ![c] =
                    [x \in Turns |-> IF x \in all THEN 1..pushed[x] ELSE view[c][x]]]
            BY <2>1 DEF FetchRows
        <3>2. UNCHANGED <<stage, pushed, cached, blind>>
            BY <2>1 DEF FetchRows
        <3> DEFINE S == all \cap Untagged
                   new == [t \in Untagged |-> IF t \in S THEN 1..feedMade[t] ELSE feedView[c][t]]
        <3>3. feedMade' = feedMade /\ feedOver' = feedOver
            BY <3>2 DEF feedMade, feedOver
        <3>4. feedView' = [feedView EXCEPT ![c] = new]
            <4>1. ASSUME NEW d \in Clients PROVE feedView'[d] = [feedView EXCEPT ![c] = new][d]
                <5>1. CASE d = c
                    <6>1. view'[c] = [x \in Turns |-> IF x \in all THEN 1..pushed[x] ELSE view[c][x]]
                        BY <1>0, <2>0, <3>1 DEF TypeOK
                    <6>2. feedView'[c] = [t \in Untagged |-> view'[c][t]]
                        BY <2>0 DEF feedView
                    <6>3. new = [t \in Untagged |-> view'[c][t]]
                        BY <2>0, <6>1 DEF feedMade, feedView, Untagged
                    <6>4. [feedView EXCEPT ![c] = new][c] = new
                        BY <2>0 DEF feedView
                    <6> HIDE DEF new
                    <6> QED BY <5>1, <6>2, <6>3, <6>4
                <5>2. CASE d # c
                    <6>1. view'[d] = view[d]
                        BY <1>0, <2>0, <3>1, <5>2 DEF TypeOK
                    <6> HIDE DEF new
                    <6> QED BY <5>2, <6>1 DEF feedView
                <5> QED BY <5>1, <5>2
            <4> HIDE DEF new
            <4> QED BY <4>1 DEF feedView
        <3>5. Feed!Backfill(c)
            <4>1. S \in SUBSET Untagged
                OBVIOUS
            <4> HIDE DEF S
            <4> QED BY <3>2, <3>3, <3>4, <4>1 DEF Feed!Backfill, feedMade, feedOver, feedView
        <3> QED BY <2>0, <3>5 DEF Feed!Next
    <2>2. ASSUME NEW t \in Turns, FetchChunks(c, t) PROVE [Feed!Next]_(Feed!feedVars)
        <3>1. UNCHANGED <<stage, pushed, cached, blind>>
            BY <2>2 DEF FetchChunks
        <3>2. \A d \in Clients, u \in Turns : d # c \/ u # t => view'[d][u] = view[d][u]
            BY <1>0, <2>0, <2>2 DEF FetchChunks, TypeOK
        <3>3. view[c][t] \subseteq view'[c][t]
            <4>1. [Next]_vars /\ Bounded
                BY DEF StreamInv
            <4> QED BY <1>0, <2>0, <4>1, ViewGrows
        <3> QED BY <2>0, <3>1, <3>2, <3>3, FeedReceives
    <2>3. CASE FetchEnds(c)
        BY <1>1, <2>3 DEF FetchEnds
    <2> QED BY <1>7, <2>1, <2>2, <2>3 DEF FetchStep
<1> QED BY <1>1, <1>2, <1>3, <1>6, <1>7 DEF Next, vars

\* FeedSpec for every run: what the clients get of the turns outside iterations
\* is what TurnFeed promises, prefixes of a turn as long as it is in flight,
\* whenever they connect, fetch, leave and come back.
THEOREM StreamImplementsFeed == Spec => FeedSpec
<1>1. Init => StreamInv /\ Feed!Init
    <2> SUFFICES ASSUME Init PROVE StreamInv /\ Feed!Init
        OBVIOUS
    <2>1. StreamInv
        BY StreamInit
    <2>2. /\ feedMade = [t \in Untagged |-> 0]
          /\ feedOver = [t \in Untagged |-> FALSE]
          /\ feedView = [c \in Clients |-> [t \in Untagged |-> {}]]
        BY DEF Init, feedMade, feedOver, feedView, Untagged
    <2>3. blind = [c \in Clients |-> FALSE]
        BY DEF Init
    <2> QED BY <2>1, <2>2, <2>3 DEF Feed!Init, feedMade, feedOver, feedView
<1>2. StreamInv /\ [Next]_vars => StreamInv'
    BY StreamStep
<1>3. StreamInv /\ StreamInv' /\ [Next]_vars => [Feed!Next]_(Feed!feedVars)
    BY FeedStep
<1> QED BY <1>1, <1>2, <1>3, PTL DEF Spec, FeedSpec, Feed!Spec
=============================================================================
