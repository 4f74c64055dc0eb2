------------------------------ MODULE TurnLock ------------------------------
(***************************************************************************)
(* The conversation turn lock of luna_core/services/turn_lock.py.          *)
(*                                                                         *)
(* A chat request (a send, or an approval decision) wraps its work in      *)
(* conversation_turn: SET NX EX of a fresh token on the conversation's     *)
(* lock key, SADD + EXPIRE of that key in the listing of its owner, the    *)
(* body, then SREM, GET and, when the token is still its own, DELETE.      *)
(* Every Redis command is one action: other requests, the host's           *)
(* active_turns scan, TTLs and process deaths interleave between them.     *)
(*                                                                         *)
(* Time is counted in ticks; TTL is settings.chat_turn_lock_seconds in     *)
(* ticks. Redis deletes a key when its TTL reaches 0.                      *)
(***************************************************************************)
EXTENDS Integers, FiniteSets

CONSTANTS
    Turns,      \* the requests; each enters conversation_turn once, its own token
    Convs,      \* the conversations
    Users,      \* their owners
    ConvOf,     \* the conversation a request is for
    OwnerOf,    \* the user a conversation belongs to
    NoTurn,     \* an absent lock key
    TTL         \* the lock's (and the listing's) time to live, in ticks

ASSUME TurnLockAssumption ==
    /\ NoTurn \notin Turns
    /\ ConvOf \in [Turns -> Convs]
    /\ OwnerOf \in [Convs -> Users]
    /\ TTL \in Nat \ {0}

VARIABLES
    lock,       \* conversation_turn_lock:{c}: the token that holds it, or NoTurn
    lockTtl,    \* ticks left to it, 0 when the key is absent
    listing,    \* user_turns:{u}: the conversations listed
    listTtl,    \* ticks left to it, 0 when absent, NoExpiry before its first EXPIRE
    pc,         \* where each request is
    scan,       \* the host's active_turns call, one per user at a time
    overran,    \* history: time ran out under a live request (see Timely)
    raced       \* history: active_turns unlisted a conversation locked since

vars == <<lock, lockTtl, listing, listTtl, pc, scan, overran, raced>>
history == <<overran, raced>>

NoExpiry == -1

\* A request between its SET NX and its last command holds what it acquired.
InsidePcs == {"sadd", "expire", "body", "get", "delete"}
Pcs == {"start", "refused", "done", "dead"} \cup InsidePcs

ScanIdle == [at |-> "idle", todo |-> {}, stale |-> {}]

TypeOK ==
    /\ lock \in [Convs -> Turns \cup {NoTurn}]
    /\ lockTtl \in [Convs -> 0..TTL]
    /\ listing \in [Users -> SUBSET Convs]
    /\ listTtl \in [Users -> NoExpiry..TTL]
    /\ pc \in [Turns -> Pcs]
    /\ scan \in [Users -> [at : {"idle", "scan"},
                           todo : SUBSET Convs, stale : SUBSET Convs]]
    /\ overran \in BOOLEAN /\ raced \in BOOLEAN

Owner(t) == OwnerOf[ConvOf[t]]
Inside(t) == pc[t] \in InsidePcs

Init ==
    /\ lock = [c \in Convs |-> NoTurn]
    /\ lockTtl = [c \in Convs |-> 0]
    /\ listing = [u \in Users |-> {}]
    /\ listTtl = [u \in Users |-> 0]
    /\ pc = [t \in Turns |-> "start"]
    /\ scan = [u \in Users |-> ScanIdle]
    /\ overran = FALSE /\ raced = FALSE

-----------------------------------------------------------------------------
(* conversation_turn *)

\* Seeded fault: the SET without nx=True.
AcquireNoNx(t) ==
    /\ pc[t] = "start"
    /\ lock' = [lock EXCEPT ![ConvOf[t]] = t]
    /\ lockTtl' = [lockTtl EXCEPT ![ConvOf[t]] = TTL]
    /\ pc' = [pc EXCEPT ![t] = "sadd"]
    /\ UNCHANGED <<listing, listTtl, scan, history>>

\* Seeded fault: the SET without ex=ttl_seconds, a key that never expires.
AcquireNoEx(t) ==
    /\ pc[t] = "start"
    /\ lock[ConvOf[t]] = NoTurn
    /\ lock' = [lock EXCEPT ![ConvOf[t]] = t]
    /\ pc' = [pc EXCEPT ![t] = "sadd"]
    /\ UNCHANGED <<lockTtl, listing, listTtl, scan, history>>

\* redis.set(key, token, nx=True, ex=ttl_seconds) answers true.
Acquire(t) ==
    /\ pc[t] = "start"
    /\ lock[ConvOf[t]] = NoTurn
    /\ lock' = [lock EXCEPT ![ConvOf[t]] = t]
    /\ lockTtl' = [lockTtl EXCEPT ![ConvOf[t]] = TTL]
    /\ pc' = [pc EXCEPT ![t] = "sadd"]
    /\ UNCHANGED <<listing, listTtl, scan, history>>

\* The key exists: the caller answers 409 turn_in_progress. Nothing was listed
\* and nothing is released.
Refuse(t) ==
    /\ pc[t] = "start"
    /\ lock[ConvOf[t]] # NoTurn
    /\ pc' = [pc EXCEPT ![t] = "refused"]
    /\ UNCHANGED <<lock, lockTtl, listing, listTtl, scan, history>>

\* redis.sadd(user_turns:{owner}, key): a set that did not exist has no TTL yet.
Sadd(t) ==
    /\ pc[t] = "sadd"
    /\ listing' = [listing EXCEPT ![Owner(t)] = @ \cup {ConvOf[t]}]
    /\ listTtl' = [listTtl EXCEPT
                     ![Owner(t)] = IF listing[Owner(t)] = {} THEN NoExpiry ELSE @]
    /\ pc' = [pc EXCEPT ![t] = "expire"]
    /\ UNCHANGED <<lock, lockTtl, scan, history>>

\* Seeded fault: the listing's TTL is set once, not renewed by each turn.
ExpireOnce(t) ==
    /\ pc[t] = "expire"
    /\ listTtl' = [listTtl EXCEPT ![Owner(t)] = IF @ = NoExpiry THEN TTL ELSE @]
    /\ pc' = [pc EXCEPT ![t] = "body"]
    /\ UNCHANGED <<lock, lockTtl, listing, scan, history>>

\* redis.expire(user_turns:{owner}, ttl_seconds): nothing to do on a missing key.
Expire(t) ==
    /\ pc[t] = "expire"
    /\ listTtl' = [listTtl EXCEPT ![Owner(t)] = IF @ = 0 THEN 0 ELSE TTL]
    /\ pc' = [pc EXCEPT ![t] = "body"]
    /\ UNCHANGED <<lock, lockTtl, listing, scan, history>>

\* SREM from a listing: Redis drops a set that became empty, TTL included.
Unlist(u, c) ==
    /\ listing' = [listing EXCEPT ![u] = @ \ {c}]
    /\ listTtl' = [listTtl EXCEPT ![u] = IF listing[u] \subseteq {c} THEN 0 ELSE @]

\* The body ended, by return or exception: the finally block unlists the turn.
Srem(t) ==
    /\ pc[t] = "body"
    /\ Unlist(Owner(t), ConvOf[t])
    /\ pc' = [pc EXCEPT ![t] = "get"]
    /\ UNCHANGED <<lock, lockTtl, scan, history>>

\* redis.get(key) == token?
Get(t) ==
    /\ pc[t] = "get"
    /\ pc' = [pc EXCEPT ![t] = IF lock[ConvOf[t]] = t THEN "delete" ELSE "done"]
    /\ UNCHANGED <<lock, lockTtl, listing, listTtl, scan, history>>

\* redis.delete(key): a command of its own, whoever holds the key by now.
Delete(t) ==
    /\ pc[t] = "delete"
    /\ lock' = [lock EXCEPT ![ConvOf[t]] = NoTurn]
    /\ lockTtl' = [lockTtl EXCEPT ![ConvOf[t]] = 0]
    /\ pc' = [pc EXCEPT ![t] = "done"]
    /\ UNCHANGED <<listing, listTtl, scan, history>>

\* The process dies, or the request is cancelled before the try block is
\* entered, or a Redis command raises: no later command of this request runs.
Crash(t) ==
    /\ Inside(t)
    /\ pc' = [pc EXCEPT ![t] = "dead"]
    /\ UNCHANGED <<lock, lockTtl, listing, listTtl, scan, history>>

-----------------------------------------------------------------------------
(* active_turns *)

\* redis.smembers(user_turns:{owner}).
Smembers(u) ==
    /\ scan[u].at = "idle"
    /\ scan' = [scan EXCEPT ![u] = [at |-> "scan", todo |-> listing[u], stale |-> {}]]
    /\ UNCHANGED <<lock, lockTtl, listing, listTtl, pc, history>>

\* Seeded fault: a listed key that is gone is skipped, and stays listed.
ExistsNoDrop(u, c) ==
    /\ c \in scan[u].todo
    /\ scan' = [scan EXCEPT ![u] = [@ EXCEPT !.todo = @ \ {c}]]
    /\ UNCHANGED <<lock, lockTtl, listing, listTtl, pc, history>>

\* redis.exists(key): counted when it does, to be dropped when it does not.
Exists(u, c) ==
    /\ c \in scan[u].todo
    /\ scan[u].stale = {}
    /\ scan' = [scan EXCEPT ![u] =
                  [at |-> "scan", todo |-> scan[u].todo \ {c},
                   stale |-> IF lock[c] = NoTurn THEN {c} ELSE {}]]
    /\ UNCHANGED <<lock, lockTtl, listing, listTtl, pc, history>>

\* redis.srem(listing, key), a command after the EXISTS.
DropStale(u, c) ==
    /\ c \in scan[u].stale
    /\ Unlist(u, c)
    /\ scan' = [scan EXCEPT ![u] = [at |-> "scan", todo |-> scan[u].todo, stale |-> {}]]
    /\ raced' = (raced \/ lock[c] # NoTurn)
    /\ UNCHANGED <<lock, lockTtl, pc, overran>>

CountDone(u) ==
    /\ scan[u].at = "scan" /\ scan[u].todo = {} /\ scan[u].stale = {}
    /\ scan' = [scan EXCEPT ![u] = ScanIdle]
    /\ UNCHANGED <<lock, lockTtl, listing, listTtl, pc, history>>

-----------------------------------------------------------------------------
(* Redis key expiry *)

\* The next tick meets no live request in the way: none loses its lock to it,
\* none is between its SADD and its EXPIRE.
Timely ==
    \A t \in Turns :
        /\ Inside(t) /\ lock[ConvOf[t]] = t => lockTtl[ConvOf[t]] > 1
        /\ pc[t] # "expire"

\* 0 is an absent key, NoExpiry one that has no TTL.
Down(n) == IF n > 0 THEN n - 1 ELSE n

\* A second passes: every TTL goes down, a key that reaches 0 is deleted.
Tick ==
    /\ \/ \E c \in Convs : lockTtl[c] > 0
       \/ \E u \in Users : listTtl[u] > 0
    /\ overran' = (overran \/ ~Timely)
    /\ lockTtl' = [c \in Convs |-> Down(lockTtl[c])]
    /\ lock' = [c \in Convs |-> IF lockTtl[c] = 1 THEN NoTurn ELSE lock[c]]
    /\ listTtl' = [u \in Users |-> Down(listTtl[u])]
    /\ listing' = [u \in Users |-> IF listTtl[u] = 1 THEN {} ELSE listing[u]]
    /\ UNCHANGED <<pc, scan, raced>>

-----------------------------------------------------------------------------
TurnStep(t) ==
    Acquire(t) \/ Refuse(t) \/ Sadd(t) \/ Expire(t) \/ Srem(t) \/ Get(t) \/ Delete(t)

ScanStep(u) ==
    \/ Smembers(u)
    \/ \E c \in Convs : Exists(u, c) \/ DropStale(u, c)
    \/ CountDone(u)

Next ==
    \/ \E t \in Turns : TurnStep(t)
    \/ \E t \in Turns : Crash(t)
    \/ \E u \in Users : ScanStep(u)
    \/ Tick

Spec == Init /\ [][Next]_vars

\* A started request runs to its end unless it dies, time passes, and the host
\* keeps counting (before every turn it admits).
Fairness ==
    /\ \A t \in Turns : WF_vars(TurnStep(t))
    /\ \A u \in Users : WF_vars(ScanStep(u))
    /\ WF_vars(Tick)

FairSpec == Spec /\ Fairness

-----------------------------------------------------------------------------
(* Properties *)

\* One turn at a time per conversation (turn_lock.py:1): until time has run out
\* under a live turn, no two requests are between their SET NX and their last
\* release command on the same conversation, wherever others have died.
MutualExclusion ==
    ~overran =>
        \A t1, t2 \in Turns :
            Inside(t1) /\ Inside(t2) /\ ConvOf[t1] = ConvOf[t2] => t1 = t2

\* "so a host can count the turns one account has running" (turn_lock.py:10):
\* a turn that runs is in its owner's listing, unless time ran out under it or
\* an active_turns scan unlisted it on the strength of an older EXISTS.
ListedWhileRunning ==
    ~overran /\ ~raced =>
        \A t \in Turns : pc[t] = "body" => ConvOf[t] \in listing[Owner(t)]

\* "Released on exit only by its holder (a lock that expired and was taken by
\* another turn is left alone)" (turn_lock.py:45): the DELETE a request is
\* about to send never hits the key of another request.
ReleaseLeavesOthersAlone ==
    \A t \in Turns : pc[t] = "delete" => lock[ConvOf[t]] \in {t, NoTurn}

\* Whatever dies where, and however long a turn takes, no conversation stays
\* locked for good: the lock always ends free.
EventuallyUnlocked == <>[](\A c \in Convs : lock[c] = NoTurn)

\* "A listed lock whose key has expired (its process died) ... is dropped when
\* next counted" (turn_lock.py:13), the listing that never got its EXPIRE too.
StaleListingDropped ==
    \A c \in Convs :
        c \in listing[OwnerOf[c]] /\ lock[c] = NoTurn
            ~> c \notin listing[OwnerOf[c]] \/ lock[c] # NoTurn
=============================================================================
