------------------------------- MODULE Stream -------------------------------
(***************************************************************************)
(* The live event stream of one run or conversation: WebSocketManager      *)
(* (engine/websocket.py), the snapshot and the REST backfill               *)
(* (services/flow.py) and the stream cache a streaming turn keeps          *)
(* (llm/providers/_turn.py and the providers).                             *)
(*                                                                         *)
(* A turn pushes each chunk to a Redis list and then publishes it; at the  *)
(* end it saves its message and deletes the list. The pump, one per key,   *)
(* takes published frames to the queue of every registered client. A       *)
(* client is registered, waits until the pump has subscribed, reads its    *)
(* snapshot, is sent the snapshot and then its queue; it merges what it    *)
(* gets by id. It may also fetch the history over REST, in full or since   *)
(* the last sequence it saw.                                               *)
(*                                                                         *)
(* A frame is [turn, n]: chunk n of the turn, or n = 0 for the lifecycle   *)
(* event that closes it. Awaits separate the steps. The worker of a turn   *)
(* may die anywhere: no fairness is assumed of its steps.                  *)
(***************************************************************************)
EXTENDS Naturals, Sequences, FiniteSets, FiniteSetsExt

CONSTANTS
    Turns,       \* assistant turns
    Cases,       \* what a run may be: its turns, and the clients that come
    Tagged,      \* those inside an iteration: their frames carry its id
    Clients,     \* WebSockets and the pages behind them
    Readers,     \* those that also fetch the history over REST
    FetchModes,  \* how they ask for it: "full", "since" (their last sequence)
    MaxChunks    \* bound: chunks of each turn

ASSUME StreamAssumption ==
    /\ Tagged \subseteq Turns /\ Readers \subseteq Clients
    /\ Cases \subseteq [turns : SUBSET Turns, clients : SUBSET Clients]
    /\ FetchModes \subseteq {"full", "since"}
    /\ MaxChunks \in [Turns -> Nat]

VARIABLES
    coming,   \* the turns of this run that have not started
    guests,   \* the clients that follow it
    stage,    \* where each turn is
    pushed,   \* the length of its list of chunks
    cached,   \* its list and its meta key exist
    row,      \* its message, whole or partial, is stored
    pump,     \* the pump of the key: "none", "starting", "listening", "dead"
    ready,    \* pump.subscribed is set
    acked,    \* Redis has the subscription
    wire,     \* frames on the subscription, not yet fanned out
    cl,       \* where each client is
    queue,    \* its queue
    snap,     \* snapshot frames still to be sent
    left,     \* snapshot: the turns still to be read
    subs,     \* the iterations it subscribed to
    blind,    \* history: a snapshot failed, or was read before the subscription
    view,     \* the chunks it has of each turn
    closed,   \* the turns whose closing event it was sent
    rest,     \* its REST fetch: "none", "full", "since", "fullDone", "sinceDone"
    pending   \* the turns that fetch will look for in the cache

turnVars == <<coming, guests, stage, pushed, cached, row>>
pumpVars == <<pump, ready, acked, wire>>
sockVars == <<cl, queue, snap, left, blind>>
pageVars == <<view, closed>>
restVars == <<rest, pending>>
vars == <<turnVars, pumpVars, sockVars, subs, pageVars, restVars>>

Frames == [turn : Turns, n : Nat]
Stages == {"idle", "streaming", "publishing", "saved", "ended", "closed"}

TypeOK ==
    /\ coming \subseteq Turns /\ guests \subseteq Clients
    /\ stage \in [Turns -> Stages]
    /\ pushed \in [Turns -> Nat]
    /\ cached \in [Turns -> BOOLEAN]
    /\ row \in [Turns -> BOOLEAN]
    /\ pump \in {"none", "starting", "listening", "dead"}
    /\ ready \in BOOLEAN /\ acked \in BOOLEAN
    /\ wire \in Seq(Frames)
    /\ cl \in [Clients -> {"off", "waiting", "reading", "sending"}]
    /\ queue \in [Clients -> Seq(Frames)]
    /\ snap \in [Clients -> Seq(Frames)]
    /\ left \in [Clients -> SUBSET Turns]
    /\ subs \in [Clients -> SUBSET Tagged]
    /\ blind \in [Clients -> BOOLEAN]
    /\ view \in [Clients -> [Turns -> SUBSET Nat]]
    /\ closed \in [Clients -> SUBSET Turns]
    /\ rest \in [Clients -> {"none", "full", "since", "fullDone", "sinceDone"}]
    /\ pending \in [Clients -> SUBSET Turns]

Init ==
    /\ \E x \in Cases : coming = x.turns /\ guests = x.clients
    /\ stage = [t \in Turns |-> "idle"]
    /\ pushed = [t \in Turns |-> 0]
    /\ cached = [t \in Turns |-> FALSE]
    /\ row = [t \in Turns |-> FALSE]
    /\ pump = "none" /\ ready = FALSE /\ acked = FALSE /\ wire = <<>>
    /\ cl = [c \in Clients |-> "off"]
    /\ queue = [c \in Clients |-> <<>>]
    /\ snap = [c \in Clients |-> <<>>]
    /\ left = [c \in Clients |-> {}]
    /\ subs = [c \in Clients |-> {}]
    /\ blind = [c \in Clients |-> FALSE]
    /\ view = [c \in Clients |-> [t \in Turns |-> {}]]
    /\ closed = [c \in Clients |-> {}]
    /\ rest = [c \in Clients |-> "none"]
    /\ pending = [c \in Clients |-> {}]

-----------------------------------------------------------------------------
(* A streaming turn *)

\* A frame of a turn; the turn stands for the iteration whose id
\* inject_iteration_tag adds to the payload.
Frame(t, n) == [turn |-> t, n |-> n]

\* Redis hands a published frame to the subscription, if there is one.
Publish(t, n) == wire' = IF acked THEN Append(wire, Frame(t, n)) ELSE wire

\* The first chunk arrives: agent_message_started, then the meta key.
StartTurn(t) ==
    /\ t \in coming
    /\ coming' = coming \ {t}
    /\ stage' = [stage EXCEPT ![t] = "streaming"]
    /\ cached' = [cached EXCEPT ![t] = TRUE]
    /\ UNCHANGED <<guests, pushed, row, pumpVars, sockVars, subs, pageVars, restVars>>

\* _push_stream: RPUSH before anything is published.
PushChunk(t) ==
    /\ stage[t] = "streaming" /\ pushed[t] < MaxChunks[t]
    /\ stage' = [stage EXCEPT ![t] = "publishing"]
    /\ pushed' = [pushed EXCEPT ![t] = @ + 1]
    /\ UNCHANGED <<coming, guests, cached, row, pumpVars, sockVars, subs, pageVars, restVars>>

\* INCR of delta_seq and publish_run_event.
PublishChunk(t) ==
    /\ stage[t] = "publishing"
    /\ stage' = [stage EXCEPT ![t] = "streaming"]
    /\ Publish(t, pushed[t])
    /\ UNCHANGED <<coming, guests, pushed, cached, row, pump, ready, acked, sockVars, subs,
                   pageVars, restVars>>

\* The stream is exhausted and save_message commits the row; or an abort or an
\* error ends it and _save_partial_blocks stores what there is, if anything, and
\* goes on to the DELETE when that fails.
SaveTurn(t) ==
    /\ stage[t] = "streaming"
    /\ stage' = [stage EXCEPT ![t] = "saved"]
    /\ \E stored \in BOOLEAN : row' = [row EXCEPT ![t] = stored /\ pushed[t] > 0]
    /\ UNCHANGED <<coming, guests, pushed, cached, pumpVars, sockVars, subs, pageVars, restVars>>

\* The one DELETE of the turn's three keys.
DropCache(t) ==
    /\ stage[t] = "saved"
    /\ stage' = [stage EXCEPT ![t] = "ended"]
    /\ cached' = [cached EXCEPT ![t] = FALSE]
    /\ UNCHANGED <<coming, guests, pushed, row, pumpVars, sockVars, subs, pageVars, restVars>>

\* The node or the iteration of the turn reports its end.
CloseTurn(t) ==
    /\ stage[t] = "ended"
    /\ stage' = [stage EXCEPT ![t] = "closed"]
    /\ Publish(t, 0)
    /\ UNCHANGED <<coming, guests, pushed, cached, row, pump, ready, acked, sockVars, subs,
                   pageVars, restVars>>

-----------------------------------------------------------------------------
(* The pump *)

\* await pubsub.subscribe(channel): the client library writes the command and
\* returns; the reply is read by listen().
PumpSubscribe ==
    /\ pump = "starting"
    /\ pump' = "listening" /\ ready' = TRUE
    /\ UNCHANGED <<acked, wire, turnVars, sockVars, subs, pageVars, restVars>>

\* Redis takes the SUBSCRIBE.
RedisSubscribes ==
    /\ pump = "listening" /\ ~acked
    /\ acked' = TRUE
    /\ UNCHANGED <<pump, ready, wire, turnVars, sockVars, subs, pageVars, restVars>>

\* The connection breaks: the task ends, its entry in _pumps stays. If it had
\* not subscribed yet, subscribed is never set.
PumpDies ==
    /\ pump \in {"starting", "listening"}
    /\ pump' = "dead" /\ acked' = FALSE /\ wire' = <<>>
    /\ UNCHANGED <<ready, turnVars, sockVars, subs, pageVars, restVars>>

\* _extract_routing_keys: a frame without an iteration id, or of a lifecycle
\* type, is everyone's.
Broadcast(f) == f.turn \notin Tagged \/ f.n = 0

\* _frame_allowed and the gate of _fanout.
Allowed(c, f) == Broadcast(f) \/ f.turn \in subs[c]

\* Seeded fault: a registered client is served only once it has its snapshot.
FanoutToSenders ==
    /\ pump = "listening" /\ wire # <<>>
    /\ queue' = [c \in Clients |->
                    IF cl[c] = "sending" /\ Allowed(c, Head(wire))
                    THEN Append(queue[c], Head(wire)) ELSE queue[c]]
    /\ wire' = Tail(wire)
    /\ UNCHANGED <<pump, ready, acked, turnVars, cl, snap, left, blind, subs,
                   pageVars, restVars>>

\* _fanout
Fanout ==
    /\ pump = "listening" /\ wire # <<>>
    /\ queue' = [c \in Clients |->
                    IF cl[c] # "off" /\ Allowed(c, Head(wire))
                    THEN Append(queue[c], Head(wire)) ELSE queue[c]]
    /\ wire' = Tail(wire)
    /\ UNCHANGED <<pump, ready, acked, turnVars, cl, snap, left, blind, subs,
                   pageVars, restVars>>

-----------------------------------------------------------------------------
(* connect() *)

\* Under the lock: register, and start the pump if the key has none.
Connect(c) ==
    /\ c \in guests /\ cl[c] = "off"
    /\ cl' = [cl EXCEPT ![c] = "waiting"]
    /\ pump' = IF pump = "none" THEN "starting" ELSE pump
    /\ rest' = [rest EXCEPT ![c] = "none"]
    /\ UNCHANGED <<turnVars, ready, acked, wire, queue, snap, left, blind, subs, pageVars, pending>>

\* build_run_stream_snapshot: scan the meta keys.
Scan(c) ==
    /\ cl[c] = "waiting" /\ ready
    /\ cl' = [cl EXCEPT ![c] = "reading"]
    /\ left' = [left EXCEPT ![c] = {t \in Turns : cached[t]}]
    /\ blind' = [blind EXCEPT ![c] = @ \/ ~acked]
    /\ UNCHANGED <<turnVars, pumpVars, queue, snap, subs, pageVars, restVars>>

\* The chunks the cache has of a turn, in order (_read_inflight_chunks).
Chunks(t) == IF cached[t] THEN [n \in 1..pushed[t] |-> Frame(t, n)] ELSE <<>>

\* ... and read them, one message after the other.
ReadChunks(c, t) ==
    /\ cl[c] = "reading" /\ t \in left[c]
    /\ left' = [left EXCEPT ![c] = @ \ {t}]
    /\ snap' = [snap EXCEPT ![c] = @ \o Chunks(t)]
    /\ UNCHANGED <<turnVars, pumpVars, cl, queue, blind, subs, pageVars, restVars>>

\* The snapshot is complete: _send_loop and _recv_loop start.
StartLoops(c) ==
    /\ cl[c] = "reading" /\ left[c] = {}
    /\ cl' = [cl EXCEPT ![c] = "sending"]
    /\ UNCHANGED <<turnVars, pumpVars, queue, snap, left, blind, subs, pageVars,
                   restVars>>

\* snapshot_fn raises: the client goes on with no snapshot.
SnapshotFails(c) ==
    /\ cl[c] = "reading"
    /\ cl' = [cl EXCEPT ![c] = "sending"]
    /\ snap' = [snap EXCEPT ![c] = <<>>]
    /\ left' = [left EXCEPT ![c] = {}]
    /\ blind' = [blind EXCEPT ![c] = TRUE]
    /\ UNCHANGED <<turnVars, pumpVars, queue, subs, pageVars, restVars>>

\* The page takes a frame: chunks are merged by id.
Take(c, f) ==
    /\ view' = IF f.n > 0 THEN [view EXCEPT ![c][f.turn] = @ \cup {f.n}] ELSE view
    /\ closed' = IF f.n = 0 THEN [closed EXCEPT ![c] = @ \cup {f.turn}] ELSE closed

\* _send_loop, 1: the snapshot, each frame filtered as it is sent.
SendSnapshot(c) ==
    /\ cl[c] = "sending" /\ snap[c] # <<>>
    /\ IF Allowed(c, Head(snap[c])) THEN Take(c, Head(snap[c])) ELSE UNCHANGED pageVars
    /\ snap' = [snap EXCEPT ![c] = Tail(@)]
    /\ UNCHANGED <<turnVars, pumpVars, cl, queue, left, blind, subs, restVars>>

\* Seeded fault: live frames do not wait for the snapshot to be sent.
SendQueuedFirst(c) ==
    /\ cl[c] = "sending" /\ queue[c] # <<>>
    /\ Take(c, Head(queue[c]))
    /\ queue' = [queue EXCEPT ![c] = Tail(@)]
    /\ UNCHANGED <<turnVars, pumpVars, cl, snap, left, blind, subs, restVars>>

\* _send_loop, 2 and 3: the queue.
SendQueued(c) ==
    /\ cl[c] = "sending" /\ snap[c] = <<>> /\ queue[c] # <<>>
    /\ Take(c, Head(queue[c]))
    /\ queue' = [queue EXCEPT ![c] = Tail(@)]
    /\ UNCHANGED <<turnVars, pumpVars, cl, snap, left, blind, subs, restVars>>

\* _handle_control_message
Control(c, i) ==
    /\ cl[c] = "sending"
    /\ \E now \in {subs[c] \cup {i}, subs[c] \ {i}} : subs' = [subs EXCEPT ![c] = now]
    /\ UNCHANGED <<turnVars, pumpVars, sockVars, pageVars, restVars>>

\* The pump goes with the last client.
RemovePump ==
    pump' = "none" /\ ready' = FALSE /\ acked' = FALSE /\ wire' = <<>>

Unregister(c) ==
    /\ cl[c] = "sending"
    /\ cl' = [cl EXCEPT ![c] = "off"]
    /\ queue' = [queue EXCEPT ![c] = <<>>]
    /\ snap' = [snap EXCEPT ![c] = <<>>]
    /\ subs' = [subs EXCEPT ![c] = {}]
    /\ UNCHANGED <<turnVars, left, blind, pageVars, restVars>>

\* Seeded fault: a client that leaves takes the shared pump with it.
DisconnectStopsPump(c) ==
    /\ Unregister(c)
    /\ RemovePump

\* The socket closes: the other loop is cancelled and _remove runs. A client
\* that still waits for the pump does not see its socket close.
Disconnect(c) ==
    /\ Unregister(c)
    /\ IF \A d \in Clients \ {c} : cl[d] = "off" THEN RemovePump ELSE UNCHANGED pumpVars

-----------------------------------------------------------------------------
(* GET /events: list_run_events *)

\* since_sequence keeps what lies above the last sequence the page has seen:
\* of a turn it saw chunks of, the later chunks.
Above(c, t, ns) == IF rest'[c] = "full" THEN ns ELSE {n \in ns : \A m \in view[c][t] : n > m}

\* The SELECTs. A stored message answers with its whole text as one delta, at
\* the sequence of its first chunk; a started turn without a message is looked
\* up in the cache.
FetchRows(c, mode) ==
    LET stored == {t \in Turns : row[t] /\ 1 \in Above(c, t, {1})}
    IN  /\ cl[c] = "sending" /\ rest[c] \notin {"full", "since"}
        /\ rest' = [rest EXCEPT ![c] = mode]
        /\ view' = [view EXCEPT ![c] =
                       [t \in Turns |-> IF t \in stored THEN 1..pushed[t] ELSE @[t]]]
        /\ pending' = [pending EXCEPT ![c] =
                          {t \in Turns : stage[t] # "idle" /\ ~row[t]}]
        /\ UNCHANGED <<turnVars, pumpVars, sockVars, subs, closed>>

\* One LRANGE per turn in flight.
FetchChunks(c, t) ==
    /\ t \in pending[c]
    /\ pending' = [pending EXCEPT ![c] = @ \ {t}]
    /\ UNCHANGED rest
    /\ view' = [view EXCEPT ![c][t] =
                   IF cached[t] THEN @ \cup Above(c, t, 1..pushed[t]) ELSE @]
    /\ UNCHANGED <<turnVars, pumpVars, sockVars, subs, closed>>

FetchEnds(c) ==
    /\ rest[c] \in {"full", "since"} /\ pending[c] = {}
    /\ rest' = [rest EXCEPT ![c] = IF @ = "full" THEN "fullDone" ELSE "sinceDone"]
    /\ UNCHANGED <<turnVars, pumpVars, sockVars, subs, pageVars, pending>>

-----------------------------------------------------------------------------
TurnStep(t) ==
    \/ StartTurn(t) \/ PushChunk(t) \/ PublishChunk(t)
    \/ SaveTurn(t) \/ DropCache(t) \/ CloseTurn(t)

PumpStep == PumpSubscribe \/ RedisSubscribes \/ PumpDies \/ Fanout

ClientStep(c) ==
    \/ Connect(c) \/ Scan(c) \/ StartLoops(c) \/ SnapshotFails(c)
    \/ SendSnapshot(c) \/ SendQueued(c) \/ Disconnect(c)
    \/ \E t \in Turns : ReadChunks(c, t)
    \/ \E i \in Tagged : Control(c, i)

FetchStep(c) ==
    \/ \E mode \in FetchModes : FetchRows(c, mode)
    \/ FetchEnds(c)
    \/ \E t \in Turns : FetchChunks(c, t)

Next ==
    \/ \E t \in Turns : TurnStep(t)
    \/ PumpStep
    \/ \E c \in Clients : ClientStep(c)
    \/ \E c \in Readers : FetchStep(c)

Spec == Init /\ [][Next]_vars

\* The event loop runs what is ready: the pump and the loops of a connection.
\* Nothing is assumed of the turns, of the clients' decisions or of failures.
FairSpec ==
    /\ Spec
    /\ WF_vars(PumpSubscribe) /\ WF_vars(RedisSubscribes) /\ WF_vars(Fanout)
    /\ \A c \in Clients :
          /\ WF_vars(Scan(c)) /\ WF_vars(StartLoops(c))
          /\ WF_vars(\E t \in Turns : ReadChunks(c, t))
          /\ WF_vars(SendSnapshot(c)) /\ WF_vars(SendQueued(c))

-----------------------------------------------------------------------------
(* Properties *)

Untagged == Turns \ Tagged

NoHole(s) == \A n \in s : 1..n \subseteq s

\* The list of a turn is deleted, and its message could not be stored.
Lost(t) == stage[t] \in {"ended", "closed"} /\ ~row[t]

\* A page that has connected, its snapshots read with the subscription in
\* place, and then fetched the history in full, has every turn outside an
\* iteration from its first chunk on: whatever the race between the turn's
\* save and DELETE, the snapshot's LRANGE and the SELECT of the fetch. Only a
\* turn that the server itself lost may have a hole.
BackfilledViewHasNoHole ==
    \A c \in Clients : \A t \in Untagged :
        rest[c] = "fullDone" /\ ~blind[c] /\ ~Lost(t) => NoHole(view[c][t])

\* A closing event that is on its way while a client is registered reaches it,
\* unless it leaves or the pump dies: other clients that come and go on the
\* shared pump do not cost it a frame.
OnItsWay(c, t) ==
    /\ cl[c] # "off"
    /\ Frame(t, 0) \in {wire[i] : i \in 1..Len(wire)}
ClosingEventArrives ==
    \A c \in Clients : \A t \in Turns :
        OnItsWay(c, t) ~> t \in closed[c] \/ cl[c] = "off" \/ pump = "dead"

\* The stream implements TurnFeed for the turns outside iterations: a client
\* gets their chunks in order and without a hole while the turn is in flight.
Feed == INSTANCE TurnFeed WITH
    Turns <- Untagged,
    made <- [t \in Untagged |-> pushed[t]],
    over <- [t \in Untagged |-> ~cached[t] /\ stage[t] # "idle"],
    view <- [c \in Clients |-> [t \in Untagged |-> view[c][t]]]
FeedSpec == Feed!Spec

\* "only events strictly greater than this sequence (reconnect backfill)"
\* (routers/runs.py:89): a page that asks for what came after the last sequence
\* it saw gets what it misses of a turn that is over, if nothing more of it is
\* on its way to the page.
SinceBackfillCompletes ==
    [][\A c \in Clients : \A t \in Untagged :
          /\ rest[c] # "since" /\ rest'[c] = "since"
          /\ row[t] /\ stage[t] = "closed" /\ wire = <<>> /\ queue[c] = <<>> /\ snap[c] = <<>>
          => view'[c][t] = 1..pushed[t]]_vars
=============================================================================
