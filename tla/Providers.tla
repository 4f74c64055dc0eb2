----------------------------- MODULE Providers -----------------------------
(***************************************************************************)
(* One LLM call: LLMRouter.complete (llm/router.py) around the `complete'  *)
(* of one of the four streaming providers: OpenAI chat completions and the *)
(* Responses API (llm/providers/generic.py), the Anthropic Messages API    *)
(* (anthropic.py) and the Claude CLI (claude_cli.py), with the turn        *)
(* lifecycle they share (_turn.py).                                        *)
(*                                                                         *)
(* A text chunk is the pair <<round, k>>: the k-th chunk of the answer the *)
(* model gives in that round.  A round that is sent again is answered      *)
(* again from k = 1, so a chunk shown twice is visible as a repetition.    *)
(* Every attempt of the router has a message id of its own; id 0 is a turn *)
(* of the same conversation that failed earlier and left a partial row.    *)
(***************************************************************************)
EXTENDS Naturals, Sequences

CONSTANTS
    MaxRetries,      \* settings.llm_max_retries
    StreamRetries,   \* settings.anthropic_stream_retries
    MaxPauses,       \* settings.anthropic_max_pause_continuations
    MaxChunks        \* bound: chunks streamed in one attempt

ASSUME ProvidersAssumption ==
    /\ MaxRetries \in Nat /\ StreamRetries \in Nat /\ MaxPauses \in Nat
    /\ MaxChunks \in Nat \ {0}

VARIABLES
    kind,      \* the provider: "chat", "responses", "anthropic" or "cli"
    option,    \* chat: the flex tier; cli: builtin tools are on
    active,    \* LLMProvider.is_active
    busy,      \* the other calls of the CLI hold every permit
    abortKey,  \* the abort key of the run or conversation exists
    pc,        \* where the call is
    attempt,   \* the router's `attempt'
    turn,      \* the provider's state of this attempt
    seen,      \* per message id: the text chunks published as deltas
    rows,      \* per message id: the stored message
    cache,     \* per message id: its stream, delta and meta keys are in Redis
    exit,      \* per message id: how that attempt ended
    lost       \* history: the message ids of which a partial save has failed

callVars ==
    <<kind, option, active, busy, abortKey, pc, attempt, turn, seen, rows, cache, exit, lost>>

Kinds == {"chat", "responses", "anthropic", "cli"}
Ids == 0..(MaxRetries + 1)
Id == attempt + 1

\* What a client library raises: a 429 or a 5xx; a broken connection, wrapped
\* by the SDK or raised as the transport's own error; any other API answer.
Failures == {"overloaded", "sdkdrop", "rawdrop", "fatal"}

\* _transient_status, and the clause for LLMRateLimitError: what the router
\* tries again.  A transport error is no API error, so it is raised.
Transient(f) == f \in {"overloaded", "sdkdrop"}

\* _is_connection_drop: either form of a broken connection.
ConnectionDrop(f) == f \in {"sdkdrop", "rawdrop"}

\* Chunks in the order they are shown in, and what can be left of them when some
\* are cut out.
Before(c, d) == c[1] < d[1] \/ (c[1] = d[1] /\ c[2] < d[2])
InOrder(s) == \A j, k \in 1..Len(s) : j < k => Before(s[j], s[k])
Excerpts(s) ==
    {x \in UNION {[1..n -> {s[j] : j \in 1..Len(s)}] : n \in 0..Len(s)} : InOrder(x)}

\* extra: the row also holds text nobody streamed.
NoRow == [state |-> "none", text |-> <<>>, calls |-> FALSE, extra |-> FALSE]

\* A fresh attempt: _Turn, _TurnState or the locals of `complete'.
NewTurn == [parts |-> <<>>, thinking |-> FALSE, calls |-> FALSE, started |-> FALSE,
            round |-> 1, tries |-> 0, shown |-> 0, thought |-> FALSE,
            got |-> <<>>, blocks |-> <<>>, extra |-> FALSE, chunk |-> 0, cued |-> FALSE, proposed |-> FALSE]

Chunks == (1..(MaxPauses + 2)) \X (Nat \ {0})
Turns == [parts : Seq(Chunks), thinking : BOOLEAN, calls : BOOLEAN, started : BOOLEAN,
          round : Nat, tries : 0..StreamRetries, shown : Nat, thought : BOOLEAN,
          got : Seq(Chunks), blocks : Seq(Chunks), extra : BOOLEAN, chunk : 0..MaxChunks,
          cued : BOOLEAN, proposed : BOOLEAN]

\* How an attempt ended: aborted, answered, or raised -- after a look at what
\* was streamed ("kept") or without one ("unkept").
Exits == {"open", "aborted", "answered", "kept", "unkept"}

\* Every variable has its type.
TypeOK ==
    /\ kind \in Kinds /\ option \in BOOLEAN /\ active \in BOOLEAN /\ busy \in BOOLEAN
    /\ abortKey \in BOOLEAN
    /\ pc \in {"resolve", "limit", "slot", "open", "standard", "stream", "killed", "save",
               "completed", "clear", "returned", "failed", "aborted", "promoted"}
    /\ attempt \in 0..MaxRetries
    /\ turn \in Turns
    /\ seen \in [Ids -> Seq(Chunks)]
    /\ rows \in [Ids -> [state : {"none", "partial", "final"}, text : Seq(Chunks),
                         calls : BOOLEAN, extra : BOOLEAN]]
    /\ cache \in [Ids -> BOOLEAN]
    /\ exit \in [Ids -> Exits]
    /\ lost \subseteq Ids

CallInit ==
    /\ kind \in Kinds
    /\ option \in IF kind \in {"chat", "cli"} THEN BOOLEAN ELSE {FALSE}
    /\ busy \in IF kind = "cli" THEN BOOLEAN ELSE {FALSE}
    /\ active = TRUE /\ abortKey = FALSE
    /\ pc = "resolve" /\ attempt = 0 /\ turn = NewTurn
    /\ seen = [i \in Ids |-> <<>>]
    /\ rows = [i \in Ids |-> IF i = 0 THEN [NoRow EXCEPT !.state = "partial"] ELSE NoRow]
    /\ cache = [i \in Ids |-> FALSE]
    /\ exit = [i \in Ids |-> IF i = 0 THEN "kept" ELSE "open"]
    /\ lost = {}

-----------------------------------------------------------------------------
(* The lifecycle every provider shares (_turn.py).                         *)

\* What a partial row would hold: the text and the thinking of the deltas; the
\* chat provider's accumulator adds the tool calls it has seen.
HasContent == turn.parts # <<>> \/ turn.thinking \/ (kind = "chat" /\ turn.calls)

\* save_message with is_partial: an INSERT under the message id, so a second
\* row of the same id is refused; the caller only logs that.
PartialRow ==
    IF HasContent /\ rows[Id].state = "none"
      THEN [rows EXCEPT ![Id] = [state |-> "partial", text |-> turn.parts,
                                 calls |-> kind = "chat" /\ turn.calls, extra |-> FALSE]]
      ELSE rows

\* The first row of an id can be refused too, by anything the session or the
\* database raises: that is logged like the rest.
RowIsTried ==
    \/ rows' = PartialRow /\ UNCHANGED lost
    \/ HasContent /\ rows[Id].state = "none" /\ rows' = rows /\ lost' = lost \cup {Id}

\* Seeded fault: a partial turn leaves its stream cache to the TTL.
SavePartialKeepingCache == rows' = PartialRow /\ UNCHANGED <<cache, lost>>

\* _save_partial_blocks: the row, if anything was streamed, and then the keys
\* go whether or not the row could be written.
SavePartialBlocks == RowIsTried /\ cache' = [cache EXCEPT ![Id] = FALSE]

\* _save_partial of the chat provider: the same over its accumulator.
SavePartial == RowIsTried /\ cache' = [cache EXCEPT ![Id] = FALSE]

\* _emit of agent_message_started at the first output (an event that cannot be
\* stored is only logged, and the turn counts as started) and
\* _write_inflight_meta: from here on a snapshot finds the turn.
EnsureStarted == cache' = [cache EXCEPT ![Id] = TRUE]

\* The next text chunk of the round.
NextChunk(t) == <<t.round, Len(t.got) + 1>>

\* _push_stream, _next_delta_sequence and the publish of one delta.
Published(t, c) ==
    CASE c = "text" -> [t EXCEPT !.parts = Append(@, NextChunk(t)), !.got = Append(@, NextChunk(t))]
      [] c = "thinking" -> [t EXCEPT !.thinking = TRUE]
      [] c = "call" -> [t EXCEPT !.calls = TRUE]

\* One event of the stream that carries output.
Output(c) ==
    /\ EnsureStarted
    /\ turn' = [Published(turn, c) EXCEPT !.started = TRUE, !.chunk = @ + 1]
    /\ seen' = [seen EXCEPT ![Id] = IF c = "text" THEN Append(@, NextChunk(turn)) ELSE @]

ToCome == pc = "stream" /\ turn.chunk < MaxChunks

-----------------------------------------------------------------------------
(* The router.                                                             *)

\* An error the router does not retry, or its last attempt: the call raises, and
\* the provider's locals are gone.
Raise(why) ==
    /\ pc' = "failed"
    /\ exit' = [exit EXCEPT ![Id] = why]
    /\ turn' = NewTurn /\ UNCHANGED attempt

\* Seeded fault: the router forgets to count the attempt.
RouterCatchesUncounted(f) ==
    IF Transient(f)
      THEN /\ turn' = NewTurn /\ pc' = "resolve" /\ UNCHANGED <<attempt, exit>>
      ELSE Raise("kept")

\* LLMRouter.complete: a rate limit or a transient error is tried again, with
\* a backoff and a fresh message id, while attempts are left; the last one is
\* raised, as is everything else.
RouterCatches(f) ==
    IF Transient(f) /\ attempt < MaxRetries
      THEN /\ attempt' = attempt + 1
           /\ turn' = NewTurn
           /\ pc' = "resolve"
           /\ exit' = [exit EXCEPT ![Id] = "kept"]
      ELSE Raise("kept")

\* AbortSignalError passes through the router.
Aborted ==
    /\ pc' = "aborted"
    /\ exit' = [exit EXCEPT ![Id] = "aborted"]
    /\ turn' = NewTurn /\ UNCHANGED attempt

\* resolve_chat_provider: the row is read again on every attempt.
ResolveChatProvider ==
    /\ pc = "resolve"
    /\ IF active THEN pc' = "limit" /\ UNCHANGED <<attempt, turn, exit>> ELSE Raise("kept")
    /\ UNCHANGED <<kind, option, active, busy, abortKey, seen, rows, cache, lost>>

\* _enforce_rate_limit: over the limit it sleeps once, and goes on.
EnforceRateLimit ==
    /\ pc = "limit"
    /\ pc' = CASE kind = "cli" -> "slot" [] kind = "anthropic" -> "stream" [] OTHER -> "open"
    /\ UNCHANGED <<kind, option, active, busy, abortKey, attempt, turn, seen, rows, cache, exit, lost>>

\* An administrator switches the provider off: it only matters where the row is
\* read.
Deactivate ==
    /\ active /\ pc = "resolve" /\ active' = FALSE
    /\ UNCHANGED <<kind, option, busy, abortKey, pc, attempt, turn, seen, rows, cache, exit, lost>>

-----------------------------------------------------------------------------
(* OpenAI chat completions and the Responses API.                          *)

\* _open_chat_stream: on the flex tier a rate limit or a timeout sends the same
\* request once more on the standard tier.
OpenChatStream ==
    \/ pc = "open" /\ option /\ pc' = "standard"
    \/ pc' = "stream"

\* GenericProvider.complete up to the open stream: a request that could not be
\* opened has shown nothing, so nothing is saved.
ChatOpens ==
    /\ kind = "chat" /\ pc \in {"open", "standard"}
    /\ \/ OpenChatStream /\ UNCHANGED <<attempt, turn, exit>>
       \/ \E f \in Failures : RouterCatches(f)
    /\ UNCHANGED <<kind, option, active, busy, abortKey, seen, rows, cache, lost>>

\* GenericProvider.complete, a chunk with choices: the abort key first.
ChatChunk ==
    /\ kind = "chat" /\ ToCome /\ ~abortKey
    /\ \E c \in {"text", "thinking", "call"} : Output(c)
    /\ UNCHANGED <<kind, option, active, busy, abortKey, pc, attempt, rows, exit, lost>>

ChatSeesAbort ==
    /\ kind = "chat" /\ pc = "stream" /\ abortKey
    /\ SavePartial /\ Aborted
    /\ UNCHANGED <<kind, option, active, busy, abortKey, seen>>

ChatFails ==
    /\ kind = "chat" /\ pc = "stream"
    /\ SavePartial
    /\ \E f \in Failures : RouterCatches(f)
    /\ UNCHANGED <<kind, option, active, busy, abortKey, seen>>

\* The stream is over (its usage chunk is read without a look at the abort
\* key): _StreamAccumulator.to_canonical is what will be stored.
ChatEnds ==
    /\ kind = "chat" /\ pc = "stream"
    /\ turn' = [turn EXCEPT !.blocks = @ \o turn.got]
    /\ pc' = "save"
    /\ UNCHANGED <<kind, option, active, busy, abortKey, attempt, seen, rows, cache, exit, lost>>

\* _complete_via_responses opens the stream and announces the turn up front.
ResponsesOpens ==
    /\ kind = "responses" /\ pc = "open"
    /\ \/ /\ EnsureStarted
          /\ turn' = [turn EXCEPT !.started = TRUE]
          /\ pc' = "stream" /\ UNCHANGED <<attempt, exit>>
       \/ (\E f \in Failures : RouterCatches(f)) /\ UNCHANGED cache
    /\ UNCHANGED <<kind, option, active, busy, abortKey, seen, rows, lost>>

\* Text and reasoning-summary deltas; a function call is only in the completed
\* response.
ResponsesChunk ==
    /\ kind = "responses" /\ ToCome /\ ~abortKey
    /\ \E c \in {"text", "thinking"} : Output(c)
    /\ UNCHANGED <<kind, option, active, busy, abortKey, pc, attempt, rows, exit, lost>>

ResponsesSeesAbort ==
    /\ kind = "responses" /\ pc = "stream" /\ abortKey
    /\ SavePartialBlocks /\ Aborted
    /\ UNCHANGED <<kind, option, active, busy, abortKey, seen>>

ResponsesFails ==
    /\ kind = "responses" /\ pc = "stream"
    /\ SavePartialBlocks
    /\ \E f \in Failures : RouterCatches(f)
    /\ UNCHANGED <<kind, option, active, busy, abortKey, seen>>

\* _responses_output_to_blocks: the text the response streamed, the sources of a
\* cited one behind it, and the calls.
ResponsesBlocks(t, c, cited) ==
    [t EXCEPT !.blocks = @ \o t.got, !.calls = c, !.extra = cited]

\* The completed response is authoritative; with none, the streamed text is stored.
ResponsesEnds ==
    /\ kind = "responses" /\ pc = "stream"
    /\ \E c \in BOOLEAN, cited \in {FALSE, turn.got # <<>>} :
            turn' = ResponsesBlocks(turn, c, cited)
    /\ pc' = "save"
    /\ UNCHANGED <<kind, option, active, busy, abortKey, attempt, seen, rows, cache, exit, lost>>

-----------------------------------------------------------------------------
(* The Anthropic Messages API: rounds, and a retry inside a round.         *)

\* _on_event: the first content block announces the turn.
AnthropicEvent ==
    /\ kind = "anthropic" /\ ToCome /\ ~abortKey
    /\ \E c \in {"text", "thinking", "call"} : Output(c)
    /\ UNCHANGED <<kind, option, active, busy, abortKey, pc, attempt, rows, exit, lost>>

AnthropicSeesAbort ==
    /\ kind = "anthropic" /\ pc = "stream" /\ abortKey
    /\ SavePartialBlocks /\ Aborted
    /\ UNCHANGED <<kind, option, active, busy, abortKey, seen>>

\* _stream_round: no partial is kept of a drop while a retry is left and the
\* turn, all its rounds together, has shown no text.
KeepsNoPartial(f) ==
    turn.tries < StreamRetries /\ turn.parts = <<>> /\ ConnectionDrop(f)

\* Seeded fault: the round is sent again although its text was shown.
SentAgainAlways(f) == turn.tries < StreamRetries /\ ConnectionDrop(f)

\* _stream_round_retrying: a drop is retried while this round has shown no
\* text of its own.
SentAgain(f) ==
    turn.tries < StreamRetries /\ Len(turn.parts) = turn.shown /\ ConnectionDrop(f)

\* The request of the round goes out (again): what the lost answer reasoned is
\* forgotten, its text stays shown.
RoundRestarts ==
    /\ turn' = [turn EXCEPT !.tries = @ + 1, !.thinking = turn.thought, !.got = <<>>]
    /\ UNCHANGED <<pc, attempt, exit>>

AnthropicFails ==
    /\ kind = "anthropic" /\ pc = "stream"
    /\ \E f \in Failures :
          /\ IF KeepsNoPartial(f) THEN UNCHANGED <<rows, cache, lost>> ELSE SavePartialBlocks
          /\ IF SentAgain(f) THEN RoundRestarts ELSE RouterCatches(f)
    /\ UNCHANGED <<kind, option, active, busy, abortKey, seen>>

\* The next round of the same turn.
NextRound(t) == [t EXCEPT !.round = @ + 1, !.tries = 0, !.shown = Len(t.parts),
                          !.thought = t.thinking, !.got = <<>>]

\* A stop with nothing more to ask: refused or cut inside a call keeps a
\* partial and raises, anything else is stored.
AnthropicStops(stop, t) ==
    \/ /\ stop = "refusal" /\ SavePartialBlocks /\ Raise("kept")
    \/ /\ stop = "max_tokens" /\ t.calls /\ SavePartialBlocks /\ Raise("kept")
    \/ /\ stop # "refusal" /\ ~(stop = "max_tokens" /\ t.calls)
       /\ turn' = t /\ pc' = "save"
       /\ UNCHANGED <<attempt, exit, rows, cache, lost>>

\* AnthropicProvider.complete once a round has answered: a paused turn goes on
\* in another round while continuations are left; an empty one, of which all
\* text is blank, is dropped and asked once more, and twice empty is an error
\* that keeps nothing.
AnthropicRoundEnds ==
    /\ kind = "anthropic" /\ pc = "stream"
    /\ \E stop \in {"end_turn", "pause_turn", "refusal", "max_tokens"}, blank \in BOOLEAN :
         LET t == [turn EXCEPT !.blocks = @ \o turn.got]
             goesOn == stop = "pause_turn" /\ ~t.cued /\ t.round < MaxPauses + 1
             empty == stop = "end_turn" /\ ~t.calls /\ (blank \/ t.blocks = <<>>)
         IN  CASE goesOn ->
                    /\ turn' = NextRound(t) /\ UNCHANGED <<pc, attempt, exit, rows, cache, lost>>
               [] ~goesOn /\ empty /\ ~t.cued ->
                    /\ turn' = [NextRound(t) EXCEPT !.cued = TRUE, !.blocks = <<>>]
                    /\ UNCHANGED <<pc, attempt, exit, rows, cache, lost>>
               [] ~goesOn /\ empty /\ t.cued ->
                    /\ Raise("unkept") /\ UNCHANGED <<rows, cache, lost>>
               [] OTHER -> AnthropicStops(stop, t)
    /\ UNCHANGED <<kind, option, active, busy, abortKey, seen>>

-----------------------------------------------------------------------------
(* The Claude CLI: a subprocess, a watcher, a timeout.                     *)

\* ClaudeCLIProvider.complete: a permit of the semaphore, then the process.
Spawn ==
    /\ kind = "cli" /\ pc = "slot" /\ ~busy
    /\ pc' = "stream"
    /\ UNCHANGED <<kind, option, active, busy, abortKey, attempt, turn, seen, rows, cache, exit, lost>>

\* Another call of the CLI gives its permit back.
OthersLeave ==
    /\ busy /\ busy' = FALSE
    /\ UNCHANGED <<kind, option, active, abortKey, pc, attempt, turn, seen, rows, cache, exit, lost>>

\* _consume_stream, one line of output: it goes on reading until the watcher
\* has seen the abort key.  A call of one of our tools is a proposal when
\* builtin tools are on.
CLILine ==
    /\ kind = "cli" /\ ToCome
    /\ \E c \in {"text", "thinking", "call"} :
          /\ EnsureStarted
          /\ turn' = [Published(turn, c) EXCEPT !.started = TRUE, !.chunk = @ + 1,
                                                !.proposed = @ \/ (option /\ c = "call")]
          /\ seen' = [seen EXCEPT ![Id] = IF c = "text" THEN Append(@, NextChunk(turn)) ELSE @]
    /\ UNCHANGED <<kind, option, active, busy, abortKey, pc, attempt, rows, exit, lost>>

\* _watch_abort: the key is there, the process is killed.
CLIWatcherKills ==
    /\ kind = "cli" /\ pc = "stream" /\ abortKey
    /\ pc' = "killed"
    /\ UNCHANGED <<kind, option, active, busy, abortKey, attempt, turn, seen, rows, cache, exit, lost>>

CLIAborted ==
    /\ kind = "cli" /\ pc = "killed"
    /\ SavePartialBlocks /\ Aborted
    /\ UNCHANGED <<kind, option, active, busy, abortKey, seen>>

CLITimesOut ==
    /\ kind = "cli" /\ pc = "stream"
    /\ SavePartialBlocks /\ Raise("kept")
    /\ UNCHANGED <<kind, option, active, busy, abortKey, seen>>

\* to_canonical_blocks: the text without the transcript tags the model leaked
\* (_strip_leaked_transcript) and a denied call whose event was missed; or the
\* structured object, or else the text of the result, in the place of it all.
CLIBlocks(t) ==
    {[t EXCEPT !.blocks = p[1], !.calls = p[2]] : p \in Excerpts(t.got) \X {t.calls, TRUE}}
        \cup {[t EXCEPT !.calls = FALSE, !.extra = TRUE]}

\* _run_turn after the stream.  A proposal has the process killed and stands
\* for a result.  No result, an error result, a rate limit told in the result
\* and an empty answer raise, and none of them touches the rows or the keys.
CLIEnds ==
    /\ kind = "cli" /\ pc = "stream"
    /\ \E mayEndEmpty \in BOOLEAN, t \in CLIBlocks(turn),
          result \in IF turn.proposed THEN {"success", "noresult"}
                     ELSE {"success", "noresult", "clierror", "limited"} :
         LET empty == t.blocks = <<>> /\ ~t.calls /\ ~t.extra /\ ~t.thinking
         IN  CASE result = "noresult" -> Raise("unkept")
               [] result = "clierror" -> Raise("unkept")
               [] result = "limited" /\ attempt < MaxRetries ->
                    /\ attempt' = attempt + 1 /\ turn' = NewTurn /\ pc' = "resolve"
                    /\ exit' = [exit EXCEPT ![Id] = "unkept"]
               [] result = "limited" /\ attempt = MaxRetries -> Raise("unkept")
               [] result = "success" /\ empty /\ ~mayEndEmpty -> Raise("unkept")
               [] OTHER -> turn' = t /\ pc' = "save" /\ UNCHANGED <<attempt, exit>>
    /\ UNCHANGED <<kind, option, active, busy, abortKey, seen, rows, cache, lost>>

-----------------------------------------------------------------------------
(* The end of an answered turn, the same in every provider.                *)

\* save_message under the turn's id: refused when a row has that id already.
SaveMessage ==
    /\ pc = "save"
    /\ IF rows[Id].state = "none"
         THEN /\ rows' = [rows EXCEPT ![Id] = [state |-> "final", text |-> turn.blocks,
                                               calls |-> turn.calls, extra |-> turn.extra]]
              /\ pc' = "completed" /\ UNCHANGED <<attempt, turn, exit>>
         ELSE Raise("unkept") /\ UNCHANGED rows
    /\ UNCHANGED <<kind, option, active, busy, abortKey, seen, cache, lost>>

\* agent_message_completed, if the turn was announced; the message is committed
\* by now, and an emit that fails raises all the same.
EmitCompleted ==
    /\ pc = "completed"
    /\ \/ pc' = "clear" /\ UNCHANGED <<attempt, turn, exit>>
       \/ turn.started /\ Raise("unkept")
    /\ UNCHANGED <<kind, option, active, busy, abortKey, seen, rows, cache, lost>>

ClearKeys ==
    /\ pc = "clear"
    /\ cache' = [cache EXCEPT ![Id] = FALSE]
    /\ exit' = [exit EXCEPT ![Id] = "answered"]
    /\ pc' = "returned"
    /\ UNCHANGED <<kind, option, active, busy, abortKey, attempt, turn, seen, rows, lost>>

\* The user stops the turn (POST .../abort).
AbortTurn ==
    /\ ~abortKey /\ pc \notin {"returned", "failed", "aborted", "promoted"}
    /\ abortKey' = TRUE
    /\ UNCHANGED <<kind, option, active, busy, pc, attempt, turn, seen, rows, cache, exit, lost>>

\* The chat handler of AbortSignalError: finalize_partial_messages promotes
\* every partial row of the conversation, whichever turn left it.
FinalizePartialMessages ==
    /\ pc = "aborted"
    /\ abortKey' = FALSE
    /\ rows' = [i \in Ids |-> IF rows[i].state = "partial"
                                THEN [rows[i] EXCEPT !.state = "final"] ELSE rows[i]]
    /\ pc' = "promoted"
    /\ UNCHANGED <<kind, option, active, busy, attempt, turn, seen, cache, exit, lost>>

Generic ==
    \/ ChatOpens \/ ChatChunk \/ ChatSeesAbort \/ ChatFails \/ ChatEnds
    \/ ResponsesOpens \/ ResponsesChunk \/ ResponsesSeesAbort
    \/ ResponsesFails \/ ResponsesEnds

Anthropic == AnthropicEvent \/ AnthropicSeesAbort \/ AnthropicFails \/ AnthropicRoundEnds

CLI == Spawn \/ CLILine \/ CLIWatcherKills \/ CLIAborted \/ CLITimesOut \/ CLIEnds

Steps ==
    \/ ResolveChatProvider \/ EnforceRateLimit \/ Generic \/ Anthropic \/ CLI
    \/ SaveMessage \/ EmitCompleted \/ ClearKeys \/ FinalizePartialMessages

CallNext == Steps \/ Deactivate \/ OthersLeave \/ AbortTurn

CallSpec == CallInit /\ [][CallNext]_callVars

\* The event loop runs the call on; a stream gives its next event or breaks
\* (every client library and the CLI's timeout see to that); a permit of the
\* semaphore is given back.
CallFairSpec == CallSpec /\ WF_callVars(Steps) /\ WF_callVars(OthersLeave)

-----------------------------------------------------------------------------
(* Properties.                                                             *)

\* The row is a fragment a retried drop left behind: the text it lacks begins a
\* later round (RetriedDropKeepsNoPartial is about those).
Fragment(i) ==
    LET n == Len(rows[i].text)
    IN  kind = "anthropic" /\ n > 0 /\ n < Len(seen[i]) /\ seen[i][n + 1][1] > seen[i][n][1]

\* No chunk of an answer is shown twice under one message id ("retrying after
\* that would show it twice", _stream_round_retrying), and a call that returns
\* has stored exactly one message, under the id its deltas carried, retried
\* rounds and paused turns included.  Its text is what the user saw, in that
\* order.  The CLI may have cut some of it out, and the round of a blank answer
\* is left out; only the CLI and the Responses API, behind its text, add any.
ShownOnceStoredOnce ==
    /\ \A i \in Ids : \A j, k \in 1..Len(seen[i]) : seen[i][j] = seen[i][k] => j = k
    /\ pc = "returned" =>
        LET stored == rows[Id]
        IN  /\ stored.state = "final" /\ \A i \in Ids \ {Id} : rows[i].state # "final"
            /\ InOrder(stored.text)
            /\ \A j \in 1..Len(stored.text) : \E k \in 1..Len(seen[Id]) :
                  stored.text[j] = seen[Id][k]
            /\ kind # "cli" /\ ~turn.cued => stored.text = seen[Id]
            /\ stored.extra => kind = "cli" \/ (kind = "responses" /\ stored.text # <<>>)

\* At every moment the text the user saw of an attempt is in its stream keys or
\* in its row, unless the save of a partial row failed: that is logged and the
\* keys go all the same (_save_partial_blocks, _save_partial).  An attempt that
\* ended, unless through one of the exits that raise without a look and leave
\* the keys to their TTL, has left none for a snapshot to replay, and the row
\* of one that did not answer holds the text the user saw of it.
ClosedTurnIsSettled ==
    \A i \in Ids \ {0} :
        /\ seen[i] # <<>> => cache[i] \/ rows[i].state # "none" \/ i \in lost
        /\ exit[i] \notin {"open", "unkept"} => ~cache[i]
        /\ exit[i] \in {"kept", "aborted"} /\ rows[i].state # "none" =>
              rows[i].text = seen[i] \/ Fragment(i)

\* Every call ends, whatever the provider answers: the retries of the router,
\* of a round, of an empty turn and the continuations of a pause are bounded.
CallEnds == <>(pc \in {"returned", "failed", "promoted"})

\* "A drop that will be retried keeps no partial: the retry's answer is the
\* turn, and a saved fragment would sit beside it" (anthropic.py, _stream_round).
RetriedDropKeepsNoPartial == pc = "stream" => rows[Id].state = "none"

=============================================================================
