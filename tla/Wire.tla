-------------------------------- MODULE Wire --------------------------------
(***************************************************************************)
(* What a model is sent: the stored rows of a conversation or of a flow    *)
(* run, cut down to a history (engine/chat.py _history_rows, engine/       *)
(* nodes.py _load_history), and translated by each provider into its own   *)
(* wire format (llm/providers: generic.py, anthropic.py, claude_cli.py).   *)
(*                                                                         *)
(* A wire payload is flattened to the sequence of the things a provider's  *)
(* API looks at: message starts, texts, tool calls and results by id, the  *)
(* label notes of attached media and the pictures themselves.  Attached    *)
(* media are numbered per kind as the host numbers them over the stored    *)
(* rows: media 2 of kind "image" is the one a tool finds under img-2.      *)
(***************************************************************************)
EXTENDS Naturals, Sequences, FiniteSets, FiniteSetsExt, SequencesExt

CONSTANTS
    Unresolved,   \* the media <<kind, n>> the host's resolver finds no URL for
    MaxRows,      \* bound: stored rows of a conversation
    MaxFlowRows,  \* bound: stored rows of a flow run
    MaxMedia,     \* bound: attachments of one kind
    Attachments   \* the media kinds a user turn may attach, in order

LabeledKinds == {"image", "video"}

ASSUME WireAssumption ==
    /\ MaxRows \in Nat /\ MaxFlowRows \in Nat /\ MaxMedia \in Nat
    /\ Attachments \subseteq Seq(LabeledKinds)

VARIABLES
    scope,    \* whose rows they are: a "chat" or a "flow" run
    rows,     \* the stored rows, in sequence order
    model,    \* the model of the agent that answers next
    lastId,   \* the last tool-call id given out
    open      \* the chat's turn that stored the last row has calls to run, now
              \* or once they are approved

wireVars == <<scope, rows, model, lastId, open>>

Models == {"m1", "m2"}
Nodes == {"own", "up"}

NoMark == [media |-> [k \in LabeledKinds |-> 0], through |-> 0, model |-> "none"]
Block(t, n) == [type |-> t, id |-> n]

\* A stored row; `mark' is what a compaction block holds.
Row(role, node, partial, blocks, mark) ==
    [sequence |-> Len(rows) + 1, role |-> role, node |-> node, is_partial |-> partial,
     content |-> blocks, mark |-> mark]

\* compaction_block: the message carries one.
IsCompaction(r) == \E i \in DOMAIN r.content : r.content[i].type = "compaction"

\* The elements of a sequence that are in a set, in their order.
Kept(s, S) == FlattenSeq([i \in DOMAIN s |-> IF s[i] \in S THEN <<s[i]>> ELSE <<>>])

\* Where rows hold blocks of a type, as <<row, block>>.
At(rs, types) ==
    UNION {{i} \X {j \in DOMAIN rs[i].content : rs[i].content[j].type \in types} : i \in DOMAIN rs}
IdsOf(rs, type) == {rs[p[1]].content[p[2]].id : p \in At(rs, {type})}

-----------------------------------------------------------------------------
(* The history.                                                            *)

\* ChatRunner._history_rows: partial rows are skipped; after a compaction the
\* history starts at its marker and goes on past what it summarizes.
HistoryRows ==
    LET whole == Kept(rows, {r \in ToSet(rows) : ~r.is_partial})
        marks == {i \in DOMAIN whole : IsCompaction(whole[i])}
        marker == whole[Max(marks)]
    IN  IF marks = {} THEN whole
        ELSE <<marker>> \o Kept(whole, {r \in ToSet(whole) : r.sequence > marker.mark.through
                                                             /\ ~IsCompaction(r)})

\* Seeded fault: a call or a result is kept when either half is there.
ValidPairIdsEither(rs) == IdsOf(rs, "tool_use") \union IdsOf(rs, "tool_result")

\* _load_history: the ids that appear in both a call and a result.
ValidPairIds(rs) == IdsOf(rs, "tool_use") \intersect IdsOf(rs, "tool_result")

\* _load_history: own partial rows are left out, inherited ones are not; calls
\* and results without their other half go, inherited ones altogether when the
\* node asks for text only; a row with no block left goes.
LoadHistory(includeOwn, tools) ==
    LET mine == Kept(rows, {r \in ToSet(rows) : /\ r.node = "up" \/ includeOwn
                                                /\ ~(r.node = "own" /\ r.is_partial)})
        pairs == ValidPairIds(mine)
        stays(r, b) == b.type \in {"tool_use", "tool_result"} =>
                          (r.node = "own" \/ tools) /\ b.id \in pairs
        cut == [i \in DOMAIN mine |->
                  [mine[i] EXCEPT !.content =
                      Kept(@, {b \in ToSet(@) : stays(mine[i], b)})]]
    IN  Kept(cut, {r \in ToSet(cut) : r.content # <<>>})

-----------------------------------------------------------------------------
(* Media labels.                                                           *)

\* Seeded fault: the labels start over after a compaction.
LabelsStartAtOne(h) == [k \in LabeledKinds |-> 0]

\* _MediaLabels.__init__: counting goes on past what a compaction summarized.
LabelsStart(h) ==
    IF h # <<>> /\ IsCompaction(h[1]) THEN h[1].mark.media ELSE [k \in LabeledKinds |-> 0]

\* _MediaLabels.next for block j of row i: the counter of its kind, over the
\* user rows in order of appearance.
Label(h, i, j) ==
    LET kind == h[i].content[j].type
    IN  LabelsStart(h)[kind]
        + Cardinality({p \in At(h, {kind}) : /\ h[p[1]].role = "user"
                                             /\ p[1] < i \/ (p[1] = i /\ p[2] <= j)})

\* _resolve_image_urls: a URL for every media the host can show; none for a
\* model that takes no pictures.
Url(seeing, b) == seeing /\ <<b.type, b.id>> \notin Unresolved

-----------------------------------------------------------------------------
(* The four translations.                                                  *)

Item(w, kind, n, label, shown) ==
    [w |-> w, kind |-> kind, id |-> n, label |-> label, shown |-> shown]
Start(role) == Item("start", role, 0, 0, FALSE)
Text == Item("text", "", 0, 0, FALSE)
Call(b) == Item("call", "", b.id, 0, FALSE)
Result(b) == Item("result", "", b.id, 0, FALSE)

\* _media_note and the picture of media block j of row i.
Note(h, i, j, seeing) ==
    LET b == h[i].content[j]
    IN  Item("note", b.type, b.id, Label(h, i, j), Url(seeing, b))
Picture(b) == Item("picture", b.type, b.id, 0, TRUE)

HasText(r) == \E j \in DOMAIN r.content : r.content[j].type = "text"
HasMedia(r) == \E j \in DOMAIN r.content : r.content[j].type \in LabeledKinds

\* What a row's blocks become, one after the other.
Calls(r) ==
    FlattenSeq([j \in DOMAIN r.content |->
        IF r.content[j].type = "tool_use" THEN <<Call(r.content[j])>> ELSE <<>>])
Results(r) ==
    FlattenSeq([j \in DOMAIN r.content |->
        IF r.content[j].type = "tool_result" THEN <<Result(r.content[j])>> ELSE <<>>])
Notes(h, i, seeing) ==
    FlattenSeq([j \in DOMAIN h[i].content |->
        IF h[i].content[j].type \in LabeledKinds THEN <<Note(h, i, j, seeing)>> ELSE <<>>])
Pictures(r, seeing) ==
    FlattenSeq([j \in DOMAIN r.content |->
        IF r.content[j].type \in LabeledKinds /\ Url(seeing, r.content[j])
        THEN <<Picture(r.content[j])>> ELSE <<>>])

\* One user row as one message: texts, then every note, then the pictures of
\* the notes that say "shown below".
UserMessage(h, i, seeing) ==
    (IF HasText(h[i]) THEN <<Text>> ELSE <<>>) \o Notes(h, i, seeing) \o Pictures(h[i], seeing)

\* _canonical_to_openai_messages: a tool message per result, then the user
\* message; an assistant message with its texts and its calls, thinking
\* dropped; a compaction as a user message with the summary's text.
OpenAIMessage(h, i, seeing) ==
    LET r == h[i] IN
    CASE IsCompaction(r) -> <<Start("user"), Text>>
      [] ~IsCompaction(r) /\ r.role = "user" ->
            Results(r)
            \o IF HasText(r) \/ HasMedia(r)
                 THEN <<Start("user")>> \o UserMessage(h, i, seeing) ELSE <<>>
      [] OTHER -> <<Start("assistant")>> \o (IF HasText(r) THEN <<Text>> ELSE <<>>) \o Calls(r)

OpenAIMessages(h, seeing) == FlattenSeq([i \in DOMAIN h |-> OpenAIMessage(h, i, seeing)])

\* _canonical_to_responses_input: calls and results are items of their own;
\* notes and pictures alternate.
ResponsesMedia(h, i, seeing) ==
    FlattenSeq([j \in DOMAIN h[i].content |->
        IF h[i].content[j].type \in LabeledKinds
        THEN <<Note(h, i, j, seeing)>>
             \o IF Url(seeing, h[i].content[j]) THEN <<Picture(h[i].content[j])>> ELSE <<>>
        ELSE <<>>])

ResponsesItems(h, i, seeing) ==
    LET r == h[i] IN
    CASE IsCompaction(r) -> <<Start("user"), Text>>
      [] ~IsCompaction(r) /\ r.role = "user" ->
            Results(r)
            \o IF HasText(r) \/ HasMedia(r)
                 THEN <<Start("user")>> \o (IF HasText(r) THEN <<Text>> ELSE <<>>)
                      \o ResponsesMedia(h, i, seeing)
                 ELSE <<>>
      [] OTHER -> (IF HasText(r) THEN <<Start("assistant"), Text>> ELSE <<>>) \o Calls(r)

ResponsesInput(h, seeing) == FlattenSeq([i \in DOMAIN h |-> ResponsesItems(h, i, seeing)])

\* _flatten_tool_block: a call or a result as text, for a call that declares
\* no tools.
FlattenToolBlock(b, declared) ==
    IF ~declared THEN Text ELSE IF b.type = "tool_use" THEN Call(b) ELSE Result(b)

ToolBlocks(r, declared) ==
    FlattenSeq([j \in DOMAIN r.content |->
        IF r.content[j].type = "tool_result" THEN <<FlattenToolBlock(r.content[j], declared)>>
        ELSE <<>>])
ReplyBlocks(r, declared) ==
    FlattenSeq([j \in DOMAIN r.content |->
        IF r.content[j].type = "text" THEN <<Text>>
        ELSE IF r.content[j].type = "tool_use" THEN <<FlattenToolBlock(r.content[j], declared)>>
        ELSE <<>>])

\* _canonical_to_anthropic_messages: results first in the user message; the
\* signed summary as an assistant message on the model that wrote it, as text
\* on another.  A message with nothing in it is left out.
AnthropicMessage(h, i, seeing, declared) ==
    LET r == h[i]
        parts == IF r.role = "user" THEN ToolBlocks(r, declared) \o UserMessage(h, i, seeing)
                 ELSE ReplyBlocks(r, declared)
    IN  CASE IsCompaction(r) /\ r.mark.model = model -> <<Start("assistant")>>
          [] IsCompaction(r) /\ r.mark.model # model -> <<Start("user"), Text>>
          [] OTHER -> IF parts = <<>> THEN <<>> ELSE <<Start(r.role)>> \o parts

AnthropicMessages(h, seeing, declared) ==
    FlattenSeq([i \in DOMAIN h |-> AnthropicMessage(h, i, seeing, declared)])

\* _render_transcript: the chat-completions messages as text, those up to the
\* last assistant message as the history and the rest as <latest>.
RenderTranscript(w) ==
    LET lines == Kept(w, {x \in ToSet(w) : x.w # "picture"})
        said == {i \in DOMAIN lines : lines[i] = Start("assistant")}
        turn == IF said = {} THEN 0 ELSE Max(said)
        rest == {i \in DOMAIN lines : i > turn /\ lines[i].w \in {"start", "result"}}
        cut == IF rest = {} THEN Len(lines) ELSE Min(rest) - 1
    IN  IF said = {} THEN lines
        ELSE SubSeq(lines, 1, cut) \o <<Start("latest")>> \o SubSeq(lines, cut + 1, Len(lines))

\* _collect_images: every picture of the history, in order, after the text.
CollectImages(w) == Kept(w, {x \in ToSet(w) : x.w = "picture"})

CLIMessage(h, seeing) ==
    LET w == OpenAIMessages(h, seeing) IN RenderTranscript(w) \o CollectImages(w)

-----------------------------------------------------------------------------
(* How the rows come about.                                                *)

WireInit ==
    /\ scope \in {"chat", "flow"}
    /\ rows = <<>> /\ model = "m1" /\ lastId = 0 /\ open = FALSE

\* The rows with calls whose results are not stored: in a flow, one for each
\* iteration that runs in parallel; in a chat, the last while its turn is open,
\* and any that a turn left behind.
Unanswered ==
    {i \in DOMAIN rows : ~rows[i].is_partial
        /\ ~(IdsOf(<<rows[i]>>, "tool_use") \subseteq IdsOf(rows, "tool_result"))}

Store(role, node, partial, blocks, mark) ==
    /\ Len(rows) < (IF scope = "chat" THEN MaxRows ELSE MaxFlowRows)
    /\ rows' = Append(rows, Row(role, node, partial, blocks, mark))

MediaCount(kind) == Cardinality(At(rows, {kind}))

\* The host's numbers for what a user turn attaches.
Numbered(kinds) ==
    [j \in DOMAIN kinds |->
        Block(kinds[j], MediaCount(kinds[j])
                        + Cardinality({x \in 1..j : kinds[x] = kinds[j]}))]

\* The user's turn: a text and what is attached to it.  Another turn of the chat,
\* under its lock or waiting for approvals, refuses it; calls that a turn left
\* behind do not.  A flow has one, the prompt of the node.
UserTurn(kinds) ==
    /\ ~open
    /\ rows # <<>> => scope = "chat"
    /\ scope = "flow" => kinds = <<>>
    /\ \A k \in LabeledKinds :
          MediaCount(k) + Cardinality({x \in DOMAIN kinds : kinds[x] = k}) <= MaxMedia
    /\ Store("user", "own", FALSE, <<Block("text", 0)>> \o Numbered(kinds), NoMark)
    /\ UNCHANGED <<scope, model, lastId, open>>

NewCalls(n) == [j \in 1..n |-> Block("tool_use", lastId + j)]

\* An assistant row, thinking first, then a text, calls or both (to_canonical);
\* the chat provider puts its calls into a partial row too (_save_partial).
AssistantTurn(node, said, n, partial) ==
    /\ rows # <<>> /\ (said \/ n > 0)
    /\ scope = "chat" => rows[Len(rows)].role = "user" /\ node = "own"
    /\ partial => ~rows[Len(rows)].is_partial
    /\ Store("assistant", node, partial,
             <<Block("thinking", 0)>> \o (IF said THEN <<Block("text", 0)>> ELSE <<>>)
             \o NewCalls(n), NoMark)
    /\ lastId' = lastId + n
    /\ open' = (scope = "chat" /\ n > 0 /\ ~partial)
    /\ UNCHANGED <<scope, model>>

\* A result for each call of a row.
Answers(r) ==
    FlattenSeq([j \in DOMAIN r.content |->
        IF r.content[j].type = "tool_use" THEN <<Block("tool_result", r.content[j].id)>> ELSE <<>>])

\* AgentRunner stores the results of a batch of calls as one user row.
ToolResults(i) ==
    /\ scope = "chat" => open /\ i = Len(rows)
    /\ Store("user", rows[i].node, FALSE,
             Answers(rows[i]), NoMark)
    /\ open' = FALSE
    /\ UNCHANGED <<scope, model, lastId>>

\* The turn ends before it stores the results: a worker dies, a tool raises, the
\* turn is aborted.  Its calls stay without an answer.
AbandonCalls ==
    /\ open /\ open' = FALSE
    /\ UNCHANGED <<scope, rows, model, lastId>>

\* _media_counts: attachments of the summarized rows, on top of what an earlier
\* compaction counted.
MediaCounts(rs) ==
    LET base == IF IsCompaction(rs[1]) THEN rs[1].mark.media ELSE [k \in LabeledKinds |-> 0]
    IN  [k \in LabeledKinds |->
            base[k] + Cardinality({p \in At(rs, {k}) : rs[p[1]].role = "user"})]

\* _compact_if_due, when the size asks for it and the provider gives a
\* summary: everything but a last reply is summarized.
CompactIfDue ==
    LET h == HistoryRows
        summarized == IF h[Len(h)].role = "assistant" THEN SubSeq(h, 1, Len(h) - 1) ELSE h
    IN  /\ scope = "chat" /\ ~open /\ Len(h) >= 3
        /\ Store("system", "own", FALSE, <<Block("compaction", 0)>>,
                 [media |-> MediaCounts(summarized),
                  through |-> summarized[Len(summarized)].sequence, model |-> model])
        /\ UNCHANGED <<scope, model, lastId, open>>

\* A handoff: another agent, on another model, answers next (it matters where
\* a compaction is sent).
Handoff ==
    /\ scope = "chat" /\ HistoryRows # <<>> /\ IsCompaction(HistoryRows[1])
    /\ model' \in Models \ {model}
    /\ UNCHANGED <<scope, rows, lastId, open>>

\* finalize_partial_messages, on an abort.
FinalizePartialMessages ==
    /\ scope = "chat"
    /\ \E i \in DOMAIN rows : rows[i].is_partial
    /\ rows' = [i \in DOMAIN rows |-> [rows[i] EXCEPT !.is_partial = FALSE]]
    /\ UNCHANGED <<scope, model, lastId, open>>

WireNext ==
    \/ \E kinds \in Attachments : UserTurn(kinds)
    \/ \E node \in Nodes, said \in BOOLEAN, n \in {0, 2}, partial \in BOOLEAN :
          AssistantTurn(node, said, n, partial)
    \/ \E i \in Unanswered : ToolResults(i)
    \/ AbandonCalls \/ CompactIfDue \/ Handoff \/ FinalizePartialMessages

WireSpec == WireInit /\ [][WireNext]_wireVars

-----------------------------------------------------------------------------
(* Properties.                                                             *)

\* The histories a model may be sent now.
Histories ==
    IF scope = "flow"
      THEN {LoadHistory(own, tools) : own \in BOOLEAN, tools \in BOOLEAN}
      ELSE IF open THEN {} ELSE {HistoryRows}

\* Every provider's payload for a history.
Payloads(h) ==
    {OpenAIMessages(h, seeing) : seeing \in BOOLEAN}
    \union {ResponsesInput(h, seeing) : seeing \in BOOLEAN}
    \union {AnthropicMessages(h, seeing, declared) : seeing \in BOOLEAN, declared \in BOOLEAN}
    \union {CLIMessage(h, seeing) : seeing \in BOOLEAN}

\* A call is answered after it; in between there is nothing but the other calls
\* and results of its batch.
Answered(w, i, strict) ==
    \E j \in (i + 1)..Len(w) :
        /\ w[j].w = "result" /\ w[j].id = w[i].id
        /\ strict => \A k \in (i + 1)..(j - 1) : w[k].w \in {"call", "result"}
                                                \/ w[k] \in {Start("user"), Start("latest")}
Called(w, i) == \E j \in 1..(i - 1) : w[j].w = "call" /\ w[j].id = w[i].id

\* The calls of a chat that no stored result answers: those of a turn that ended
\* before it stored them, and those of a partial row that an abort promoted.
Abandoned ==
    IF scope = "chat" THEN IdsOf(rows, "tool_use") \ IdsOf(rows, "tool_result") ELSE {}

\* In every payload of every provider each tool result follows its call, and a
\* call is followed by its result, right after it in a chat, whenever that result
\* is stored: the cut of a compaction separates no pair, nor does what comes
\* behind a batch that was left unanswered, an interrupted turn leaves no orphan
\* in a flow's history (_load_history), and a provider that is sent tools finds
\* both halves.
CallsAndResultsPaired ==
    \A h \in Histories : \A w \in Payloads(h) : \A i \in DOMAIN w :
        /\ w[i].w = "call" => w[i].id \in Abandoned \/ Answered(w, i, scope = "chat")
        /\ w[i].w = "result" => Called(w, i)

\* No history is sent with a call nobody answered, as run supposes when it puts
\* the next user message behind the history (engine/agent.py run, engine/chat.py
\* send).  A chat's turn that ends between the two rows, and an abort that
\* promotes a partial row, leave one for every later turn.
EveryCallSentIsAnswered ==
    \A h \in Histories : \A w \in Payloads(h) : \A i \in DOMAIN w :
        w[i].w = "call" => Answered(w, i, FALSE)

\* Every provider labels an attachment with the number the host counts for it
\* over the whole stored conversation, compacted or not, and shows the pictures
\* in the order of the notes that announce them (_MediaLabels, _collect_images):
\* a tool that is given img-2 finds the picture the model saw as img-2.
LabelsNameTheHostsMedia ==
    \A h \in Histories : \A w \in Payloads(h) :
        LET announced == Kept(w, {x \in ToSet(w) : x.w = "note" /\ x.shown})
            pictures == CollectImages(w)
        IN  /\ \A i \in DOMAIN w : w[i].w = "note" => w[i].label = w[i].id
            /\ Len(announced) = Len(pictures)
            /\ \A i \in DOMAIN pictures : /\ pictures[i].kind = announced[i].kind
                                          /\ pictures[i].id = announced[i].id
=============================================================================
