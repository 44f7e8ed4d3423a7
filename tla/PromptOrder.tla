----------------------------- MODULE PromptOrder -----------------------------
(***************************************************************************)
(* How a chat history becomes a prompt (tools.go: buildChatPrompt and      *)
(* renderPromptMessages; dsml/encode.go): which turn follows which, what   *)
(* each of them holds, whose reasoning is repeated, and where the results  *)
(* of parallel tool calls end up.                                          *)
(*                                                                         *)
(* A message is [n, role, parts, id, calls, exact]: its place n in the     *)
(* history, its parts ("text", "image", or "think" for a text that begins  *)
(* with a think tag of its own), the id of the call a result answers,      *)
(* the ids of the calls an assistant turn issued, and whether the registry *)
(* has their exact block (ReplayStore).  A rendered turn is                *)
(* [role, texts, images]; a text is a sequence of markers such as          *)
(* <<"result">> and of <<"text", n, k>>, part k of message n.              *)
(***************************************************************************)
EXTENDS Naturals, SequencesExt, FiniteSetsExt

\* xmlToolSyntax
XML(syntax) == syntax \in {"glm", "qwen"}

HasImage(msg) == "image" \in ToSet(msg.parts)
historyHasImages(history) == \E i \in DOMAIN history : HasImage(history[i])

\* messageParts: one text more than images; adjacent texts are one.
Texts(msg) ==
    FoldLeft(LAMBDA acc, k : IF msg.parts[k] = "image" THEN Append(acc, <<>>)
                             ELSE Append(Front(acc), Append(Last(acc), <<msg.parts[k], msg.n, k>>)),
             << <<>> >>, [k \in DOMAIN msg.parts |-> k])
ImagesOf(msg) ==
    LET ks == SelectSeq([k \in DOMAIN msg.parts |-> k], LAMBDA k : msg.parts[k] = "image")
    IN  [i \in DOMAIN ks |-> <<"image", msg.n, ks[i]>>]

\* An image on another's message, or a role that nobody knows.
Refused(msg) ==
    \/ HasImage(msg) /\ msg.role \notin {"user", "tool"}
    \/ msg.role \notin {"", "system", "user", "assistant", "tool"}

\* RenderToolResult and RenderToolResultParts: one wrapper around all segments.
Wrapped(texts) ==
    [i \in DOMAIN texts |->
        (IF i = 1 THEN << <<"result">> >> ELSE <<>>) \o texts[i]
        \o (IF i = Len(texts) THEN << <<"/result">> >> ELSE <<>>)]

\* renderAssistantToolCalls: the exact block if it is there.  Otherwise
\* renderToolCallsSyntax, which writes V4's DSML for any syntax but XML.
Calls(syntax, msg) ==
    IF msg.calls = <<>> THEN <<>>
    ELSE << <<"calls", msg.n, IF XML(syntax) \/ msg.exact THEN syntax ELSE "dsml">> >>

\* Content with a think tag of its own is passed through by XML syntaxes.
OwnThink(syntax, msg) == XML(syntax) /\ Head(msg.parts) = "think"

\* assistantRendered, and RenderAssistantTurn for DeepSeek.
Assistant(syntax, msg, thinking, replay) ==
    LET reasoning == << <<"reasoning", msg.n>> >>
        shown == IF syntax = "qwen" \/ (thinking /\ replay) THEN reasoning ELSE <<>>
        start == IF XML(syntax) \/ shown # <<>> THEN << <<"<think>">> >> ELSE <<>>
        block == start \o shown \o << <<"</think>">> >>
    IN  (IF OwnThink(syntax, msg) THEN <<>> ELSE block) \o Texts(msg)[1] \o Calls(syntax, msg)

\* renderMessage and renderChatMessage, of a message that is not refused.
Rendered(syntax, msg, thinking, replay) ==
    CASE HasImage(msg) ->
            [role |-> "user", images |-> ImagesOf(msg),
             texts |-> IF msg.role = "tool" /\ ~XML(syntax) THEN Wrapped(Texts(msg)) ELSE Texts(msg)]
      [] ~HasImage(msg) /\ msg.role = "assistant" ->
            [role |-> "assistant", texts |-> <<Assistant(syntax, msg, thinking, replay)>>, images |-> <<>>]
      [] ~HasImage(msg) /\ msg.role = "tool" /\ ~XML(syntax) ->
            [role |-> "user", texts |-> Wrapped(Texts(msg)), images |-> <<>>]
      [] OTHER -> [role |-> msg.role, texts |-> Texts(msg), images |-> <<>>]

-----------------------------------------------------------------------------
(* The order *)

\* The turn whose calls rank the results at i: the latest that issued any.
Issuer(history, i) ==
    Max({0} \cup {a \in 1..(i - 1) : history[a].role = "assistant" /\ history[a].calls # <<>>})
\* An id that is not known, as a missing entry of the map, ranks as the first.
Rank(history, i) ==
    LET a == Issuer(history, i)
        places == IF a = 0 \/ history[i].id = "" THEN {}
                  ELSE {j \in DOMAIN history[a].calls : history[a].calls[j] = history[i].id}
    IN  Max({1} \cup places)

\* Results with nothing but results in between.
SameRun(history, i, j) == \A k \in (i..j) \cup (j..i) : history[k].role = "tool"

\* orderToolResultsByCall: each run sorted by rank, and stably.
orderToolResultsByCall(history) ==
    LET Before(i, j) ==
            IF SameRun(history, i, j)
            THEN \/ Rank(history, i) < Rank(history, j)
                 \/ Rank(history, i) = Rank(history, j) /\ i < j
            ELSE i < j
        order == SetToSortSeq(DOMAIN history, Before)
    IN  [k \in DOMAIN history |-> history[order[k]]]

historyUsesToolContext(history) ==
    \E i \in DOMAIN history :
        \/ history[i].role = "tool"
        \/ history[i].role = "assistant" /\ history[i].calls # <<>>

\* Text-only results in a row are one user turn, unless the syntax is XML; acc
\* is the turns so far and the text of results that waits for its turn.
Flush(acc) ==
    IF acc.pending = <<>> THEN acc.out
    ELSE Append(acc.out, [role |-> "user", texts |-> <<acc.pending>>, images |-> <<>>])

\* A variant of Add: results with images do not wait for the text before them.
AddUnflushed(syntax, acc, msg, turn) ==
    CASE msg.role = "tool" /\ ~XML(syntax) /\ turn.images = <<>> ->
            [acc EXCEPT !.pending = @ \o turn.texts[1]]
      [] msg.role = "tool" /\ ~XML(syntax) /\ turn.images # <<>> ->
            [acc EXCEPT !.out = Append(@, turn)]
      [] turn.role = "" -> [out |-> Flush(acc), pending |-> <<>>]
      [] OTHER -> [out |-> Append(Flush(acc), turn), pending |-> <<>>]

Add(syntax, acc, msg, turn) ==
    CASE msg.role = "tool" /\ ~XML(syntax) /\ turn.images = <<>> ->
            [acc EXCEPT !.pending = @ \o turn.texts[1]]
      [] turn.role = "" -> [out |-> Flush(acc), pending |-> <<>>]
      [] OTHER -> [out |-> Append(Flush(acc), turn), pending |-> <<>>]

renderPromptMessages(given, syntax, thinking, toolContext) ==
    LET lastUser == Max({0} \cup {i \in DOMAIN given : given[i].role \in {"user", "tool"}})
        history == IF syntax = "dsml41" THEN orderToolResultsByCall(given) ELSE given
    IN  Flush(FoldLeft(LAMBDA acc, i :
            Add(syntax, acc, history[i],
                Rendered(syntax, history[i], thinking, toolContext \/ i > lastUser)),
            [out |-> <<>>, pending |-> <<>>], [i \in DOMAIN history |-> i]))

-----------------------------------------------------------------------------
(* The prompt *)

\* The system turn, with Qwen's reasoning effort at its head; others have a
\* think prefix of their own before it.
SystemContent(q) ==
    (IF q.syntax = "qwen" /\ q.thinking THEN << <<"effort">> >> ELSE <<>>)
    \o (IF q.tools THEN << <<"tools">> >> ELSE <<>>)
    \o (IF q.system THEN << <<"system">> >> ELSE <<>>)

\* buildChatPrompt; it fails where a message is refused, and where there are
\* images and no encoder.
Failed == <<>>
buildChatPrompt(q) ==
    IF \/ \E i \in DOMAIN q.history : Refused(q.history[i])
       \/ historyHasImages(q.history) /\ ~q.encoder
    THEN Failed
    ELSE (IF q.syntax # "qwen" THEN << [role |-> "prefix", texts |-> << <<>> >>, images |-> <<>>] >> ELSE <<>>)
         \o (IF SystemContent(q) = <<>> THEN <<>>
             ELSE << [role |-> "system", texts |-> <<SystemContent(q)>>, images |-> <<>>] >>)
         \o renderPromptMessages(q.history, q.syntax, q.thinking,
                                 q.tools \/ historyUsesToolContext(q.history))
         \o << [role |-> "answer", texts |-> << <<>> >>, images |-> <<>>] >>

-----------------------------------------------------------------------------
(* What it should be *)

\* A turn as the model reads it: its texts with the images between them.
Read(turn) ==
    FlattenSeq([i \in DOMAIN turn.texts |->
        turn.texts[i] \o (IF i \in DOMAIN turn.images THEN <<turn.images[i]>> ELSE <<>>)])
Where(text, x) == {p \in DOMAIN text : text[p] = x}

\* What the history says, each part once: of a message without a role, nothing.
Said(history) ==
    UNION {{<<history[i].parts[k], i, k>> : k \in DOMAIN history[i].parts} :
              i \in {j \in DOMAIN history : history[j].role # ""}}

\* Which of two messages the model must read first.
First(q, i, j) ==
    IF q.syntax = "dsml41" /\ SameRun(q.history, i, j)
       /\ Rank(q.history, i) # Rank(q.history, j)
    THEN Rank(q.history, i) < Rank(q.history, j) ELSE i < j

\* The prompt says what the history says, every part of it once and in its
\* order, and V4.1 reads parallel results in the order of their calls.
InOrder(q, text) ==
    /\ \A x \in Said(q.history) : Cardinality(Where(text, x)) = 1
    /\ \A x, y \in Said(q.history) :
          (IF x[2] = y[2] THEN x[3] < y[3] ELSE First(q, x[2], y[2]))
             => Min(Where(text, x)) < Min(Where(text, y))

\* A DSML model sees each result in a wrapper of its own and nothing else in one.
InWrapper(q, text) ==
    LET Open(p) == Cardinality({r \in 1..p : text[r] = <<"result">>})
        Shut(p) == Cardinality({r \in 1..p : text[r] = <<"/result">>})
        results == {i \in DOMAIN q.history : q.history[i].role = "tool"}
    IN  /\ \A p \in DOMAIN text : Open(p) - Shut(p) \in {0, 1}
        /\ \A x \in Said(q.history) : \A p \in Where(text, x) :
              Open(p) = Shut(p) + (IF x[2] \in results /\ ~XML(q.syntax) THEN 1 ELSE 0)
        /\ \A x, y \in Said(q.history) : \A p \in Where(text, x), r \in Where(text, y) :
              ~XML(q.syntax) /\ {x[2], y[2]} \subseteq results => (Open(p) = Open(r) <=> x[2] = y[2])

\* Reasoning is repeated in tool context and after the last question, but for
\* GLM and Qwen not before content that has a think tag of its own.
ReasoningRepeated(q, text) ==
    \A i \in {j \in DOMAIN q.history : q.history[j].role = "assistant"
                                       /\ ~OwnThink(q.syntax, q.history[j])} :
        (\E p \in DOMAIN text : text[p] = <<"reasoning", i>>) <=>
            \/ q.syntax = "qwen"
            \/ q.thinking /\ (\/ q.tools \/ historyUsesToolContext(q.history)
                              \/ \A j \in (i + 1)..Len(q.history) : q.history[j].role \notin {"user", "tool"})

\* Calls are written in the model's own grammar: "V4.1 speaks a spaced DSML
\* dialect for tool calls; ToolSyntax picks it automatically" (README.md:175).
InDialect(q, text) ==
    \A p \in DOMAIN text : text[p][1] = "calls" => text[p][3] = q.syntax

\* The prompt as the model reads it.
PromptText(q) ==
    LET prompt == buildChatPrompt(q) IN FlattenSeq([i \in DOMAIN prompt |-> Read(prompt[i])])

\* A prompt keeps its history: every part of every message, every call and
\* every image, in the order and the wrappers the model expects.  InDialect is
\* left to V4.1's exact blocks: without one its calls are written as V4's.
HistoryKept(q) ==
    LET prompt == buildChatPrompt(q)
        text == PromptText(q)
    IN  prompt # Failed =>
            /\ \A i \in DOMAIN prompt : Len(prompt[i].texts) = Len(prompt[i].images) + 1
            /\ InOrder(q, text) /\ InWrapper(q, text) /\ ReasoningRepeated(q, text)
            /\ q.syntax # "dsml41" => InDialect(q, text)
            /\ \A i \in DOMAIN q.history :
                  q.history[i].calls # <<>> =>
                      \E p \in DOMAIN text : text[p][1] = "calls" /\ text[p][2] = i

-----------------------------------------------------------------------------
(* Histories *)

Msg(role, parts, id, calls, exact) ==
    [n |-> 0, role |-> role, parts |-> parts, id |-> id, calls |-> calls, exact |-> exact]
Messages ==
    { Msg("user", <<"text">>, "", <<>>, FALSE), Msg("user", <<"image", "text">>, "", <<>>, FALSE),
      Msg("assistant", <<"text">>, "", <<>>, FALSE), Msg("assistant", <<"think">>, "", <<>>, FALSE),
      Msg("", <<"text">>, "", <<>>, FALSE),
      Msg("assistant", <<"text">>, "", <<"c1", "c2">>, TRUE),
      Msg("assistant", <<"text">>, "", <<"c2">>, FALSE),
      Msg("tool", <<"text">>, "c1", <<>>, FALSE), Msg("tool", <<"text">>, "c2", <<>>, FALSE),
      Msg("tool", <<"text">>, "c3", <<>>, FALSE),
      Msg("tool", <<"text", "image", "text", "text">>, "c1", <<>>, FALSE) }
Numbered(h) == [i \in DOMAIN h |-> [h[i] EXCEPT !.n = i]]
Histories(k) ==
    [syntax : {"dsml", "dsml41", "glm", "qwen"}, thinking : {TRUE}, tools : BOOLEAN,
     system : {FALSE}, encoder : {TRUE},
     history : {Numbered(before \o h) :
                   before \in { <<>>, << Msg("assistant", <<"text">>, "", <<"c2", "c1">>, FALSE) >> },
                   h \in UNION {[1..n -> Messages] : n \in 0..k}}]
    \cup [syntax : {"dsml", "glm", "qwen"}, thinking : BOOLEAN, tools : BOOLEAN, system : BOOLEAN,
          encoder : BOOLEAN,
          history : {Numbered(h) : h \in UNION {[1..n -> Messages
                        \cup {Msg("system", <<"image">>, "", <<>>, FALSE), Msg("else", <<"text">>, "", <<>>, FALSE)}] :
                           n \in 0..1}}]
=============================================================================
