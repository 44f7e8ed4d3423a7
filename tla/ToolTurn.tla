------------------------------ MODULE ToolTurn ------------------------------
(***************************************************************************)
(* One ToolLoop.Run: prompt, generation, parse, tool calls, and again.     *)
(* Generator.Continue evaluates tokens into the native session and hands   *)
(* them to the stream decoder, which stops the turn, or asks for a         *)
(* recovery, by cancelling the context that Continue polls.  With          *)
(* speculative decoding a whole block of tokens is in the session before   *)
(* the first of them is looked at, and the tail has to be taken back.      *)
(*                                                                         *)
(* A token is told to the caller before it is evaluated, so that an Eval   *)
(* that fails comes after the verdict on its token: streamCompletion looks *)
(* at the cause first and takes the error for the stop it asked for.       *)
(*                                                                         *)
(* A token is what it means to the decoder: text "x", the opening of a     *)
(* tool block "S", its end "C", "</think>" "T", the end of the sentence "E".*)
(***************************************************************************)
EXTENDS Integers, Sequences, FiniteSets

CONSTANTS MaxTokens,   \* GenerateOptions.MaxTokens
          Draft,       \* engine.MTPDraftTokens
          MaxRounds,   \* ToolLoopOptions.MaxRounds
          Rooms        \* values of Ctx - Pos after the prompt

Tokens == {"x", "S", "C", "T", "E"}
Inject == <<"T", "x">>      \* TokenizeRenderedChat("</think>\n\n")

VARIABLES setup,     \* what does not change during a run
          step,      \* where the run is
          parent,    \* the caller's context is cancelled
          cause,     \* why the context of this generation is cancelled
          session,   \* tokens after the prompt, each with the mode it was drawn in,
                     \* and "lost" for one whose Eval failed: libds4 has it not
          missed,    \* how many of them are lost
          text,      \* tokens recorded for the turn
          started,   \* the prompt has been synchronised
          remaining, \* tokens of the turn's budget
          left,      \* tokens this Continue may still add
          capped,    \* left was cut to the room of the context
          block,     \* accepted speculative tokens not looked at yet
          attempt,   \* assistant turns before this one
          retried,   \* the previous turn was sent back for its syntax
          calls      \* calls of this turn that have not run

turn == <<session, missed, text, started, remaining>>
gen == <<left, capped, block>>
run == <<attempt, retried, calls>>
turnVars == <<setup, step, parent, cause, turn, gen, run>>

Modes == {"greedy", "sampled", "fed", "lost"}    \* drawn so, injected, not evaluated
Setups == [thinking : BOOLEAN,   \* thinking mode, with its recovery
           spec     : BOOLEAN,   \* speculative decoding
           exact    : BOOLEAN,   \* temperature > 0 with exact sampling
           eos      : BOOLEAN,   \* StopOnEOS
           room     : Rooms]

TurnTypeOK ==
    /\ setup \in Setups
    /\ step \in {"round", "gen", "sample", "block", "ended", "full", "stopped",
               "parse", "tools", "answered", "failed"}
    /\ parent \in BOOLEAN
    /\ cause \in {"none", "parent", "complete", "recover"}
    /\ session \in Seq([tok : Tokens, mode : Modes]) /\ missed \in Nat
    /\ text \in Seq(Tokens)
    /\ block \in Seq(Tokens)
    /\ started \in BOOLEAN /\ capped \in BOOLEAN /\ retried \in BOOLEAN
    /\ remaining \in 0..MaxTokens /\ left \in 0..MaxTokens
    /\ attempt \in 0..(MaxRounds - 1) /\ calls \in 0..2

TurnInit ==
    /\ setup \in Setups
    /\ step = "round" /\ parent = FALSE /\ cause = "none"
    /\ session = <<>> /\ missed = 0 /\ text = <<>> /\ started = FALSE /\ remaining = MaxTokens
    /\ left = 0 /\ capped = FALSE /\ block = <<>>
    /\ attempt = 0 /\ retried = FALSE /\ calls = 0

-----------------------------------------------------------------------------
(* What the stream decoder says of the text so far *)

Has(t, k) == \E i \in DOMAIN t : t[i] = k
First(t, k) == CHOOSE i \in DOMAIN t : t[i] = k /\ \A j \in 1..(i - 1) : t[j] # k

InThinking(t) == setup.thinking /\ ~Has(t, "T")
Body(t) == IF ~setup.thinking THEN t
           ELSE IF Has(t, "T") THEN SubSeq(t, First(t, "T") + 1, Len(t)) ELSE <<>>
StanzaInThinking(t) == InThinking(t) /\ Has(t, "S")
Opened(t) == Has(Body(t), "S")
Closed(t) == LET b == Body(t) IN \E i, j \in DOMAIN b : i < j /\ b[i] = "S" /\ b[j] = "C"
Done(t) == Has(Body(t), "E")
\* Markup is drawn greedily, the payload inside it is not.
WantsGreedy(t) == Opened(t) /\ ~Closed(t) /\ t[Len(t)] # "x"

Mode(t) == IF ~setup.exact \/ WantsGreedy(t) THEN "greedy" ELSE "sampled"
\* TokenIsStopForThinkMode: with thinking off a thinking marker ends the turn.
IsStop(k) == setup.eos /\ (k = "E" \/ (k = "T" /\ ~setup.thinking))

Cancelled == parent \/ cause # "none"

-----------------------------------------------------------------------------
(* Generator.Continue *)

Proceed(l) == step' = l
KeepTurn == UNCHANGED <<setup, parent, run>>

\* The caller cancels, at any time: the cause that came first stays.
Cancel ==
    /\ ~parent /\ step \notin {"answered", "failed"}
    /\ parent' = TRUE
    /\ cause' = IF cause = "none" THEN "parent" ELSE cause
    /\ UNCHANGED <<setup, step, turn, gen, run>>

\* Session.Pos, from the end of the prompt.
Pos == Len(session) - missed

\* GeneratePrompt: the sync of the prompt can fail, or be interrupted.
SyncFails ==
    /\ Proceed("failed")
    /\ UNCHANGED <<cause, turn, gen>>

\* Continue, up to its loop: what it may add.
Continue ==
    LET room == setup.room - Pos IN
    /\ started' = TRUE
    /\ UNCHANGED <<cause, session, missed, text, remaining, block>>
    /\ IF room <= 1
       THEN Proceed("full") /\ UNCHANGED <<left, capped>>
       ELSE /\ Proceed("sample")
            /\ left' = IF remaining > room - 1 THEN room - 1 ELSE remaining
            /\ capped' = (remaining > room - 1)

\* generate: with a budget left, the prompt is synchronised the first time.
Generate ==
    /\ step = "gen" /\ KeepTurn
    /\ \/ /\ remaining = 0
          /\ Proceed("ended")
          /\ UNCHANGED <<cause, turn, gen>>
       \/ remaining > 0 /\ ~started /\ SyncFails
       \/ remaining > 0 /\ Continue

\* The loop is over: at the limit of the context that is an error.
LoopEnds ==
    /\ step = "sample" /\ left = 0
    /\ Proceed(IF capped THEN "full" ELSE "ended")
    /\ KeepTurn /\ UNCHANGED <<cause, turn, gen>>

LoopCancelled ==
    /\ step = "sample" /\ left > 0 /\ Cancelled
    /\ Proceed("stopped")
    /\ KeepTurn /\ UNCHANGED <<cause, turn, gen>>

\* Nothing can be drawn from a session without a checkpoint, or EvalSpeculative
\* fails: no token is told.
NothingDrawn ==
    /\ step = "sample" /\ left > 0 /\ ~Cancelled
    /\ Proceed("stopped")
    /\ KeepTurn /\ UNCHANGED <<cause, turn, gen>>

\* OnToken and the decoder's verdict on it: emit records nothing once the turn
\* has been stopped.
Emitted(k) == IF cause = "complete" THEN text ELSE Append(text, k)
Verdict(t) ==
    IF cause # "none" THEN cause
    ELSE IF Closed(t) \/ Done(t) THEN "complete"
    ELSE IF StanzaInThinking(t) THEN "recover"
    ELSE "none"
OnToken(k) ==
    /\ text' = Emitted(k)
    /\ cause' = Verdict(Emitted(k))
    /\ remaining' = remaining - 1
    /\ left' = left - 1

Drawn(k, md) == [tok |-> k, mode |-> md]

\* The token is evaluated: when that fails, Continue returns the error.
Evaluated(s, k, md) ==
    \/ session' = Append(s, Drawn(k, md)) /\ Proceed("sample") /\ UNCHANGED missed
    \/ session' = Append(s, Drawn(k, "lost")) /\ Proceed("stopped") /\ missed' = missed + 1

\* One token at a time, or a speculation that accepted nothing.
SampleOne(k) ==
    /\ step = "sample" /\ left > 0 /\ ~Cancelled
    /\ IF IsStop(k)
       THEN Proceed("ended") /\ UNCHANGED <<cause, turn, gen>>
       ELSE /\ OnToken(k)
            /\ Evaluated(session, k, Mode(text))
            /\ UNCHANGED <<started, capped, block>>
    /\ KeepTurn

\* EvalSpeculative: the sampled token and the draft that was accepted with it,
\* all of them in the session.
SampleBlock(b) ==
    /\ step = "sample" /\ left > 0 /\ ~Cancelled /\ setup.spec
    /\ ~IsStop(b[1])
    /\ Len(b) <= left /\ Len(b) <= Draft
    /\ session' = session \o [i \in DOMAIN b |-> Drawn(b[i], Mode(text))]
    /\ block' = b
    /\ Proceed("block")
    /\ KeepTurn /\ UNCHANGED <<cause, missed, text, started, remaining, left, capped>>

\* RewindSynced drops the last n tokens.  It rewinds first: when the checkpoint
\* cannot be restored after that, the tokens are gone and the error is Continue's.
Rewound(n) == SubSeq(session, 1, Len(session) - n)

\* A variant of BlockStop that leaves the stop token in the session.
BlockStopKept ==
    /\ step = "block" /\ IsStop(Head(block))
    /\ session' = Rewound(Len(block) - 1)
    /\ block' = <<>>
    /\ Proceed("ended")
    /\ KeepTurn /\ UNCHANGED <<cause, missed, text, started, remaining, left, capped>>

\* A stop token inside the block: it and what follows are taken back.
BlockStop ==
    /\ step = "block" /\ IsStop(Head(block))
    /\ session' = Rewound(Len(block))
    /\ block' = <<>>
    /\ Proceed("ended") \/ Proceed("stopped")      \* RewindSynced's error
    /\ KeepTurn /\ UNCHANGED <<cause, missed, text, started, remaining, left, capped>>

\* A variant of Flipped: the block is kept whatever it changes.
NeverFlipped(t, md) == FALSE

\* Later tokens of the block were proposed in a mode that no longer holds.
Flipped(t, md) == setup.exact /\ Mode(t) # md

\* The next token of the block is kept.  Was it the last, the loop goes on; did
\* it stop the turn, the rest is taken back; did it change the mode under exact
\* sampling, it is evaluated again and the rest is drawn anew.  RewindSynced's
\* error ends the loop as the cancelled context does, or as Eval's error.
BlockToken ==
    /\ step = "block" /\ ~IsStop(Head(block))
    /\ LET k == Head(block)
           md == session[Len(session)].mode
           t == Emitted(k)
       IN /\ OnToken(k)
          /\ \/ /\ Len(block) = 1
                /\ Proceed("sample") /\ block' = <<>>
                /\ UNCHANGED <<session, missed>>
             \/ /\ Len(block) > 1 /\ (parent \/ Verdict(t) # "none")
                /\ Proceed("stopped") /\ block' = <<>>
                /\ session' = Rewound(Len(block) - 1)
                /\ UNCHANGED missed
             \/ /\ Len(block) > 1 /\ ~parent /\ Verdict(t) = "none" /\ Flipped(t, md)
                /\ block' = <<>>
                /\ Evaluated(Rewound(Len(block)), k, md)
             \/ /\ Len(block) > 1 /\ ~parent /\ Verdict(t) = "none" /\ ~Flipped(t, md)
                /\ block' = Tail(block)
                /\ UNCHANGED <<step, session, missed>>
    /\ KeepTurn /\ UNCHANGED <<started, capped>>

-----------------------------------------------------------------------------
(* streamCompletion *)

\* Generation returned without an error, or with any once the turn was complete.
TurnEnds ==
    /\ \/ step = "ended"
       \/ step \in {"full", "stopped"} /\ cause = "complete" /\ ~parent
    /\ Proceed("parse")
    /\ KeepTurn /\ UNCHANGED <<cause, turn, gen>>

TurnFails ==
    /\ step \in {"full", "stopped"}
    /\ parent \/ cause \notin {"complete", "recover"}
    /\ Proceed("failed")
    /\ KeepTurn /\ UNCHANGED <<cause, turn, gen>>

\* A variant of CanInject that does not look at the context.
CanInjectBudget == Len(Inject) < remaining

\* The injection fits the budget and the context with something to spare.
CanInject == Len(Inject) < remaining /\ Len(Inject) < setup.room - Pos

\* thinkRecover: "</think>" is fed to the session, when budget and room allow,
\* and generation goes on.
Recover ==
    /\ step \in {"full", "stopped"} /\ cause = "recover" /\ ~parent
    /\ cause' = "none"
    /\ \/ /\ StanzaInThinking(text) /\ CanInject
          /\ \/ /\ session' = session \o [i \in DOMAIN Inject |-> Drawn(Inject[i], "fed")]
                /\ text' = text \o Inject
                /\ remaining' = remaining - Len(Inject)
                /\ Proceed("gen")
             \/ Proceed("failed") /\ UNCHANGED <<session, text, remaining>>
       \/ /\ ~(StanzaInThinking(text) /\ CanInject)
          /\ Proceed("gen")
          /\ UNCHANGED <<session, text, remaining>>
    /\ KeepTurn /\ UNCHANGED <<missed, started, gen>>

-----------------------------------------------------------------------------
(* ToolLoop.Run *)

\* The context is looked at, the history rendered and a turn begun.
Round ==
    /\ step = "round"
    /\ \/ Proceed("failed") /\ UNCHANGED <<cause, turn>>
       \/ /\ ~parent
          /\ Proceed("gen")
          /\ cause' = "none"
          /\ session' = <<>> /\ missed' = 0 /\ text' = <<>> /\ started' = FALSE
          /\ remaining' = MaxTokens
    /\ KeepTurn /\ UNCHANGED gen

\* ParseAssistantSyntax: a closed block holds calls unless it is malformed; one
\* that only lacks its end may be repaired.
Outcomes == IF Opened(text) THEN {"calls", "malformed"} ELSE {"answer"}

Parse ==
    /\ step = "parse"
    /\ \E o \in Outcomes :
       \/ /\ o = "malformed" /\ ~retried /\ attempt < MaxRounds - 1
          /\ retried' = TRUE /\ attempt' = attempt + 1
          /\ Proceed("round")
          /\ UNCHANGED calls
       \/ /\ o = "answer" \/ (o = "malformed" /\ (retried \/ attempt >= MaxRounds - 1))
          /\ Proceed("answered")
          /\ UNCHANGED run
       \/ /\ o = "calls" /\ attempt >= MaxRounds - 1
          /\ Proceed("failed")
          /\ UNCHANGED run
       \/ /\ o = "calls" /\ attempt < MaxRounds - 1
          /\ calls' \in 1..2 /\ retried' = FALSE
          /\ Proceed("tools")
          /\ UNCHANGED attempt
    /\ UNCHANGED <<setup, parent, cause, turn, gen>>

\* A variant of Execute that does not count the turn.
ExecuteUncounted ==
    /\ step = "tools"
    /\ \/ Proceed("failed") /\ UNCHANGED calls
       \/ calls > 0 /\ ~parent /\ calls' = calls - 1 /\ UNCHANGED step
       \/ calls = 0 /\ Proceed("round") /\ UNCHANGED calls
    /\ UNCHANGED <<setup, parent, cause, turn, gen, attempt, retried>>

\* ExecuteToolCalls: one call after the other; a cancelled context, an unknown
\* tool or a failing handler ends the run.
Execute ==
    /\ step = "tools"
    /\ \/ Proceed("failed") /\ UNCHANGED <<attempt, calls>>
       \/ /\ calls > 0 /\ ~parent
          /\ calls' = calls - 1
          /\ UNCHANGED <<step, attempt>>
       \/ /\ calls = 0
          /\ attempt' = attempt + 1
          /\ Proceed("round")
          /\ UNCHANGED calls
    /\ UNCHANGED <<setup, parent, cause, turn, gen, retried>>

TurnStep ==
    \/ Round \/ Generate \/ LoopEnds \/ LoopCancelled \/ NothingDrawn
    \/ \E k \in Tokens : SampleOne(k)
    \/ \E n \in 1..Draft : \E b \in [1..n -> Tokens] : SampleBlock(b)
    \/ BlockStop \/ BlockToken
    \/ TurnEnds \/ TurnFails \/ Recover
    \/ Parse \/ Execute

TurnNext == TurnStep \/ Cancel

TurnSpec == TurnInit /\ [][TurnNext]_turnVars
TurnFairSpec == TurnSpec /\ WF_turnVars(TurnStep)

-----------------------------------------------------------------------------
(* Properties *)

Toks(s) == [i \in DOMAIN s |-> s[i].tok]

\* When a turn ends every token recorded for it went to the session, in order
\* and once, and nothing else did: no stop token, no rest of a block
\* (generation.go:262-302).  The next sync compares tokens by position and would
\* answer from what was left.  What libds4 has not is a token whose Eval failed
\* and that completed the turn, or asked for the recovery (toolloop.go:72-91):
\* after any other the run fails.
SessionIsText ==
    step = "parse" =>
        /\ Toks(session) = text
        /\ \A i \in DOMAIN session : session[i].mode = "lost" =>
              \/ i = Len(text) /\ (Closed(text) \/ Done(text))
              \/ StanzaInThinking(SubSeq(text, 1, i))

\* Under exact sampling every token was drawn in the mode that the text before
\* it asks for (generation.go:288-300); the injected ones were not drawn, and of
\* a lost one the mark has taken the place of the mode.
DrawnInMode ==
    step = "parse" /\ setup.exact =>
        \A i \in DOMAIN session :
            session[i].mode \in {"fed", "lost", Mode(SubSeq(text, 1, i - 1))}

\* A turn, its recoveries included, keeps to its budget and to the context, and
\* ends with the token that completed it.
WithinBudget ==
    /\ Len(text) + remaining = MaxTokens
    /\ Pos <= setup.room - 1 \/ session = <<>>
    /\ step = "parse" => \A i \in 1..(Len(text) - 1) :
           ~Closed(SubSeq(text, 1, i)) /\ ~Done(SubSeq(text, 1, i))

\* A run returns, whatever the model writes.
RunEnds == <>(step \in {"answered", "failed"})
=============================================================================
