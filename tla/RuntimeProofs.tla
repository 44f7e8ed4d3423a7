---------------------------- MODULE RuntimeProofs ----------------------------
(***************************************************************************)
(* Proofs about what runs for one session, whatever the constants are: the *)
(* turn (ToolTurn), the callbacks (SessionHooks), what the session holds   *)
(* (SessionCheckpoint), its scratchpad (ScratchStore) and the images of    *)
(* its prompts (ImageCache).                                               *)
(***************************************************************************)
EXTENDS ToolTurn, SessionHooks, SessionCheckpoint, ScratchStore, ImageCache, SequenceTheorems,
        FiniteSetTheorems, TLAPS

-----------------------------------------------------------------------------
(* The turn *)

\* What the configuration of a run may be.
TurnBounds ==
    /\ MaxTokens \in Nat /\ Draft \in Nat /\ MaxRounds \in Nat \ {0}
    /\ Rooms \subseteq Int

\* A turn is being generated, or was.
Active == {"gen", "sample", "block", "ended", "full", "stopped", "parse"}

\* The session has the text of the turn, and after it a speculative block of
\* which nothing has been looked at.
Aligned ==
    /\ step = "block" <=> block # <<>>
    /\ step \in Active =>
          /\ Len(session) = Len(text) + Len(block)
          /\ \A i \in 1..Len(text) : session[i].tok = text[i]
          /\ \A i \in 1..Len(block) : session[Len(text) + i].tok = block[i]

\* What may still be added fits the budget and the context.
Fitting ==
    /\ Len(text) + remaining = MaxTokens
    /\ Pos <= setup.room - 1 \/ session = <<>>
    /\ step \in {"sample", "block"} => left <= remaining /\ Len(text) - missed + left <= setup.room - 1
    /\ step = "block" => Len(block) <= left
    /\ step = "tools" => attempt < MaxRounds - 1

\* Nothing has been added to a text that was complete; a cause that lets a turn
\* go on was noted for one that is not.
OpenText(t) == ~Closed(t) /\ ~Done(t)
Unfinished ==
    /\ cause = "parent" => parent
    /\ step \in Active =>
          /\ \A i \in 1..(Len(text) - 1) : OpenText(SubSeq(text, 1, i))
          /\ cause \in {"none", "recover"} => OpenText(text)
    /\ step = "block" => OpenText(text) /\ cause \in {"none", "parent"}

\* Every token of the text was drawn as the text before it asks for, and a
\* block that is left as the text does now.
Modal ==
    step \in Active /\ setup.exact =>
        /\ \A i \in 1..Len(text) : session[i].mode \in {"fed", "lost", Mode(SubSeq(text, 1, i - 1))}
        /\ \A i \in 1..Len(block) : session[Len(text) + i].mode = Mode(text)

\* A token was lost where the turn was complete or the recovery asked for, or it
\* is the last one and the turn ends with its error.
Excused(t) == StanzaInThinking(t) \/ ~OpenText(t)
Masked ==
    step \in Active =>
        /\ \A i \in 1..Len(text) : session[i].mode = "lost" =>
              \/ Excused(SubSeq(text, 1, i))
              \/ i = Len(text) /\ step = "stopped" /\ cause \in {"none", "parent"}
        /\ \A i \in 1..Len(block) : session[Len(text) + i].mode # "lost"

TurnInv == TurnTypeOK /\ Aligned /\ Fitting /\ Unfinished /\ Modal /\ Masked

\* What the decoder says of a text depends on the setup of the run only.
LEMMA ModeRigid ==
    ASSUME setup' = setup
    PROVE  \A t \in Seq(Tokens) : Mode(t)' = Mode(t)
BY DEF Mode, WantsGreedy, Opened, Closed, Body, Has, First

\* Whether a text is open depends on the text alone.
LEMMA OpenRigid ==
    ASSUME setup' = setup
    PROVE  \A t \in Seq(Tokens) : OpenText(t)' <=> OpenText(t)
BY DEF OpenText, Closed, Done, Body, Has, First

\* And so does what excuses a lost token.
LEMMA ExcusedRigid ==
    ASSUME setup' = setup
    PROVE  \A t \in Seq(Tokens) : Excused(t)' <=> Excused(t)
<1>1. \A t \in Seq(Tokens) : StanzaInThinking(t)' <=> StanzaInThinking(t)
    BY DEF StanzaInThinking, InThinking, Has
<1>2. QED
    BY <1>1, OpenRigid DEF Excused

\* No token is drawn as lost.
LEMMA ModeDrawn ==
    ASSUME NEW t
    PROVE  Mode(t) \in {"greedy", "sampled"}
BY DEF Mode

-----------------------------------------------------------------------------
(* Texts *)

Drawing == [tok : Tokens, mode : Modes]

\* The empty text is complete.
LEMMA NothingOpen == OpenText(<<>>)
<1>1. CASE ~setup.thinking
    BY <1>1 DEF OpenText, Closed, Done, Body, Has
<1>2. CASE setup.thinking
    <2>1. Body(<<>>) = <<>>
        BY <1>2 DEF Body, Has
    <2>2. QED
        BY <2>1 DEF OpenText, Closed, Done, Has
<1>3. QED
    BY <1>1, <1>2

\* A text that grew has the prefixes it had.
LEMMA Grown ==
    ASSUME NEW t \in Seq(Tokens), NEW k \in Tokens
    PROVE  /\ Append(t, k) \in Seq(Tokens) /\ Len(Append(t, k)) = Len(t) + 1
           /\ \A i \in 1..Len(t) : Append(t, k)[i] = t[i]
           /\ Append(t, k)[Len(t) + 1] = k
           /\ \A i \in 0..Len(t) : SubSeq(Append(t, k), 1, i) = SubSeq(t, 1, i)
           /\ SubSeq(t, 1, Len(t)) = t
<1>1. \A i \in 0..Len(t) : SubSeq(Append(t, k), 1, i) = SubSeq(t, 1, i)
    <2> SUFFICES ASSUME NEW i \in 0..Len(t) PROVE SubSeq(Append(t, k), 1, i) = SubSeq(t, 1, i)
        OBVIOUS
    <2>1. /\ SubSeq(t, 1, i) \in Seq(Tokens) /\ Len(SubSeq(t, 1, i)) = i
          /\ \A j \in 1..i : SubSeq(t, 1, i)[j] = t[j]
        OBVIOUS
    <2>2. /\ SubSeq(Append(t, k), 1, i) \in Seq(Tokens) /\ Len(SubSeq(Append(t, k), 1, i)) = i
          /\ \A j \in 1..i : SubSeq(Append(t, k), 1, i)[j] = t[j]
        OBVIOUS
    <2>3. QED
        BY <2>1, <2>2, SeqEqual
<1>2. SubSeq(t, 1, Len(t)) = t
    OBVIOUS
<1>3. QED
    BY <1>1, <1>2

\* So what was open at every point before stays so.
LEMMA GrownOpen ==
    ASSUME NEW t \in Seq(Tokens), NEW k \in Tokens, OpenText(t),
           \A i \in 1..(Len(t) - 1) : OpenText(SubSeq(t, 1, i))
    PROVE  \A i \in 1..(Len(Append(t, k)) - 1) : OpenText(SubSeq(Append(t, k), 1, i))
<1> SUFFICES ASSUME NEW i \in 1..(Len(Append(t, k)) - 1) PROVE OpenText(SubSeq(Append(t, k), 1, i))
    OBVIOUS
<1>1. i \in 0..Len(t) /\ SubSeq(Append(t, k), 1, i) = SubSeq(t, 1, i)
    BY Grown
<1>2. CASE i = Len(t)
    BY <1>1, <1>2, Grown
<1>3. CASE i # Len(t)
    <2>1. i \in 1..(Len(t) - 1)
        BY <1>1, <1>3
    <2>2. QED
        BY <1>1, <2>1
<1>4. QED
    BY <1>2, <1>3

\* The end of the reasoning opens an answer that has nothing yet.
LEMMA InjectOpen ==
    ASSUME NEW t \in Seq(Tokens), StanzaInThinking(t)
    PROVE  OpenText(Append(t, "T")) /\ OpenText(Append(Append(t, "T"), "x"))
<1> DEFINE u == Append(t, "T")
           w == Append(u, "x")
           n == Len(t) + 1
<1>1. setup.thinking /\ \A i \in 1..Len(t) : t[i] # "T"
    BY DEF StanzaInThinking, InThinking, Has
<1>2. /\ u \in Seq(Tokens) /\ Len(u) = n /\ u[n] = "T" /\ \A i \in 1..Len(t) : u[i] = t[i]
      /\ w \in Seq(Tokens) /\ Len(w) = n + 1 /\ w[n] = "T" /\ w[n + 1] = "x"
      /\ \A i \in 1..Len(t) : w[i] = t[i]
    BY DEF Tokens
<1> HIDE DEF u, w
<1>3. ASSUME NEW v \in Seq(Tokens), Len(v) >= n, v[n] = "T", \A i \in 1..Len(t) : v[i] = t[i]
      PROVE  Has(v, "T") /\ First(v, "T") = n
    <2>1. n \in DOMAIN v /\ \A j \in 1..(n - 1) : v[j] # "T"
        BY <1>1, <1>3
    <2>2. \A i \in DOMAIN v : v[i] = "T" /\ (\A j \in 1..(i - 1) : v[j] # "T") => i = n
        BY <1>3, <2>1
    <2>3. First(v, "T") = n
        BY <1>3, <2>1, <2>2 DEF First
    <2>4. QED
        BY <1>3, <2>1, <2>3 DEF Has
<1>4. Body(u) = <<>>
    <2> HIDE DEF n
    <2>1. Body(u) = SubSeq(u, n + 1, n)
        BY <1>1, <1>2, <1>3 DEF Body
    <2>2. QED
        BY <1>2, <2>1
<1>5. Body(w) = <<"x">>
    <2>1. n \in Nat /\ n + 1 >= n
        OBVIOUS
    <2> HIDE DEF n
    <2>2. Has(w, "T") /\ First(w, "T") = n
        BY <1>2, <1>3, <2>1
    <2>3. Body(w) = SubSeq(w, n + 1, n + 1)
        BY <1>1, <1>2, <2>2 DEF Body
    <2>4. SubSeq(w, n + 1, n + 1) = <<w[n + 1]>>
        <3>1. n + 1 \in 1..Len(w) /\ w \in Seq(Tokens)
            BY <1>2, <2>1
        <3>2. \A i \in 1..Len(w) : /\ SubSeq(w, i, i) \in Seq(Tokens) /\ Len(SubSeq(w, i, i)) = 1
                                    /\ SubSeq(w, i, i)[1] = w[i]
            BY <3>1
        <3>3. \A v \in Seq(Tokens) : Len(v) = 1 => v = <<v[1]>>
            OBVIOUS
        <3>4. SubSeq(w, n + 1, n + 1) = <<SubSeq(w, n + 1, n + 1)[1]>>
            BY <3>1, <3>2, <3>3
        <3>5. SubSeq(w, n + 1, n + 1)[1] = w[n + 1]
            BY <3>1, <3>2
        <3>6. QED
            BY <3>4, <3>5
    <2>5. QED
        BY <1>2, <2>3, <2>4
<1>6. QED
    BY <1>4, <1>5 DEF OpenText, Closed, Done, Has, u, w

\* The session without its last tokens.
LEMMA RewoundType ==
    ASSUME TurnTypeOK, NEW n \in 0..Len(session)
    PROVE  /\ Rewound(n) \in Seq(Drawing) /\ Len(Rewound(n)) = Len(session) - n
           /\ \A i \in 1..(Len(session) - n) : Rewound(n)[i] = session[i]
<1>1. session \in Seq(Drawing) /\ Len(session) - n \in 0..Len(session)
    BY DEF TurnTypeOK, Drawing
<1>2. \A m \in 0..Len(session) :
          /\ SubSeq(session, 1, m) \in Seq(Drawing) /\ Len(SubSeq(session, 1, m)) = m
          /\ \A i \in 1..m : SubSeq(session, 1, m)[i] = session[i]
    BY <1>1
<1>3. QED
    BY <1>1, <1>2 DEF Rewound

\* What a round makes of its text is one of the verdicts.
LEMMA VerdictType ==
    ASSUME TurnTypeOK, NEW t
    PROVE  /\ Verdict(t) \in {"none", "parent", "complete", "recover"}
           /\ cause = "none" /\ Verdict(t) \in {"none", "recover"} => OpenText(t)
           /\ cause = "none" => Verdict(t) # "parent"
           /\ cause # "none" => Verdict(t) = cause
           /\ cause = "none" => Verdict(t) = "none" \/ Excused(t)
<1>1. CASE cause # "none"
    BY <1>1 DEF TurnTypeOK, Verdict
<1>2. CASE cause = "none" /\ (Closed(t) \/ Done(t))
    BY <1>2 DEF Verdict, Excused, OpenText
<1>3. CASE cause = "none" /\ ~(Closed(t) \/ Done(t))
    <2>1. Verdict(t) = IF StanzaInThinking(t) THEN "recover" ELSE "none"
        BY <1>3 DEF Verdict
    <2>2. QED
        BY <1>3, <2>1 DEF OpenText, Excused
<1>4. QED
    BY <1>1, <1>2, <1>3

-----------------------------------------------------------------------------
(* Steps *)

\* A step that adds nothing, and goes where nothing more is looked for.
LEMMA Moved ==
    ASSUME TurnInv, TurnTypeOK', UNCHANGED <<setup, session, missed, text, remaining, block>>,
           step' = "block" <=> step = "block", step = "block" => left' = left,
           step' = "sample" => left' <= remaining /\ Len(text) - missed + left' <= setup.room - 1,
           step = "stopped" /\ cause \in {"none", "parent"} /\ step' \in Active
               => step' = "stopped" /\ cause' \in {"none", "parent"},
           step' \in Active => step \in Active,
           cause' = "parent" => parent',
           step' = "tools" => attempt' < MaxRounds - 1,
           \/ cause' \in {cause, "parent"}
           \/ cause' = "none" /\ cause = "recover" /\ step # "block"
    PROVE  TurnInv'
<1>1. TurnTypeOK /\ text \in Seq(Tokens) /\ \A i \in 1..Len(text) : SubSeq(text, 1, i) \in Seq(Tokens) /\ SubSeq(text, 1, i - 1) \in Seq(Tokens)
    BY DEF TurnInv, TurnTypeOK
<1>2. Aligned' /\ Fitting'
    BY DEF TurnInv, Aligned, Fitting, Active, Pos
<1>3. Unfinished'
    <2>1. \A t \in Seq(Tokens) : OpenText(t)' <=> OpenText(t)
        BY OpenRigid
    <2>2. QED
        <3>1. step' \in Active => \A i \in 1..(Len(text') - 1) : OpenText(SubSeq(text, 1, i))'
            <4> SUFFICES ASSUME step' \in Active, NEW i \in 1..(Len(text) - 1)
                         PROVE  OpenText(SubSeq(text, 1, i))'
                OBVIOUS
            <4>1. step \in Active /\ OpenText(SubSeq(text, 1, i))
                BY DEF TurnInv, Unfinished
            <4>2. SubSeq(text, 1, i) \in Seq(Tokens) /\ text' = text
                BY <1>1
            <4>3. QED
                BY <2>1, <4>1, <4>2
        <3>2. OpenText(text)' <=> OpenText(text)
            BY <1>1, <2>1
        <3>3. step = "block" => step \in Active /\ cause # "recover"
            BY DEF TurnInv, Unfinished, Active
        <3>4. cause' = "none" => cause \in {"none", "recover"}
            OBVIOUS
        <3>5. cause' = "recover" => cause = "recover"
            OBVIOUS
        <3>6. cause = "parent" => parent
            BY DEF TurnInv, Unfinished
        <3>7. step' = "block" => step = "block"
            OBVIOUS
        <3>8. QED
            BY <3>1, <3>2, <3>3, <3>4, <3>5, <3>6, <3>7 DEF TurnInv, Unfinished
<1>4. Modal'
    <2>1. \A t \in Seq(Tokens) : Mode(t)' = Mode(t)
        BY ModeRigid
    <2>2. QED
        BY <1>1, <2>1 DEF TurnInv, Modal
<1>5. Masked'
    <2>1. \A i \in 1..Len(text) : Excused(SubSeq(text, 1, i))' <=> Excused(SubSeq(text, 1, i))
        BY <1>1, ExcusedRigid
    <2>2. QED
        BY <2>1 DEF TurnInv, Masked
<1>6. QED
    BY <1>2, <1>3, <1>4, <1>5 DEF TurnInv

\* The numbers that a turn counts with.
LEMMA TurnNumbers ==
    ASSUME TurnBounds, TurnTypeOK
    PROVE  setup.room \in Int /\ remaining \in Int /\ left \in Int /\ missed \in Int
<1>1. setup.room \in Rooms /\ Rooms \subseteq Int
    BY DEF TurnTypeOK, Setups, TurnBounds
<1>2. setup.room \in Int
    BY <1>1
<1>3. MaxTokens \in Nat /\ remaining \in 0..MaxTokens /\ left \in 0..MaxTokens
    BY DEF TurnTypeOK, TurnBounds
<1>4. remaining \in Int /\ left \in Int /\ missed \in Int
    BY <1>3 DEF TurnTypeOK
<1>5. QED
    BY <1>2, <1>4

\* A step keeps the types.
LEMMA TurnTyped ==
    ASSUME TurnBounds, TurnInv, [TurnNext]_turnVars
    PROVE  TurnTypeOK'
<1> USE DEF TurnBounds, turn, gen, run, turnVars, KeepTurn, Proceed, TurnTypeOK
<1>0. TurnTypeOK /\ setup.room \in Int
    BY DEF TurnInv, Setups
<1>1. CASE UNCHANGED turnVars
    BY <1>0, <1>1
<1>2. CASE Cancel
    BY <1>0, <1>2 DEF Cancel
<1>3. CASE Round
    <2>1. <<>> \in Seq([tok : Tokens, mode : Modes]) /\ <<>> \in Seq(Tokens) /\ MaxTokens \in 0..MaxTokens
        OBVIOUS
    <2>2. /\ session' \in Seq([tok : Tokens, mode : Modes]) /\ text' \in Seq(Tokens) /\ block' = block
          /\ remaining' \in 0..MaxTokens
        BY <1>0, <1>3, <2>1 DEF Round
    <2>3. missed' \in Nat
        BY <1>0, <1>3 DEF Round
    <2>4. QED
        BY <1>0, <1>3, <2>2, <2>3 DEF Round
<1>4. CASE Generate
    <2>1. Pos \in Int
        BY <1>0 DEF Pos
    <2>2. UNCHANGED <<setup, parent, cause, session, missed, text, remaining, block, attempt, retried, calls>>
        BY <1>4 DEF Generate, SyncFails, Continue
    <2>3. left' \in 0..MaxTokens
        <3>1. \/ left' = left \/ left' = remaining
              \/ /\ left' = setup.room - Pos - 1 /\ setup.room - Pos > 1
                 /\ remaining > setup.room - Pos - 1
            <4>1. left' = left \/ Continue
                BY <1>4 DEF Generate, SyncFails
            <4>2. CASE Continue
                <5>1. CASE setup.room - Pos <= 1
                    BY <4>2, <5>1 DEF Continue
                <5>2. CASE ~(setup.room - Pos <= 1)
                    <6>1. left' = IF remaining > setup.room - Pos - 1
                                  THEN setup.room - Pos - 1 ELSE remaining
                        BY <4>2, <5>2 DEF Continue
                    <6>2. setup.room - Pos > 1
                        BY <1>0, <2>1, <5>2
                    <6>3. QED
                        BY <6>1, <6>2
                <5>3. QED
                    BY <5>1, <5>2
            <4>3. QED
                BY <4>1, <4>2
        <3>2. QED
            BY <1>0, <2>1, <3>1
    <2>4. /\ step' \in {"ended", "failed", "full", "sample"}
          /\ started' \in BOOLEAN /\ capped' \in BOOLEAN
        <3>1. step' \in {"ended", "failed", "full", "sample"}
            BY <1>4 DEF Generate, SyncFails, Continue
        <3>2. started' = started \/ started' = TRUE
            BY <1>4 DEF Generate, SyncFails, Continue
        <3>3. capped' = capped \/ capped' = (remaining > setup.room - Pos - 1)
            BY <1>4, Zenon DEF Generate, SyncFails, Continue
        <3>4. QED
            <4>1. (remaining > setup.room - Pos - 1) \in BOOLEAN
                OBVIOUS
            <4>2. capped' \in BOOLEAN
                BY <1>0, <3>3, <4>1
            <4>3. QED
                BY <1>0, <3>1, <3>2, <4>2
    <2>5. QED
        BY <1>0, <2>2, <2>3, <2>4
<1>5. CASE LoopEnds \/ LoopCancelled \/ NothingDrawn \/ TurnEnds \/ TurnFails
    BY <1>0, <1>5 DEF LoopEnds, LoopCancelled, NothingDrawn, TurnEnds, TurnFails
<1>6. ASSUME NEW k \in Tokens, OnToken(k), left > 0, left <= remaining
      PROVE  /\ text' \in Seq(Tokens) /\ cause' \in {"none", "parent", "complete", "recover"}
             /\ remaining' \in 0..MaxTokens /\ left' \in 0..MaxTokens
    <2>1. text' \in Seq(Tokens)
        BY <1>0, <1>6 DEF OnToken, Emitted
    <2>2. cause' \in {"none", "parent", "complete", "recover"}
        BY <1>0, <1>6, VerdictType DEF OnToken
    <2>3. QED
        BY <1>0, <1>6, <2>1, <2>2 DEF OnToken
<1>7. ASSUME NEW k \in Tokens, SampleOne(k)
      PROVE  TurnTypeOK'
    <2>1. left <= remaining
        BY <1>7 DEF TurnInv, Fitting, SampleOne
    <2>2. CASE IsStop(k)
        BY <1>0, <1>7, <2>2 DEF SampleOne
    <2>3. CASE ~IsStop(k)
        <3>1. OnToken(k)
            BY <1>7, <2>3 DEF SampleOne
        <3>2. /\ text' \in Seq(Tokens) /\ cause' \in {"none", "parent", "complete", "recover"}
              /\ remaining' \in 0..MaxTokens /\ left' \in 0..MaxTokens
            BY <1>6, <1>7, <2>1, <3>1 DEF SampleOne
        <3>3. session' \in Seq([tok : Tokens, mode : Modes])
            <4>1. \A md \in {Mode(text), "lost"} : Drawn(k, md) \in [tok : Tokens, mode : Modes]
                BY <1>7, ModeDrawn DEF Drawn, Modes
            <4>2. \A md \in {Mode(text), "lost"} :
                      Append(session, Drawn(k, md)) \in Seq([tok : Tokens, mode : Modes])
                BY <1>0, <4>1
            <4>3. QED
                BY <1>7, <2>3, <4>2 DEF SampleOne, Evaluated
        <3>4. step' \in {"sample", "stopped"} /\ missed' \in Nat
            BY <1>0, <1>7, <2>3 DEF SampleOne, Evaluated
        <3>5. QED
            BY <1>0, <1>7, <2>3, <3>2, <3>3, <3>4 DEF SampleOne
    <2>4. QED
        BY <2>2, <2>3
<1>8. ASSUME NEW n \in 1..Draft, NEW b \in [1..n -> Tokens], SampleBlock(b)
      PROVE  TurnTypeOK'
    <2>1. b \in Seq(Tokens) /\ Len(b) = n
        OBVIOUS
    <2>2. [i \in DOMAIN b |-> Drawn(b[i], Mode(text))] \in Seq([tok : Tokens, mode : Modes])
        BY <2>1 DEF Drawn, Mode, Modes
    <2>3. session' \in Seq([tok : Tokens, mode : Modes])
        BY <1>0, <1>8, <2>2 DEF SampleBlock
    <2>4. QED
        BY <1>0, <1>8, <2>1, <2>3 DEF SampleBlock
<1>9. CASE BlockStop
    <2>1. Len(block) \in 0..Len(session)
        BY <1>0, <1>9 DEF TurnInv, Aligned, Active, BlockStop
    <2>2. session' \in Seq([tok : Tokens, mode : Modes])
        BY <1>0, <1>9, <2>1, RewoundType DEF BlockStop, Drawing
    <2>3. QED
        BY <1>0, <1>9, <2>2 DEF BlockStop
<1>10. CASE BlockToken
    <2>1. /\ block \in Seq(Tokens) /\ block # <<>> /\ Len(block) \in 1..Len(session) /\ Head(block) \in Tokens
          /\ Tail(block) \in Seq(Tokens) /\ Len(block) - 1 \in 0..Len(session)
        BY <1>0, <1>10 DEF TurnInv, Aligned, Active, BlockToken
    <2>2. left > 0 /\ left <= remaining
        BY <1>0, <1>10, <2>1 DEF TurnInv, Fitting, BlockToken
    <2>3. OnToken(Head(block))
        BY <1>10 DEF BlockToken
    <2>4. /\ text' \in Seq(Tokens) /\ cause' \in {"none", "parent", "complete", "recover"}
          /\ remaining' \in 0..MaxTokens /\ left' \in 0..MaxTokens
        BY <1>6, <2>1, <2>2, <2>3
    <2>5. /\ Drawn(Head(block), session[Len(session)].mode) \in Drawing
          /\ Drawn(Head(block), "lost") \in Drawing
        <3>1. session \in Seq(Drawing) /\ Len(session) \in 1..Len(session)
            BY <1>0, <2>1 DEF Drawing
        <3>2. session[Len(session)] \in Drawing
            BY <3>1
        <3>3. QED
            BY <2>1, <3>2 DEF Drawing, Drawn, Modes
    <2>6. Rewound(Len(block)) \in Seq(Drawing) /\ Rewound(Len(block) - 1) \in Seq(Drawing)
        <3>1. TurnTypeOK /\ Len(block) \in 0..Len(session) /\ Len(block) - 1 \in 0..Len(session)
            BY <1>0, <2>1
        <3>2. QED
            BY ONLY <3>1, RewoundType
    <2>7. session' \in Seq(Drawing)
        <3>1. /\ Append(Rewound(Len(block)), Drawn(Head(block), session[Len(session)].mode)) \in Seq(Drawing)
              /\ Append(Rewound(Len(block)), Drawn(Head(block), "lost")) \in Seq(Drawing)
            BY <2>5, <2>6
        <3>2. \/ session' = session \/ session' = Rewound(Len(block) - 1)
              \/ session' = Append(Rewound(Len(block)), Drawn(Head(block), session[Len(session)].mode))
              \/ session' = Append(Rewound(Len(block)), Drawn(Head(block), "lost"))
            BY <1>10 DEF BlockToken, Evaluated
        <3>3. QED
            BY <1>0, <2>6, <3>1, <3>2 DEF Drawing
    <2>8. block' \in Seq(Tokens) /\ step' \in {"sample", "stopped", "block"} /\ missed' \in Nat
        <3>1. block' = <<>> \/ block' = Tail(block)
            BY <1>10 DEF BlockToken
        <3>2. <<>> \in Seq(Tokens)
            OBVIOUS
        <3>3. step' \in {"sample", "stopped", "block"} /\ missed' \in {missed, missed + 1}
            BY <1>10, Zenon DEF BlockToken, Evaluated
        <3>4. missed' \in Nat
            BY <1>0, <3>3
        <3>5. block' \in Seq(Tokens)
            BY <2>1, <3>1, <3>2
        <3>6. QED
            BY <3>3, <3>4, <3>5
    <2>9. UNCHANGED <<setup, parent, started, capped, attempt, retried, calls>>
        BY <1>10 DEF BlockToken
    <2>10. QED
        BY <1>0, <2>4, <2>7, <2>8, <2>9 DEF Drawing
<1>11. CASE Recover
    <2>1. [i \in DOMAIN Inject |-> Drawn(Inject[i], "fed")] \in Seq([tok : Tokens, mode : Modes])
        BY DEF Inject, Drawn, Tokens, Modes
    <2>2. Inject \in Seq(Tokens) /\ Len(Inject) = 2
        BY DEF Inject, Tokens
    <2>3. session' \in Seq([tok : Tokens, mode : Modes]) /\ text' \in Seq(Tokens)
        <3>1. /\ session \o [i \in DOMAIN Inject |-> Drawn(Inject[i], "fed")] \in Seq([tok : Tokens, mode : Modes])
              /\ text \o Inject \in Seq(Tokens)
            BY <1>0, <2>1, <2>2
        <3>2. QED
            BY <1>0, <1>11, <3>1 DEF Recover
    <2>4. remaining' \in 0..MaxTokens
        BY <1>0, <1>11, <2>2 DEF Recover, CanInject
    <2>5. QED
        BY <1>0, <1>11, <2>3, <2>4 DEF Recover
<1>12. CASE Parse
    <2>1. UNCHANGED <<setup, parent, cause, session, missed, text, started, remaining, left, capped, block>>
        BY <1>12 DEF Parse
    <2>2. \/ retried' = TRUE /\ step' = "round" /\ calls' = calls /\ attempt' = attempt + 1 /\ attempt < MaxRounds - 1
          \/ retried' = retried /\ step' \in {"answered", "failed"} /\ calls' = calls /\ attempt' = attempt
          \/ retried' = FALSE /\ step' = "tools" /\ calls' \in 1..2 /\ attempt' = attempt
        BY <1>12 DEF Parse
    <2>3. retried' \in BOOLEAN
        BY <1>0, <2>2
    <2>4. attempt' \in 0..(MaxRounds - 1) /\ calls' \in 0..2
        BY <1>0, <2>2
    <2>5. step' \in {"round", "answered", "failed", "tools"}
        BY <2>2
    <2>6. QED
        BY <1>0, <2>1, <2>3, <2>4, <2>5
<1>13. CASE Execute
    BY <1>0, <1>13 DEF Execute, TurnInv, Fitting
<1>14. QED
    BY <1>1, <1>2, <1>3, <1>4, <1>5, <1>7, <1>8, <1>9, <1>10, <1>11, <1>12, <1>13 DEF TurnNext, TurnStep

\* The steps that add nothing to the turn.
LEMMA StepMoves ==
    ASSUME TurnBounds, TurnInv, TurnTypeOK',
           \/ UNCHANGED turnVars \/ Cancel \/ Generate \/ LoopEnds \/ LoopCancelled \/ NothingDrawn
           \/ TurnEnds \/ TurnFails \/ Parse \/ Execute
    PROVE  TurnInv'
<1> USE DEF turn, gen, run, turnVars, KeepTurn, Proceed
<1>0. /\ TurnTypeOK /\ setup.room \in Int /\ Len(session) \in Nat /\ Len(text) \in Nat
      /\ remaining \in Int /\ left \in Int /\ missed \in Int
    <2>1. TurnTypeOK /\ MaxTokens \in Nat
        BY DEF TurnInv, TurnBounds
    <2>2. setup.room \in Int /\ remaining \in Int /\ left \in Int /\ missed \in Int
        BY <2>1, TurnNumbers
    <2>3. Len(session) \in Nat /\ Len(text) \in Nat
        BY <2>1 DEF TurnTypeOK
    <2>4. QED
        BY <2>1, <2>2, <2>3
<1>1. /\ cause = "parent" => parent
      /\ step \in {"sample", "block"} => left <= remaining /\ Len(text) - missed + left <= setup.room - 1
      /\ step = "tools" => attempt < MaxRounds - 1
      /\ step \in Active /\ step # "block" => Len(session) = Len(text)
    <2>1. block = <<>> => Len(block) = 0
        OBVIOUS
    <2>2. QED
        BY <1>0, <2>1 DEF TurnInv, Unfinished, Fitting, Aligned
<1>2. CASE UNCHANGED turnVars
    BY <1>1, <1>2, Moved
<1>3. CASE Cancel
    BY <1>1, <1>3, Moved DEF Cancel
<1>4. CASE Generate
    <2>1. UNCHANGED <<setup, parent, cause, session, missed, text, remaining, block, attempt>> /\ step = "gen"
        BY <1>4 DEF Generate, SyncFails, Continue
    <2>2. step' \in {"ended", "failed", "full", "sample"}
        BY <1>4 DEF Generate, SyncFails, Continue
    <2>3. step' = "sample" => left' <= remaining /\ Len(text) - missed + left' <= setup.room - 1
        <3> SUFFICES ASSUME step' = "sample" PROVE left' <= remaining /\ Len(text) - missed + left' <= setup.room - 1
            OBVIOUS
        <3>1. Continue
            BY <1>4 DEF Generate, SyncFails
        <3>2. ~(setup.room - Pos <= 1)
            BY <3>1 DEF Continue
        <3>3. left' = IF remaining > setup.room - Pos - 1
                      THEN setup.room - Pos - 1 ELSE remaining
            BY <3>1, <3>2 DEF Continue
        <3>4. Len(session) = Len(text)
            BY <1>1, <2>1 DEF Active
        <3>5. QED
            BY <1>0, <3>3, <3>4 DEF Pos
    <2>4. QED
        BY <1>1, <2>1, <2>2, <2>3, Moved DEF Active
<1>5. CASE LoopEnds
    BY <1>1, <1>5, Moved DEF LoopEnds, Active
<1>6. CASE LoopCancelled
    BY <1>1, <1>6, Moved DEF LoopCancelled, Active
<1>7. CASE TurnEnds
    BY <1>1, <1>7, Moved DEF TurnEnds, Active
<1>8. CASE TurnFails
    BY <1>1, <1>8, Moved DEF TurnFails, Active
<1>9. CASE Parse
    <2>1. UNCHANGED <<setup, parent, cause, session, missed, text, remaining, block>> /\ step = "parse"
        BY <1>9 DEF Parse
    <2>2. \/ step' \in {"round", "answered", "failed"}
          \/ step' = "tools" /\ attempt' = attempt /\ attempt < MaxRounds - 1
        BY <1>9 DEF Parse
    <2>3. QED
        BY <1>1, <2>1, <2>2, Moved DEF Active
<1>10. CASE Execute
    <2>1. UNCHANGED <<setup, parent, cause, session, missed, text, remaining, block>> /\ step = "tools"
        BY <1>10 DEF Execute
    <2>2. \/ step' \in {"round", "failed"}
          \/ step' = "tools" /\ attempt' = attempt
        BY <1>10, <2>1, Zenon DEF Execute
    <2>3. QED
        BY <1>1, <2>1, <2>2, Moved DEF Active
<1>11. CASE NothingDrawn
    BY <1>1, <1>11, Moved DEF NothingDrawn, Active
<1>12. QED
    BY <1>2, <1>3, <1>4, <1>5, <1>6, <1>7, <1>8, <1>9, <1>10, <1>11

\* A turn begins with nothing, or the run fails.
LEMMA StepRound ==
    ASSUME TurnBounds, TurnInv, TurnTypeOK', Round
    PROVE  TurnInv'
<1> USE DEF turn, gen, run, KeepTurn, Proceed
<1>1. CASE step' = "failed"
    BY <1>1, Moved DEF Round, TurnInv, Unfinished, Active
<1>2. CASE step' = "gen"
    <2>1. /\ setup' = setup /\ step = "round" /\ cause' = "none" /\ session' = <<>> /\ text' = <<>>
          /\ missed' = 0 /\ remaining' = MaxTokens /\ block' = block
        BY <1>2 DEF Round
    <2>2. block = <<>>
        BY <2>1 DEF TurnInv, Aligned
    <2>3. Len(text') = 0 /\ Len(block') = 0 /\ Len(session') = 0
        BY <2>1, <2>2
    <2>4. Aligned' /\ Fitting' /\ Modal' /\ Masked'
        BY <1>2, <2>1, <2>2, <2>3 DEF Aligned, Fitting, Modal, Masked, TurnBounds
    <2>5. OpenText(<<>>)' <=> OpenText(<<>>)
        <3>1. <<>> \in Seq(Tokens)
            OBVIOUS
        <3>2. QED
            BY <2>1, <3>1, OpenRigid
    <2>6. Unfinished'
        BY <1>2, <2>1, <2>3, <2>5, NothingOpen DEF Unfinished
    <2>7. QED
        BY <2>4, <2>6 DEF TurnInv
<1>3. QED
    BY <1>1, <1>2 DEF Round

\* One more token of the text: what was complete before it stops it, so that
\* everything before it was open; the mode each was drawn in is what it was.
LEMMA Grew ==
    ASSUME TurnInv, TurnTypeOK', NEW k \in Tokens, OnToken(k), setup' = setup, parent' = parent,
           step \in {"sample", "block"}, cause \in {"none", "parent"}, OpenText(text)
    PROVE  /\ text' = Append(text, k) /\ Len(text') = Len(text) + 1
           /\ \A i \in 1..Len(text) : text'[i] = text[i]
           /\ text'[Len(text) + 1] = k
           /\ Unfinished' \/ step' = "block"
           /\ cause' = "parent" => parent'
           /\ \A i \in 1..(Len(text') - 1) : OpenText(SubSeq(text, 1, i))'
           /\ cause' = "none" => OpenText(text)'
           /\ \A i \in 1..Len(text) : Mode(SubSeq(text, 1, i - 1))' = Mode(SubSeq(text, 1, i - 1))
           /\ \A i \in 1..Len(text') : i = Len(text) + 1 => Mode(SubSeq(text, 1, i - 1))' = Mode(text)
           /\ \A i \in 1..Len(text) : Excused(SubSeq(text, 1, i))' <=> Excused(SubSeq(text, 1, i))
           /\ cause' \in {"none", "parent"} \/ Excused(SubSeq(text, 1, Len(text)))'
<1>0. TurnTypeOK /\ text \in Seq(Tokens) /\ Len(text) \in Nat /\ text' \in Seq(Tokens)
    BY DEF TurnInv, TurnTypeOK
<1>1. text' = Append(text, k)
    BY DEF OnToken, Emitted
<1>2. /\ Len(text') = Len(text) + 1
      /\ \A i \in 1..Len(text) : text'[i] = text[i]
      /\ text'[Len(text) + 1] = k
      /\ \A i \in 0..Len(text) : SubSeq(text', 1, i) = SubSeq(text, 1, i)
      /\ SubSeq(text, 1, Len(text)) = text
    BY <1>0, <1>1, Grown
<1>3. \A i \in 1..(Len(text') - 1) : OpenText(SubSeq(text', 1, i))
    BY <1>0, <1>1, GrownOpen DEF TurnInv, Unfinished, Active
<1>4. \A i \in 0..Len(text') : SubSeq(text', 1, i) \in Seq(Tokens)
    BY <1>0
<1>5. \A i \in 1..(Len(text') - 1) : OpenText(SubSeq(text, 1, i))'
    <2> SUFFICES ASSUME NEW i \in 1..(Len(text') - 1) PROVE OpenText(SubSeq(text, 1, i))'
        OBVIOUS
    <2>1. OpenText(SubSeq(text', 1, i)) /\ SubSeq(text', 1, i) \in Seq(Tokens)
        BY <1>3, <1>4, <1>0, <1>2
    <2>2. QED
        BY <2>1, OpenRigid
<1>6. cause' = Verdict(text')
    BY <1>1 DEF OnToken, Emitted
<1>7. /\ cause' \in {"none", "recover"} => cause = "none" /\ OpenText(text')
      /\ cause' = "parent" => cause = "parent"
    BY <1>0, <1>6, VerdictType
<1>8. cause' \in {"none", "recover"} => OpenText(text)'
    BY <1>0, <1>7, OpenRigid
<1>9. cause' = "parent" => parent'
    BY <1>7 DEF TurnInv, Unfinished
<1>10. Unfinished' \/ step' = "block"
    BY <1>5, <1>8, <1>9 DEF Unfinished
<1>11. \A i \in 1..Len(text) : Mode(SubSeq(text, 1, i - 1))' = Mode(SubSeq(text, 1, i - 1))
    <2> SUFFICES ASSUME NEW i \in 1..Len(text)
                 PROVE  Mode(SubSeq(text, 1, i - 1))' = Mode(SubSeq(text, 1, i - 1))
        OBVIOUS
    <2>1. /\ SubSeq(text', 1, i - 1) \in Seq(Tokens)
          /\ SubSeq(text', 1, i - 1) = SubSeq(text, 1, i - 1)
        BY <1>0, <1>2, <1>4
    <2>2. QED
        BY <2>1, ModeRigid
<1>12. ASSUME NEW i \in 1..Len(text'), i = Len(text) + 1
       PROVE  Mode(SubSeq(text, 1, i - 1))' = Mode(text)
    <2>1. SubSeq(text', 1, i - 1) = text
        BY <1>0, <1>2, <1>12
    <2>2. QED
        BY <1>0, <2>1, ModeRigid
<1>13. ASSUME NEW i \in 1..Len(text)
       PROVE  Excused(SubSeq(text, 1, i))' <=> Excused(SubSeq(text, 1, i))
    <2>1. SubSeq(text', 1, i) \in Seq(Tokens) /\ SubSeq(text', 1, i) = SubSeq(text, 1, i)
        BY <1>0, <1>2, <1>4
    <2>2. QED
        BY <2>1, ExcusedRigid
<1>14. cause' \in {"none", "parent"} \/ Excused(SubSeq(text, 1, Len(text)))'
    <2>1. SubSeq(text', 1, Len(text')) = text'
        BY <1>0
    <2>2. cause' \in {"none", "parent"} \/ Excused(text')
        BY <1>0, <1>6, VerdictType
    <2>3. QED
        BY <1>0, <2>1, <2>2, ExcusedRigid
<1>15. QED
    BY <1>1, <1>2, <1>5, <1>8, <1>9, <1>10, <1>11, <1>12, <1>13, <1>14

\* One token at a time.
LEMMA StepOne ==
    ASSUME TurnBounds, TurnInv, TurnTypeOK', NEW k \in Tokens, SampleOne(k)
    PROVE  TurnInv'
<1> USE DEF turn, gen, run, KeepTurn, Proceed
<1>0. /\ TurnTypeOK /\ step = "sample" /\ cause = "none" /\ ~parent /\ block = <<>> /\ left > 0
      /\ setup' = setup /\ parent' = parent /\ block' = block
      /\ session \in Seq(Drawing) /\ text \in Seq(Tokens)
    BY DEF SampleOne, Cancelled, TurnInv, Aligned, TurnTypeOK, Drawing
<1>1. CASE IsStop(k)
    BY <1>0, <1>1, Moved DEF SampleOne, Active
<1>2. CASE ~IsStop(k)
    <2>1. OnToken(k) /\ OpenText(text)
        BY <1>0, <1>2 DEF SampleOne, TurnInv, Unfinished, Active
    <2>2. /\ text' = Append(text, k) /\ Len(text') = Len(text) + 1
          /\ \A i \in 1..Len(text) : text'[i] = text[i]
          /\ text'[Len(text) + 1] = k
          /\ Unfinished' \/ step' = "block"
          /\ \A i \in 1..Len(text) : Mode(SubSeq(text, 1, i - 1))' = Mode(SubSeq(text, 1, i - 1))
          /\ \A i \in 1..Len(text') : i = Len(text) + 1 => Mode(SubSeq(text, 1, i - 1))' = Mode(text)
          /\ \A i \in 1..Len(text) : Excused(SubSeq(text, 1, i))' <=> Excused(SubSeq(text, 1, i))
          /\ cause' \in {"none", "parent"} \/ Excused(SubSeq(text, 1, Len(text)))'
        BY <1>0, <2>1, Grew
    <2>3. PICK md \in {Mode(text), "lost"} :
              /\ session' = Append(session, Drawn(k, md))
              /\ \/ md = Mode(text) /\ step' = "sample" /\ missed' = missed
                 \/ md = "lost" /\ step' = "stopped" /\ missed' = missed + 1
        BY <1>0, <1>2 DEF SampleOne, Evaluated
    <2>4. remaining' = remaining - 1 /\ left' = left - 1
        BY <2>1 DEF OnToken
    <2>5. /\ Len(session) = Len(text) /\ Len(block) = 0 /\ Len(block') = 0 /\ Len(text) \in Nat
          /\ left \in Int /\ remaining \in Int /\ MaxTokens \in Nat /\ missed \in Int
        <3>1. Len(block) = 0 /\ Len(text) \in Nat /\ Len(session) \in Nat
            BY <1>0
        <3>2. Len(session) = Len(text) + Len(block)
            BY <1>0 DEF TurnInv, Aligned, Active
        <3>3. left \in Int /\ remaining \in Int /\ MaxTokens \in Nat /\ missed \in Int
            BY <1>0 DEF TurnTypeOK, TurnBounds
        <3>4. QED
            BY <1>0, <3>1, <3>2, <3>3
    <2>6. /\ Len(session') = Len(text) + 1
          /\ \A i \in 1..Len(text) : session'[i] = session[i]
          /\ session'[Len(text) + 1].tok = k /\ session'[Len(text) + 1].mode = md
        <3>1. [tok |-> k, mode |-> md] \in Drawing
            BY ModeDrawn DEF Drawing, Modes
        <3>2. QED
            BY <1>0, <2>3, <2>5, <3>1 DEF Drawn
    <2>7. Aligned'
        <3>1. \A i \in 1..Len(text') : session'[i].tok = text'[i]
            <4> SUFFICES ASSUME NEW i \in 1..Len(text') PROVE session'[i].tok = text'[i]
                OBVIOUS
            <4>1. CASE i \in 1..Len(text)
                BY <1>0, <2>2, <2>6, <4>1 DEF TurnInv, Aligned, Active
            <4>2. CASE i = Len(text) + 1
                BY <2>2, <2>6, <4>2
            <4>3. QED
                BY <2>2, <2>5, <4>1, <4>2
        <3>2. QED
            BY <1>0, <2>2, <2>3, <2>5, <2>6, <3>1 DEF Aligned
    <2>8. Fitting'
        <3>1. Len(text) - missed + left <= setup.room - 1 /\ left <= remaining /\ Len(text) + remaining = MaxTokens
            BY <1>0 DEF TurnInv, Fitting
        <3>2. setup.room \in Int
            BY <1>0, TurnNumbers
        <3>3. Pos' <= setup.room - 1
            BY <1>0, <2>3, <2>5, <2>6, <3>1, <3>2 DEF Pos
        <3>4. /\ left' <= remaining' /\ Len(text') + remaining' = MaxTokens
              /\ step' = "sample" => Len(text') - missed' + left' <= setup.room - 1
            BY <2>2, <2>3, <2>4, <2>5, <3>1, <3>2
        <3>5. QED
            BY <1>0, <2>3, <3>3, <3>4 DEF Fitting
    <2>9. Modal'
        <3> SUFFICES ASSUME setup.exact, NEW i \in 1..Len(text')
                     PROVE  session'[i].mode \in {"fed", "lost", Mode(SubSeq(text, 1, i - 1))'}
            BY <1>0, <2>5 DEF Modal
        <3>1. CASE i \in 1..Len(text)
            <4>1. session[i].mode \in {"fed", "lost", Mode(SubSeq(text, 1, i - 1))}
                BY <1>0, <3>1 DEF TurnInv, Modal, Active
            <4>2. QED
                BY <2>2, <2>6, <3>1, <4>1
        <3>2. CASE i = Len(text) + 1
            BY <2>2, <2>6, <3>2
        <3>3. QED
            BY <2>2, <2>5, <3>1, <3>2
    <2>10. Masked'
        <3> SUFFICES ASSUME NEW i \in 1..Len(text'), session'[i].mode = "lost"
                     PROVE  \/ Excused(SubSeq(text, 1, i))'
                            \/ i = Len(text') /\ step' = "stopped" /\ cause' \in {"none", "parent"}
            BY <2>5 DEF Masked
        <3>1. CASE i \in 1..Len(text)
            BY <1>0, <2>2, <2>6, <3>1 DEF TurnInv, Masked, Active
        <3>2. CASE i = Len(text) + 1
            <4>1. md = "lost" /\ i = Len(text')
                BY <2>2, <2>6, <3>2
            <4>2. step' = "stopped"
                BY <2>3, <4>1, ModeDrawn
            <4>3. QED
                BY <2>2, <4>1, <4>2
        <3>3. QED
            BY <2>2, <2>5, <3>1, <3>2
    <2>11. QED
        BY <2>2, <2>3, <2>7, <2>8, <2>9, <2>10 DEF TurnInv
<1>3. QED
    BY <1>1, <1>2

\* A block is in the session before any of it is looked at.
LEMMA StepBlock ==
    ASSUME TurnBounds, TurnInv, TurnTypeOK', NEW n \in 1..Draft, NEW b \in [1..n -> Tokens], SampleBlock(b)
    PROVE  TurnInv'
<1> USE DEF KeepTurn, Proceed, run
<1>0. /\ TurnTypeOK /\ step = "sample" /\ cause = "none" /\ ~parent /\ block = <<>>
      /\ UNCHANGED <<setup, parent, cause, missed, text, remaining, left>>
      /\ block' = b /\ step' = "block" /\ Len(b) <= left
      /\ session \in Seq(Drawing) /\ text \in Seq(Tokens)
      /\ session' = session \o [i \in DOMAIN b |-> Drawn(b[i], Mode(text))]
    BY DEF SampleBlock, Cancelled, TurnInv, Aligned, TurnTypeOK, Drawing
<1>1. b \in Seq(Tokens) /\ Len(b) = n /\ n \in Nat /\ n > 0 /\ b # <<>>
    BY DEF TurnBounds
<1>2. /\ Len(session) = Len(text) /\ Len(text) \in Nat /\ left \in Int /\ remaining \in Int
      /\ setup.room \in Int /\ missed \in Int /\ left <= remaining /\ Len(text) - missed + left <= setup.room - 1
    <2>1. Len(block) = 0 /\ Len(session) \in Nat /\ Len(text) \in Nat
        BY <1>0
    <2>2. Len(session) = Len(text) + Len(block) /\ left <= remaining /\ Len(text) - missed + left <= setup.room - 1
        BY <1>0 DEF TurnInv, Aligned, Fitting, Active
    <2>3. QED
        BY <1>0, <2>1, <2>2, TurnNumbers
<1> DEFINE drawn == [i \in DOMAIN b |-> Drawn(b[i], Mode(text))]
<1>3. /\ drawn \in Seq(Drawing) /\ Len(drawn) = n
      /\ \A i \in 1..n : drawn[i] = [tok |-> b[i], mode |-> Mode(text)]
    BY <1>1 DEF Drawn, Drawing, Mode, Modes
<1> HIDE DEF drawn
<1>4. /\ Len(session') = Len(text) + n
      /\ \A i \in 1..Len(text) : session'[i] = session[i]
      /\ \A i \in 1..n : session'[Len(text) + i] = [tok |-> b[i], mode |-> Mode(text)]
    <2>1. session' = session \o drawn
        BY <1>0 DEF drawn
    <2>2. /\ Len(session \o drawn) = Len(session) + Len(drawn)
          /\ \A i \in 1..Len(session) : (session \o drawn)[i] = session[i]
          /\ \A j \in (Len(session) + 1)..(Len(session) + Len(drawn)) :
                (session \o drawn)[j] = drawn[j - Len(session)]
        <3>1. /\ Len(session \o drawn) = Len(session) + Len(drawn)
              /\ \A i \in 1..(Len(session) + Len(drawn)) : (session \o drawn)[i] =
                     IF i <= Len(session) THEN session[i] ELSE drawn[i - Len(session)]
            BY <1>0, <1>3, ConcatProperties
        <3>2. Len(session) \in Nat /\ Len(drawn) \in Nat
            BY <1>2, <1>3, <1>1
        <3>3. QED
            BY <3>1, <3>2
    <2>3. ASSUME NEW i \in 1..n
          PROVE  session'[Len(text) + i] = [tok |-> b[i], mode |-> Mode(text)]
        <3>1. /\ Len(text) + i \in (Len(session) + 1)..(Len(session) + Len(drawn))
              /\ Len(text) + i - Len(session) = i
            BY <1>1, <1>2, <1>3
        <3>2. (session \o drawn)[Len(text) + i] = drawn[i]
            BY SMTT(30), <2>2, <3>1
        <3>3. QED
            BY <1>3, <2>1, <3>2
    <2>4. QED
        BY <1>2, <1>3, <2>1, <2>2, <2>3
<1>5. Aligned'
    <2>1. \A i \in 1..Len(text) : session[i].tok = text[i]
        BY <1>0 DEF TurnInv, Aligned, Active
    <2>2. ASSUME NEW i \in 1..Len(b) PROVE session'[Len(text) + i].tok = b[i]
        <3>1. session'[Len(text) + i] = [tok |-> b[i], mode |-> Mode(text)]
            BY <1>1, <1>4
        <3>2. QED
            BY <3>1
    <2>3. \A i \in 1..Len(text) : session'[i].tok = text[i]
        BY <1>4, <2>1
    <2>4. QED
        BY <1>0, <1>1, <1>4, <2>2, <2>3 DEF Aligned
<1>6. Fitting'
    <2>1. Len(text) + remaining = MaxTokens
        BY DEF TurnInv, Fitting
    <2>2. Pos' <= setup.room - 1
        BY <1>0, <1>1, <1>2, <1>4 DEF Pos
    <2>3. QED
        BY <1>0, <1>1, <1>2, <2>1, <2>2 DEF Fitting
<1>7. Unfinished'
    <2>1. \A i \in 1..(Len(text) - 1) : OpenText(SubSeq(text, 1, i))
        BY <1>0 DEF TurnInv, Unfinished, Active
    <2>2. OpenText(text)
        BY <1>0 DEF TurnInv, Unfinished, Active
    <2>3. OpenText(text)'
        BY <1>0, <2>2, OpenRigid
    <2>4. \A i \in 1..(Len(text') - 1) : OpenText(SubSeq(text, 1, i))'
        <3> SUFFICES ASSUME NEW i \in 1..(Len(text) - 1) PROVE OpenText(SubSeq(text, 1, i))'
            BY <1>0
        <3>1. SubSeq(text, 1, i) \in Seq(Tokens) /\ OpenText(SubSeq(text, 1, i))
            BY <1>0, <2>1
        <3>2. QED
            BY <1>0, <3>1, OpenRigid
    <2>5. QED
        BY <1>0, <2>3, <2>4 DEF Unfinished
<1>8. Modal'
    <2> SUFFICES ASSUME setup.exact
                 PROVE  /\ \A i \in 1..Len(text) : session'[i].mode \in {"fed", "lost", Mode(SubSeq(text, 1, i - 1))'}
                        /\ \A i \in 1..Len(b) : session'[Len(text) + i].mode = Mode(text)'
        BY <1>0 DEF Modal
    <2>1. Mode(text)' = Mode(text)
        BY <1>0, ModeRigid
    <2>2. ASSUME NEW i \in 1..Len(text)
          PROVE  session'[i].mode \in {"fed", "lost", Mode(SubSeq(text, 1, i - 1))'}
        <3>1. SubSeq(text, 1, i - 1) \in Seq(Tokens)
            BY <1>0
        <3>2. Mode(SubSeq(text, 1, i - 1))' = Mode(SubSeq(text, 1, i - 1))
            BY <1>0, <3>1, ModeRigid
        <3>3. session[i].mode \in {"fed", "lost", Mode(SubSeq(text, 1, i - 1))}
            BY <1>0 DEF TurnInv, Modal, Active
        <3>4. QED
            BY <1>4, <3>2, <3>3
    <2>3. ASSUME NEW i \in 1..Len(b) PROVE session'[Len(text) + i].mode = Mode(text)
        <3>1. session'[Len(text) + i] = [tok |-> b[i], mode |-> Mode(text)]
            BY <1>1, <1>4
        <3>2. QED
            BY <3>1
    <2>4. QED
        BY <2>1, <2>2, <2>3
<1>9. Masked'
    <2>1. ASSUME NEW i \in 1..Len(text), session'[i].mode = "lost"
          PROVE  Excused(SubSeq(text, 1, i))'
        <3>1. session[i].mode = "lost" /\ SubSeq(text, 1, i) \in Seq(Tokens)
            BY <1>0, <1>4, <2>1
        <3>2. Excused(SubSeq(text, 1, i))
            BY <1>0, <3>1 DEF TurnInv, Masked, Active
        <3>3. QED
            BY <1>0, <3>1, <3>2, ExcusedRigid
    <2>2. ASSUME NEW i \in 1..Len(b) PROVE session'[Len(text) + i].mode # "lost"
        <3>1. session'[Len(text) + i] = [tok |-> b[i], mode |-> Mode(text)]
            BY <1>1, <1>4
        <3>2. QED
            BY <3>1, ModeDrawn
    <2>3. QED
        BY <1>0, <2>1, <2>2 DEF Masked
<1>10. QED
    BY <1>5, <1>6, <1>7, <1>8, <1>9 DEF TurnInv

\* Of a session and a text that agree, a shorter session that ends with the text.
LEMMA StepStop ==
    ASSUME TurnBounds, TurnInv, TurnTypeOK', BlockStop
    PROVE  TurnInv'
<1> USE DEF KeepTurn, Proceed, run
<1>0. /\ TurnTypeOK /\ step = "block" /\ step' \in {"ended", "stopped"} /\ block' = <<>>
      /\ UNCHANGED <<setup, parent, cause, missed, text, remaining>>
      /\ session' = Rewound(Len(block))
      /\ session \in Seq(Drawing) /\ text \in Seq(Tokens) /\ block \in Seq(Tokens)
    BY DEF BlockStop, TurnInv, TurnTypeOK, Drawing
<1>1. /\ Len(session) = Len(text) + Len(block) /\ Len(text) \in Nat /\ Len(block) \in Nat /\ Len(session) \in Nat
      /\ \A i \in 1..Len(text) : session[i].tok = text[i]
    BY <1>0 DEF TurnInv, Aligned, Active
<1>2. Len(block) \in 0..Len(session) /\ Len(session) - Len(block) = Len(text) /\ Len(block') = 0
    BY <1>0, <1>1
<1>3. Len(session') = Len(text) /\ \A i \in 1..Len(text) : session'[i] = session[i]
    BY <1>0, <1>2, RewoundType
<1>4. Aligned'
    BY <1>0, <1>1, <1>2, <1>3 DEF Aligned
<1>5. Fitting'
    <2>1. Len(text) + remaining = MaxTokens /\ Len(text) - missed + left <= setup.room - 1 /\ left \in 0..MaxTokens
        BY <1>0 DEF TurnInv, Fitting, TurnTypeOK
    <2>2. left \in Int /\ left >= 0 /\ setup.room \in Int /\ missed \in Int
        BY <1>0, <2>1, TurnNumbers
    <2>3. Pos' <= setup.room - 1
        BY <1>0, <1>1, <1>3, <2>1, <2>2 DEF Pos
    <2>4. QED
        BY <1>0, <2>1, <2>3 DEF Fitting
<1>6. Unfinished'
    <2>1. \A i \in 1..(Len(text) - 1) : OpenText(SubSeq(text, 1, i))
        BY <1>0 DEF TurnInv, Unfinished, Active
    <2>2. OpenText(text) /\ cause \in {"none", "parent"} /\ (cause = "parent" => parent)
        BY <1>0 DEF TurnInv, Unfinished
    <2>3. OpenText(text)'
        BY <1>0, <2>2, OpenRigid
    <2>4. \A i \in 1..(Len(text') - 1) : OpenText(SubSeq(text, 1, i))'
        <3> SUFFICES ASSUME NEW i \in 1..(Len(text) - 1) PROVE OpenText(SubSeq(text, 1, i))'
            BY <1>0
        <3>1. SubSeq(text, 1, i) \in Seq(Tokens) /\ OpenText(SubSeq(text, 1, i))
            BY <1>0, <2>1
        <3>2. QED
            BY <1>0, <3>1, OpenRigid
    <2>5. QED
        BY <1>0, <2>2, <2>3, <2>4 DEF Unfinished
<1>7. Modal'
    <2> SUFFICES ASSUME setup.exact, NEW i \in 1..Len(text)
                 PROVE  session'[i].mode \in {"fed", "lost", Mode(SubSeq(text, 1, i - 1))'}
        BY <1>0, <1>2 DEF Modal
    <2>1. SubSeq(text, 1, i - 1) \in Seq(Tokens)
        BY <1>0
    <2>2. Mode(SubSeq(text, 1, i - 1))' = Mode(SubSeq(text, 1, i - 1))
        BY <1>0, <2>1, ModeRigid
    <2>3. session[i].mode \in {"fed", "lost", Mode(SubSeq(text, 1, i - 1))}
        BY <1>0 DEF TurnInv, Modal, Active
    <2>4. QED
        BY <1>3, <2>2, <2>3
<1>8. Masked'
    <2> SUFFICES ASSUME NEW i \in 1..Len(text), session'[i].mode = "lost"
                 PROVE  Excused(SubSeq(text, 1, i))'
        BY <1>0, <1>2 DEF Masked
    <2>1. session[i].mode = "lost" /\ SubSeq(text, 1, i) \in Seq(Tokens)
        BY <1>0, <1>3
    <2>2. Excused(SubSeq(text, 1, i))
        BY <1>0, <2>1 DEF TurnInv, Masked, Active
    <2>3. QED
        BY <1>0, <2>1, <2>2, ExcusedRigid
<1>9. QED
    BY <1>4, <1>5, <1>6, <1>7, <1>8 DEF TurnInv

\* What a step over a token of the block leaves: the token in the session, drawn
\* as it should be, and of the rest what it proposes for the mode that holds.
LEMMA TokenKept ==
    ASSUME TurnBounds, TurnInv, TurnTypeOK', BlockToken
    PROVE  /\ block # <<>> /\ Len(block) \in Nat /\ Len(block) > 0
           /\ Len(session') = Len(text) + 1 + Len(block') /\ Len(block') \in Nat
           /\ Len(block') <= Len(block) - 1
           /\ \A i \in 1..Len(text) : session'[i] = session[i]
           /\ session'[Len(text) + 1].tok = Head(block)
           /\ setup.exact => session'[Len(text) + 1].mode \in {"lost", Mode(text)}
           /\ session'[Len(text) + 1].mode = "lost" => step' = "stopped" /\ cause' = "none"
           /\ missed' = missed \/ (missed' = missed + 1 /\ step' = "stopped")
           /\ step' = "block" <=> block' # <<>>
           /\ step' = "block" => cause' = "none" /\ (setup.exact => Mode(text') = Mode(text))
           /\ step' \in {"sample", "stopped", "block"}
           /\ \A i \in 1..Len(block') : session'[Len(text) + 1 + i].mode # "lost"
           /\ \A i \in 1..Len(block') : /\ session'[Len(text) + 1 + i].tok = block'[i]
                                        /\ setup.exact => session'[Len(text) + 1 + i].mode = Mode(text)
<1> USE DEF KeepTurn, Proceed, run
<1> DEFINE n == Len(text)
           md == session[Len(session)].mode
<1>0. /\ TurnTypeOK /\ step = "block" /\ session \in Seq(Drawing) /\ text \in Seq(Tokens) /\ block \in Seq(Tokens)
      /\ OnToken(Head(block)) /\ cause \in {"none", "parent"} /\ OpenText(text) /\ block # <<>>
    BY DEF BlockToken, TurnInv, TurnTypeOK, Drawing, Unfinished, Aligned
<1>1. /\ Len(session) = n + Len(block) /\ n \in Nat /\ Len(block) \in Nat /\ Len(block) > 0
      /\ Head(block) = block[1] /\ Head(block) \in Tokens
      /\ \A i \in 1..Len(block) : session[n + i].tok = block[i]
      /\ setup.exact => \A i \in 1..Len(block) : session[n + i].mode = Mode(text)
      /\ \A i \in 1..Len(block) : session[n + i].mode # "lost"
    <2>1. Len(session) = n + Len(block) /\ \A i \in 1..Len(block) : session[n + i].tok = block[i]
        BY <1>0 DEF TurnInv, Aligned, Active
    <2>2. n \in Nat /\ Len(block) \in Nat /\ Len(block) > 0 /\ Head(block) = block[1] /\ Head(block) \in Tokens
        BY <1>0
    <2>3. setup.exact => \A i \in 1..Len(block) : session[n + i].mode = Mode(text)
        BY <1>0 DEF TurnInv, Modal, Active
    <2>4. \A i \in 1..Len(block) : session[n + i].mode # "lost"
        BY <1>0 DEF TurnInv, Masked, Active
    <2>5. QED
        BY <2>1, <2>2, <2>3, <2>4
<1>2. Emitted(Head(block)) = text' /\ Verdict(text') = cause'
    BY <1>0 DEF OnToken
<1>3. /\ session[n + 1].tok = Head(block)
      /\ setup.exact => session[n + 1].mode = Mode(text)
      /\ setup.exact => md = Mode(text)
      /\ session[n + 1].mode # "lost" /\ md # "lost"
    <2>1. 1 \in 1..Len(block) /\ Len(block) \in 1..Len(block) /\ Len(session) = n + Len(block)
        BY <1>1
    <2>2. md # "lost" /\ session[n + 1].mode # "lost"
        <3>1. \A i \in 1..Len(block) : session[n + i].mode # "lost"
            BY <1>1
        <3>2. session[n + Len(block)].mode # "lost" /\ session[n + 1].mode # "lost"
            BY <2>1, <3>1
        <3>3. QED
            BY <2>1, <3>2
    <2>3. QED
        BY <1>1, <2>1, <2>2
<1>4. \/ Len(block) = 1 /\ step' = "sample" /\ block' = <<>> /\ session' = session /\ missed' = missed
      \/ /\ Len(block) > 1 /\ step' = "stopped" /\ block' = <<>> /\ session' = Rewound(Len(block) - 1)
         /\ missed' = missed
      \/ /\ Len(block) > 1 /\ block' = <<>> /\ cause' = "none"
         /\ Evaluated(Rewound(Len(block)), Head(block), md)
      \/ /\ Len(block) > 1 /\ step' = step /\ block' = Tail(block) /\ session' = session
         /\ missed' = missed /\ cause' = "none" /\ ~Flipped(text', md)
    BY <1>2, Zenon DEF BlockToken
<1> HIDE DEF n, md
<1>5. CASE Len(block) = 1 /\ step' = "sample" /\ block' = <<>> /\ session' = session /\ missed' = missed
    <2>1. Len(block') = 0
        BY <1>5
    <2>2. QED
        BY <1>0, <1>1, <1>3, <1>5, <2>1 DEF n
<1>6. CASE /\ Len(block) > 1 /\ step' = "stopped" /\ block' = <<>> /\ session' = Rewound(Len(block) - 1)
           /\ missed' = missed
    <2>1. Len(block') = 0
        BY <1>6
    <2>2. Len(block) - 1 \in 0..Len(session) /\ Len(session) - (Len(block) - 1) = n + 1
        BY <1>1
    <2>3. Len(session') = n + 1 /\ \A i \in 1..(n + 1) : session'[i] = session[i]
        BY <1>0, <1>6, <2>2, RewoundType
    <2>4. session'[n + 1] = session[n + 1] /\ \A i \in 1..n : session'[i] = session[i]
        BY <1>1, <2>3
    <2>5. QED
        BY <1>0, <1>1, <1>3, <1>6, <2>1, <2>3, <2>4 DEF n
<1>7. CASE /\ Len(block) > 1 /\ block' = <<>> /\ cause' = "none"
           /\ Evaluated(Rewound(Len(block)), Head(block), md)
    <2>1. Len(block') = 0
        BY <1>7
    <2>0. PICK how \in {md, "lost"} :
              /\ session' = Append(Rewound(Len(block)), Drawn(Head(block), how))
              /\ \/ how = md /\ step' = "sample" /\ missed' = missed
                 \/ how = "lost" /\ step' = "stopped" /\ missed' = missed + 1
        BY <1>7, Zenon DEF Evaluated
    <2>2. Len(block) \in 0..Len(session) /\ Len(session) - Len(block) = n
        BY <1>1
    <2>3. /\ Rewound(Len(block)) \in Seq(Drawing) /\ Len(Rewound(Len(block))) = n
          /\ \A i \in 1..n : Rewound(Len(block))[i] = session[i]
        BY <1>0, <2>2, RewoundType
    <2>4. Drawn(Head(block), how) \in Drawing
        <3>1. session[Len(session)] \in Drawing
            BY <1>0, <1>1
        <3>2. QED
            BY <1>1, <3>1 DEF Drawn, Drawing, md, Modes
    <2>5. /\ Len(session') = n + 1 /\ \A i \in 1..n : session'[i] = session[i]
          /\ session'[n + 1] = Drawn(Head(block), how)
        <3> DEFINE R == Rewound(Len(block))
                   d == Drawn(Head(block), how)
        <3>1. /\ R \in Seq(Drawing) /\ Len(R) = n /\ \A i \in 1..n : R[i] = session[i]
              /\ d \in Drawing /\ session' = Append(R, d) /\ n \in Nat
            BY <1>1, <2>0, <2>3, <2>4
        <3> HIDE DEF R, d
        <3>2. Len(Append(R, d)) = n + 1 /\ Append(R, d)[n + 1] = d /\ \A i \in 1..n : Append(R, d)[i] = R[i]
            BY ONLY <3>1
        <3>3. QED
            BY ONLY <3>1, <3>2 DEF d
    <2>6. session'[n + 1].tok = Head(block) /\ session'[n + 1].mode = how
        BY <2>5 DEF Drawn
    <2>7. how = "lost" => step' = "stopped"
        BY <1>3, <2>0
    <2>8. QED
        BY <1>0, <1>1, <1>3, <1>7, <2>0, <2>1, <2>5, <2>6, <2>7 DEF n
<1>8. CASE /\ Len(block) > 1 /\ step' = step /\ block' = Tail(block) /\ session' = session
           /\ missed' = missed /\ cause' = "none" /\ ~Flipped(text', md)
    <2>1. Len(block') = Len(block) - 1 /\ \A i \in 1..(Len(block) - 1) : block'[i] = block[i + 1]
        BY <1>0, <1>1, <1>8
    <2>2. block' # <<>> /\ step' = "block"
        <3>1. Len(<<>>) = 0 /\ Len(block') # 0
            BY <1>1, <1>8, <2>1
        <3>2. QED
            BY <1>0, <1>8, <3>1
    <2>3. setup.exact => Mode(text') = Mode(text)
        BY <1>3, <1>8 DEF Flipped
    <2>4. ASSUME NEW i \in 1..Len(block')
          PROVE  /\ session'[n + 1 + i].tok = block'[i]
                 /\ setup.exact => session'[n + 1 + i].mode = Mode(text)
                 /\ session'[n + 1 + i].mode # "lost"
        <3>1. i + 1 \in 1..Len(block) /\ n + (i + 1) = n + 1 + i /\ i \in 1..(Len(block) - 1)
            <4>1. n \in Nat /\ Len(block) \in Nat /\ Len(block') = Len(block) - 1 /\ i \in 1..Len(block')
                BY <1>1, <2>1
            <4>2. QED
                BY ONLY <4>1
        <3>2. /\ session[n + (i + 1)].tok = block[i + 1]
              /\ setup.exact => session[n + (i + 1)].mode = Mode(text)
              /\ session[n + (i + 1)].mode # "lost"
            BY <1>1, <3>1
        <3>3. QED
            BY <1>8, <2>1, <3>1, <3>2
    <2>5. Len(session') = n + 1 + Len(block') /\ Len(block') \in Nat /\ Len(block') <= Len(block) - 1
        <3>1. Len(session) = n + Len(block) /\ n \in Nat /\ Len(block) \in Nat /\ Len(block) > 0 /\ session' = session
            BY <1>1, <1>8
        <3>2. Len(block') = Len(block) - 1
            BY <2>1
        <3>3. QED
            BY ONLY <3>1, <3>2
    <2>6. /\ session'[n + 1].tok = Head(block) /\ (setup.exact => session'[n + 1].mode = Mode(text))
          /\ session'[n + 1].mode # "lost"
        <3>1. session' = session
            BY <1>8
        <3>2. /\ session[n + 1].tok = Head(block) /\ (setup.exact => session[n + 1].mode = Mode(text))
              /\ session[n + 1].mode # "lost"
            BY ONLY <1>3, Zenon
        <3>3. QED
            BY ONLY <3>1, <3>2
    <2>7. QED
        BY <1>0, <1>1, <1>8, <2>2, <2>3, <2>4, <2>5, <2>6 DEF n
<1>9. QED
    BY <1>4, <1>5, <1>6, <1>7, <1>8

\* A token is told, or is what ends the round.
LEMMA StepToken ==
    ASSUME TurnBounds, TurnInv, TurnTypeOK', BlockToken
    PROVE  TurnInv'
<1> USE DEF KeepTurn, Proceed, run
<1>0. /\ TurnTypeOK /\ step = "block" /\ text \in Seq(Tokens) /\ block \in Seq(Tokens) /\ Len(text) \in Nat
      /\ OnToken(Head(block)) /\ cause \in {"none", "parent"} /\ OpenText(text)
      /\ setup' = setup /\ parent' = parent
    BY DEF BlockToken, TurnInv, TurnTypeOK, Unfinished
<1>1. /\ block # <<>> /\ Len(block) \in Nat /\ Len(block) > 0
      /\ Len(session') = Len(text) + 1 + Len(block') /\ Len(block') \in Nat
      /\ Len(block') <= Len(block) - 1
      /\ \A i \in 1..Len(text) : session'[i] = session[i]
      /\ session'[Len(text) + 1].tok = Head(block)
      /\ setup.exact => session'[Len(text) + 1].mode \in {"lost", Mode(text)}
      /\ session'[Len(text) + 1].mode = "lost" => step' = "stopped" /\ cause' = "none"
      /\ missed' = missed \/ (missed' = missed + 1 /\ step' = "stopped")
      /\ step' = "block" <=> block' # <<>>
      /\ step' = "block" => cause' = "none" /\ (setup.exact => Mode(text') = Mode(text))
      /\ step' \in {"sample", "stopped", "block"}
      /\ \A i \in 1..Len(block') : session'[Len(text) + 1 + i].mode # "lost"
      /\ \A i \in 1..Len(block') : /\ session'[Len(text) + 1 + i].tok = block'[i]
                                   /\ setup.exact => session'[Len(text) + 1 + i].mode = Mode(text)
    BY TokenKept
<1>2. Head(block) \in Tokens
    BY <1>0, <1>1
<1>3. /\ Len(text') = Len(text) + 1
      /\ \A i \in 1..Len(text) : text'[i] = text[i]
      /\ text'[Len(text) + 1] = Head(block)
      /\ Unfinished' \/ step' = "block"
      /\ \A i \in 1..(Len(text') - 1) : OpenText(SubSeq(text, 1, i))'
      /\ cause' = "none" => OpenText(text)'
      /\ \A i \in 1..Len(text) : Mode(SubSeq(text, 1, i - 1))' = Mode(SubSeq(text, 1, i - 1))
      /\ \A i \in 1..Len(text') : i = Len(text) + 1 => Mode(SubSeq(text, 1, i - 1))' = Mode(text)
      /\ \A i \in 1..Len(text) : Excused(SubSeq(text, 1, i))' <=> Excused(SubSeq(text, 1, i))
    BY <1>0, <1>2, Grew
<1>4. Aligned'
    <2>1. \A i \in 1..Len(text) : session[i].tok = text[i]
        BY <1>0 DEF TurnInv, Aligned, Active
    <2>2. ASSUME NEW i \in 1..Len(text') PROVE session'[i].tok = text'[i]
        <3>1. CASE i \in 1..Len(text)
            BY <1>1, <1>3, <2>1, <3>1
        <3>2. CASE i = Len(text) + 1
            BY <1>1, <1>3, <3>2
        <3>3. QED
            BY <1>0, <1>3, <3>1, <3>2
    <2>3. ASSUME NEW i \in 1..Len(block') PROVE session'[Len(text') + i].tok = block'[i]
        <3>1. session'[Len(text) + 1 + i].tok = block'[i]
            <4>1. \A j \in 1..Len(block') : session'[Len(text) + 1 + j].tok = block'[j]
                BY <1>1
            <4>2. QED
                BY ONLY <4>1, <2>3
        <3>2. QED
            BY <1>3, <3>1
    <2>4. Len(session') = Len(text') + Len(block')
        BY <1>1, <1>3
    <2>5. step' = "block" <=> block' # <<>>
        BY <1>1
    <2>6. QED
        BY <2>2, <2>3, <2>4, <2>5 DEF Aligned
<1>5. Fitting'
    <2>1. /\ Len(text) - missed + left <= setup.room - 1 /\ left <= remaining /\ Len(block) <= left
          /\ Len(text) + remaining = MaxTokens
        BY <1>0 DEF TurnInv, Fitting
    <2>2. setup.room \in Int /\ left \in Int /\ remaining \in Int /\ missed \in Int
        BY <1>0, TurnNumbers
    <2>3. remaining' = remaining - 1 /\ left' = left - 1
        BY <1>0 DEF OnToken
    <2>4. /\ Pos' <= setup.room - 1
          /\ step' # "stopped" => Len(text') - missed' + left' <= setup.room - 1
          /\ left' <= remaining' /\ Len(block') <= left'
          /\ Len(text') + remaining' = MaxTokens
        BY <1>0, <1>1, <1>3, <2>1, <2>2, <2>3 DEF Pos
    <2>5. step' # "tools"
        BY <1>1
    <2>6. QED
        BY <1>0, <2>4, <2>5 DEF Fitting
<1>6. Unfinished'
    <2>1. CASE step' = "block"
        BY <1>1, <1>3, <2>1 DEF Unfinished
    <2>2. QED
        BY <1>3, <2>1
<1>7. Modal'
    <2> SUFFICES ASSUME setup.exact
                 PROVE  /\ \A i \in 1..Len(text') : session'[i].mode \in {"fed", "lost", Mode(SubSeq(text, 1, i - 1))'}
                        /\ \A i \in 1..Len(block') : session'[Len(text') + i].mode = Mode(text)'
        BY <1>0 DEF Modal
    <2>1. ASSUME NEW i \in 1..Len(text')
          PROVE  session'[i].mode \in {"fed", "lost", Mode(SubSeq(text, 1, i - 1))'}
        <3>1. CASE i \in 1..Len(text)
            <4>1. session[i].mode \in {"fed", "lost", Mode(SubSeq(text, 1, i - 1))}
                BY <1>0, <3>1 DEF TurnInv, Modal, Active
            <4>2. QED
                BY <1>1, <1>3, <3>1, <4>1
        <3>2. CASE i = Len(text) + 1
            BY <1>1, <1>3, <3>2
        <3>3. QED
            BY <1>0, <1>3, <3>1, <3>2
    <2>2. ASSUME NEW i \in 1..Len(block')
          PROVE  session'[Len(text') + i].mode = Mode(text)'
        <3>1. Mode(text)' = Mode(text')
            <4>1. text' \in Seq(Tokens)
                BY DEF TurnTypeOK
            <4>2. QED
                BY <1>0, <4>1, ModeRigid
        <3>2. step' = "block"
            <4>1. block' = <<>> => Len(block') = 0
                OBVIOUS
            <4>2. QED
                BY <1>1, <2>2, <4>1
        <3>3. Mode(text') = Mode(text)
            BY <1>1, <3>2
        <3>4. session'[Len(text) + 1 + i].mode = Mode(text)
            <4>1. \A j \in 1..Len(block') : setup.exact => session'[Len(text) + 1 + j].mode = Mode(text)
                BY <1>1
            <4>2. QED
                BY <4>1, <2>2
        <3>5. QED
            BY <1>3, <3>1, <3>3, <3>4
    <2>3. QED
        BY <2>1, <2>2
<1>8. Masked'
    <2>1. ASSUME NEW i \in 1..Len(text'), session'[i].mode = "lost"
          PROVE  \/ Excused(SubSeq(text, 1, i))'
                 \/ i = Len(text') /\ step' = "stopped" /\ cause' \in {"none", "parent"}
        <3>1. CASE i \in 1..Len(text)
            BY <1>0, <1>1, <1>3, <2>1, <3>1 DEF TurnInv, Masked, Active
        <3>2. CASE i = Len(text) + 1
            BY <1>1, <1>3, <2>1, <3>2
        <3>3. QED
            BY <1>0, <1>3, <3>1, <3>2
    <2>2. ASSUME NEW i \in 1..Len(block') PROVE session'[Len(text') + i].mode # "lost"
        <3>1. \A j \in 1..Len(block') : session'[Len(text) + 1 + j].mode # "lost"
            BY <1>1
        <3>2. QED
            BY <1>3, <2>2, <3>1
    <2>3. QED
        BY <2>1, <2>2 DEF Masked
<1>9. QED
    BY <1>4, <1>5, <1>6, <1>7, <1>8 DEF TurnInv

\* The recovery goes on as it is, fails, or feeds the end of the reasoning.
LEMMA StepRecover ==
    ASSUME TurnBounds, TurnInv, TurnTypeOK', Recover
    PROVE  TurnInv'
<1> USE DEF KeepTurn, Proceed, run, gen
<1>0. /\ TurnTypeOK /\ step \in {"full", "stopped"} /\ step \in Active /\ cause = "recover" /\ cause' = "none"
      /\ UNCHANGED <<setup, parent, missed, left, block>>
      /\ session \in Seq(Drawing) /\ text \in Seq(Tokens) /\ block = <<>>
    BY DEF Recover, TurnInv, TurnTypeOK, Drawing, Aligned, Active
<1>1. CASE UNCHANGED <<session, text, remaining>> /\ step' \in {"gen", "failed"}
    BY <1>0, <1>1, Moved
<1>2. CASE /\ StanzaInThinking(text) /\ CanInject /\ step' = "gen"
           /\ session' = session \o [i \in DOMAIN Inject |-> Drawn(Inject[i], "fed")]
           /\ text' = text \o Inject
           /\ remaining' = remaining - Len(Inject)
    <2> DEFINE one == Append(text, "T")
    <2>1. /\ Len(text) \in Nat /\ Len(session) = Len(text) /\ Len(block') = 0
          /\ \A i \in 1..Len(text) : session[i].tok = text[i]
        <3>1. Len(text) \in Nat /\ Len(session) \in Nat /\ Len(block) = 0
            BY <1>0
        <3>2. Len(session) = Len(text) + Len(block) /\ \A i \in 1..Len(text) : session[i].tok = text[i]
            BY <1>0 DEF TurnInv, Aligned
        <3>3. QED
            BY <1>0, <3>1, <3>2
    <2>2. /\ one \in Seq(Tokens) /\ Len(one) = Len(text) + 1 /\ text' = Append(one, "x")
          /\ Len(text') = Len(text) + 2 /\ text'[Len(text) + 1] = "T" /\ text'[Len(text) + 2] = "x"
          /\ \A i \in 1..Len(text) : text'[i] = text[i]
          /\ text' \in Seq(Tokens)
        BY <1>0, <1>2, <2>1 DEF Inject, Tokens
    <2> HIDE DEF one
    <2>3. /\ Len(session') = Len(text) + 2
          /\ \A i \in 1..Len(text) : session'[i] = session[i]
          /\ session'[Len(text) + 1] = [tok |-> "T", mode |-> "fed"]
          /\ session'[Len(text) + 2] = [tok |-> "x", mode |-> "fed"]
        <3>1. [i \in DOMAIN Inject |-> Drawn(Inject[i], "fed")]
                  = <<[tok |-> "T", mode |-> "fed"], [tok |-> "x", mode |-> "fed"]>>
            BY DEF Inject, Drawn
        <3>2. session' = session \o <<[tok |-> "T", mode |-> "fed"], [tok |-> "x", mode |-> "fed"]>>
            BY <1>2, <3>1
        <3>3. QED
            BY SMTT(30), <1>0, <2>1, <3>2
    <2>4. Aligned'
        <3>1. ASSUME NEW i \in 1..Len(text') PROVE session'[i].tok = text'[i]
            <4>1. CASE i \in 1..Len(text)
                BY <2>1, <2>2, <2>3, <4>1
            <4>2. CASE i = Len(text) + 1
                BY <2>2, <2>3, <4>2
            <4>3. CASE i = Len(text) + 2
                BY <2>2, <2>3, <4>3
            <4>4. QED
                BY <2>1, <2>2, <4>1, <4>2, <4>3
        <3>2. QED
            BY <1>0, <1>2, <2>1, <2>2, <2>3, <3>1 DEF Aligned
    <2>5. Fitting'
        <3>1. Len(Inject) = 2
            BY DEF Inject
        <3>2. 2 < setup.room - Pos /\ remaining' = remaining - 2
            BY <1>2, <3>1 DEF CanInject
        <3>3. setup.room \in Int /\ remaining \in Int /\ missed \in Int
            BY <1>0, TurnNumbers
        <3>4. Pos' <= setup.room - 1
            BY <1>0, <2>1, <2>3, <3>2, <3>3 DEF Pos
        <3>5. Len(text) + remaining = MaxTokens
            BY DEF TurnInv, Fitting
        <3>6. Len(text') + remaining' = MaxTokens
            <4>1. Len(text') = Len(text) + 2 /\ Len(text) \in Int
                BY <2>1, <2>2
            <4>2. QED
                BY ONLY <3>2, <3>3, <3>5, <4>1
        <3>7. QED
            BY <1>0, <1>2, <3>4, <3>6 DEF Fitting
    <2>6. Unfinished'
        <3>1. OpenText(text) /\ \A i \in 1..(Len(text) - 1) : OpenText(SubSeq(text, 1, i))
            BY <1>0 DEF TurnInv, Unfinished
        <3>2. OpenText(one) /\ OpenText(text')
            BY <1>0, <1>2, <2>2, InjectOpen DEF one
        <3>3. \A i \in 1..(Len(one) - 1) : OpenText(SubSeq(one, 1, i))
            BY <1>0, <3>1, GrownOpen DEF one, Tokens
        <3>4. \A i \in 1..(Len(text') - 1) : OpenText(SubSeq(text', 1, i))
            <4>1. "x" \in Tokens
                BY DEF Tokens
            <4>2. QED
                BY <2>2, <3>2, <3>3, <4>1, GrownOpen
        <3>5. OpenText(text)'
            BY <1>0, <2>2, <3>2, OpenRigid
        <3>6. ASSUME NEW i \in 1..(Len(text') - 1) PROVE OpenText(SubSeq(text, 1, i))'
            <4>1. OpenText(SubSeq(text', 1, i)) /\ SubSeq(text', 1, i) \in Seq(Tokens)
                BY <2>1, <2>2, <3>4
            <4>2. QED
                BY <1>0, <4>1, OpenRigid
        <3>7. QED
            BY <1>0, <1>2, <3>5, <3>6 DEF Unfinished
    <2>7. Modal'
        <3> SUFFICES ASSUME setup.exact, NEW i \in 1..Len(text')
                     PROVE  session'[i].mode \in {"fed", "lost", Mode(SubSeq(text, 1, i - 1))'}
            BY <1>0, <2>1 DEF Modal
        <3>1. CASE i \in 1..Len(text)
            <4>1. session[i].mode \in {"fed", "lost", Mode(SubSeq(text, 1, i - 1))}
                BY <1>0, <3>1 DEF TurnInv, Modal
            <4>2. SubSeq(text', 1, i - 1) = SubSeq(text, 1, i - 1) /\ SubSeq(text, 1, i - 1) \in Seq(Tokens)
                <5>1. i - 1 \in 0..Len(text) /\ "T" \in Tokens /\ "x" \in Tokens
                    BY <2>1, <3>1 DEF Tokens
                <5>2. SubSeq(one, 1, i - 1) = SubSeq(text, 1, i - 1)
                    BY <1>0, <5>1, Grown DEF one
                <5>3. i - 1 \in 0..Len(one)
                    BY <2>1, <2>2, <5>1
                <5>4. SubSeq(text', 1, i - 1) = SubSeq(one, 1, i - 1)
                    BY <2>2, <5>1, <5>3, Grown
                <5>5. QED
                    BY <1>0, <5>1, <5>2, <5>4
            <4>3. Mode(SubSeq(text, 1, i - 1))' = Mode(SubSeq(text, 1, i - 1))
                BY <1>0, <4>2, ModeRigid
            <4>4. QED
                BY <2>3, <3>1, <4>1, <4>3
        <3>2. CASE i = Len(text) + 1 \/ i = Len(text) + 2
            BY <2>3, <3>2
        <3>3. QED
            BY <2>1, <2>2, <3>1, <3>2
    <2>8. Masked'
        <3> SUFFICES ASSUME NEW i \in 1..Len(text'), session'[i].mode = "lost"
                     PROVE  Excused(SubSeq(text, 1, i))'
            BY <1>0, <2>1 DEF Masked
        <3>1. CASE i \in 1..Len(text)
            <4>1. Excused(SubSeq(text, 1, i))
                BY <1>0, <2>3, <3>1 DEF TurnInv, Masked
            <4>2. SubSeq(text', 1, i) = SubSeq(text, 1, i) /\ SubSeq(text, 1, i) \in Seq(Tokens)
                <5>1. i \in 0..Len(text) /\ i \in 0..Len(one) /\ "T" \in Tokens /\ "x" \in Tokens
                    BY <2>1, <2>2, <3>1 DEF Tokens
                <5>2. SubSeq(one, 1, i) = SubSeq(text, 1, i)
                    BY <1>0, <5>1, Grown DEF one
                <5>3. SubSeq(text', 1, i) = SubSeq(one, 1, i)
                    BY <2>2, <5>1, Grown
                <5>4. QED
                    BY <1>0, <5>1, <5>2, <5>3
            <4>3. QED
                BY <1>0, <4>1, <4>2, ExcusedRigid
        <3>2. CASE i = Len(text) + 1 \/ i = Len(text) + 2
            BY <2>3, <3>2
        <3>3. QED
            BY <2>1, <2>2, <3>1, <3>2
    <2>9. QED
        BY <2>4, <2>5, <2>6, <2>7, <2>8 DEF TurnInv
<1>3. QED
    BY <1>0, <1>1, <1>2 DEF Recover

\* Every step of a turn preserves its invariant.
LEMMA StepTurn ==
    ASSUME TurnBounds, TurnInv, [TurnNext]_turnVars
    PROVE  TurnInv'
<1>1. TurnTypeOK'
    BY TurnTyped
<1>2. CASE \/ UNCHANGED turnVars \/ Cancel \/ Generate \/ LoopEnds \/ LoopCancelled \/ NothingDrawn
           \/ TurnEnds \/ TurnFails \/ Parse \/ Execute
    BY <1>1, <1>2, StepMoves
<1>3. CASE Round
    BY <1>1, <1>3, StepRound
<1>4. ASSUME NEW k \in Tokens, SampleOne(k) PROVE TurnInv'
    BY <1>1, <1>4, StepOne
<1>5. ASSUME NEW n \in 1..Draft, NEW b \in [1..n -> Tokens], SampleBlock(b) PROVE TurnInv'
    BY <1>1, <1>5, StepBlock
<1>6. CASE BlockStop
    BY <1>1, <1>6, StepStop
<1>7. CASE BlockToken
    BY <1>1, <1>7, StepToken
<1>8. CASE Recover
    BY <1>1, <1>8, StepRecover
<1>9. QED
    BY <1>2, <1>3, <1>4, <1>5, <1>6, <1>7, <1>8 DEF TurnNext, TurnStep

\* A turn begins within its bounds.
LEMMA TurnBegins ==
    ASSUME TurnBounds, TurnInit
    PROVE  TurnInv
<1>1. TurnTypeOK
    <2>1. <<>> \in Seq([tok : Tokens, mode : Modes]) /\ <<>> \in Seq(Tokens)
        OBVIOUS
    <2>2. 0 \in 0..MaxTokens /\ MaxTokens \in 0..MaxTokens /\ 0 \in 0..(MaxRounds - 1) /\ 0 \in 0..2
        BY DEF TurnBounds
    <2>3. QED
        BY <2>1, <2>2 DEF TurnInit, TurnTypeOK
<1>2. Aligned /\ Fitting /\ Unfinished /\ Modal /\ Masked
    BY DEF TurnInit, TurnBounds, Aligned, Fitting, Unfinished, Modal, Masked, Active, Pos
<1>3. QED
    BY <1>1, <1>2 DEF TurnInv

\* The invariant of a turn: session, text and block agree; what may be added
\* fits; the text was open until its last token; every token has its mode.
THEOREM TurnInvariance ==
    ASSUME TurnBounds
    PROVE  TurnSpec => []TurnInv
<1>1. TurnInit => TurnInv
    BY TurnBegins
<1>2. TurnInv /\ [TurnNext]_turnVars => TurnInv'
    BY StepTurn
<1>3. QED
    BY <1>1, <1>2, PTL DEF TurnSpec

\* The types of a run.
THEOREM TurnTypeCorrect ==
    ASSUME TurnBounds
    PROVE  TurnSpec => []TurnTypeOK
<1>1. TurnInv => TurnTypeOK
    BY DEF TurnInv
<1>2. QED
    BY <1>1, TurnInvariance, PTL

\* When a turn ends every token recorded for it went to the session, in order
\* and once, and nothing else did, for any budget, draft and context; the one
\* whose Eval failed completed the turn, or asked for the recovery
\* (generation.go:262-302, toolloop.go:72-91).
THEOREM SessionIsTextTheorem ==
    ASSUME TurnBounds
    PROVE  TurnSpec => []SessionIsText
<1>1. TurnInv => SessionIsText
    <2> SUFFICES ASSUME TurnInv, step = "parse"
                 PROVE  /\ Toks(session) = text
                        /\ \A i \in DOMAIN session : session[i].mode = "lost" =>
                              \/ i = Len(text) /\ (Closed(text) \/ Done(text))
                              \/ StanzaInThinking(SubSeq(text, 1, i))
        BY DEF SessionIsText
    <2>1. session \in Seq(Drawing) /\ text \in Seq(Tokens) /\ block = <<>>
        BY DEF TurnInv, TurnTypeOK, Drawing, Aligned
    <2>2. Len(session) = Len(text) /\ \A i \in 1..Len(text) : session[i].tok = text[i]
        <3>1. Len(session) = Len(text) + Len(block) /\ \A i \in 1..Len(text) : session[i].tok = text[i]
            BY DEF TurnInv, Aligned, Active
        <3>2. Len(block) = 0 /\ Len(text) \in Nat
            BY <2>1
        <3>3. QED
            BY <3>1, <3>2
    <2>3. \A i \in 1..Len(session) : session[i].tok \in Tokens
        <3>1. \A i \in 1..Len(session) : session[i] \in Drawing
            BY <2>1
        <3>2. QED
            BY <3>1 DEF Drawing
    <2>4. /\ Toks(session) \in Seq(Tokens) /\ Len(Toks(session)) = Len(session)
          /\ \A i \in 1..Len(session) : Toks(session)[i] = session[i].tok
        BY <2>1, <2>3 DEF Toks
    <2>5. Toks(session) = text
        BY <2>1, <2>2, <2>4, SeqEqual
    <2>6. ASSUME NEW i \in DOMAIN session, session[i].mode = "lost"
          PROVE  \/ i = Len(text) /\ (Closed(text) \/ Done(text))
                 \/ StanzaInThinking(SubSeq(text, 1, i))
        <3>1. i \in 1..Len(text) /\ Excused(SubSeq(text, 1, i))
            BY <2>1, <2>2, <2>6 DEF TurnInv, Masked, Active
        <3>2. CASE i = Len(text)
            <4>1. SubSeq(text, 1, i) = text
                BY <2>1, <3>2
            <4>2. QED
                BY <3>1, <3>2, <4>1 DEF Excused, OpenText
        <3>3. CASE i # Len(text)
            <4>1. i \in 1..(Len(text) - 1)
                BY <2>1, <3>1, <3>3
            <4>2. OpenText(SubSeq(text, 1, i))
                BY <4>1 DEF TurnInv, Unfinished, Active
            <4>3. QED
                BY <3>1, <4>2 DEF Excused
        <3>4. QED
            BY <3>2, <3>3
    <2>7. QED
        BY <2>5, <2>6
<1>2. QED
    BY <1>1, TurnInvariance, PTL

\* A turn keeps to its budget and to the context, and ends with the token that
\* completed it (generation.go:205-266, toolloop.go:327-350: the recovery included).
THEOREM WithinBudgetTheorem ==
    ASSUME TurnBounds
    PROVE  TurnSpec => []WithinBudget
<1>1. TurnInv => WithinBudget
    BY DEF TurnInv, Fitting, Unfinished, WithinBudget, OpenText, Active
<1>2. QED
    BY <1>1, TurnInvariance, PTL

\* Under exact sampling every token was drawn in the mode that the text before
\* it asks for: a block whose mode no longer holds is drawn again
\* (generation.go:288-300).
THEOREM DrawnInModeTheorem ==
    ASSUME TurnBounds
    PROVE  TurnSpec => []DrawnInMode
<1>1. TurnInv => DrawnInMode
    <2> SUFFICES ASSUME TurnInv, step = "parse", setup.exact, NEW i \in DOMAIN session
                 PROVE  session[i].mode \in {"fed", "lost", Mode(SubSeq(text, 1, i - 1))}
        BY DEF DrawnInMode
    <2>1. session \in Seq(Drawing) /\ text \in Seq(Tokens) /\ block = <<>>
        BY DEF TurnInv, TurnTypeOK, Drawing, Aligned
    <2>2. Len(session) = Len(text) + Len(block) /\ Len(block) = 0 /\ Len(text) \in Nat
        BY <2>1 DEF TurnInv, Aligned, Active
    <2>3. i \in 1..Len(text)
        BY <2>1, <2>2
    <2>4. QED
        BY <2>3 DEF TurnInv, Modal, Active
<1>2. QED
    BY <1>1, TurnInvariance, PTL

-----------------------------------------------------------------------------
(* Callbacks *)

\* What identifies nothing is no function.
HookBounds == NoFn \notin Fns

Given == 1..(nextId - 1)      \* ids that have been given out
Slots == {"token", "done", "progress"}

HookTypes ==
    /\ nextId \in Nat \ {0}
    /\ DOMAIN table = Tables
    /\ \A t \in Tables : /\ DOMAIN table[t] \subseteq Given
                          /\ \A i \in DOMAIN table[t] : table[t][i] \in Fns
    /\ state \in [Sessions -> [Hooks -> Nat]]
    /\ native \in [Sessions -> [Hooks -> Nat]]
    /\ wanted \in [Sessions -> [Hooks -> Fns \cup {NoFn}]]
    /\ call.op \in {"none", "sync", "argmax"}
    /\ abort \in [native : Nat, id : Nat, pos : {"idle", "set", "swap"}, new : Nat,
                  fn : Fns \cup {NoFn}]

\* What id stands for in table t: fn, or nothing.
Names(t, id, fn) ==
    \/ id = 0 /\ fn = NoFn
    \/ id \in DOMAIN table[t] /\ table[t][id] = fn

\* A session's ids stand for what was asked of it, are no other's, and libds4
\* has them, or the hook of this sync in the place of one.
Swapped(s, h) == h = "cancel" /\ call.op = "sync" /\ call.s = s /\ call.ids # NoIds
SessionIds ==
    \A s \in Sessions, h \in Hooks :
        /\ Names(TableOf(h), state[s][h], wanted[s][h])
        /\ native[s][h] = IF Swapped(s, h) THEN call.ids["cancel"] ELSE state[s][h]
        /\ \A r \in Sessions, g \in Hooks :
              state[s][h] # 0 /\ state[r][g] = state[s][h] => r = s /\ g = h
        /\ state[s][h] # 0 => state[s][h] \notin {abort.id, abort.new}

\* A call has ids of its own.
CallIds ==
    /\ call.op = "none" => call.ids = NoIds
    /\ call.op = "sync" => /\ call.s \in Sessions
                           /\ \/ call.ids = NoIds /\ call.fn = wanted[call.s]["cancel"]
                              \/ DOMAIN call.ids = {"cancel"} /\ table["cancel"][call.ids["cancel"]] = call.fn
    /\ call.op = "argmax" => /\ DOMAIN call.ids \subseteq Slots
                             /\ \A t \in DOMAIN call.ids : table[t][call.ids[t]] = call.fn[t]
    /\ \A t \in DOMAIN call.ids :
          /\ call.ids[t] \in DOMAIN table[t]
          /\ \A s \in Sessions, h \in Hooks : call.ids[t] # state[s][h]

\* libds4 has the abort hook that is installed, or the one that replaces it.
AbortIds ==
    /\ abort.id # 0 => abort.id \in DOMAIN table["abort"]
    /\ abort.new # 0 => abort.new # abort.id
    /\ abort.pos = "idle" => abort.new = 0 /\ Names("abort", abort.id, abort.fn)
    /\ abort.pos # "idle" => Names("abort", abort.new, abort.fn)
    /\ abort.native = IF abort.pos = "swap" THEN abort.new ELSE abort.id

\* Every registration has an owner.
Owner(t, i) ==
    \/ \E s \in Sessions, h \in Hooks : TableOf(h) = t /\ state[s][h] = i
    \/ t \in DOMAIN call.ids /\ call.ids[t] = i
    \/ t = "abort" /\ i \in {abort.id, abort.new}
Owners == \A t \in Tables : \A i \in DOMAIN table[t] : Owner(t, i)

HooksInv == HookTypes /\ SessionIds /\ CallIds /\ AbortIds /\ Owners

\* An id that is being given out is nobody's.
LEMMA Unused ==
    ASSUME HooksInv, NEW n \in Nat, n >= nextId
    PROVE  /\ \A t \in Tables : n \notin DOMAIN table[t]
           /\ \A s \in Sessions, h \in Hooks : state[s][h] # n
           /\ \A t \in DOMAIN call.ids : t \in Tables => call.ids[t] # n
           /\ abort.id # n /\ abort.new # n /\ n # 0
<1>1. nextId \in Nat \ {0} /\ \A t \in Tables : DOMAIN table[t] \subseteq 1..(nextId - 1)
    BY DEF HooksInv, HookTypes, Given
<1>2. \A t \in Tables : n \notin DOMAIN table[t]
    BY <1>1
<1>3. n # 0
    BY <1>1
<1>4. \A h \in Hooks : TableOf(h) \in Tables
    BY DEF Hooks, Tables, TableOf
<1>5. \A s \in Sessions, h \in Hooks : state[s][h] # n
    BY <1>2, <1>3, <1>4 DEF HooksInv, SessionIds, Names
<1>6. \A t \in DOMAIN call.ids : t \in Tables => call.ids[t] # n
    BY <1>2 DEF HooksInv, CallIds
<1>7. "abort" \in Tables
    BY DEF Tables
<1>8. abort.id # n
    BY <1>2, <1>3, <1>7 DEF HooksInv, AbortIds
<1>9. abort.new # n
    BY <1>2, <1>3, <1>7 DEF HooksInv, AbortIds, Names, HookTypes
<1>10. QED
    BY <1>2, <1>3, <1>5, <1>6, <1>8, <1>9

\* Sessions come, and are forgotten, with what they registered.
LEMMA HooksSameTables ==
    ASSUME HooksInv, NEW s \in Sessions, NewSession(s) \/ Drop(s)
    PROVE  HooksInv'
<1>1. UNCHANGED <<nextId, table, state, native, wanted, call, abort>>
    BY DEF NewSession, Drop
<1>2. QED
    BY <1>1 DEF HooksInv, HookTypes, SessionIds, CallIds, AbortIds, Owners, Owner, Names, Swapped, Given

\* A session is given a function, or none, in the place of what it had.
LEMMA HooksSet ==
    ASSUME HookBounds, HooksInv, NEW s \in Sessions, NEW h \in Hooks, NEW fn \in Fns \cup {NoFn},
           SetHook(s, h, fn)
    PROVE  HooksInv'
<1> DEFINE T == TableOf(h)
           id == IF fn = NoFn THEN 0 ELSE nextId
<1>0. /\ call.op = "none" /\ call.ids = NoIds /\ T \in Tables
      /\ nextId \in Nat /\ nextId > 0 /\ nextId' \in Nat
      /\ nextId' = IF fn = NoFn THEN nextId ELSE nextId + 1
      /\ UNCHANGED <<call, abort>>
    BY DEF SetHook, Unlocked, HooksInv, HookTypes, CallIds, TableOf, Tables, Hooks
<1>1. /\ state' = [state EXCEPT ![s][h] = id] /\ native' = [native EXCEPT ![s][h] = id]
      /\ wanted' = [wanted EXCEPT ![s][h] = fn]
    BY DEF SetHook
<1>2. table' = [table EXCEPT ![T] = IF fn = NoFn THEN Delete(table[T], {state[s][h]})
                                    ELSE With(Delete(table[T], {state[s][h]}), id, fn)]
    BY DEF SetHook
<1> HIDE DEF T
<1>3. /\ DOMAIN table' = Tables /\ \A t \in Tables : t # T => table'[t] = table[t]
      /\ fn = NoFn => DOMAIN table'[T] = DOMAIN table[T] \ {state[s][h]}
      /\ fn # NoFn => /\ DOMAIN table'[T] = (DOMAIN table[T] \ {state[s][h]}) \cup {nextId}
                      /\ table'[T][nextId] = fn
      /\ \A i \in DOMAIN table[T] \ {state[s][h]} : table'[T][i] = table[T][i]
    <2>1. nextId \notin DOMAIN table[T]
        <3>1. nextId >= nextId
            BY <1>0
        <3>2. \A t \in Tables : nextId \notin DOMAIN table[t]
            BY <1>0, <3>1, Unused
        <3>3. QED
            BY <1>0, <3>2
    <2>2. DOMAIN table = Tables
        BY DEF HooksInv, HookTypes
    <2> DEFINE old == Delete(table[T], {state[s][h]})
    <2>3. DOMAIN old = DOMAIN table[T] \ {state[s][h]} /\ \A i \in DOMAIN old : old[i] = table[T][i]
        BY DEF Delete, Restrict
    <2>4. /\ DOMAIN With(old, nextId, fn) = DOMAIN old \cup {nextId} /\ With(old, nextId, fn)[nextId] = fn
          /\ \A i \in DOMAIN old : i # nextId => With(old, nextId, fn)[i] = old[i]
        BY DEF With
    <2>5. table' = [table EXCEPT ![T] = IF fn = NoFn THEN old ELSE With(old, nextId, fn)]
        BY <1>2
    <2> HIDE DEF old
    <2>6. QED
        BY <1>0, <2>1, <2>2, <2>3, <2>4, <2>5
<1>4. \A r \in Sessions, g \in Hooks :
          /\ state'[r][g] = IF r = s /\ g = h THEN id ELSE state[r][g]
          /\ native'[r][g] = IF r = s /\ g = h THEN id ELSE native[r][g]
          /\ wanted'[r][g] = IF r = s /\ g = h THEN fn ELSE wanted[r][g]
    BY <1>1 DEF HooksInv, HookTypes
<1>5. /\ \A t \in Tables : nextId \notin DOMAIN table[t]
      /\ \A r \in Sessions, g \in Hooks : state[r][g] # nextId
      /\ abort.id # nextId /\ abort.new # nextId /\ nextId # 0
    <2>1. nextId >= nextId
        BY <1>0
    <2>2. QED
        BY <1>0, <2>1, Unused
<1>6. /\ id \in Nat
      /\ \/ id = 0 /\ fn = NoFn
         \/ id = nextId /\ fn \in Fns /\ fn # NoFn
    <2>1. CASE fn = NoFn
        BY <2>1
    <2>2. CASE fn # NoFn
        BY <1>0, <2>2
    <2>3. QED
        BY <2>1, <2>2
<1> HIDE DEF id
<1>7. HookTypes'
    <2>1. /\ state' \in [Sessions -> [Hooks -> Nat]] /\ native' \in [Sessions -> [Hooks -> Nat]]
          /\ wanted' \in [Sessions -> [Hooks -> Fns \cup {NoFn}]]
        BY <1>1, <1>6 DEF HooksInv, HookTypes
    <2>2. ASSUME NEW t \in Tables
          PROVE  DOMAIN table'[t] \subseteq Given' /\ \A i \in DOMAIN table'[t] : table'[t][i] \in Fns
        <3>1. DOMAIN table[t] \subseteq Given /\ \A i \in DOMAIN table[t] : table[t][i] \in Fns
            BY DEF HooksInv, HookTypes
        <3>2. Given \subseteq Given' /\ (fn # NoFn => nextId \in Given')
            BY <1>0 DEF Given
        <3>3. QED
            BY <1>0, <1>3, <3>1, <3>2
    <2>3. nextId' \in Nat \ {0}
        BY <1>0
    <2>4. QED
        BY <1>0, <1>3, <2>1, <2>2, <2>3 DEF HooksInv, HookTypes
<1>8. SessionIds'
    <2>1. ASSUME NEW r \in Sessions, NEW g \in Hooks
          PROVE  Names(TableOf(g), state[r][g], wanted[r][g])'
        <3>1. CASE r = s /\ g = h
            BY <1>3, <1>4, <1>6, <3>1 DEF Names, T
        <3>2. CASE ~(r = s /\ g = h)
            <4>1. Names(TableOf(g), state[r][g], wanted[r][g]) /\ TableOf(g) \in Tables
                BY DEF HooksInv, SessionIds, TableOf, Hooks, Tables
            <4>2. state[r][g] # 0 => state[r][g] # state[s][h]
                BY <3>2 DEF HooksInv, SessionIds
            <4>3. 0 \notin DOMAIN table[T]
                BY <1>0 DEF HooksInv, HookTypes, Given
            <4>4. QED
                BY <1>3, <1>4, <3>2, <4>1, <4>2, <4>3 DEF Names, TableOf
        <3>3. QED
            BY <3>1, <3>2
    <2>2. ASSUME NEW r \in Sessions, NEW g \in Hooks
          PROVE  native'[r][g] = IF Swapped(r, g)' THEN call'.ids["cancel"] ELSE state'[r][g]
        BY <1>0, <1>4 DEF HooksInv, SessionIds, Swapped
    <2>3. ASSUME NEW r \in Sessions, NEW g \in Hooks, NEW q \in Sessions, NEW f \in Hooks,
                 state'[r][g] # 0, state'[q][f] = state'[r][g]
          PROVE  q = r /\ f = g
        BY <1>4, <1>5, <1>6, <2>3 DEF HooksInv, SessionIds
    <2>4. ASSUME NEW r \in Sessions, NEW g \in Hooks, state'[r][g] # 0
          PROVE  state'[r][g] \notin {abort'.id, abort'.new}
        BY <1>0, <1>4, <1>5, <1>6, <2>4 DEF HooksInv, SessionIds
    <2>5. QED
        BY <2>1, <2>2, <2>3, <2>4 DEF SessionIds
<1>9. CallIds'
    BY <1>0 DEF CallIds, NoIds
<1>10. AbortIds'
    <2>1. "abort" \in Tables /\ T # "abort"
        BY DEF T, Tables, TableOf, Hooks
    <2>2. table'["abort"] = table["abort"]
        BY <1>3, <2>1
    <2>3. QED
        BY <1>0, <2>2 DEF HooksInv, AbortIds, Names
<1>11. Owners'
    <2> SUFFICES ASSUME NEW t \in Tables, NEW i \in DOMAIN table'[t]
                 PROVE  Owner(t, i)'
        BY DEF Owners
    <2>1. CASE t = T /\ fn # NoFn /\ i = nextId
        BY <1>4, <1>6, <2>1 DEF Owner, T
    <2>2. CASE ~(t = T /\ fn # NoFn /\ i = nextId)
        <3>1. i \in DOMAIN table[t] /\ (t = T => i # state[s][h])
            BY <1>3, <2>2
        <3>2. Owner(t, i)
            BY <3>1 DEF HooksInv, Owners
        <3>3. \A r \in Sessions, g \in Hooks :
                  TableOf(g) = t /\ state[r][g] = i => state'[r][g] = i
            BY <1>4, <3>1 DEF T
        <3>4. QED
            BY <1>0, <3>2, <3>3 DEF Owner
    <2>3. QED
        BY <2>1, <2>2
<1>12. QED
    BY <1>7, <1>8, <1>9, <1>10, <1>11 DEF HooksInv

\* A sync puts its hook in the place of the session's.
LEMMA HooksSync ==
    ASSUME HookBounds, HooksInv, NEW s \in Sessions, Sync(s)
    PROVE  HooksInv'
<1>1. PICK fn \in Fns \cup {NoFn} : SyncStarts(s, fn)
    BY DEF Sync
<1>0. /\ call.op = "none" /\ call.ids = NoIds /\ nextId \in Nat /\ nextId > 0
      /\ UNCHANGED <<state, wanted, abort>> /\ "cancel" \in Hooks /\ TableOf("cancel") = "cancel"
    BY <1>1 DEF SyncStarts, Unlocked, HooksInv, HookTypes, CallIds, Hooks, TableOf
<1>2. CASE fn = NoFn
    <2>1. /\ call' = [NoCall EXCEPT !.op = "sync", !.s = s, !.fn = wanted[s]["cancel"]]
          /\ UNCHANGED <<nextId, table, native>>
        BY <1>1, <1>2 DEF SyncStarts
    <2>2. call'.op = "sync" /\ call'.s = s /\ call'.fn = wanted[s]["cancel"] /\ call'.ids = NoIds
        BY <2>1 DEF NoCall
    <2>3. HookTypes' /\ AbortIds' /\ CallIds'
        BY <1>0, <2>1, <2>2 DEF HooksInv, HookTypes, Given, AbortIds, Names, CallIds, NoIds
    <2>4. SessionIds'
        BY <1>0, <2>1, <2>2 DEF HooksInv, SessionIds, Names, Swapped
    <2>5. Owners'
        BY <1>0, <2>1, <2>2 DEF HooksInv, Owners, Owner
    <2>6. QED
        BY <2>3, <2>4, <2>5 DEF HooksInv
<1>3. CASE fn # NoFn
    <2>1. /\ nextId' = nextId + 1 /\ fn \in Fns
          /\ table' = [table EXCEPT !["cancel"] = With(@, nextId, fn)]
          /\ native' = [native EXCEPT ![s]["cancel"] = nextId]
          /\ call' = [op |-> "sync", s |-> s, fn |-> fn, ids |-> [cancel |-> nextId]]
        BY <1>1, <1>3 DEF SyncStarts
    <2>2. /\ call'.op = "sync" /\ call'.s = s /\ call'.fn = fn
          /\ DOMAIN call'.ids = {"cancel"} /\ call'.ids["cancel"] = nextId
          /\ call'.ids # NoIds
        BY <2>1 DEF NoIds
    <2>3. /\ \A t \in Tables : nextId \notin DOMAIN table[t]
          /\ \A r \in Sessions, g \in Hooks : state[r][g] # nextId
        <3>1. nextId >= nextId
            BY <1>0
        <3>2. QED
            BY <1>0, <3>1, Unused
    <2>4. DOMAIN table = Tables /\ "cancel" \in Tables
        BY DEF HooksInv, HookTypes, Tables
    <2>5. /\ DOMAIN table' = Tables /\ \A t \in Tables : t # "cancel" => table'[t] = table[t]
          /\ DOMAIN table'["cancel"] = DOMAIN table["cancel"] \cup {nextId}
          /\ table'["cancel"][nextId] = fn
          /\ \A i \in DOMAIN table["cancel"] : table'["cancel"][i] = table["cancel"][i]
        BY <2>1, <2>3, <2>4 DEF With
    <2>6. native' \in [Sessions -> [Hooks -> Nat]]
          /\ \A r \in Sessions, g \in Hooks :
                 native'[r][g] = IF r = s /\ g = "cancel" THEN nextId ELSE native[r][g]
        BY <1>0, <2>1 DEF HooksInv, HookTypes
    <2>7. HookTypes'
        <3>1. ASSUME NEW t \in Tables
              PROVE  DOMAIN table'[t] \subseteq Given' /\ \A i \in DOMAIN table'[t] : table'[t][i] \in Fns
            <4>1. DOMAIN table[t] \subseteq Given /\ \A i \in DOMAIN table[t] : table[t][i] \in Fns
                BY DEF HooksInv, HookTypes
            <4>2. Given \subseteq Given' /\ nextId \in Given'
                BY <1>0, <2>1 DEF Given
            <4>3. QED
                BY <2>1, <2>5, <4>1, <4>2
        <3>2. nextId' \in Nat \ {0}
            BY <1>0, <2>1
        <3>3. QED
            BY <1>0, <2>2, <2>5, <2>6, <3>1, <3>2 DEF HooksInv, HookTypes
    <2>8. SessionIds'
        <3>1. ASSUME NEW r \in Sessions, NEW g \in Hooks
              PROVE  Names(TableOf(g), state[r][g], wanted[r][g])'
            <4>1. Names(TableOf(g), state[r][g], wanted[r][g]) /\ TableOf(g) \in Tables
                BY DEF HooksInv, SessionIds, TableOf, Hooks, Tables
            <4>2. QED
                BY <1>0, <2>5, <4>1 DEF Names, TableOf
        <3>2. ASSUME NEW r \in Sessions, NEW g \in Hooks
              PROVE  native'[r][g] = IF Swapped(r, g)' THEN call'.ids["cancel"] ELSE state'[r][g]
            BY <1>0, <2>2, <2>6 DEF HooksInv, SessionIds, Swapped
        <3>3. QED
            BY <1>0, <3>1, <3>2 DEF HooksInv, SessionIds
    <2>9. CallIds'
        BY <1>0, <2>2, <2>3, <2>5 DEF CallIds
    <2>10. AbortIds'
        <3>1. table'["abort"] = table["abort"]
            BY <2>5 DEF Tables
        <3>2. QED
            BY <1>0, <3>1 DEF HooksInv, AbortIds, Names
    <2>11. Owners'
        <3> SUFFICES ASSUME NEW t \in Tables, NEW i \in DOMAIN table'[t]
                     PROVE  Owner(t, i)'
            BY DEF Owners
        <3>1. CASE t = "cancel" /\ i = nextId
            BY <2>2, <3>1 DEF Owner
        <3>2. CASE ~(t = "cancel" /\ i = nextId)
            <4>1. Owner(t, i)
                BY <2>5, <3>2 DEF HooksInv, Owners
            <4>2. t \notin DOMAIN call.ids
                BY <1>0 DEF NoIds
            <4>3. QED
                BY <1>0, <4>1, <4>2 DEF Owner
        <3>3. QED
            BY <3>1, <3>2
    <2>12. QED
        BY <2>7, <2>8, <2>9, <2>10, <2>11 DEF HooksInv
<1>4. QED
    BY <1>2, <1>3

\* When it returns the session's hook is back.
LEMMA HooksSynced ==
    ASSUME HookBounds, HooksInv, SyncReturns
    PROVE  HooksInv'
<1>0. /\ call.op = "sync" /\ call' = NoCall /\ call.s \in Sessions
      /\ UNCHANGED <<nextId, state, wanted, abort>>
      /\ call'.op = "none" /\ call'.ids = NoIds
    BY DEF SyncReturns, HooksInv, CallIds, NoCall
<1>1. CASE call.ids = NoIds
    <2>1. UNCHANGED <<table, native>>
        BY <1>1 DEF SyncReturns
    <2>2. HookTypes' /\ AbortIds' /\ CallIds'
        BY <1>0, <2>1 DEF HooksInv, HookTypes, Given, AbortIds, Names, CallIds, NoIds
    <2>3. SessionIds'
        BY <1>0, <1>1, <2>1 DEF HooksInv, SessionIds, Names, Swapped
    <2>4. Owners'
        BY <1>0, <1>1, <2>1 DEF HooksInv, Owners, Owner
    <2>5. QED
        BY <2>2, <2>3, <2>4 DEF HooksInv
<1>2. CASE call.ids # NoIds
    <2> DEFINE own == call.ids["cancel"]
    <2>1. /\ native' = [native EXCEPT ![call.s]["cancel"] = state[call.s]["cancel"]]
          /\ table' = [table EXCEPT !["cancel"] = Delete(@, {own})]
        BY <1>2 DEF SyncReturns
    <2>2. /\ DOMAIN call.ids = {"cancel"}
          /\ \A r \in Sessions, g \in Hooks : state[r][g] # own
        BY <1>0, <1>2 DEF HooksInv, CallIds
    <2>3. DOMAIN table = Tables /\ "cancel" \in Tables /\ "cancel" \in Hooks
        BY DEF HooksInv, HookTypes, Tables, Hooks
    <2> HIDE DEF own
    <2>4. /\ DOMAIN table' = Tables /\ \A t \in Tables : t # "cancel" => table'[t] = table[t]
          /\ DOMAIN table'["cancel"] = DOMAIN table["cancel"] \ {own}
          /\ \A i \in DOMAIN table["cancel"] \ {own} : table'["cancel"][i] = table["cancel"][i]
        BY <2>1, <2>3 DEF Delete, Restrict
    <2>5. native' \in [Sessions -> [Hooks -> Nat]]
          /\ \A r \in Sessions, g \in Hooks :
                 native'[r][g] = IF r = call.s /\ g = "cancel" THEN state[r][g] ELSE native[r][g]
        BY <1>0, <2>1, <2>3 DEF HooksInv, HookTypes
    <2>6. HookTypes'
        <3>1. ASSUME NEW t \in Tables
              PROVE  DOMAIN table'[t] \subseteq Given' /\ \A i \in DOMAIN table'[t] : table'[t][i] \in Fns
            <4>1. DOMAIN table[t] \subseteq Given /\ \A i \in DOMAIN table[t] : table[t][i] \in Fns
                BY DEF HooksInv, HookTypes
            <4>2. Given' = Given
                BY <1>0 DEF Given
            <4>3. QED
                BY <2>4, <4>1, <4>2
        <3>2. QED
            BY <1>0, <2>4, <2>5, <3>1 DEF HooksInv, HookTypes
    <2>7. SessionIds'
        <3>1. ASSUME NEW r \in Sessions, NEW g \in Hooks
              PROVE  Names(TableOf(g), state[r][g], wanted[r][g])'
            <4>1. Names(TableOf(g), state[r][g], wanted[r][g]) /\ TableOf(g) \in Tables
                BY DEF HooksInv, SessionIds, TableOf, Hooks, Tables
            <4>2. QED
                BY <1>0, <2>2, <2>4, <4>1 DEF Names, TableOf
        <3>2. ASSUME NEW r \in Sessions, NEW g \in Hooks
              PROVE  native'[r][g] = state'[r][g] /\ ~Swapped(r, g)'
            BY <1>0, <2>5 DEF HooksInv, SessionIds, Swapped
        <3>3. QED
            BY <1>0, <3>1, <3>2 DEF HooksInv, SessionIds
    <2>8. CallIds'
        BY <1>0 DEF CallIds, NoIds
    <2>9. AbortIds'
        <3>1. table'["abort"] = table["abort"]
            BY <2>4 DEF Tables
        <3>2. QED
            BY <1>0, <3>1 DEF HooksInv, AbortIds, Names
    <2>10. Owners'
        <3> SUFFICES ASSUME NEW t \in Tables, NEW i \in DOMAIN table'[t]
                     PROVE  Owner(t, i)'
            BY DEF Owners
        <3>1. i \in DOMAIN table[t] /\ (t = "cancel" => i # own)
            BY <2>4
        <3>2. Owner(t, i)
            BY <3>1 DEF HooksInv, Owners
        <3>3. ~(t \in DOMAIN call.ids /\ call.ids[t] = i)
            BY <2>2, <3>1 DEF own
        <3>4. QED
            BY <1>0, <3>2, <3>3 DEF Owner
    <2>11. QED
        BY <2>6, <2>7, <2>8, <2>9, <2>10 DEF HooksInv
<1>3. QED
    BY <1>1, <1>2

\* A session that is closed, or collected, takes what is its own with it.
LEMMA HooksReleased ==
    ASSUME HookBounds, HooksInv, NEW s \in Sessions, Close(s) \/ CleanSession(s)
    PROVE  HooksInv'
<1> DEFINE own == {state[s][h] : h \in Hooks}
<1>0. /\ call.op = "none" /\ call.ids = NoIds /\ Released(s)
      /\ UNCHANGED <<nextId, call, abort>>
    BY DEF Close, CleanSession, Released, Unlocked, HooksInv, CallIds
<1>1. /\ native' = [native EXCEPT ![s] = NoHooks(0)] /\ state' = [state EXCEPT ![s] = NoHooks(0)]
      /\ wanted' = [wanted EXCEPT ![s] = NoHooks(NoFn)]
      /\ table' = [t \in Tables |-> Delete(table[t], own)]
    BY <1>0 DEF Released
<1>2. /\ state' \in [Sessions -> [Hooks -> Nat]] /\ native' \in [Sessions -> [Hooks -> Nat]]
      /\ wanted' \in [Sessions -> [Hooks -> Fns \cup {NoFn}]]
    BY <1>1 DEF HooksInv, HookTypes, NoHooks
<1>3. \A r \in Sessions, g \in Hooks :
          /\ state'[r][g] = IF r = s THEN 0 ELSE state[r][g]
          /\ native'[r][g] = IF r = s THEN 0 ELSE native[r][g]
          /\ wanted'[r][g] = IF r = s THEN NoFn ELSE wanted[r][g]
    BY <1>1 DEF HooksInv, HookTypes, NoHooks
<1>4. \A i : i \in own <=> \E h \in Hooks : state[s][h] = i
    OBVIOUS
<1> HIDE DEF own
<1>5. /\ DOMAIN table' = Tables
      /\ \A t \in Tables : /\ DOMAIN table'[t] = DOMAIN table[t] \ own
                            /\ \A i \in DOMAIN table[t] \ own : table'[t][i] = table[t][i]
    BY <1>1 DEF Delete, Restrict
<1>6. \A t \in Tables : 0 \notin DOMAIN table[t]
    BY DEF HooksInv, HookTypes, Given
<1>7. HookTypes'
    <2>1. Given' = Given
        BY <1>0 DEF Given
    <2>2. QED
        BY <1>0, <1>2, <1>5, <2>1 DEF HooksInv, HookTypes
<1>8. SessionIds'
    <2>1. ASSUME NEW r \in Sessions, NEW g \in Hooks
          PROVE  Names(TableOf(g), state[r][g], wanted[r][g])'
        <3>1. CASE r = s
            BY <1>3, <3>1 DEF Names
        <3>2. CASE r # s
            <4>1. Names(TableOf(g), state[r][g], wanted[r][g]) /\ TableOf(g) \in Tables
                BY DEF HooksInv, SessionIds, TableOf, Hooks, Tables
            <4>2. state[r][g] # 0 => state[r][g] \notin own
                BY <1>4, <3>2 DEF HooksInv, SessionIds
            <4>3. QED
                BY <1>3, <1>5, <1>6, <3>2, <4>1, <4>2 DEF Names, TableOf
        <3>3. QED
            BY <3>1, <3>2
    <2>2. ASSUME NEW r \in Sessions, NEW g \in Hooks
          PROVE  native'[r][g] = state'[r][g] /\ ~Swapped(r, g)'
        BY <1>0, <1>3 DEF HooksInv, SessionIds, Swapped
    <2>3. ASSUME NEW r \in Sessions, NEW g \in Hooks, state'[r][g] # 0
          PROVE  state'[r][g] = state[r][g] /\ r # s
        BY <1>3, <2>3
    <2>4. QED
        BY <1>0, <1>3, <2>1, <2>2, <2>3 DEF HooksInv, SessionIds
<1>9. CallIds'
    BY <1>0 DEF CallIds, NoIds
<1>10. AbortIds'
    <2>1. "abort" \in Tables
        BY DEF Tables
    <2>2. /\ abort.id # 0 => abort.id \notin own
          /\ abort.new # 0 => abort.new \notin own
        BY <1>4 DEF HooksInv, SessionIds
    <2>3. ASSUME NEW i, NEW fn, i # 0 => i \notin own, Names("abort", i, fn)
          PROVE  Names("abort", i, fn)'
        BY <1>5, <1>6, <2>1, <2>3 DEF Names
    <2>4. abort.id # 0 => abort.id \in DOMAIN table'["abort"]
        BY <1>5, <2>1, <2>2 DEF HooksInv, AbortIds
    <2>5. abort.pos = "idle" => Names("abort", abort.id, abort.fn)'
        BY <1>0, <2>2, <2>3 DEF HooksInv, AbortIds
    <2>6. abort.pos # "idle" => Names("abort", abort.new, abort.fn)'
        BY <1>0, <2>2, <2>3 DEF HooksInv, AbortIds
    <2>7. QED
        BY <1>0, <2>4, <2>5, <2>6 DEF HooksInv, AbortIds
<1>11. Owners'
    <2> SUFFICES ASSUME NEW t \in Tables, NEW i \in DOMAIN table'[t]
                 PROVE  Owner(t, i)'
        BY DEF Owners
    <2>1. i \in DOMAIN table[t] /\ i \notin own
        BY <1>5
    <2>2. Owner(t, i)
        BY <2>1 DEF HooksInv, Owners
    <2>3. \A r \in Sessions, g \in Hooks : state[r][g] = i => state'[r][g] = i
        BY <1>3, <1>4, <2>1
    <2>4. QED
        BY <1>0, <2>2, <2>3 DEF Owner
<1>12. QED
    BY <1>7, <1>8, <1>9, <1>10, <1>11 DEF HooksInv

\* A generation registers what it was given, each under an id of its own.
LEMMA HooksArgmax ==
    ASSUME HookBounds, HooksInv, NEW fns \in [Slots -> Fns \cup {NoFn}], ArgmaxStarts(fns)
    PROVE  HooksInv'
<1> DEFINE some == Some(fns)
           n == Cardinality(some)
<1>0. /\ call.op = "none" /\ call.ids = NoIds /\ nextId \in Nat /\ nextId > 0
      /\ nextId' = nextId + n
      /\ UNCHANGED <<state, native, wanted, abort>>
    <2>1. Cardinality(some) = n
        BY DEF Cardinality, Cardinality
    <2>2. QED
        BY <2>1 DEF ArgmaxStarts, Unlocked, HooksInv, HookTypes, CallIds
<1>1. /\ some \subseteq Slots /\ some \subseteq Tables /\ \A t \in some : fns[t] \in Fns
      /\ "cancel" \notin some /\ "abort" \notin some
    BY DEF Some, Tables, Slots
<1>2. n \in Nat
    <2>1. IsFiniteSet(Slots)
        <3>1. Slots = {"token", "done", "progress"}
            BY DEF Slots
        <3>2. IsFiniteSet({"token"}) /\ IsFiniteSet({"done"}) /\ IsFiniteSet({"progress"})
            BY FS_Singleton
        <3>3. IsFiniteSet({"token"} \cup {"done"})
            BY <3>2, FS_Union
        <3>4. IsFiniteSet(({"token"} \cup {"done"}) \cup {"progress"})
            BY <3>2, <3>3, FS_Union
        <3>5. ({"token"} \cup {"done"}) \cup {"progress"} = Slots
            BY <3>1
        <3>6. QED
            BY <3>4, <3>5
    <2>2. IsFiniteSet(some)
        BY <1>1, <2>1, FS_Subset
    <2>3. QED
        BY <2>2, FS_CardinalityType
<1>3. PICK ids \in [some -> nextId..(nextId + n - 1)] :
          /\ table' = [t \in Tables |-> IF t \in some THEN With(table[t], ids[t], fns[t]) ELSE table[t]]
          /\ call' = [op |-> "argmax", s |-> 0, fn |-> fns, ids |-> ids]
    <2>1. Cardinality(some) = n
        BY DEF Cardinality, Cardinality
    <2>2. QED
        BY <2>1 DEF ArgmaxStarts
<1> HIDE DEF some, n
<1>4. \A t \in some : /\ ids[t] \in Nat /\ ids[t] >= nextId /\ ids[t] < nextId'
                      /\ ids[t] \in Given'
    BY <1>0, <1>2 DEF Given
<1>5. \A t \in some : /\ ids[t] \notin DOMAIN table[t]
                      /\ \A r \in Sessions, g \in Hooks : state[r][g] # ids[t]
    <2> SUFFICES ASSUME NEW t \in some
                 PROVE  /\ ids[t] \notin DOMAIN table[t]
                        /\ \A r \in Sessions, g \in Hooks : state[r][g] # ids[t]
        OBVIOUS
    <2>1. ids[t] \in Nat /\ ids[t] >= nextId /\ t \in Tables
        BY <1>1, <1>4
    <2>2. QED
        BY <2>1, Unused
<1>6. /\ call'.op = "argmax" /\ call'.fn = fns /\ call'.ids = ids /\ DOMAIN call'.ids = some
    BY <1>3
<1>7. /\ DOMAIN table' = Tables /\ \A t \in Tables : t \notin some => table'[t] = table[t]
      /\ \A t \in some : /\ DOMAIN table'[t] = DOMAIN table[t] \cup {ids[t]}
                         /\ table'[t][ids[t]] = fns[t]
    BY <1>1, <1>3 DEF With
<1>8. \A t \in Tables : \A i \in DOMAIN table[t] : i \in DOMAIN table'[t] /\ table'[t][i] = table[t][i]
    BY <1>1, <1>3, <1>5 DEF With
<1>9. HookTypes'
    <2>1. ASSUME NEW t \in Tables
          PROVE  DOMAIN table'[t] \subseteq Given' /\ \A i \in DOMAIN table'[t] : table'[t][i] \in Fns
        <3>1. DOMAIN table[t] \subseteq Given /\ \A i \in DOMAIN table[t] : table[t][i] \in Fns
            BY DEF HooksInv, HookTypes
        <3>2. Given \subseteq Given'
            BY <1>0, <1>2 DEF Given
        <3>3. CASE t \in some
            BY <1>1, <1>4, <1>7, <1>8, <3>1, <3>2, <3>3
        <3>4. CASE t \notin some
            BY <1>7, <3>1, <3>2, <3>4
        <3>5. QED
            BY <3>3, <3>4
    <2>2. nextId' \in Nat \ {0}
        BY <1>0, <1>2
    <2>3. QED
        BY <1>0, <1>6, <1>7, <2>1, <2>2 DEF HooksInv, HookTypes
<1>10. SessionIds'
    <2>1. ASSUME NEW r \in Sessions, NEW g \in Hooks
          PROVE  Names(TableOf(g), state[r][g], wanted[r][g])'
        <3>1. Names(TableOf(g), state[r][g], wanted[r][g]) /\ TableOf(g) \in Tables
            BY DEF HooksInv, SessionIds, TableOf, Hooks, Tables
        <3>2. QED
            BY <1>0, <1>8, <3>1 DEF Names, TableOf
    <2>2. ASSUME NEW r \in Sessions, NEW g \in Hooks
          PROVE  native'[r][g] = state'[r][g] /\ ~Swapped(r, g)'
        BY <1>0, <1>6 DEF HooksInv, SessionIds, Swapped
    <2>3. QED
        BY <1>0, <2>1, <2>2 DEF HooksInv, SessionIds
<1>11. CallIds'
    BY <1>0, <1>1, <1>5, <1>6, <1>7 DEF CallIds
<1>12. AbortIds'
    <2>1. table'["abort"] = table["abort"]
        BY <1>1, <1>7 DEF Tables
    <2>2. QED
        BY <1>0, <2>1 DEF HooksInv, AbortIds, Names
<1>13. Owners'
    <2> SUFFICES ASSUME NEW t \in Tables, NEW i \in DOMAIN table'[t]
                 PROVE  Owner(t, i)'
        BY DEF Owners
    <2>1. CASE t \in some /\ i = ids[t]
        BY <1>6, <2>1 DEF Owner
    <2>2. CASE i \in DOMAIN table[t]
        <3>1. Owner(t, i)
            BY <2>2 DEF HooksInv, Owners
        <3>2. t \notin DOMAIN call.ids
            BY <1>0 DEF NoIds
        <3>3. QED
            BY <1>0, <3>1, <3>2 DEF Owner
    <2>3. QED
        BY <1>7, <2>1, <2>2
<1>14. QED
    BY <1>9, <1>10, <1>11, <1>12, <1>13 DEF HooksInv

\* And takes them back.
LEMMA HooksDrawn ==
    ASSUME HookBounds, HooksInv, ArgmaxReturns
    PROVE  HooksInv'
<1>0. /\ call.op = "argmax" /\ call' = NoCall
      /\ UNCHANGED <<nextId, state, native, wanted, abort>>
      /\ call'.op = "none" /\ call'.ids = NoIds
      /\ table' = [t \in Tables |-> IF t \in DOMAIN call.ids THEN Delete(table[t], {call.ids[t]})
                                                             ELSE table[t]]
    BY DEF ArgmaxReturns, NoCall
<1>1. /\ DOMAIN table' = Tables
      /\ \A t \in Tables : \A i : i \in DOMAIN table'[t] <=>
             i \in DOMAIN table[t] /\ ~(t \in DOMAIN call.ids /\ call.ids[t] = i)
      /\ \A t \in Tables : \A i \in DOMAIN table'[t] : table'[t][i] = table[t][i]
    BY <1>0 DEF Delete, Restrict
<1>2. HookTypes'
    <2>1. Given' = Given
        BY <1>0 DEF Given
    <2>2. ASSUME NEW t \in Tables
          PROVE  DOMAIN table'[t] \subseteq Given' /\ \A i \in DOMAIN table'[t] : table'[t][i] \in Fns
        <3>1. DOMAIN table[t] \subseteq Given /\ \A i \in DOMAIN table[t] : table[t][i] \in Fns
            BY DEF HooksInv, HookTypes
        <3>2. DOMAIN table'[t] \subseteq DOMAIN table[t] /\ \A i \in DOMAIN table'[t] : table'[t][i] = table[t][i]
            BY <1>1
        <3>3. QED
            BY <2>1, <3>1, <3>2
    <2>3. QED
        BY <1>0, <1>1, <2>2 DEF HooksInv, HookTypes
<1>3. SessionIds'
    <2>1. ASSUME NEW r \in Sessions, NEW g \in Hooks
          PROVE  Names(TableOf(g), state[r][g], wanted[r][g])'
        <3>1. Names(TableOf(g), state[r][g], wanted[r][g]) /\ TableOf(g) \in Tables
            BY DEF HooksInv, SessionIds, TableOf, Hooks, Tables
        <3>2. ~(TableOf(g) \in DOMAIN call.ids /\ call.ids[TableOf(g)] = state[r][g])
            BY DEF HooksInv, CallIds
        <3>3. state[r][g] \in DOMAIN table[TableOf(g)] =>
                  /\ state[r][g] \in DOMAIN table'[TableOf(g)]
                  /\ table'[TableOf(g)][state[r][g]] = table[TableOf(g)][state[r][g]]
            BY <1>1, <3>1, <3>2
        <3>4. QED
            BY <1>0, <3>1, <3>3 DEF Names, TableOf
    <2>2. ASSUME NEW r \in Sessions, NEW g \in Hooks
          PROVE  native'[r][g] = state'[r][g] /\ ~Swapped(r, g)'
        BY <1>0 DEF HooksInv, SessionIds, Swapped
    <2>3. QED
        BY <1>0, <2>1, <2>2 DEF HooksInv, SessionIds
<1>4. CallIds'
    BY <1>0 DEF CallIds, NoIds
<1>5. AbortIds'
    <2>1. "abort" \in Tables /\ "abort" \notin DOMAIN call.ids
        BY <1>0 DEF HooksInv, CallIds, Slots, Tables
    <2>2. table'["abort"] = table["abort"]
        BY <1>0, <2>1
    <2>3. QED
        BY <1>0, <2>2 DEF HooksInv, AbortIds, Names
<1>6. Owners'
    <2> SUFFICES ASSUME NEW t \in Tables, NEW i \in DOMAIN table'[t]
                 PROVE  Owner(t, i)'
        BY DEF Owners
    <2>1. Owner(t, i) /\ ~(t \in DOMAIN call.ids /\ call.ids[t] = i)
        BY <1>1 DEF HooksInv, Owners
    <2>2. QED
        BY <1>0, <2>1 DEF Owner
<1>7. QED
    BY <1>2, <1>3, <1>4, <1>5, <1>6 DEF HooksInv

\* The abort hook is registered, given to libds4, and the old one goes.
LEMMA HooksAbortRegister ==
    ASSUME HookBounds, HooksInv, NEW fn \in Fns \cup {NoFn}, AbortRegister(fn)
    PROVE  HooksInv'
<1> DEFINE id == IF fn = NoFn THEN 0 ELSE nextId
<1>0. /\ abort.pos = "idle" /\ nextId \in Nat /\ nextId > 0
      /\ abort' = [abort EXCEPT !.pos = "set", !.new = id, !.fn = fn]
      /\ UNCHANGED <<state, native, wanted, call>>
    BY DEF AbortRegister, HooksInv, HookTypes
<1>1. /\ fn = NoFn => nextId' = nextId /\ table' = table
      /\ fn # NoFn => /\ nextId' = nextId + 1
                      /\ table' = [table EXCEPT !["abort"] = With(@, nextId, fn)]
    BY DEF AbortRegister
<1>2. id \in Nat /\ (fn # NoFn => id = nextId /\ fn \in Fns) /\ (fn = NoFn => id = 0)
    BY <1>0
<1> HIDE DEF id
<1>3. /\ \A t \in Tables : nextId \notin DOMAIN table[t]
      /\ \A r \in Sessions, g \in Hooks : state[r][g] # nextId
      /\ abort.id # nextId /\ nextId # 0
    <2>1. nextId >= nextId
        BY <1>0
    <2>2. QED
        BY <1>0, <2>1, Unused
<1>4. /\ abort'.pos = "set" /\ abort'.new = id /\ abort'.fn = fn
      /\ abort'.id = abort.id /\ abort'.native = abort.native
      /\ abort' \in [native : Nat, id : Nat, pos : {"idle", "set", "swap"}, new : Nat,
                     fn : Fns \cup {NoFn}]
    BY <1>0, <1>2 DEF HooksInv, HookTypes
<1>5. "abort" \in Tables /\ DOMAIN table = Tables
    BY DEF Tables, HooksInv, HookTypes
<1>6. /\ DOMAIN table' = Tables /\ \A t \in Tables : t # "abort" => table'[t] = table[t]
      /\ \A i \in DOMAIN table["abort"] : i \in DOMAIN table'["abort"] /\ table'["abort"][i] = table["abort"][i]
      /\ \A i \in DOMAIN table'["abort"] : i \in DOMAIN table["abort"] \/ (fn # NoFn /\ i = nextId)
      /\ fn # NoFn => nextId \in DOMAIN table'["abort"] /\ table'["abort"][nextId] = fn
    <2>1. CASE fn = NoFn
        BY <1>1, <1>5, <2>1
    <2>2. CASE fn # NoFn
        <3>1. table' = [table EXCEPT !["abort"] = With(@, nextId, fn)]
            BY <1>1, <2>2
        <3>2. table'["abort"] = With(table["abort"], nextId, fn)
            BY <1>5, <3>1
        <3>3. /\ DOMAIN With(table["abort"], nextId, fn) = DOMAIN table["abort"] \cup {nextId}
              /\ \A i \in DOMAIN table["abort"] \cup {nextId} :
                    With(table["abort"], nextId, fn)[i] =
                        IF i = nextId THEN fn ELSE table["abort"][i]
            BY DEF With
        <3>4. DOMAIN table' = Tables /\ \A t \in Tables : t # "abort" => table'[t] = table[t]
            BY <1>5, <3>1
        <3>5. QED
            BY <1>3, <1>5, <2>2, <3>2, <3>3, <3>4
    <2>3. QED
        BY <2>1, <2>2
<1>7. HookTypes'
    <2>1. ASSUME NEW t \in Tables
          PROVE  DOMAIN table'[t] \subseteq Given' /\ \A i \in DOMAIN table'[t] : table'[t][i] \in Fns
        <3>1. DOMAIN table[t] \subseteq Given /\ \A i \in DOMAIN table[t] : table[t][i] \in Fns
            BY DEF HooksInv, HookTypes
        <3>2. Given \subseteq Given' /\ (fn # NoFn => nextId \in Given')
            BY <1>0, <1>1 DEF Given
        <3>3. QED
            BY <1>2, <1>6, <3>1, <3>2
    <2>2. nextId' \in Nat \ {0}
        BY <1>0, <1>1
    <2>3. QED
        BY <1>0, <1>4, <1>6, <2>1, <2>2 DEF HooksInv, HookTypes
<1>8. SessionIds'
    <2>1. ASSUME NEW r \in Sessions, NEW g \in Hooks
          PROVE  /\ Names(TableOf(g), state[r][g], wanted[r][g])'
                 /\ state[r][g] # 0 => state[r][g] \notin {abort'.id, abort'.new}
        <3>1. Names(TableOf(g), state[r][g], wanted[r][g]) /\ TableOf(g) \in Tables \ {"abort"}
            BY DEF HooksInv, SessionIds, TableOf, Hooks, Tables
        <3>2. state[r][g] # 0 => state[r][g] \notin {abort.id, nextId}
            BY <1>3 DEF HooksInv, SessionIds
        <3>3. QED
            BY <1>0, <1>2, <1>4, <1>6, <3>1, <3>2 DEF Names, TableOf
    <2>2. QED
        BY <1>0, <2>1 DEF HooksInv, SessionIds, Swapped
<1>9. CallIds'
    <2>1. \A t \in DOMAIN call.ids : table'[t] = table[t]
        BY <1>6 DEF HooksInv, CallIds, Slots, HookTypes, NoIds, Tables
    <2>2. QED
        BY <1>0, <2>1 DEF HooksInv, CallIds
<1>10. AbortIds'
    <2>1. abort.id # 0 => abort.id \in DOMAIN table'["abort"]
        BY <1>6 DEF HooksInv, AbortIds
    <2>3. abort.native = abort.id
        BY <1>0 DEF HooksInv, AbortIds
    <2>4. Names("abort", abort.new, abort.fn)'
        BY <1>2, <1>4, <1>6 DEF Names
    <2>5. abort'.new # 0 => abort'.new # abort'.id
        BY <1>2, <1>3, <1>4
    <2>6. QED
        BY <1>4, <2>1, <2>3, <2>4, <2>5 DEF AbortIds
<1>11. Owners'
    <2> SUFFICES ASSUME NEW t \in Tables, NEW i \in DOMAIN table'[t]
                 PROVE  Owner(t, i)'
        BY DEF Owners
    <2>1. CASE t = "abort" /\ fn # NoFn /\ i = nextId
        BY <1>2, <1>4, <2>1 DEF Owner
    <2>2. CASE i \in DOMAIN table[t]
        <3>1. Owner(t, i) /\ i # 0
            BY <2>2 DEF HooksInv, Owners, HookTypes, Given
        <3>2. abort.new = 0
            BY <1>0 DEF HooksInv, AbortIds
        <3>3. QED
            BY <1>0, <1>4, <3>1, <3>2 DEF Owner
    <2>3. QED
        BY <1>6, <2>1, <2>2
<1>12. QED
    BY <1>7, <1>8, <1>9, <1>10, <1>11 DEF HooksInv

\* libds4 is given the hook that has been registered.
LEMMA HooksAbortSet ==
    ASSUME HooksInv, AbortSet
    PROVE  HooksInv'
<1>0. /\ abort.pos = "set" /\ abort' = [abort EXCEPT !.pos = "swap", !.native = abort.new]
      /\ UNCHANGED <<nextId, table, state, native, wanted, call>>
    BY DEF AbortSet
<1>1. /\ abort'.pos = "swap" /\ abort'.native = abort.new /\ abort'.new = abort.new
      /\ abort'.id = abort.id /\ abort'.fn = abort.fn
      /\ abort' \in [native : Nat, id : Nat, pos : {"idle", "set", "swap"}, new : Nat,
                     fn : Fns \cup {NoFn}]
    BY <1>0 DEF HooksInv, HookTypes
<1>2. HookTypes'
    BY <1>0, <1>1 DEF HooksInv, HookTypes, Given
<1>3. SessionIds' /\ CallIds'
    BY <1>0, <1>1 DEF HooksInv, SessionIds, CallIds, Names, Swapped
<1>4. AbortIds'
    BY <1>0, <1>1 DEF HooksInv, AbortIds, Names
<1>5. Owners'
    BY <1>0, <1>1 DEF HooksInv, Owners, Owner
<1>6. QED
    BY <1>2, <1>3, <1>4, <1>5 DEF HooksInv

\* The hook that is replaced is forgotten.
LEMMA HooksAbortSwap ==
    ASSUME HooksInv, AbortSwap
    PROVE  HooksInv'
<1>0. /\ abort.pos = "swap" /\ abort' = [abort EXCEPT !.pos = "idle", !.id = abort.new, !.new = 0]
      /\ table' = [table EXCEPT !["abort"] = Delete(@, {abort.id})]
      /\ UNCHANGED <<nextId, state, native, wanted, call>>
    BY DEF AbortSwap
<1>1. /\ abort'.pos = "idle" /\ abort'.native = abort.native /\ abort'.new = 0
      /\ abort'.id = abort.new /\ abort'.fn = abort.fn
      /\ abort' \in [native : Nat, id : Nat, pos : {"idle", "set", "swap"}, new : Nat,
                     fn : Fns \cup {NoFn}]
    BY <1>0 DEF HooksInv, HookTypes
<1>2. "abort" \in Tables /\ DOMAIN table = Tables
    BY DEF Tables, HooksInv, HookTypes
<1>3. /\ DOMAIN table' = Tables /\ \A t \in Tables : t # "abort" => table'[t] = table[t]
      /\ DOMAIN table'["abort"] = DOMAIN table["abort"] \ {abort.id}
      /\ \A i \in DOMAIN table["abort"] \ {abort.id} : table'["abort"][i] = table["abort"][i]
    BY <1>0, <1>2 DEF Delete, Restrict
<1>4. HookTypes'
    <2>1. Given' = Given
        BY <1>0 DEF Given
    <2>2. ASSUME NEW t \in Tables
          PROVE  DOMAIN table'[t] \subseteq Given' /\ \A i \in DOMAIN table'[t] : table'[t][i] \in Fns
        <3>1. DOMAIN table[t] \subseteq Given /\ \A i \in DOMAIN table[t] : table[t][i] \in Fns
            BY DEF HooksInv, HookTypes
        <3>2. QED
            BY <1>3, <2>1, <3>1
    <2>3. QED
        BY <1>0, <1>1, <1>3, <2>2 DEF HooksInv, HookTypes
<1>5. SessionIds'
    <2>1. ASSUME NEW r \in Sessions, NEW g \in Hooks
          PROVE  /\ Names(TableOf(g), state[r][g], wanted[r][g])'
                 /\ state[r][g] # 0 => state[r][g] \notin {abort'.id, abort'.new}
        <3>1. Names(TableOf(g), state[r][g], wanted[r][g]) /\ TableOf(g) \in Tables \ {"abort"}
            BY DEF HooksInv, SessionIds, TableOf, Hooks, Tables
        <3>2. state[r][g] # 0 => state[r][g] \notin {abort.id, abort.new}
            BY DEF HooksInv, SessionIds
        <3>3. QED
            BY <1>0, <1>1, <1>3, <3>1, <3>2 DEF Names, TableOf
    <2>2. QED
        BY <1>0, <2>1 DEF HooksInv, SessionIds, Swapped
<1>6. CallIds'
    <2>1. \A t \in DOMAIN call.ids : table'[t] = table[t]
        BY <1>3 DEF HooksInv, CallIds, Slots, HookTypes, NoIds, Tables
    <2>2. CallIds /\ call' = call /\ wanted' = wanted /\ state' = state
        BY <1>0 DEF HooksInv
    <2>3. (call.op = "none" => call.ids = NoIds)'
        BY <2>2 DEF CallIds
    <2>4. (call.op = "sync" => /\ call.s \in Sessions
                               /\ \/ call.ids = NoIds /\ call.fn = wanted[call.s]["cancel"]
                                  \/ DOMAIN call.ids = {"cancel"} /\ table["cancel"][call.ids["cancel"]] = call.fn)'
        BY <2>1, <2>2 DEF CallIds
    <2>5. (call.op = "argmax" => /\ DOMAIN call.ids \subseteq Slots
                                 /\ \A t \in DOMAIN call.ids : table[t][call.ids[t]] = call.fn[t])'
        BY <2>1, <2>2 DEF CallIds, Slots
    <2>6. (\A t \in DOMAIN call.ids :
              /\ call.ids[t] \in DOMAIN table[t]
              /\ \A s \in Sessions, h \in Hooks : call.ids[t] # state[s][h])'
        BY <2>1, <2>2 DEF CallIds
    <2>7. QED
        BY <2>3, <2>4, <2>5, <2>6 DEF CallIds
<1>7. AbortIds'
    <2>1. /\ Names("abort", abort.new, abort.fn) /\ abort.native = abort.new
          /\ abort.new # 0 => abort.new # abort.id
        BY <1>0 DEF HooksInv, AbortIds
    <2>2. 0 \notin DOMAIN table["abort"]
        BY <1>2 DEF HooksInv, HookTypes, Given
    <2>3. Names("abort", abort.id, abort.fn)'
        BY <1>1, <1>3, <2>1, <2>2 DEF Names
    <2>4. abort'.id # 0 => abort'.id \in DOMAIN table'["abort"]
        BY <1>1, <1>3, <2>1 DEF Names
    <2>5. QED
        BY <1>1, <2>1, <2>3, <2>4 DEF AbortIds
<1>8. Owners'
    <2> SUFFICES ASSUME NEW t \in Tables, NEW i \in DOMAIN table'[t]
                 PROVE  Owner(t, i)'
        BY DEF Owners
    <2>1. i \in DOMAIN table[t] /\ (t = "abort" => i # abort.id)
        BY <1>3
    <2>2. Owner(t, i)
        BY <2>1 DEF HooksInv, Owners
    <2>3. QED
        BY <1>0, <1>1, <2>1, <2>2 DEF Owner
<1>9. QED
    BY <1>4, <1>5, <1>6, <1>7, <1>8 DEF HooksInv

\* There is nothing in the tables at first.
LEMMA HooksBegin ==
    ASSUME HookInit
    PROVE  HooksInv
<1> USE DEF HookInit, NoHooks, NoIds, NoCall, NoAbort
<1>1. HookTypes
    BY DEF HookTypes, Tables, Hooks
<1>2. SessionIds
    BY DEF SessionIds, Names, Swapped
<1>3. CallIds /\ AbortIds /\ Owners
    BY DEF CallIds, AbortIds, Owners, Names
<1>4. QED
    BY <1>1, <1>2, <1>3 DEF HooksInv

\* Every step preserves the invariant of the tables.
LEMMA HooksStep ==
    ASSUME HookBounds, HooksInv, [HookNext]_(hookVars)
    PROVE  HooksInv'
<1>1. CASE UNCHANGED hookVars
    BY <1>1 DEF hookVars, HooksInv, HookTypes, SessionIds, CallIds, AbortIds, Owners, Owner,
                Names, Swapped, Given
<1>2. ASSUME NEW s \in Sessions,
             NewSession(s) \/ Close(s) \/ Drop(s) \/ CleanSession(s) \/ Sync(s)
      PROVE  HooksInv'
    BY <1>2, HooksSameTables, HooksReleased, HooksSync
<1>3. ASSUME NEW s \in Sessions, NEW h \in Hooks, NEW fn \in Fns \cup {NoFn}, SetHook(s, h, fn)
      PROVE  HooksInv'
    BY <1>3, HooksSet
<1>4. CASE SyncReturns \/ ArgmaxReturns \/ AbortSet \/ AbortSwap
    BY <1>4, HooksSynced, HooksDrawn, HooksAbortSet, HooksAbortSwap
<1>5. ASSUME NEW fn \in Fns, NEW done \in {NoFn} \cup Fns, NEW progress \in {NoFn} \cup Fns,
             ArgmaxStarts([t \in {"token", "done", "progress"} |->
                 CASE t = "token" -> fn [] t = "done" -> done [] OTHER -> progress])
      PROVE  HooksInv'
    <2>1. [t \in {"token", "done", "progress"} |->
              CASE t = "token" -> fn [] t = "done" -> done [] OTHER -> progress]
          \in [Slots -> Fns \cup {NoFn}]
        BY DEF Slots
    <2>2. QED
        BY <1>5, <2>1, HooksArgmax
<1>6. ASSUME NEW fn \in Fns \cup {NoFn}, AbortRegister(fn)
      PROVE  HooksInv'
    BY <1>6, HooksAbortRegister
<1>7. QED
    BY <1>1, <1>2, <1>3, <1>4, <1>5, <1>6 DEF HookNext

\* The invariant of the callback tables.
THEOREM HooksInvariance ==
    ASSUME HookBounds
    PROVE  HookSpec => []HooksInv
<1>1. HookInit => HooksInv
    BY HooksBegin
<1>2. HooksInv /\ [HookNext]_(hookVars) => HooksInv'
    BY HooksStep
<1>3. QED
    BY <1>1, <1>2, PTL DEF HookSpec

\* Whatever libds4 calls, during a call and between calls, is the function that
\* was asked for last, and nothing that no one can reach stays registered, for
\* any sessions and functions (session.go:76-84, 161-230, 267-290;
\* engine.go:401-421, 514-547).
THEOREM HooksAccountedTheorem ==
    ASSUME HookBounds
    PROVE  HookSpec => []HooksAccounted
<1>1. HooksInv => HooksReach
    <2> SUFFICES ASSUME HooksInv PROVE HooksReach
        OBVIOUS
    <2>0. \A t \in Tables : 0 \notin DOMAIN table[t]
        BY DEF HooksInv, HookTypes, Given
    <2>1. ASSUME NEW t \in Tables, NEW i, NEW fn, Names(t, i, fn)
          PROVE  Calls(t, i) = fn
        BY <2>0, <2>1 DEF Names, Calls
    <2>2. ASSUME NEW s \in Sessions, NEW h \in Hooks
          PROVE  Calls(TableOf(h), native[s][h]) =
                     IF h = "cancel" /\ call.op = "sync" /\ call.s = s THEN call.fn ELSE wanted[s][h]
        <3>1. TableOf(h) \in Tables /\ Names(TableOf(h), state[s][h], wanted[s][h])
            BY DEF HooksInv, SessionIds, TableOf, Hooks, Tables
        <3>2. Calls(TableOf(h), state[s][h]) = wanted[s][h]
            BY <2>1, <3>1
        <3>3. native[s][h] = IF Swapped(s, h) THEN call.ids["cancel"] ELSE state[s][h]
            BY DEF HooksInv, SessionIds
        <3>4. CASE Swapped(s, h)
            <4>1. /\ h = "cancel" /\ call.op = "sync" /\ call.s = s /\ TableOf(h) = "cancel"
                  /\ table["cancel"][call.ids["cancel"]] = call.fn
                  /\ call.ids["cancel"] \in DOMAIN table["cancel"]
                BY <3>4 DEF Swapped, HooksInv, CallIds, TableOf
            <4>2. QED
                BY <3>3, <3>4, <4>1 DEF Calls
        <3>5. CASE ~Swapped(s, h)
            <4>1. h = "cancel" /\ call.op = "sync" /\ call.s = s => call.fn = wanted[s][h]
                <5> SUFFICES ASSUME h = "cancel", call.op = "sync", call.s = s
                             PROVE  call.fn = wanted[s][h]
                    OBVIOUS
                <5>1. "cancel" \notin DOMAIN NoIds
                    BY DEF NoIds
                <5>2. call.ids = NoIds
                    BY <3>5 DEF Swapped
                <5>3. QED
                    BY <5>1, <5>2 DEF HooksInv, CallIds
            <4>2. QED
                BY <3>2, <3>3, <3>5, <4>1
        <3>6. QED
            BY <3>4, <3>5
    <2>3. ASSUME call.op = "argmax", NEW t \in DOMAIN call.ids \ {"done"}
          PROVE  Calls(t, IdGiven(t)) = call.fn[t]
        BY <2>3 DEF HooksInv, CallIds, Calls, IdGiven
    <2>4. "abort" \in Tables
        BY DEF Tables
    <2>5. abort.native # 0 => Calls("abort", abort.native) # NoFn
        <3>1. abort.native # 0 => abort.native \in DOMAIN table["abort"]
            BY DEF HooksInv, AbortIds, Names
        <3>2. QED
            BY <2>4, <3>1 DEF HookBounds, HooksInv, HookTypes, Calls
    <2>6. abort.pos = "idle" => Calls("abort", abort.native) = abort.fn
        BY <2>1, <2>4 DEF HooksInv, AbortIds
    <2>7. QED
        BY <2>2, <2>3, <2>5, <2>6 DEF HooksReach
<1>2. HooksInv => NothingLeaks
    <2> SUFFICES ASSUME HooksInv, NEW t \in Tables, NEW i \in DOMAIN table[t]
                 PROVE  i \in Registered(t)
        BY DEF NothingLeaks
    <2>1. Owner(t, i)
        BY DEF HooksInv, Owners
    <2>2. QED
        BY <2>1 DEF Owner, Registered
<1>3. HooksInv => HooksAccounted
    BY <1>1, <1>2 DEF HooksAccounted
<1>4. QED
    BY <1>3, HooksInvariance, PTL

-----------------------------------------------------------------------------
(* The state of a session *)

\* Any set of numbers has a least one.
LEMMA LeastNatural ==
    ASSUME NEW S, S \subseteq Nat, S # {}
    PROVE  \E n \in S : \A m \in S : n <= m
<1> DEFINE T == {1..n : n \in S}
<1> PICK k \in S : TRUE
    OBVIOUS
<1>1. T # {}
    OBVIOUS
<1>2. T \subseteq FiniteSubsetsOf(Nat)
    <2> SUFFICES ASSUME NEW n \in S PROVE 1..n \in FiniteSubsetsOf(Nat)
        OBVIOUS
    <2> QED
        BY FS_Interval DEF FiniteSubsetsOf
<1>3. IsWellFoundedOn(StrictSubsetOrdering(Nat), FiniteSubsetsOf(Nat))
    BY FS_StrictSubsetOrderingWellFounded
<1> HIDE DEF T
<1>4. PICK x \in T : \A y \in T : ~ (<<y, x>> \in StrictSubsetOrdering(Nat))
    BY <1>1, <1>2, <1>3, WFMin
<1> USE DEF T
<1>5. PICK n \in S : x = 1..n
    OBVIOUS
<1>6. ASSUME NEW m \in S, m < n PROVE FALSE
    <2>1. 1..m \subseteq 1..n /\ n \in 1..n /\ n \notin 1..m
        BY <1>6
    <2>2. <<1..m, x>> \in StrictSubsetOrdering(Nat)
        BY <2>1, <1>5 DEF StrictSubsetOrdering
    <2>3. QED
        BY <2>2, <1>4
<1>7. QED
    BY <1>6

\* Max of numbers that are bounded is one of them.
LEMMA MaxOf ==
    ASSUME NEW n \in Nat, NEW S, S \subseteq 0..n, S # {}
    PROVE  Max(S) \in S /\ \A k \in S : k <= Max(S)
<1> DEFINE U == {u \in Nat : \A k \in S : k <= u}
<1>1. n \in U
    OBVIOUS
<1>2. PICK u \in U : \A v \in U : u <= v
    BY <1>1, LeastNatural
<1>3. u \in S
    <2> SUFFICES ASSUME u \notin S PROVE FALSE
        OBVIOUS
    <2>1. PICK k \in S : TRUE
        OBVIOUS
    <2>2. \A j \in S : j \in Nat /\ j <= u - 1
        BY <1>2
    <2>3. u - 1 \in U
        BY <2>1, <2>2
    <2>4. QED
        BY <1>2, <2>3
<1>4. QED
    BY <1>2, <1>3 DEF Max

-----------------------------------------------------------------------------
(* What a session holds *)

\* Spans that ascend, each against all before it.
Ascending(sps) ==
    /\ \A k \in DOMAIN sps : sps[k].count > 0
    /\ \A j, k \in DOMAIN sps : j < k => End(sps[j]) <= sps[k].start

CheckpointTypes ==
    /\ tokens \in Seq(Vocabulary) /\ told = tokens
    /\ images \in Seq(Spans) /\ spans \in Seq(Spans)
    /\ valid \in BOOLEAN /\ sure \in BOOLEAN

\* The spans that are left begin in the text, and after a sync that was not
\* interrupted their images are noted, also where a cut went through one.
Within == Ascending(spans) /\ \A k \in DOMAIN spans : spans[k].start < Len(tokens)
Noted == sure => \A k \in DOMAIN spans : spans[k] \in ToSet(images)

Promised ==
    /\ result = "rewound" => valid \/ tokens = <<>>
    /\ result = "rebuilt" => SpansFit(tokens, images)
    /\ result \in {"synced", "rebuilt"} => valid /\ images = spans

CheckpointInv == CheckpointTypes /\ Within /\ Noted /\ Promised

\* The fields of a span.
LEMMA SpanFields ==
    ASSUME NEW s \in Seq(Spans), NEW k \in DOMAIN s
    PROVE  s[k].start \in Nat /\ s[k].count \in Nat
<1>1. s[k] \in Spans
    OBVIOUS
<1>2. QED
    BY <1>1 DEF Spans

\* Spans that libds4 accepts ascend, each against all before it; and the other
\* way round.
LEMMA FitAscends ==
    ASSUME NEW asked \in Seq(Vocabulary), NEW given \in Seq(Spans), SpansFit(asked, given)
    PROVE  Ascending(given) /\ \A k \in DOMAIN given : given[k].start < Len(asked)
<1>1. /\ Len(given) \in Nat /\ DOMAIN given = 1..Len(given) /\ Len(asked) \in Nat
      /\ \A k \in DOMAIN given : given[k].start \in Nat /\ given[k].count \in Nat
    BY SpanFields
<1>2. ASSUME NEW k \in DOMAIN given
      PROVE  /\ given[k].count > 0 /\ End(given[k]) <= Len(asked)
             /\ k # 1 => End(given[k - 1]) <= given[k].start
    <2>1. given[k].start >= (IF k = 1 THEN 0 ELSE End(given[k - 1]))
        BY DEF SpansFit
    <2>2. k # 1 => given[k - 1].start \in Nat /\ given[k - 1].count \in Nat
        BY <1>1
    <2>3. QED
        BY <1>1, <2>1, <2>2 DEF SpansFit, End
<1> DEFINE Bad == {k \in DOMAIN given : \E j \in DOMAIN given : j < k /\ ~(End(given[j]) <= given[k].start)}
<1>3. Bad = {}
    <2> SUFFICES ASSUME Bad # {} PROVE FALSE
        OBVIOUS
    <2>1. Bad \subseteq Nat
        BY <1>1
    <2>2. PICK k \in Bad : \A m \in Bad : k <= m
        BY <2>1, LeastNatural
    <2>3. PICK j \in DOMAIN given : j < k /\ ~(End(given[j]) <= given[k].start)
        BY <2>2
    <2>4. k \in DOMAIN given /\ k - 1 \in DOMAIN given /\ k # 1 /\ k \in Nat /\ j \in Nat /\ k - 1 \notin Bad
        <3>1. k \in 1..Len(given) /\ j \in 1..Len(given) /\ Len(given) \in Nat /\ j < k
            BY <1>1, <2>2, <2>3
        <3>2. k \in Nat /\ j \in Nat /\ k # 1 /\ k - 1 \in 1..Len(given) /\ ~(k <= k - 1)
            BY ONLY <3>1
        <3>3. QED
            BY <1>1, <2>2, <3>1, <3>2
    <2>5. End(given[k - 1]) <= given[k].start
        BY <1>2, <2>4
    <2>6. j < k - 1
        BY <2>3, <2>4, <2>5
    <2>7. End(given[j]) <= given[k - 1].start
        BY <2>4, <2>6
    <2>8. /\ given[k - 1].start \in Nat /\ given[k - 1].count \in Nat
          /\ given[k].start \in Nat /\ given[j].start \in Nat /\ given[j].count \in Nat
        BY <1>1, <2>4
    <2> DEFINE js == given[j].start
               jc == given[j].count
               hs == given[k - 1].start
               hc == given[k - 1].count
               ks == given[k].start
    <2>9. js \in Nat /\ jc \in Nat /\ hs \in Nat /\ hc \in Nat /\ ks \in Nat
        BY <2>8
    <2>10. ~(js + jc <= ks) /\ hs + hc <= ks /\ js + jc <= hs
        BY <2>3, <2>5, <2>7, Zenon DEF End
    <2> HIDE DEF js, jc, hs, hc, ks
    <2>11. QED
        BY ONLY <2>9, <2>10
<1>4. \A j, k \in DOMAIN given : j < k => End(given[j]) <= given[k].start
    BY <1>3
<1>5. \A k \in DOMAIN given : given[k].start < Len(asked)
    BY <1>1, <1>2 DEF End
<1>6. QED
    BY <1>2, <1>4, <1>5 DEF Ascending

\* Spans that ascend and end within a text fit it.
LEMMA AscendingFits ==
    ASSUME NEW asked \in Seq(Vocabulary), NEW given \in Seq(Spans), Ascending(given),
           \A k \in DOMAIN given : End(given[k]) <= Len(asked)
    PROVE  SpansFit(asked, given)
<1> SUFFICES ASSUME NEW k \in DOMAIN given
             PROVE  /\ given[k].count > 0
                    /\ given[k].start >= (IF k = 1 THEN 0 ELSE End(given[k - 1]))
                    /\ End(given[k]) <= Len(asked)
    BY DEF SpansFit
<1>1. given[k].start \in Nat /\ k \in Nat /\ k >= 1 /\ DOMAIN given = 1..Len(given)
    BY SpanFields
<1>2. k # 1 => k - 1 \in DOMAIN given /\ k - 1 < k
    BY <1>1
<1>3. k # 1 => End(given[k - 1]) <= given[k].start
    BY <1>2 DEF Ascending
<1>4. k # 1 => given[k - 1].start \in Nat /\ given[k - 1].count \in Nat
    BY <1>2, SpanFields
<1>5. QED
    BY <1>1, <1>3, <1>4 DEF Ascending, End

\* What FirstSpans leaves, if the spans it is asked for are the first ones.
LEMMA FirstAreLeft ==
    ASSUME spans \in Seq(Spans), NEW ks, ks \subseteq DOMAIN spans,
           \A k \in ks, j \in DOMAIN spans : j < k => j \in ks
    PROVE  /\ FirstSpans(ks) \in Seq(Spans)
           /\ DOMAIN FirstSpans(ks) = ks
           /\ \A k \in ks : FirstSpans(ks)[k] = spans[k]
<1> DEFINE m == Max({0} \cup ks)
<1>1. Len(spans) \in Nat /\ DOMAIN spans = 1..Len(spans)
    OBVIOUS
<1>2. {0} \cup ks \subseteq 0..Len(spans)
    BY <1>1
<1>3. m \in {0} \cup ks /\ \A k \in {0} \cup ks : k <= m
    BY <1>1, <1>2, MaxOf
<1>4. m \in 0..Len(spans)
    BY <1>2, <1>3
<1> HIDE DEF m
<1>5. ks = 1..m
    <2>1. ASSUME NEW k \in 1..m PROVE k \in ks
        <3>1. m \in ks /\ k \in DOMAIN spans
            BY <1>1, <1>3, <1>4, <2>1
        <3>2. QED
            BY <3>1, <1>4, <2>1
    <2>2. \A k \in ks : k \in 1..m
        BY <1>1, <1>3, <1>4
    <2>3. QED
        BY <2>1, <2>2
<1>6. FirstSpans(ks) = SubSeq(spans, 1, m)
    BY DEF FirstSpans, m
<1>7. /\ SubSeq(spans, 1, m) \in Seq(Spans) /\ Len(SubSeq(spans, 1, m)) = m
      /\ \A k \in 1..m : SubSeq(spans, 1, m)[k] = spans[k]
    BY <1>1, <1>4, SubSeqProperties
<1>8. DOMAIN SubSeq(spans, 1, m) = 1..m
    BY <1>7
<1>9. QED
    BY <1>5, <1>6, <1>7, <1>8

\* A cut, and the spans that begin before it.
LEMMA CutKeeps ==
    ASSUME CheckpointInv, NEW pos \in Nat, Leaves(pos), tokens' = Cut(tokens, pos)
    PROVE  /\ tokens' \in Seq(Vocabulary) /\ told' = tokens' /\ spans' \in Seq(Spans)
           /\ Len(tokens') = IF pos >= Len(tokens) THEN Len(tokens) ELSE pos
           /\ Within'
           /\ DOMAIN spans' = {k \in DOMAIN spans : spans[k].start < pos}
           /\ \A k \in DOMAIN spans' : k \in DOMAIN spans /\ spans'[k] = spans[k]
<1> DEFINE ks == {k \in DOMAIN spans : spans[k].start < pos}
<1>0. /\ tokens \in Seq(Vocabulary) /\ told = tokens /\ spans \in Seq(Spans) /\ Len(tokens) \in Nat
      /\ \A k \in DOMAIN spans : spans[k].start \in Nat /\ spans[k].count \in Nat /\ spans[k].start < Len(tokens)
      /\ \A k \in DOMAIN spans : spans[k].count > 0
      /\ \A j, k \in DOMAIN spans : j < k => End(spans[j]) <= spans[k].start
    <2>1. tokens \in Seq(Vocabulary) /\ told = tokens /\ spans \in Seq(Spans)
        BY DEF CheckpointInv, CheckpointTypes
    <2>2. QED
        BY <2>1, SpanFields DEF CheckpointInv, Within, Ascending
<1>1. \A k \in ks, j \in DOMAIN spans : j < k => j \in ks
    BY <1>0 DEF End
<1>2. spans' = FirstSpans(ks) /\ told' = Cut(told, pos)
    BY DEF Leaves
<1>3. /\ spans' \in Seq(Spans) /\ DOMAIN spans' = ks
      /\ \A k \in ks : spans'[k] = spans[k]
    BY <1>0, <1>1, <1>2, FirstAreLeft
<1>4. /\ tokens' \in Seq(Vocabulary)
      /\ Len(tokens') = IF pos >= Len(tokens) THEN Len(tokens) ELSE pos
    <2>1. CASE pos >= Len(tokens)
        BY <1>0, <2>1 DEF Cut
    <2>2. CASE ~(pos >= Len(tokens))
        <3>1. tokens' = SubSeq(tokens, 1, pos)
            BY <2>2 DEF Cut
        <3>2. pos \in 0..Len(tokens)
            BY <1>0, <2>2
        <3>3. QED
            BY <1>0, <2>2, <3>1, <3>2, SubSeqProperties
    <2>3. QED
        BY <2>1, <2>2
<1>5. Within'
    <2>1. \A k \in ks : spans'[k].start < Len(tokens')
        BY <1>0, <1>3, <1>4
    <2>2. Ascending(spans)'
        BY <1>0, <1>3 DEF Ascending, End
    <2>3. QED
        BY <1>3, <2>1, <2>2 DEF Within
<1>6. QED
    BY <1>0, <1>2, <1>3, <1>4, <1>5

\* A session begins with nothing.
LEMMA CheckpointBegins == CheckpointInit => CheckpointInv
BY DEF CheckpointInit, CheckpointInv, CheckpointTypes, Within, Ascending, Noted, Promised

\* A sync.
LEMMA CheckpointSync ==
    ASSUME CheckpointInv, NEW p \in Prompts, NEW interrupted \in BOOLEAN, SyncPrompt(p, interrupted)
    PROVE  CheckpointInv'
<1>1. p.tokens \in Seq(Vocabulary) /\ p.spans \in Seq(Spans)
    BY PromptsAssumption
<1>2. SpansFit(p.tokens, p.spans) /\ NativeSync(p.tokens, p.spans, interrupted) /\ sure' = ~interrupted
    BY DEF SyncPrompt
<1>3. Ascending(p.spans) /\ \A k \in DOMAIN p.spans : p.spans[k].start < Len(p.tokens)
    BY <1>1, <1>2, FitAscends
<1>4. CheckpointTypes /\ Within /\ Noted
    BY DEF CheckpointInv
<1>5. CASE interrupted
    <2>1. /\ tokens' = tokens /\ valid' = valid /\ UNCHANGED <<told, spans>>
          /\ sure' = FALSE /\ result' = "interrupted" /\ images' \in {images, p.spans}
        BY <1>2, <1>4, <1>5 DEF NativeSync, SyncPrompt, CheckpointTypes
    <2>2. CheckpointTypes'
        BY <1>1, <1>4, <2>1 DEF CheckpointTypes
    <2>3. QED
        BY <1>4, <2>1, <2>2 DEF CheckpointInv, Within, Noted, Promised
<1>6. CASE ~interrupted
    <2>1. /\ tokens' = p.tokens /\ valid' = TRUE /\ images' = p.spans /\ told' = p.tokens
          /\ spans' = p.spans /\ sure' = TRUE /\ result' = "synced"
        BY <1>2, <1>6 DEF NativeSync, SyncPrompt
    <2>2. CheckpointTypes' /\ Within'
        BY <1>1, <1>3, <2>1 DEF CheckpointTypes, Within
    <2>3. Noted' /\ Promised'
        BY <2>1 DEF Noted, Promised, ToSet
    <2>4. QED
        BY <2>2, <2>3 DEF CheckpointInv
<1>7. QED
    BY <1>5, <1>6

\* Tokens that are drawn.
LEMMA CheckpointGrows ==
    ASSUME CheckpointInv, NEW new \in Seq(Vocabulary), tokens' = tokens \o new, told' = told \o new,
           result' = "evaluated", UNCHANGED <<valid, images, spans, sure>>
    PROVE  CheckpointInv'
<1>1. CheckpointTypes /\ Within /\ Noted
    BY DEF CheckpointInv
<1>2. tokens' \in Seq(Vocabulary) /\ Len(tokens') = Len(tokens) + Len(new) /\ told' = tokens'
    BY <1>1 DEF CheckpointTypes
<1>3. \A k \in DOMAIN spans : spans[k].start < Len(tokens')
    <2>1. Len(new) \in Nat /\ Len(tokens) \in Nat /\ spans \in Seq(Spans)
        BY <1>1 DEF CheckpointTypes
    <2>2. \A k \in DOMAIN spans : spans[k].start < Len(tokens) /\ spans[k].start \in Nat
        BY <1>1, <2>1, SpanFields DEF Within
    <2>3. QED
        BY <1>2, <2>1, <2>2
<1>4. CheckpointTypes'
    BY <1>1, <1>2 DEF CheckpointTypes
<1>5. QED
    BY <1>1, <1>3, <1>4 DEF CheckpointInv, Within, Noted, Promised

\* Steps that leave the tokens and the spans alone.
LEMMA CheckpointRests ==
    ASSUME CheckpointInv, UNCHANGED <<tokens, images, told, spans, sure>>, valid' \in BOOLEAN,
           result' \in {"refused", "no checkpoint", "none"} \/ UNCHANGED <<valid, result>>
    PROVE  CheckpointInv'
BY DEF CheckpointInv, CheckpointTypes, Within, Noted, Promised, Ascending, End, SpansFit

\* A rewind: what is left of the spans is noted if it was.
LEMMA CheckpointRewind ==
    ASSUME CheckpointInv, NEW pos \in Nat, Leaves(pos), tokens' = Cut(tokens, pos),
           valid' \in BOOLEAN, UNCHANGED <<images, sure>>,
           result' \in {"none", "split", "rewound"}, result' = "rewound" => valid' \/ tokens' = <<>>
    PROVE  CheckpointInv'
<1>1. /\ tokens' \in Seq(Vocabulary) /\ told' = tokens' /\ spans' \in Seq(Spans) /\ Within'
      /\ \A k \in DOMAIN spans' : k \in DOMAIN spans /\ spans'[k] = spans[k]
    BY CutKeeps
<1>2. CheckpointTypes /\ Noted
    BY DEF CheckpointInv
<1>3. CheckpointTypes'
    BY <1>1, <1>2 DEF CheckpointTypes
<1>4. Noted'
    BY <1>1, <1>2 DEF Noted
<1>5. Promised'
    BY DEF Promised
<1>6. QED
    BY <1>1, <1>3, <1>4, <1>5 DEF CheckpointInv

\* RewindSynced that has to build the checkpoint again: no span straddles the
\* cut, so those that begin before it also end before it.
LEMMA CheckpointRebuilds ==
    ASSUME CheckpointInv, NEW pos \in Nat, Leaves(pos), tokens' = Cut(tokens, pos),
           NEW interrupted \in BOOLEAN, NEW n, n = Len(Cut(tokens, pos)), ~Straddled(n),
           valid' = ~interrupted, sure' = ~interrupted,
           images' = (IF interrupted /\ KeptSpans(n) # <<>> THEN images ELSE KeptSpans(n)),
           result' = (IF interrupted THEN "interrupted" ELSE "rebuilt")
    PROVE  CheckpointInv'
<1> DEFINE ks == {k \in DOMAIN spans : spans[k].start < pos}
<1>1. /\ tokens' \in Seq(Vocabulary) /\ told' = tokens' /\ spans' \in Seq(Spans) /\ Within'
      /\ Len(tokens') = IF pos >= Len(tokens) THEN Len(tokens) ELSE pos
      /\ DOMAIN spans' = ks
      /\ \A k \in ks : k \in DOMAIN spans /\ spans'[k] = spans[k]
    BY CutKeeps
<1>2. CheckpointTypes /\ Within /\ n = Len(tokens')
    BY DEF CheckpointInv
<1>3. \A k \in DOMAIN spans : /\ spans[k].start \in Nat /\ spans[k].count \in Nat
                              /\ spans[k].count > 0 /\ spans[k].start < Len(tokens)
    <2>1. spans \in Seq(Spans)
        BY <1>2 DEF CheckpointTypes
    <2>2. QED
        BY <1>2, <2>1, SpanFields DEF Within, Ascending
<1>4. n \in Nat /\ Len(tokens) \in Nat /\ n = IF pos >= Len(tokens) THEN Len(tokens) ELSE pos
    BY <1>1, <1>2 DEF CheckpointTypes
<1>5. {k \in DOMAIN spans : End(spans[k]) <= n} = ks
    <2>1. ASSUME NEW k \in DOMAIN spans
          PROVE  End(spans[k]) <= n <=> spans[k].start < pos
        <3>1. spans[k].start < n => ~(n < End(spans[k]))
            BY DEF Straddled
        <3>2. QED
            BY <1>3, <1>4, <3>1 DEF End
    <2>2. QED
        BY <2>1
<1>6. KeptSpans(n) = spans'
    BY <1>5 DEF KeptSpans, Leaves
<1>7. \A k \in DOMAIN spans' : End(spans'[k]) <= Len(tokens')
    BY <1>1, <1>2, <1>5
<1>8. images' \in Seq(Spans) /\ (~interrupted => images' = spans')
    BY <1>1, <1>2, <1>6 DEF CheckpointTypes
<1>9. CheckpointTypes'
    BY <1>1, <1>8 DEF CheckpointTypes
<1>10. Noted'
    BY <1>8 DEF Noted, ToSet
<1>11. Promised'
    <2>1. SpansFit(tokens', spans')
        BY <1>1, <1>7, AscendingFits DEF Within
    <2>2. ~interrupted => SpansFit(tokens, images)'
        BY <1>8, <2>1
    <2>3. QED
        BY <1>8, <2>2 DEF Promised
<1>12. QED
    BY <1>1, <1>9, <1>10, <1>11 DEF CheckpointInv

\* Every step of a session preserves its invariant.
LEMMA CheckpointStep ==
    ASSUME CheckpointInv, [CheckpointNext]_sessionVars
    PROVE  CheckpointInv'
<1>0. CheckpointTypes
    BY DEF CheckpointInv
<1>1. CASE UNCHANGED sessionVars
    <2>1. UNCHANGED <<tokens, images, told, spans, sure, valid, result>> /\ valid' \in BOOLEAN
        BY <1>0, <1>1 DEF sessionVars, CheckpointTypes
    <2>2. QED
        BY <2>1, CheckpointRests
<1>2. ASSUME NEW p \in Prompts, SyncRefused(p) PROVE CheckpointInv'
    BY <1>0, <1>2, CheckpointRests DEF SyncRefused, CheckpointTypes
<1>3. ASSUME NEW p \in Prompts, NEW b \in BOOLEAN, SyncPrompt(p, b) PROVE CheckpointInv'
    BY <1>3, CheckpointSync
<1>4. ASSUME NEW t \in {"t", "u"}, Eval(t) PROVE CheckpointInv'
    <2>1. <<t>> \in Seq(Vocabulary)
        BY DEF Vocabulary
    <2>2. tokens' = tokens \o <<t>> /\ told' = told \o <<t>>
        BY <1>0, <1>4, <2>1, AppendIsConcat DEF Eval, CheckpointTypes, Vocabulary
    <2>3. QED
        BY <1>4, <2>1, <2>2, CheckpointGrows DEF Eval
<1>5. ASSUME NEW n \in 1..MaxBlock, EvalSpeculative([k \in 1..n |-> IF k = 1 THEN "t" ELSE "u"])
      PROVE  CheckpointInv'
    <2>1. [k \in 1..n |-> IF k = 1 THEN "t" ELSE "u"] \in Seq(Vocabulary)
        <3>1. n \in Nat
            OBVIOUS
        <3>2. QED
            BY <3>1 DEF Vocabulary
    <2>2. QED
        BY <1>5, <2>1, CheckpointGrows DEF EvalSpeculative
<1>6. ASSUME NEW pos \in 0..(Len(tokens) + 1), NEW can \in BOOLEAN, Rewind(pos, can)
      PROVE  CheckpointInv'
    <2>1. pos \in Nat /\ valid' \in BOOLEAN
        BY <1>0, <1>6 DEF CheckpointTypes, Rewind, Keeps
    <2>2. QED
        BY <1>6, <2>1, CheckpointRewind DEF Rewind
<1>7. ASSUME NEW pos \in 0..(Len(tokens) + 1), NEW can \in BOOLEAN, NEW interrupted \in BOOLEAN,
             RewindSynced(pos, can, interrupted)
      PROVE  CheckpointInv'
    <2> DEFINE n == Len(Cut(tokens, pos))
               common == IF Keeps(pos, can) THEN n ELSE 0
    <2>1. pos \in Nat /\ Keeps(pos, can) \in BOOLEAN /\ Leaves(pos) /\ tokens' = Cut(tokens, pos)
        BY <1>0, <1>7 DEF CheckpointTypes, RewindSynced, Keeps
    <2>2. CASE common = n /\ valid' = Keeps(pos, can) /\ result' = "rewound" /\ UNCHANGED <<images, sure>>
        <3>1. tokens' \in Seq(Vocabulary)
            BY <2>1, CutKeeps
        <3>2. valid' \/ tokens' = <<>>
            BY <2>1, <2>2, <3>1
        <3>3. QED
            BY <2>1, <2>2, <3>2, CheckpointRewind
    <2>3. CASE valid' = FALSE /\ result' = "split" /\ UNCHANGED <<images, sure>>
        BY <2>1, <2>3, CheckpointRewind
    <2>4. CASE /\ ~Straddled(n) /\ valid' = ~interrupted /\ sure' = ~interrupted
               /\ images' = IF interrupted /\ KeptSpans(n) # <<>> THEN images ELSE KeptSpans(n)
               /\ result' = IF interrupted THEN "interrupted" ELSE "rebuilt"
        BY <2>1, <2>4, CheckpointRebuilds
    <2>5. QED
        BY <1>7, <2>2, <2>3, <2>4 DEF RewindSynced
<1>8. CASE DrawFails
    BY <1>0, <1>8, CheckpointRests DEF DrawFails, CheckpointTypes
<1>9. CASE Invalidate
    BY <1>0, <1>9, CheckpointRests DEF Invalidate, CheckpointTypes
<1>10. QED
    BY <1>1, <1>2, <1>3, <1>4, <1>5, <1>6, <1>7, <1>8, <1>9 DEF CheckpointNext

\* The invariant of a session holds throughout, for any prompts
\* (session.go:267-300, 576-642).
THEOREM CheckpointInvariance == CheckpointSpec => []CheckpointInv
<1>1. CheckpointInit => CheckpointInv
    BY CheckpointBegins
<1>2. CheckpointInv /\ [CheckpointNext]_sessionVars => CheckpointInv'
    BY CheckpointStep
<1>3. QED
    BY <1>1, <1>2, PTL DEF CheckpointSpec

\* What a session that can go on holds is what its program takes it to hold,
\* images included, whatever was synced, drawn, cut or interrupted before
\* (session.go:267-300, 576-642; ds4api/vision.go:309-421).
THEOREM CheckpointOfTheTextTheorem == CheckpointSpec => []CheckpointOfTheText
<1>1. CheckpointInv => CheckpointOfTheText
    <2> SUFFICES ASSUME CheckpointInv PROVE CheckpointOfTheText
        OBVIOUS
    <2>1. tokens = told /\ images \in Seq(Spans) /\ spans \in Seq(Spans)
        BY DEF CheckpointInv, CheckpointTypes
    <2>2. sure /\ valid => \A k \in DOMAIN spans : End(spans[k]) <= Len(tokens) => spans[k] \in ToSet(images)
        BY DEF CheckpointInv, Noted
    <2>3. /\ result = "rewound" => valid \/ tokens = <<>>
          /\ result = "rebuilt" => images = spans /\ SpansFit(tokens, images)
        BY DEF CheckpointInv, Promised
    <2>4. ASSUME result \in {"synced", "rebuilt"} PROVE VisionPrefixMatches(spans)
        <3>1. valid /\ images = spans
            BY <2>4 DEF CheckpointInv, Promised
        <3>2. \A k \in (Len(spans) + 1)..Len(spans) : FALSE
            BY <2>1
        <3>3. QED
            BY <2>1, <3>1, <3>2 DEF VisionPrefixMatches, IsPrefix
    <2>5. QED
        BY <2>1, <2>2, <2>3, <2>4 DEF CheckpointOfTheText
<1>2. QED
    BY <1>1, CheckpointInvariance, PTL

-----------------------------------------------------------------------------
(* The scratchpad *)

BytesOf(ks) == UNION {{k} \X DOMAIN file[k] : k \in ks}
Asked == [op : {"set", "append"}, key : Keys, bytes : Seq(Nat)]
Written == [op : {"write"}, key : Keys, value : Seq(Nat), job : Asked]

PadTypes ==
    /\ file \in [Keys -> Seq(Nat) \cup {NoValue}] /\ pad = file
    /\ mu \in Writers \cup {Free} /\ writes \in Nat
    /\ at \in [Writers -> {Resting} \cup Asked \cup Written]

\* Only the holder of the mutex writes, and what it has read and counted is
\* still there.
WriterHolds ==
    \A c \in Writers :
        at[c].op = "write" =>
            /\ mu = c
            /\ at[c].key = at[c].job.key /\ at[c].value = NewValue(at[c].job)
            /\ Fits(at[c].key, at[c].value)

WithinConfig ==
    /\ IsFiniteSet(Listed) /\ Cardinality(Listed) <= MaxKeys
    /\ \A k \in Listed : Len(file[k]) <= MaxValueBytes
    /\ IsFiniteSet(BytesOf(Listed)) /\ Sizes(Listed) <= MaxTotalBytes

PadInv == PadTypes /\ WriterHolds /\ WithinConfig

\* A scratchpad begins empty.
LEMMA PadBegins == PadInit => PadInv
<1> SUFFICES ASSUME PadInit PROVE PadInv
    OBVIOUS
<1>1. PadTypes
    BY DEF PadInit, PadTypes, Resting
<1>2. WriterHolds
    BY DEF PadInit, WriterHolds, Resting
<1>3. Listed = {} /\ BytesOf({}) = {}
    BY DEF PadInit, Listed, BytesOf
<1>4. Sizes({}) = 0
    BY <1>3, FS_EmptySet DEF Sizes, BytesOf
<1>5. 0 <= MaxKeys /\ 0 <= MaxTotalBytes
    BY PadAssumption
<1>6. WithinConfig
    BY <1>3, <1>4, <1>5, FS_EmptySet DEF WithinConfig
<1>7. QED
    BY <1>1, <1>2, <1>6 DEF PadInv

\* A call rests, asks or writes.
LEMMA PadCases ==
    ASSUME PadTypes, NEW c \in Writers
    PROVE  /\ at[c].op = "write" => at[c] \in Written
           /\ at[c].op \in {"set", "append"} => at[c] \in Asked
           /\ at[c] = Resting => at[c].op = "idle"
<1>1. at[c] \in {Resting} \cup Asked \cup Written
    BY DEF PadTypes
<1>2. at[c] = Resting => at[c].op = "idle"
    BY DEF Resting
<1>3. at[c] \in Asked => at[c].op \in {"set", "append"}
    BY DEF Asked
<1>4. at[c] \in Written => at[c].op = "write"
    BY DEF Written
<1>5. QED
    BY <1>1, <1>2, <1>3, <1>4

\* Steps that leave the files alone.
LEMMA PadRests ==
    ASSUME PadInv, PadTypes', UNCHANGED file,
           \A c \in Writers : at'[c].op = "write" => at'[c] = at[c] /\ mu' = mu
    PROVE  PadInv'
<1>1. WithinConfig'
    BY DEF PadInv, WithinConfig, Listed, Sizes, BytesOf
<1>2. WriterHolds'
    <2> SUFFICES ASSUME NEW c \in Writers, at'[c].op = "write"
                 PROVE  /\ mu' = c
                        /\ at'[c].key = at'[c].job.key /\ at'[c].value = NewValue(at[c].job)'
                        /\ Fits(at[c].key, at[c].value)'
        BY DEF WriterHolds
    <2>1. at'[c] = at[c] /\ mu' = mu /\ at[c].op = "write"
        OBVIOUS
    <2>2. /\ mu = c /\ at[c].key = at[c].job.key /\ at[c].value = NewValue(at[c].job)
          /\ Fits(at[c].key, at[c].value)
        BY SMTT(30), <2>1 DEF PadInv, WriterHolds
    <2>3. at'[c].value = NewValue(at[c].job)'
        BY <2>1, <2>2 DEF NewValue, ReadLocked
    <2>4. Fits(at[c].key, at[c].value)'
        BY <2>1, <2>2 DEF Fits, Listed, Sizes
    <2>5. QED
        BY <2>1, <2>2, <2>3, <2>4
<1>3. QED
    BY <1>1, <1>2 DEF PadInv

\* A call that begins has only asked.
LEMMA PadCall ==
    ASSUME PadInv, NEW c \in Writers, NEW op \in {"set", "append"}, NEW k \in Keys, NEW n \in Nat,
           Call(c, op, k, n)
    PROVE  PadInv'
<1>1. PadTypes
    BY DEF PadInv
<1>2. [op |-> op, key |-> k, bytes |-> [i \in 1..n |-> writes']] \in Asked
    <2>1. writes' \in Nat
        BY <1>1 DEF Call, PadTypes
    <2>2. [i \in 1..n |-> writes'] \in Seq(Nat)
        BY <2>1
    <2>3. QED
        BY <2>2 DEF Asked
<1>3. at' = [at EXCEPT ![c] = [op |-> op, key |-> k, bytes |-> [i \in 1..n |-> writes']]]
    BY DEF Call, Goes
<1>4. writes' \in Nat /\ UNCHANGED <<file, mu, pad>>
    BY <1>1 DEF Call, PadTypes
<1>5. PadTypes'
    BY <1>1, <1>2, <1>3, <1>4 DEF PadTypes
<1>6. ASSUME NEW d \in Writers, at'[d].op = "write" PROVE at'[d] = at[d] /\ mu' = mu
    BY <1>1, <1>3, <1>4, <1>6 DEF PadTypes
<1>7. QED
    BY <1>4, <1>5, <1>6, PadRests

\* The value that is asked for.
LEMMA NewValueType ==
    ASSUME PadTypes, NEW job \in Asked
    PROVE  job.key \in Keys /\ NewValue(job) \in Seq(Nat)
<1>1. job.key \in Keys /\ job.bytes \in Seq(Nat)
    BY DEF Asked
<1>2. ReadLocked(job.key) \in Seq(Nat)
    BY <1>1 DEF PadTypes, ReadLocked
<1>3. QED
    BY <1>1, <1>2 DEF NewValue

\* The holder of the mutex has counted the value that it writes.
LEMMA PadTakes ==
    ASSUME PadInv, NEW c \in Writers, SetLocked(c)
    PROVE  PadInv'
<1> DEFINE job == at[c]
<1>1. PadTypes /\ job \in Asked /\ mu = Free
    BY PadCases DEF PadInv, SetLocked
<1>2. job.key \in Keys /\ NewValue(job) \in Seq(Nat)
    BY <1>1, NewValueType
<1>3. UNCHANGED <<file, writes, pad>>
    BY DEF SetLocked
<1>4. \A d \in Writers : at[d].op # "write"
    BY <1>1, PadAssumption DEF PadInv, WriterHolds, Free
<1>5. CASE ~Fits(job.key, NewValue(job))
    <2>1. mu' = mu /\ at' = [at EXCEPT ![c] = Resting]
        BY <1>5 DEF SetLocked, Goes
    <2>2. PadTypes'
        BY <1>1, <1>3, <2>1 DEF PadTypes
    <2>3. \A d \in Writers : at'[d].op # "write"
        BY <1>1, <1>4, <2>1 DEF PadTypes, Resting
    <2>4. QED
        BY <1>3, <2>2, <2>3, PadRests
<1>6. CASE Fits(job.key, NewValue(job))
    <2> DEFINE w == [op |-> "write", key |-> job.key, value |-> NewValue(job), job |-> job]
    <2>1. mu' = c /\ at' = [at EXCEPT ![c] = w]
        BY <1>6 DEF SetLocked, Goes
    <2>2. w \in Written
        BY <1>1, <1>2 DEF Written
    <2>3. PadTypes'
        BY <1>1, <1>3, <2>1, <2>2 DEF PadTypes
    <2>4. WithinConfig'
        BY <1>3 DEF PadInv, WithinConfig, Listed, Sizes, BytesOf
    <2>5. WriterHolds'
        <3> SUFFICES ASSUME NEW d \in Writers, at'[d].op = "write"
                     PROVE  /\ mu' = d
                            /\ at'[d].key = at'[d].job.key /\ at'[d].value = NewValue(at[d].job)'
                            /\ Fits(at[d].key, at[d].value)'
            BY DEF WriterHolds
        <3>1. d = c /\ at'[d] = w
            BY <1>1, <1>4, <2>1 DEF PadTypes
        <3>2. NewValue(at[d].job)' = NewValue(job)
            <4>1. at'[d].job = job
                BY <3>1
            <4>2. QED
                BY <1>3, <4>1 DEF NewValue, ReadLocked
        <3>3. Fits(at[d].key, at[d].value)'
            BY <1>3, <1>6, <3>1 DEF Fits, Listed, Sizes
        <3>4. QED
            BY <2>1, <3>1, <3>2, <3>3
    <2>6. QED
        BY <2>3, <2>4, <2>5 DEF PadInv
<1>7. QED
    BY <1>5, <1>6

\* A value that fits takes its place within the limits.
LEMMA FitsWithin ==
    ASSUME PadInv, NEW k \in Keys, NEW value \in Seq(Nat), Fits(k, value),
           file' = [file EXCEPT ![k] = value]
    PROVE  WithinConfig'
<1>1. /\ file \in [Keys -> Seq(Nat) \cup {NoValue}] /\ NoValue \notin Seq(Nat)
      /\ MaxKeys \in Nat /\ MaxTotalBytes \in Nat
    BY PadAssumption DEF PadInv, PadTypes
<1>2. Listed' = Listed \cup {k} /\ file'[k] = value /\ \A j \in Keys : j # k => file'[j] = file[j]
    BY <1>1 DEF Listed
<1>3. IsFiniteSet(Listed') /\ Cardinality(Listed') <= MaxKeys
    <2>1. IsFiniteSet(Listed) /\ Cardinality(Listed) <= MaxKeys /\ Cardinality(Listed) \in Nat
        BY FS_CardinalityType DEF PadInv, WithinConfig
    <2>2. /\ IsFiniteSet(Listed \cup {k})
          /\ Cardinality(Listed \cup {k}) = IF k \in Listed THEN Cardinality(Listed) ELSE Cardinality(Listed) + 1
        BY <2>1, FS_AddElement
    <2>3. k \in Listed \/ Cardinality(Listed) < MaxKeys
        BY DEF Fits
    <2>4. QED
        BY <1>1, <1>2, <2>1, <2>2, <2>3
<1>4. \A j \in Listed' : Len(file'[j]) <= MaxValueBytes
    BY <1>2 DEF PadInv, WithinConfig, Fits, Listed
<1> DEFINE Rest == BytesOf(Listed \ {k})
           New == {k} \X DOMAIN value
<1>5. BytesOf(Listed)' = Rest \cup New
    <2>1. \A j \in Listed \ {k} : file'[j] = file[j]
        BY <1>2 DEF Listed
    <2>2. BytesOf(Listed)' = UNION {{j} \X DOMAIN file'[j] : j \in Listed \cup {k}}
        BY <1>2 DEF BytesOf
    <2>3. QED
        BY <1>2, <2>1, <2>2 DEF BytesOf
<1>6. IsFiniteSet(Rest) /\ Cardinality(Rest) \in Nat
    <2>1. Rest \subseteq BytesOf(Listed) /\ IsFiniteSet(BytesOf(Listed))
        BY DEF BytesOf, PadInv, WithinConfig
    <2>2. QED
        BY <2>1, FS_Subset, FS_CardinalityType
<1>7. IsFiniteSet(New) /\ Cardinality(New) = Len(value)
    <2>1. DOMAIN value = 1..Len(value) /\ Len(value) \in Nat
        OBVIOUS
    <2>2. IsFiniteSet(DOMAIN value) /\ Cardinality(DOMAIN value) = Len(value)
        <3> DEFINE n == Len(value)
        <3>1. 1 \in Int /\ n \in Int /\ n >= 0 /\ DOMAIN value = 1..n
            BY <2>1
        <3>2. IsFiniteSet(1..n) /\ Cardinality(1..n) = IF 1 > n THEN 0 ELSE n - 1 + 1
            BY <3>1, FS_Interval
        <3>3. QED
            BY <3>1, <3>2
    <2>3. IsFiniteSet({k}) /\ Cardinality({k}) = 1
        BY FS_Singleton
    <2>4. IsFiniteSet(New) /\ Cardinality(New) = Cardinality({k}) * Cardinality(DOMAIN value)
        BY <2>2, <2>3, FS_Product
    <2>5. QED
        BY <2>1, <2>2, <2>3, <2>4
<1>8. Rest \cap New = {}
    BY DEF BytesOf
<1>9. IsFiniteSet(Rest \cup New) /\ Cardinality(Rest \cup New) = Cardinality(Rest) + Len(value)
    <2>1. Cardinality(Rest \cap New) = 0
        BY <1>8, FS_EmptySet
    <2>2. /\ IsFiniteSet(Rest \cup New)
          /\ Cardinality(Rest \cup New) = Cardinality(Rest) + Cardinality(New) - Cardinality(Rest \cap New)
        BY <1>6, <1>7, FS_Union
    <2>3. QED
        BY <1>6, <1>7, <2>1, <2>2
<1>10. Sizes(Listed \ {k}) + Len(value) <= MaxTotalBytes /\ Sizes(Listed \ {k}) = Cardinality(Rest)
    BY DEF Fits, Sizes, BytesOf
<1>11. Sizes(Listed)' = Cardinality(BytesOf(Listed)')
    BY DEF Sizes, BytesOf
<1>12. QED
    BY <1>3, <1>4, <1>5, <1>9, <1>10, <1>11 DEF WithinConfig

\* The file takes the value that was counted, or stays as it was.
LEMMA PadRename ==
    ASSUME PadInv, NEW c \in Writers, NEW written \in BOOLEAN, Rename(c, written)
    PROVE  PadInv'
<1> DEFINE k == at[c].key
           job == at[c].job
<1>1. PadTypes /\ at[c] \in Written /\ mu = c /\ at[c].op = "write"
    BY PadCases DEF PadInv, Rename, WriterHolds
<1>2. /\ k \in Keys /\ k = job.key /\ job \in Asked /\ at[c].value \in Seq(Nat)
      /\ at[c].value = NewValue(job) /\ Fits(k, at[c].value)
    BY <1>1 DEF PadInv, WriterHolds, Written
<1>3. mu' = Free /\ at' = [at EXCEPT ![c] = Resting] /\ UNCHANGED writes
    BY DEF Rename, Goes
<1>4. \A d \in Writers : at'[d].op # "write"
    <2>1. \A d \in Writers : d # c => at[d].op # "write"
        BY <1>1 DEF PadInv, WriterHolds
    <2>2. QED
        BY <1>1, <1>3, <2>1 DEF PadTypes, Resting
<1>5. CASE ~written
    <2>1. UNCHANGED <<file, pad>>
        BY <1>5 DEF Rename
    <2>2. PadTypes'
        BY <1>1, <1>3, <2>1 DEF PadTypes
    <2>3. QED
        BY <1>4, <2>1, <2>2, PadRests
<1>6. CASE written
    <2>1. /\ file' = [file EXCEPT ![k] = at[c].value]
          /\ pad' = [pad EXCEPT ![k] = (IF job.op = "append" /\ pad[k] # NoValue THEN pad[k] ELSE <<>>) \o job.bytes]
        BY <1>6 DEF Rename
    <2>2. pad = file
        BY <1>1 DEF PadTypes
    <2>3. at[c].value = (IF job.op = "append" /\ pad[k] # NoValue THEN pad[k] ELSE <<>>) \o job.bytes
        BY <1>2, <2>2 DEF NewValue, ReadLocked
    <2>4. pad' = file'
        BY SMTT(30), <2>1, <2>2, <2>3
    <2>5. PadTypes'
        BY <1>1, <1>2, <1>3, <2>1, <2>4 DEF PadTypes
    <2>6. WithinConfig'
        BY <1>2, <2>1, FitsWithin
    <2>7. WriterHolds'
        BY <1>4 DEF WriterHolds
    <2>8. QED
        BY <2>5, <2>6, <2>7 DEF PadInv
<1>7. QED
    BY <1>5, <1>6

\* A key less leaves the limits kept.
LEMMA PadDelete ==
    ASSUME PadInv, NEW c \in Writers, NEW k \in Keys, DeleteKey(c, k)
    PROVE  PadInv'
<1>1. /\ PadTypes /\ mu = Free /\ UNCHANGED <<mu, at, writes>>
      /\ file' = [file EXCEPT ![k] = NoValue] /\ pad' = [pad EXCEPT ![k] = NoValue]
    BY DEF PadInv, DeleteKey
<1>2. PadTypes'
    BY <1>1 DEF PadTypes
<1>3. WriterHolds'
    <2>1. \A d \in Writers : at[d].op # "write"
        BY <1>1, PadAssumption DEF PadInv, WriterHolds, Free
    <2>2. QED
        BY <1>1, <2>1 DEF WriterHolds
<1>4. Listed' = Listed \ {k} /\ \A j \in Listed' : file'[j] = file[j]
    BY <1>1 DEF PadTypes, Listed
<1>5. IsFiniteSet(Listed') /\ Cardinality(Listed') <= MaxKeys
    <2>1. IsFiniteSet(Listed) /\ Cardinality(Listed) <= MaxKeys /\ Listed' \in SUBSET Listed
        BY <1>4 DEF PadInv, WithinConfig
    <2>2. IsFiniteSet(Listed') /\ Cardinality(Listed') <= Cardinality(Listed)
        BY <2>1, FS_Subset
    <2>3. Cardinality(Listed) \in Nat /\ Cardinality(Listed') \in Nat /\ MaxKeys \in Nat
        BY <2>1, <2>2, FS_CardinalityType, PadAssumption
    <2>4. QED
        BY <2>1, <2>2, <2>3
<1>6. \A j \in Listed' : Len(file'[j]) <= MaxValueBytes
    BY <1>4 DEF PadInv, WithinConfig
<1>7. IsFiniteSet(BytesOf(Listed)') /\ Sizes(Listed)' <= MaxTotalBytes
    <2>1. BytesOf(Listed)' \in SUBSET BytesOf(Listed)
        BY <1>4 DEF BytesOf
    <2>2. IsFiniteSet(BytesOf(Listed)) /\ Cardinality(BytesOf(Listed)) <= MaxTotalBytes
        BY DEF PadInv, WithinConfig, Sizes, BytesOf
    <2>3. IsFiniteSet(BytesOf(Listed)') /\ Cardinality(BytesOf(Listed)') <= Cardinality(BytesOf(Listed))
        BY <2>1, <2>2, FS_Subset
    <2>4. Cardinality(BytesOf(Listed)) \in Nat /\ Cardinality(BytesOf(Listed)') \in Nat /\ MaxTotalBytes \in Nat
        BY <2>2, <2>3, FS_CardinalityType, PadAssumption
    <2>5. Sizes(Listed)' = Cardinality(BytesOf(Listed)')
        BY DEF Sizes, BytesOf
    <2>6. QED
        BY <2>2, <2>3, <2>4, <2>5
<1>8. QED
    BY <1>2, <1>3, <1>5, <1>6, <1>7 DEF PadInv, WithinConfig

\* Every step of a scratchpad preserves its invariant.
LEMMA PadStep ==
    ASSUME PadInv, [PadNext]_padVars
    PROVE  PadInv'
<1>0. PadTypes
    BY DEF PadInv
<1>1. CASE UNCHANGED padVars
    <2>1. PadTypes' /\ UNCHANGED <<file, mu, at>>
        BY <1>0, <1>1 DEF padVars, PadTypes
    <2>2. QED
        BY <2>1, PadRests
<1>2. ASSUME NEW c \in Writers, NEW op \in {"set", "append"}, NEW k \in Keys, NEW n \in 0..MaxWrite,
             Call(c, op, k, n)
      PROVE  PadInv'
    <2>1. n \in Nat
        OBVIOUS
    <2>2. QED
        BY <1>2, <2>1, PadCall
<1>3. ASSUME NEW c \in Writers, SetLocked(c) PROVE PadInv'
    BY <1>3, PadTakes
<1>4. ASSUME NEW c \in Writers, NEW written \in BOOLEAN, Rename(c, written) PROVE PadInv'
    BY <1>4, PadRename
<1>5. ASSUME NEW c \in Writers, NEW k \in Keys, DeleteKey(c, k) PROVE PadInv'
    BY <1>5, PadDelete
<1>6. CASE Dies
    <2>1. at' = [c \in Writers |-> Resting] /\ mu' = Free /\ UNCHANGED <<file, writes, pad>>
        BY <1>6 DEF Dies
    <2>2. PadTypes' /\ \A c \in Writers : at'[c].op # "write"
        BY <1>0, <2>1 DEF PadTypes, Resting
    <2>3. QED
        BY <2>1, <2>2, PadRests
<1>7. QED
    BY <1>1, <1>2, <1>3, <1>4, <1>5, <1>6 DEF PadNext

\* The invariant of a scratchpad holds throughout, for any writers, keys and
\* limits (store.go:79-169).
THEOREM PadInvariance == PadSpec => []PadInv
<1>1. PadInit => PadInv
    BY PadBegins
<1>2. PadInv /\ [PadNext]_padVars => PadInv'
    BY PadStep
<1>3. QED
    BY <1>1, <1>2, PTL DEF PadSpec

\* A key holds exactly what the calls that were done have put there, and the
\* limits hold, for any writers, keys and limits (store.go:79-169).
THEOREM PadKeptTheorem == PadSpec => []PadKept
<1>1. PadInv => PadKept
    BY DEF PadInv, PadTypes, WithinConfig, PadKept
<1>2. QED
    BY <1>1, PadInvariance, PTL

-----------------------------------------------------------------------------
(* Images *)

Owning == Nat \ {0}
CacheEntry == [key : Nat, emb : Owning]
Work == [op : {"idle", "encode", "fresh", "insert", "built", "failed"}, img : Nat, max : Nat,
         emb : Nat, clone : Nat, embs : Seq(Owning), spans : Seq(Owning)]
BytesIn(o) == UNION {{e.emb} \X (1..e.key) : e \in ToSet(o)}

ImageTypes ==
    /\ heap \subseteq Owning /\ \E n \in Nat : heap \subseteq 0..n
    /\ order \in Seq(CacheEntry) /\ limits \in [entries : Nat, bytes : Nat]
    /\ prompt \in [Callers -> Work]
    /\ IsFiniteSet(BytesIn(order))

\* Encode has an embedding in hand from the encoding until it is inserted, and a
\* clone of it for the caller at last.
InHand ==
    \A c \in Callers :
        /\ prompt[c].emb # 0 <=> prompt[c].op \in {"fresh", "insert"}
        /\ prompt[c].clone # 0 <=> prompt[c].op = "insert"

ImageInv == ImageTypes /\ InHand /\ Owned /\ WithinLimits

\* A buffer that malloc returns is free, and so are those after it.
LEMMA FreshIsFree ==
    ASSUME ImageTypes, NEW n \in Nat
    PROVE  Fresh(n) \in Owning /\ \A i \in 0..(n - 1) : Fresh(n) + i \notin heap
<1> DEFINE m == Max({0} \cup heap)
           S == {b \in 1..(m + 1) : \A i \in 0..(n - 1) : b + i \notin heap}
<1>1. PICK u \in Nat : heap \subseteq 0..u
    BY DEF ImageTypes
<1>2. m \in {0} \cup heap /\ \A k \in {0} \cup heap : k <= m
    <2>1. {0} \cup heap \subseteq 0..u /\ {0} \cup heap # {}
        BY <1>1
    <2>2. QED
        BY <2>1, MaxOf
<1> HIDE DEF m
<1>3. m \in Nat
    BY <1>2, <1>1
<1>4. m + 1 \in S
    <2> SUFFICES ASSUME NEW i \in 0..(n - 1) PROVE m + 1 + i \notin heap
        BY <1>3
    <2>1. m + 1 + i > m
        BY <1>3
    <2>2. \A k \in heap : k <= m /\ k \in Nat
        BY <1>1, <1>2
    <2>3. QED
        BY <2>1, <2>2, <1>3
<1>5. S \subseteq Nat
    BY <1>3
<1>6. PICK b \in S : \A k \in S : b <= k
    BY <1>4, <1>5, LeastNatural
<1>7. Min(S) \in S
    <2> HIDE DEF S
    <2>1. b \in S /\ \A k \in S : b =< k
        BY <1>6
    <2>2. QED
        BY <2>1 DEF Min
<1>8. Fresh(n) = Min(S)
    BY DEF Fresh, m
<1>9. QED
    BY <1>3, <1>7, <1>8 DEF Owning

\* What the buffers of the cache, of one prompt, of the others and of those that
\* wait for their cleanup have to do with each other.
LEMMA Shares ==
    ASSUME ImageInv, NEW c \in Callers
    PROVE  /\ heap = Embs(order) \cup Held(prompt[c]) \cup garbage \cup Others(c)
           /\ Embs(order) \cap garbage = {} /\ Apart(prompt[c])
           /\ Held(prompt[c]) \cap (Embs(order) \cup garbage \cup Others(c)) = {}
           /\ Others(c) \cap (Embs(order) \cup garbage) = {}
<1>1. UNION {Held(prompt[d]) : d \in Callers} = Held(prompt[c]) \cup Others(c)
    BY DEF Others
<1>2. \A d \in Callers : Held(prompt[d]) \cap (Embs(order) \cup garbage) = {}
    BY DEF ImageInv, Owned
<1>3. Others(c) \cap (Embs(order) \cup garbage) = {}
    BY <1>2 DEF Others
<1>4. heap = Embs(order) \cup garbage \cup UNION {Held(prompt[d]) : d \in Callers}
    BY DEF ImageInv, Owned
<1>5. heap = Embs(order) \cup Held(prompt[c]) \cup garbage \cup Others(c)
    <2> DEFINE U == UNION {Held(prompt[d]) : d \in Callers}
    <2>1. heap = Embs(order) \cup U \cup garbage /\ U = Held(prompt[c]) \cup Others(c)
        BY <1>1, <1>4
    <2> HIDE DEF U
    <2>2. QED
        BY <2>1
<1>6. /\ Embs(order) \cap garbage = {} /\ Apart(prompt[c])
      /\ Held(prompt[c]) \cap (Embs(order) \cup garbage \cup Others(c)) = {}
    BY DEF ImageInv, Owned
<1>7. QED
    BY <1>3, <1>5, <1>6

\* A step of one caller: what it does with its buffers.
LEMMA Hands ==
    ASSUME ImageInv, NEW c \in Callers, NEW j, prompt' = [prompt EXCEPT ![c] = j], Apart(j),
           \A i, k \in DOMAIN order' : order'[i].emb = order'[k].emb => i = k,
           Embs(order') \cap garbage' = {}, Held(j) \cap (Embs(order') \cup garbage') = {},
           (Embs(order') \cup Held(j) \cup garbage') \cap Others(c) = {},
           heap' = Embs(order') \cup Held(j) \cup garbage' \cup Others(c)
    PROVE  Owned'
<1>1. prompt \in [Callers -> Work]
    BY DEF ImageInv, ImageTypes
<1>2. prompt'[c] = j /\ \A d \in Callers \ {c} : prompt'[d] = prompt[d]
    BY <1>1
<1>3. \A d \in Callers \ {c} : Held(prompt[d]) \subseteq Others(c)
    BY DEF Others
<1>4. UNION {Held(prompt'[d]) : d \in Callers} = Held(j) \cup Others(c)
    BY <1>2 DEF Others
<1>5. heap' = Embs(order') \cup garbage' \cup UNION {Held(prompt'[d]) : d \in Callers}
    <2> DEFINE U == UNION {Held(prompt'[d]) : d \in Callers}
    <2>1. U = Held(j) \cup Others(c)
        BY <1>4
    <2> HIDE DEF U
    <2>2. heap' = Embs(order') \cup U \cup garbage'
        BY <2>1
    <2>3. QED
        BY <2>2 DEF U
<1>6. ASSUME NEW d \in Callers
      PROVE  /\ Apart(prompt'[d])
             /\ Held(prompt'[d]) \cap (Embs(order') \cup garbage') = {}
             /\ \A e \in Callers \ {d} : Held(prompt'[d]) \cap Held(prompt'[e]) = {}
    <2>1. CASE d = c
        BY <1>2, <1>3, <2>1
    <2>2. CASE d # c
        <3>1. prompt'[d] = prompt[d] /\ Held(prompt[d]) \subseteq Others(c)
            BY <1>2, <1>3, <2>2
        <3>2. Apart(prompt[d]) /\ \A e \in Callers \ {d} : Held(prompt[d]) \cap Held(prompt[e]) = {}
            BY DEF ImageInv, Owned, Others
        <3>3. ASSUME NEW e \in Callers \ {d} PROVE Held(prompt'[d]) \cap Held(prompt'[e]) = {}
            BY <1>2, <3>1, <3>2
        <3>4. QED
            BY <3>1, <3>2, <3>3
    <2>3. QED
        BY <2>1, <2>2
<1>7. \A d \in Callers : Held(prompt'[d]) \cap UNION {Held(prompt'[e]) : e \in Callers \ {d}} = {}
    BY <1>6
<1>8. QED
    BY <1>5, <1>6, <1>7 DEF Owned, Others

\* One buffer more in a list.
LEMMA OneMore ==
    ASSUME NEW s \in Seq(Owning), IsInjective(s), NEW b \in Owning, b \notin ToSet(s)
    PROVE  /\ Append(s, b) \in Seq(Owning) /\ IsInjective(Append(s, b))
           /\ ToSet(Append(s, b)) = ToSet(s) \cup {b}
<1> DEFINE t == Append(s, b)
<1>1. /\ t \in Seq(Owning) /\ DOMAIN s = 1..Len(s) /\ Len(s) \in Nat /\ DOMAIN t = 1..(Len(s) + 1)
      /\ t[Len(s) + 1] = b /\ \A i \in 1..Len(s) : t[i] = s[i]
    OBVIOUS
<1>2. \A i \in 1..Len(s) : t[i] # b
    BY <1>1 DEF ToSet
<1> HIDE DEF t
<1>3. DOMAIN t = DOMAIN s \cup {Len(s) + 1}
    BY <1>1
<1>4. IsInjective(t)
    BY <1>1, <1>2, <1>3 DEF IsInjective
<1>5. ToSet(t) = ToSet(s) \cup {b}
    <2>1. \A i \in DOMAIN t : t[i] \in ToSet(s) \cup {b}
        BY <1>1, <1>3 DEF ToSet
    <2>2. \A i \in DOMAIN s : s[i] \in ToSet(t)
        BY <1>1, <1>3 DEF ToSet
    <2>3. b \in ToSet(t)
        BY <1>1, <1>3 DEF ToSet
    <2>4. QED
        BY <2>1, <2>2, <2>3 DEF ToSet
<1>6. QED
    BY <1>1, <1>4, <1>5 DEF t

\* Two lists one after the other.
LEMMA Joined ==
    ASSUME NEW s \in Seq(Owning), NEW t \in Seq(Owning), IsInjective(s), IsInjective(t),
           ToSet(s) \cap ToSet(t) = {}
    PROVE  /\ s \o t \in Seq(Owning) /\ IsInjective(s \o t)
           /\ ToSet(s \o t) = ToSet(s) \cup ToSet(t)
<1> DEFINE u == s \o t
           m == Len(s)
           n == Len(t)
<1>1. /\ u \in Seq(Owning) /\ Len(u) = m + n /\ m \in Nat /\ n \in Nat
      /\ DOMAIN s = 1..m /\ DOMAIN t = 1..n /\ DOMAIN u = 1..(m + n)
    OBVIOUS
<1>2. \A i \in 1..(m + n) : u[i] = IF i <= m THEN s[i] ELSE t[i - m]
    BY ConcatProperties
<1> HIDE DEF u, m, n
<1>3. \A i \in 1..m : u[i] = s[i] /\ i \in DOMAIN u
    BY <1>1, <1>2
<1>4. \A i \in 1..n : u[i + m] = t[i] /\ i + m \in DOMAIN u
    <2> SUFFICES ASSUME NEW i \in 1..n PROVE u[i + m] = t[i] /\ i + m \in DOMAIN u
        OBVIOUS
    <2>1. i + m \in 1..(m + n) /\ ~(i + m <= m) /\ i + m - m = i
        BY <1>1
    <2>2. QED
        BY <1>1, <1>2, <2>1
<1>5. \A i \in DOMAIN u : i \in 1..m \/ i - m \in 1..n
    BY <1>1
<1>6. \A i \in DOMAIN u : i \notin 1..m => u[i] = t[i - m] /\ i - m \in 1..n
    BY <1>1, <1>2, <1>5
<1>7. ToSet(u) = ToSet(s) \cup ToSet(t)
    <2>1. \A i \in DOMAIN u : u[i] \in ToSet(s) \cup ToSet(t)
        BY <1>1, <1>3, <1>6 DEF ToSet
    <2>2. \A i \in DOMAIN s : s[i] \in ToSet(u)
        BY <1>1, <1>3 DEF ToSet
    <2>3. \A i \in DOMAIN t : t[i] \in ToSet(u)
        BY <1>1, <1>4 DEF ToSet
    <2>4. QED
        BY <2>1, <2>2, <2>3 DEF ToSet
<1>8. ASSUME NEW i \in DOMAIN u, NEW k \in DOMAIN u, u[i] = u[k] PROVE i = k
    <2>1. i \in 1..m => u[i] \in ToSet(s)
        BY <1>1, <1>3 DEF ToSet
    <2>2. k \in 1..m => u[k] \in ToSet(s)
        BY <1>1, <1>3 DEF ToSet
    <2>3. i \notin 1..m => u[i] \in ToSet(t)
        BY <1>1, <1>6 DEF ToSet
    <2>4. k \notin 1..m => u[k] \in ToSet(t)
        BY <1>1, <1>6 DEF ToSet
    <2>5. CASE i \in 1..m /\ k \in 1..m
        BY <1>1, <1>3, <1>8, <2>5 DEF IsInjective
    <2>6. CASE i \notin 1..m /\ k \notin 1..m
        <3>1. t[i - m] = t[k - m] /\ i - m \in DOMAIN t /\ k - m \in DOMAIN t
            BY <1>1, <1>6, <1>8, <2>6
        <3>2. i - m = k - m
            BY <3>1 DEF IsInjective
        <3>3. i \in Int /\ k \in Int
            BY <1>1
        <3>4. QED
            BY <1>1, <3>2, <3>3
    <2>7. QED
        BY <1>8, <2>1, <2>2, <2>3, <2>4, <2>5, <2>6
<1>9. IsInjective(u)
    BY <1>8 DEF IsInjective
<1>10. QED
    BY <1>1, <1>7, <1>9 DEF u

\* A cache has a key once, and a buffer once.
KeysOnce(o) == \A i, k \in DOMAIN o : o[i].key = o[k].key => i = k
EmbsOnce(o) == \A i, k \in DOMAIN o : o[i].emb = o[k].emb => i = k

\* The same entries in another order.
Rearranged(o, q) ==
    /\ q \in Seq(CacheEntry) /\ Len(q) = Len(o) /\ ToSet(q) = ToSet(o)
    /\ KeysOnce(o) => KeysOnce(q)
    /\ EmbsOnce(o) => EmbsOnce(q)

\* The cache after an entry was moved to its front has the same entries.
LEMMA ToFront ==
    ASSUME NEW o \in Seq(CacheEntry), NEW i \in DOMAIN o, NEW q, q = <<o[i]>> \o RemoveAt(o, i)
    PROVE  Rearranged(o, q)
<1> DEFINE n == Len(o)
           before == SubSeq(o, 1, i - 1)
           after == SubSeq(o, i + 1, n)
           f == [k \in 1..n |-> IF k = 1 THEN i ELSE IF k <= i THEN k - 1 ELSE k]
<1>1. /\ n \in Nat /\ DOMAIN o = 1..n /\ i \in 1..n
      /\ \A k \in 1..n : o[k] \in CacheEntry
    OBVIOUS
<1>2. /\ before \in Seq(CacheEntry) /\ Len(before) = i - 1 /\ \A k \in 1..(i - 1) : before[k] = o[k]
    <2>1. \A k \in 1..(i - 1) : o[k] \in CacheEntry
        BY <1>1
    <2>2. 1 \in Int /\ i - 1 \in Int
        BY <1>1
    <2>3. /\ before \in Seq(CacheEntry)
          /\ Len(before) = IF 1 <= i - 1 THEN (i - 1) - 1 + 1 ELSE 0
          /\ \A k \in 1..((i - 1) - 1 + 1) : before[k] = o[1 + k - 1]
        BY <2>1, <2>2, SubSeqProperties
    <2> HIDE DEF before
    <2>4. \A k \in 1..(i - 1) : 1 + k - 1 = k
        BY <1>1
    <2>5. (i - 1) - 1 + 1 = i - 1
        BY <1>1
    <2>6. QED
        BY <1>1, <2>3, <2>4, <2>5
<1>3. /\ after \in Seq(CacheEntry) /\ Len(after) = n - i /\ \A k \in 1..(n - i) : after[k] = o[k + i]
    <2>1. \A k \in (i + 1)..n : o[k] \in CacheEntry
        BY <1>1
    <2>2. i + 1 \in Int /\ n \in Int
        BY <1>1
    <2>3. /\ after \in Seq(CacheEntry)
          /\ Len(after) = IF i + 1 <= n THEN n - (i + 1) + 1 ELSE 0
          /\ \A k \in 1..(n - (i + 1) + 1) : after[k] = o[(i + 1) + k - 1]
        BY <2>1, <2>2, SubSeqProperties
    <2> HIDE DEF after
    <2>4. \A k \in 1..(n - i) : (i + 1) + k - 1 = k + i
        BY <1>1
    <2>5. n - (i + 1) + 1 = n - i
        BY <1>1
    <2>6. QED
        BY <1>1, <2>3, <2>4, <2>5
<1> HIDE DEF before, after, n
<1>4. q = <<o[i]>> \o (before \o after)
    BY DEF RemoveAt, before, after, n
<1>5. /\ before \o after \in Seq(CacheEntry) /\ Len(before \o after) = n - 1
      /\ \A k \in 1..(n - 1) : (before \o after)[k] = IF k <= i - 1 THEN o[k] ELSE o[k + 1]
    <2>1. /\ before \o after \in Seq(CacheEntry) /\ Len(before \o after) = (i - 1) + (n - i)
          /\ \A k \in 1..((i - 1) + (n - i)) :
                (before \o after)[k] = IF k <= i - 1 THEN before[k] ELSE after[k - (i - 1)]
        <3>1. /\ before \o after \in Seq(CacheEntry) /\ Len(before \o after) = Len(before) + Len(after)
              /\ \A k \in 1..(Len(before) + Len(after)) :
                    (before \o after)[k] = IF k <= Len(before) THEN before[k] ELSE after[k - Len(before)]
            BY <1>2, <1>3, ConcatProperties
        <3>2. Len(before) = i - 1 /\ Len(after) = n - i
            BY <1>2, <1>3
        <3>3. QED
            BY <3>1, <3>2
    <2>2. (i - 1) + (n - i) = n - 1
        BY <1>1
    <2>3. ASSUME NEW k \in 1..(n - 1), ~(k <= i - 1) PROVE after[k - (i - 1)] = o[k + 1]
        <3>1. k - (i - 1) \in 1..(n - i) /\ k - (i - 1) + i = k + 1
            BY <1>1, <2>3
        <3>2. QED
            BY <1>3, <3>1
    <2>4. \A k \in 1..(n - 1) : k <= i - 1 => before[k] = o[k]
        BY <1>1, <1>2
    <2>5. QED
        BY <2>1, <2>2, <2>3, <2>4
<1>6. q \in Seq(CacheEntry) /\ Len(q) = n /\ \A k \in 1..n : q[k] = o[f[k]]
    <2> DEFINE rest == before \o after
               one == <<o[i]>>
    <2>1. one \in Seq(CacheEntry) /\ Len(one) = 1 /\ one[1] = o[i]
        BY <1>1
    <2>2. rest \in Seq(CacheEntry) /\ Len(rest) = n - 1 /\ q = one \o rest
        BY <1>4, <1>5
    <2> HIDE DEF one, rest
    <2>3. /\ q \in Seq(CacheEntry) /\ Len(q) = 1 + (n - 1)
          /\ \A k \in 1..(1 + (n - 1)) : q[k] = IF k <= 1 THEN one[k] ELSE rest[k - 1]
        <3>1. /\ one \o rest \in Seq(CacheEntry) /\ Len(one \o rest) = Len(one) + Len(rest)
              /\ \A k \in 1..(Len(one) + Len(rest)) :
                    (one \o rest)[k] = IF k <= Len(one) THEN one[k] ELSE rest[k - Len(one)]
            BY <2>1, <2>2, ConcatProperties
        <3>2. Len(one) = 1 /\ Len(rest) = n - 1 /\ q = one \o rest
            BY <2>1, <2>2
        <3>3. QED
            BY <3>1, <3>2
    <2>4. 1 + (n - 1) = n
        BY <1>1
    <2>5. ASSUME NEW k \in 1..n PROVE q[k] = o[f[k]]
        <3>1. CASE k = 1
            BY <2>1, <2>3, <2>4, <3>1
        <3>2. CASE k # 1
            <4>1. ~(k <= 1) /\ k - 1 \in 1..(n - 1) /\ k - 1 + 1 = k /\ (k - 1 <= i - 1 <=> k <= i)
                BY <1>1, <3>2
            <4>2. q[k] = rest[k - 1]
                BY <2>3, <2>4, <4>1
            <4>3. rest[k - 1] = IF k <= i THEN o[k - 1] ELSE o[k]
                BY <1>5, <4>1 DEF rest
            <4>4. QED
                BY <3>2, <4>2, <4>3
        <3>3. QED
            BY <3>1, <3>2
    <2>6. QED
        BY <2>3, <2>4, <2>5
<1>7. /\ DOMAIN q = 1..n /\ \A k \in 1..n : f[k] \in 1..n
      /\ \A a, b \in 1..n : f[a] = f[b] => a = b
    BY <1>1, <1>6
<1>8. ASSUME NEW k \in 1..n PROVE \E m \in 1..n : f[m] = k
    <2>1. CASE k = i
        BY <1>1, <2>1
    <2>2. CASE k < i
        <3>1. k + 1 \in 1..n /\ k + 1 <= i /\ k + 1 # 1 /\ k + 1 - 1 = k
            BY <1>1, <2>2
        <3>2. QED
            BY <3>1
    <2>3. CASE k > i
        <3>1. k # 1 /\ ~(k <= i)
            BY <1>1, <2>3
        <3>2. QED
            BY <3>1
    <2>4. QED
        BY <1>1, <2>1, <2>2, <2>3
<1> HIDE DEF f
<1>9. ToSet(q) = ToSet(o)
    <2>1. \A k \in 1..n : q[k] \in ToSet(o)
        BY <1>1, <1>6, <1>7 DEF ToSet
    <2>2. \A k \in 1..n : o[k] \in ToSet(q)
        <3> SUFFICES ASSUME NEW k \in 1..n PROVE o[k] \in ToSet(q)
            OBVIOUS
        <3>1. PICK m \in 1..n : f[m] = k
            BY <1>8
        <3>2. q[m] = o[k] /\ m \in DOMAIN q
            BY <1>6, <1>7, <3>1
        <3>3. QED
            BY <3>2 DEF ToSet
    <2>3. DOMAIN q = 1..n /\ DOMAIN o = 1..n
        BY <1>1, <1>7
    <2>4. QED
        BY <2>1, <2>2, <2>3 DEF ToSet
<1>10. ASSUME KeysOnce(o), NEW a \in DOMAIN q, NEW b \in DOMAIN q, q[a].key = q[b].key
       PROVE  a = b
    <2>1. o[f[a]].key = o[f[b]].key /\ f[a] \in DOMAIN o /\ f[b] \in DOMAIN o
        BY <1>1, <1>6, <1>7, <1>10
    <2>2. QED
        BY ZenonT(60), <1>7, <1>10, <2>1 DEF KeysOnce
<1>11. ASSUME EmbsOnce(o), NEW a \in DOMAIN q, NEW b \in DOMAIN q, q[a].emb = q[b].emb
       PROVE  a = b
    <2>1. o[f[a]].emb = o[f[b]].emb /\ f[a] \in DOMAIN o /\ f[b] \in DOMAIN o
        BY <1>1, <1>6, <1>7, <1>11
    <2>2. QED
        BY ZenonT(60), <1>7, <1>11, <2>1 DEF EmbsOnce
<1>12. Len(q) = Len(o)
    BY <1>6 DEF n
<1>13. (KeysOnce(o) => KeysOnce(q)) /\ (EmbsOnce(o) => EmbsOnce(q))
    <2>1. KeysOnce(o) => KeysOnce(q)
        BY <1>10 DEF KeysOnce
    <2>2. EmbsOnce(o) => EmbsOnce(q)
        BY <1>11 DEF EmbsOnce
    <2>3. QED
        BY <2>1, <2>2
<1>14. QED
    BY <1>6, <1>9, <1>12, <1>13 DEF Rearranged

\* The first k entries of a cache.
FirstOf(o, k, p) ==
    /\ p \in Seq(CacheEntry) /\ Len(p) = k
    /\ DOMAIN p = 1..k /\ \A i \in 1..k : i \in DOMAIN o /\ p[i] = o[i]
    /\ Embs(p) \subseteq Embs(o) /\ BytesIn(p) \subseteq BytesIn(o)

\* SubSeq takes them.
LEMMA FirstOnes ==
    ASSUME NEW o \in Seq(CacheEntry), NEW k \in 0..Len(o), NEW p, p = SubSeq(o, 1, k)
    PROVE  FirstOf(o, k, p)
<1>1. /\ Len(o) \in Nat /\ k \in Nat /\ DOMAIN o = 1..Len(o) /\ \A i \in 1..k : i \in DOMAIN o
      /\ \A i \in 1..k : o[i] \in CacheEntry
    OBVIOUS
<1>2. p \in Seq(CacheEntry) /\ Len(p) = k /\ \A i \in 1..k : p[i] = o[i]
    <2>1. 1 \in Int /\ k \in Int
        BY <1>1
    <2>2. /\ p \in Seq(CacheEntry) /\ Len(p) = IF 1 <= k THEN k - 1 + 1 ELSE 0
          /\ \A i \in 1..(k - 1 + 1) : p[i] = o[1 + i - 1]
        BY <1>1, <2>1, SubSeqProperties
    <2>3. k - 1 + 1 = k /\ \A i \in 1..k : 1 + i - 1 = i
        BY <1>1
    <2>4. QED
        BY <1>1, <2>2, <2>3
<1>3. DOMAIN p = 1..k
    BY <1>2
<1>4. ToSet(p) \subseteq ToSet(o) /\ Embs(p) \subseteq Embs(o)
    BY <1>1, <1>2, <1>3 DEF ToSet, Embs
<1>5. BytesIn(p) \subseteq BytesIn(o)
    BY <1>4 DEF BytesIn
<1>6. QED
    BY <1>1, <1>2, <1>3, <1>4, <1>5 DEF FirstOf

\* What an eviction keeps leaves room for what comes.
LEMMA KeptFits ==
    ASSUME NEW o \in Seq(CacheEntry), NEW lim, NEW n, NEW bytes
    PROVE  \E k \in 0..Len(o) :
              /\ Kept(o, lim, n, bytes) = SubSeq(o, 1, k)
              /\ k # 0 => k + n <= lim.entries /\ Bytes(SubSeq(o, 1, k)) + bytes <= lim.bytes
<1> DEFINE F(k) == k + n <= lim.entries /\ Bytes(SubSeq(o, 1, k)) + bytes <= lim.bytes
           S == {0} \cup {k \in 1..Len(o) : F(k)}
<1>1. Len(o) \in Nat /\ S \subseteq 0..Len(o) /\ S # {}
    OBVIOUS
<1>2. Max(S) \in S
    <2> HIDE DEF S
    <2>1. QED
        BY <1>1, MaxOf
<1>3. Kept(o, lim, n, bytes) = SubSeq(o, 1, Max(S))
    BY DEF Kept
<1>4. Max(S) \in 0..Len(o) /\ (Max(S) # 0 => F(Max(S)))
    <2> DEFINE m == Max(S)
    <2>1. m \in {0} \cup {k \in 1..Len(o) : F(k)}
        BY <1>2
    <2> HIDE DEF m, F
    <2>2. m \in 0..Len(o) /\ (m # 0 => F(m))
        BY <1>1, <2>1
    <2>3. QED
        BY <2>2 DEF m
<1>5. QED
    BY <1>3, <1>4

\* The bytes of a cache are counted by a number, and so are those of its first
\* entries.
LEMMA BytesNat ==
    ASSUME NEW o, IsFiniteSet(BytesIn(o))
    PROVE  Bytes(o) \in Nat
BY FS_CardinalityType DEF Bytes, BytesIn

\* A cache with an entry more, and its bytes.
Longer(kept, e, q) ==
    /\ q \in Seq(CacheEntry) /\ Len(q) = Len(kept) + 1 /\ Embs(q) = Embs(kept) \cup {e.emb}
    /\ EmbsOnce(q) /\ KeysOnce(q)
    /\ IsFiniteSet(BytesIn(q)) /\ Bytes(q) = Bytes(kept) + e.key

\* A list of entries with one more in front.
LEMMA InFront ==
    ASSUME NEW kept \in Seq(CacheEntry), NEW e \in CacheEntry, NEW q, q = <<e>> \o kept,
           e.emb \notin Embs(kept), IsFiniteSet(BytesIn(kept)),
           \A i \in DOMAIN kept : kept[i].key # e.key,
           EmbsOnce(kept), KeysOnce(kept)
    PROVE  Longer(kept, e, q)
<1> DEFINE n == Len(kept)
           one == <<e>>
<1>1. n \in Nat /\ DOMAIN kept = 1..n /\ e.key \in Nat /\ e.emb \in Owning
    BY DEF CacheEntry
<1>2. /\ q \in Seq(CacheEntry) /\ Len(q) = 1 + n /\ q[1] = e /\ \A i \in 2..(1 + n) : q[i] = kept[i - 1]
    <2>1. one \in Seq(CacheEntry) /\ Len(one) = 1 /\ one[1] = e /\ q = one \o kept
        OBVIOUS
    <2> HIDE DEF one
    <2>2. /\ q \in Seq(CacheEntry) /\ Len(q) = Len(one) + Len(kept)
          /\ \A i \in 1..(Len(one) + Len(kept)) :
                q[i] = IF i <= Len(one) THEN one[i] ELSE kept[i - Len(one)]
        BY <2>1, ConcatProperties
    <2>3. /\ Len(q) = 1 + n /\ \A i \in 1..(1 + n) : q[i] = IF i <= 1 THEN one[i] ELSE kept[i - 1]
        BY <2>1, <2>2
    <2> HIDE DEF n
    <2>4. 1 \in 1..(1 + n) /\ \A i \in 2..(1 + n) : i \in 1..(1 + n) /\ ~(i <= 1)
        BY <1>1
    <2>5. QED
        BY <2>1, <2>2, <2>3, <2>4
<1> HIDE DEF n
<1>3. /\ DOMAIN q = 1..(1 + n) /\ 1 \in DOMAIN q /\ \A i \in 1..n : i + 1 \in DOMAIN q /\ q[i + 1] = kept[i]
      /\ \A i \in DOMAIN q : i = 1 \/ (i \in 2..(1 + n) /\ i - 1 \in 1..n /\ q[i] = kept[i - 1])
    <2>1. DOMAIN q = 1..(1 + n)
        BY <1>2
    <2>2. ASSUME NEW i \in 1..n PROVE i + 1 \in DOMAIN q /\ q[i + 1] = kept[i]
        <3>1. i + 1 \in 2..(1 + n) /\ i + 1 - 1 = i /\ i + 1 \in 1..(1 + n)
            BY <1>1
        <3>2. QED
            BY <1>2, <2>1, <3>1
    <2>3. \A i \in 1..(1 + n) : i = 1 \/ (i \in 2..(1 + n) /\ i - 1 \in 1..n)
        BY <1>1
    <2>4. 1 \in 1..(1 + n)
        BY <1>1
    <2>5. QED
        BY <1>2, <2>1, <2>2, <2>3, <2>4
<1>4. Embs(q) = Embs(kept) \cup {e.emb}
    <2>1. \A i \in DOMAIN q : q[i].emb \in Embs(kept) \cup {e.emb}
        BY <1>1, <1>2, <1>3 DEF Embs
    <2>2. \A i \in DOMAIN kept : kept[i].emb \in Embs(q)
        <3> SUFFICES ASSUME NEW i \in 1..n PROVE kept[i].emb \in Embs(q)
            BY <1>1
        <3>1. i + 1 \in DOMAIN q /\ q[i + 1] = kept[i]
            BY <1>3
        <3>2. QED
            BY <3>1, Zenon DEF Embs
    <2>3. e.emb \in Embs(q)
        BY <1>2, <1>3 DEF Embs
    <2>4. QED
        BY ZenonT(60), <2>1, <2>2, <2>3 DEF Embs
<1>5. ToSet(q) = ToSet(kept) \cup {e}
    <2>1. \A i \in DOMAIN q : q[i] \in ToSet(kept) \cup {e}
        BY <1>1, <1>2, <1>3 DEF ToSet
    <2>2. \A i \in DOMAIN kept : kept[i] \in ToSet(q)
        <3> SUFFICES ASSUME NEW i \in 1..n PROVE kept[i] \in ToSet(q)
            BY <1>1
        <3>1. i + 1 \in DOMAIN q /\ q[i + 1] = kept[i]
            BY <1>3
        <3>2. QED
            BY <3>1, Zenon DEF ToSet
    <2>3. e \in ToSet(q)
        BY <1>2, <1>3 DEF ToSet
    <2>4. QED
        BY <2>1, <2>2, <2>3 DEF ToSet
<1>6. ASSUME NEW i \in DOMAIN q, NEW k \in DOMAIN q, q[i].emb = q[k].emb \/ q[i].key = q[k].key
      PROVE  i = k
    <2>1. \A m \in 1..n : kept[m].emb # e.emb /\ kept[m].key # e.key
        BY <1>1 DEF Embs
    <2>2. CASE i = 1 /\ k = 1
        BY <2>2
    <2>3. CASE i = 1 /\ k # 1
        <3>1. q[i] = e /\ q[k] = kept[k - 1] /\ k - 1 \in 1..n
            BY <1>2, <1>3, <2>3
        <3>2. QED
            BY <1>6, <2>1, <3>1
    <2>4. CASE i # 1 /\ k = 1
        <3>1. q[k] = e /\ q[i] = kept[i - 1] /\ i - 1 \in 1..n
            BY <1>2, <1>3, <2>4
        <3>2. QED
            BY <1>6, <2>1, <3>1
    <2>5. CASE i # 1 /\ k # 1
        <3>1. /\ q[i] = kept[i - 1] /\ q[k] = kept[k - 1] /\ i - 1 \in DOMAIN kept /\ k - 1 \in DOMAIN kept
              /\ i \in 2..(1 + n) /\ k \in 2..(1 + n)
            BY <1>1, <1>3, <2>5
        <3>2. i - 1 = k - 1
            BY <1>6, <3>1 DEF EmbsOnce, KeysOnce
        <3>3. QED
            BY <1>1, <3>1, <3>2
    <2>6. QED
        BY <2>2, <2>3, <2>4, <2>5
<1> DEFINE B == BytesIn(kept)
           N == {e.emb} \X (1..e.key)
<1>7. BytesIn(q) = B \cup N
    BY <1>5 DEF BytesIn
<1>8. B \cap N = {}
    <2>1. \A f \in ToSet(kept) : f.emb # e.emb
        BY DEF ToSet, Embs
    <2>2. QED
        BY <2>1 DEF BytesIn
<1>9. IsFiniteSet(N) /\ Cardinality(N) = e.key
    <2> DEFINE m == e.key
    <2>1. 1 \in Int /\ m \in Int /\ m >= 0
        BY <1>1
    <2>2. IsFiniteSet(1..m) /\ Cardinality(1..m) = IF 1 > m THEN 0 ELSE m - 1 + 1
        BY <2>1, FS_Interval
    <2>3. Cardinality(1..m) = m
        BY <2>1, <2>2
    <2>4. IsFiniteSet({e.emb}) /\ Cardinality({e.emb}) = 1
        BY FS_Singleton
    <2> HIDE DEF m
    <2>5. IsFiniteSet({e.emb} \X (1..m)) /\ Cardinality({e.emb} \X (1..m)) = Cardinality({e.emb}) * Cardinality(1..m)
        BY <2>2, <2>4, FS_Product
    <2>6. Cardinality({e.emb} \X (1..m)) = m
        BY <2>1, <2>3, <2>4, <2>5
    <2>7. QED
        BY <2>5, <2>6 DEF m
<1>10. IsFiniteSet(BytesIn(q)) /\ Bytes(q) = Bytes(kept) + e.key
    <2> HIDE DEF B, N
    <2>1. IsFiniteSet(B) /\ Cardinality(B) \in Nat /\ Cardinality(B \cap N) = 0
        <3>1. IsFiniteSet(B)
            BY DEF B
        <3>2. QED
            BY <1>8, <3>1, FS_CardinalityType, FS_EmptySet
    <2>2. /\ IsFiniteSet(B \cup N)
          /\ Cardinality(B \cup N) = Cardinality(B) + Cardinality(N) - Cardinality(B \cap N)
        BY <1>9, <2>1, FS_Union
    <2>3. Cardinality(B \cup N) = Cardinality(B) + e.key
        BY <1>1, <1>9, <2>1, <2>2
    <2>4. Bytes(q) = Cardinality(BytesIn(q)) /\ Bytes(kept) = Cardinality(B)
        BY DEF Bytes, BytesIn, B
    <2>5. QED
        BY <1>7, <2>2, <2>3, <2>4
<1>11. EmbsOnce(q) /\ KeysOnce(q)
    BY <1>6 DEF EmbsOnce, KeysOnce
<1>12. Len(q) = Len(kept) + 1
    BY <1>1, <1>2 DEF n
<1>13. QED
    BY <1>2, <1>4, <1>10, <1>11, <1>12 DEF Longer

\* A caller that builds nothing holds nothing.
LEMMA IdleHolds ==
    Idle \in Work /\ Held(Idle) = {} /\ Apart(Idle) /\ Idle.emb = 0 /\ Idle.clone = 0 /\ Idle.op = "idle"
<1>1. Idle \in Work
    BY DEF Idle, Work
<1>2. Idle.embs = <<>> /\ Idle.spans = <<>> /\ Idle.emb = 0 /\ Idle.clone = 0 /\ Idle.op = "idle"
    BY DEF Idle
<1>3. ToSet(<<>>) = {} /\ IsInjective(<<>>)
    BY DEF ToSet, IsInjective
<1>4. QED
    BY <1>1, <1>2, <1>3 DEF Held, Apart

\* There are no images at first.
LEMMA ImagesBegin == ImageInit => ImageInv
<1> SUFFICES ASSUME ImageInit PROVE ImageInv
    OBVIOUS
<1>1. order = <<>> /\ DOMAIN order = {} /\ Len(order) = 0 /\ order \in Seq(CacheEntry)
    BY DEF ImageInit
<1>2. BytesIn(order) = {} /\ Embs(order) = {}
    BY <1>1 DEF BytesIn, ToSet, Embs
<1>3. IsFiniteSet(BytesIn(order)) /\ Bytes(order) = 0
    BY <1>2, FS_EmptySet DEF Bytes, BytesIn
<1>4. limits.entries \in Nat /\ limits.bytes \in Nat /\ limits \in [entries : Nat, bytes : Nat]
    BY ImageAssumption DEF ImageInit
<1>5. Idle \in Work /\ Held(Idle) = {} /\ Apart(Idle) /\ Idle.emb = 0 /\ Idle.clone = 0 /\ Idle.op = "idle"
    BY IdleHolds
<1>6. ImageTypes
    <2>1. heap \subseteq 0..0 /\ heap \subseteq Owning
        BY DEF ImageInit
    <2>2. QED
        BY <1>1, <1>3, <1>4, <1>5, <2>1 DEF ImageInit, ImageTypes
<1>7. InHand
    BY <1>5 DEF ImageInit, InHand
<1>8. Owned
    <2>1. \A c \in Callers : prompt[c] = Idle
        BY DEF ImageInit
    <2>2. UNION {Held(prompt[c]) : c \in Callers} = {}
        BY <1>5, <2>1
    <2>3. QED
        BY <1>1, <1>2, <1>5, <2>1, <2>2 DEF ImageInit, Owned
<1>9. WithinLimits
    BY <1>1, <1>3, <1>4 DEF WithinLimits
<1>10. QED
    BY <1>6, <1>7, <1>8, <1>9 DEF ImageInv

\* A caller goes on: the types, and what is in hand.
LEMMA GoesOn ==
    ASSUME ImageInv, NEW c \in Callers, NEW j \in Work, Sets(c, j),
           j.emb # 0 <=> j.op \in {"fresh", "insert"}, j.clone # 0 <=> j.op = "insert"
    PROVE  prompt' = [prompt EXCEPT ![c] = j] /\ prompt' \in [Callers -> Work] /\ InHand'
<1>1. prompt' = [prompt EXCEPT ![c] = j] /\ prompt \in [Callers -> Work]
    BY DEF Sets, ImageInv, ImageTypes
<1>2. prompt'[c] = j /\ \A d \in Callers : d # c => prompt'[d] = prompt[d]
    BY <1>1
<1>3. InHand'
    BY <1>2 DEF ImageInv, InHand
<1>4. QED
    BY <1>1, <1>3

\* What is allocated stays bounded.
LEMMA HeapBounded ==
    ASSUME ImageInv, NEW N \in Nat, heap' \subseteq heap \cup (0..N)
    PROVE  \E n \in Nat : heap' \subseteq 0..n
<1>1. PICK n \in Nat : heap \subseteq 0..n
    BY DEF ImageInv, ImageTypes
<1>2. heap' \subseteq 0..(n + N) /\ n + N \in Nat
    BY <1>1
<1>3. QED
    BY <1>2

\* A step of a caller that leaves the cache alone.
LEMMA CallerStep ==
    ASSUME ImageInv, NEW c \in Callers, NEW j \in Work, Sets(c, j), UNCHANGED <<order, limits>>,
           j.emb # 0 <=> j.op \in {"fresh", "insert"}, j.clone # 0 <=> j.op = "insert",
           heap' \subseteq Owning, NEW N \in Nat, heap' \subseteq heap \cup (0..N), Apart(j),
           Embs(order) \cap garbage' = {}, Held(j) \cap (Embs(order) \cup garbage') = {},
           (Held(j) \cup garbage') \cap Others(c) = {},
           heap' = Embs(order) \cup Held(j) \cup garbage' \cup Others(c)
    PROVE  ImageInv'
<1>1. prompt' = [prompt EXCEPT ![c] = j] /\ prompt' \in [Callers -> Work] /\ InHand'
    BY GoesOn
<1>2. ImageTypes'
    BY <1>1, HeapBounded DEF ImageInv, ImageTypes
<1>3. WithinLimits'
    BY DEF ImageInv, WithinLimits
<1>4. Owned'
    <2>1. Embs(order) \cap Others(c) = {} /\ order' = order
        BY Shares
    <2>2. \A i, k \in DOMAIN order' : order'[i].emb = order'[k].emb => i = k
        BY DEF ImageInv, Owned
    <2>3. (Embs(order') \cup Held(j) \cup garbage') \cap Others(c) = {}
        BY <2>1
    <2>4. QED
        BY <1>1, <2>1, <2>2, <2>3, Hands
<1>5. QED
    BY <1>1, <1>2, <1>3, <1>4 DEF ImageInv

\* The fields of what a caller is at.
LEMMA WorkOf ==
    ASSUME ImageInv, NEW c \in Callers
    PROVE  /\ prompt[c] \in Work /\ prompt[c].img \in Nat /\ prompt[c].max \in Nat
           /\ prompt[c].emb \in Nat /\ prompt[c].clone \in Nat
           /\ prompt[c].embs \in Seq(Owning) /\ prompt[c].spans \in Seq(Owning)
           /\ ToSet(prompt[c].embs) \subseteq Owning /\ ToSet(prompt[c].spans) \subseteq Owning
           /\ prompt[c].emb # 0 <=> prompt[c].op \in {"fresh", "insert"}
           /\ prompt[c].clone # 0 <=> prompt[c].op = "insert"
<1>1. prompt[c] \in Work
    BY DEF ImageInv, ImageTypes
<1>2. \A s \in Seq(Owning) : ToSet(s) \subseteq Owning
    BY DEF ToSet
<1>3. /\ prompt[c].img \in Nat /\ prompt[c].max \in Nat
      /\ prompt[c].emb \in Nat /\ prompt[c].clone \in Nat
      /\ prompt[c].embs \in Seq(Owning) /\ prompt[c].spans \in Seq(Owning)
    BY <1>1 DEF Work
<1>4. QED
    BY <1>1, <1>2, <1>3 DEF ImageInv, InHand

\* One more buffer, for a caller who has it in hand or puts it with the others.
LEMMA GetsOne ==
    ASSUME ImageInv, NEW c \in Callers, NEW j \in Work, Sets(c, j), UNCHANGED <<order, limits, garbage>>,
           j.emb # 0 <=> j.op \in {"fresh", "insert"}, j.clone # 0 <=> j.op = "insert",
           heap' = heap \cup {Fresh(1)}, Apart(j), Held(j) = Held(prompt[c]) \cup {Fresh(1)}
    PROVE  ImageInv'
<1> DEFINE b == Fresh(1)
<1>1. b \in Owning /\ b \in Nat /\ b \notin heap
    <2>1. ImageTypes /\ 1 \in Nat
        BY DEF ImageInv
    <2>2. b \in Owning /\ \A i \in 0..(1 - 1) : b + i \notin heap
        BY <2>1, FreshIsFree
    <2> HIDE DEF b
    <2>3. 0 \in 0..(1 - 1) /\ b + 0 = b /\ b \in Nat
        BY <2>2 DEF Owning
    <2>4. QED
        BY <2>2, <2>3
<1> HIDE DEF b
<1>2. heap' = heap \cup {b} /\ Held(j) = Held(prompt[c]) \cup {b}
    BY DEF b
<1>3. /\ heap = Embs(order) \cup Held(prompt[c]) \cup garbage \cup Others(c)
      /\ Embs(order) \cap garbage = {}
      /\ Held(prompt[c]) \cap (Embs(order) \cup garbage \cup Others(c)) = {}
      /\ Others(c) \cap (Embs(order) \cup garbage) = {}
    BY Shares
<1>4. heap' \subseteq Owning /\ heap' \subseteq heap \cup (0..b)
    <2>1. heap \subseteq Owning
        BY DEF ImageInv, ImageTypes
    <2>2. QED
        BY <1>1, <1>2, <2>1
<1>5. garbage' = garbage
    OBVIOUS
<1>6. /\ Embs(order) \cap garbage' = {} /\ Held(j) \cap (Embs(order) \cup garbage') = {}
      /\ (Held(j) \cup garbage') \cap Others(c) = {}
    BY <1>1, <1>2, <1>3, <1>5
<1>7. heap' = Embs(order) \cup Held(j) \cup garbage' \cup Others(c)
    BY <1>2, <1>3, <1>5
<1>8. QED
    BY <1>1, <1>4, <1>6, <1>7, CallerStep

\* An image that is not cached is to be encoded; one that is, is cloned and its
\* entry moves to the front.
LEMMA ImageEncode ==
    ASSUME ImageInv, NEW c \in Callers, NEW img \in Images, Encode(c, img)
    PROVE  ImageInv'
<1> DEFINE w == prompt[c]
<1>1. /\ w \in Work /\ w.op \in {"idle", "built"} /\ w.emb = 0 /\ w.clone = 0 /\ img \in Nat /\ limits.bytes \in Nat
      /\ w.embs \in Seq(Owning) /\ w.spans \in Seq(Owning)
    BY WorkOf, ImageAssumption DEF Encode, ImageInv, ImageTypes
<1>2. CASE ~Cached(img)
    <2> DEFINE j == [w EXCEPT !.op = "encode", !.img = img, !.max = limits.bytes]
    <2>1. Sets(c, j) /\ UNCHANGED <<heap, order, limits, garbage>>
        BY <1>2 DEF Encode
    <2>2. /\ j \in Work /\ j.op = "encode" /\ j.emb = 0 /\ j.clone = 0 /\ j.embs = w.embs /\ j.spans = w.spans
        BY <1>1 DEF Work
    <2> HIDE DEF j
    <2>3. Held(j) = Held(w)
        BY <1>1, <2>2 DEF Held
    <2>4. Apart(j)
        <3>1. Apart(w)
            BY Shares
        <3>2. QED
            BY <1>1, <2>2, <3>1 DEF Apart
    <2>5. heap \subseteq Owning /\ heap' \subseteq heap \cup (0..0) /\ heap' = heap /\ garbage' = garbage
        BY <2>1 DEF ImageInv, ImageTypes
    <2>6. /\ Embs(order) \cap garbage' = {} /\ Held(j) \cap (Embs(order) \cup garbage') = {}
          /\ (Held(j) \cup garbage') \cap Others(c) = {}
          /\ heap' = Embs(order) \cup Held(j) \cup garbage' \cup Others(c)
        BY <2>3, <2>5, Shares
    <2>7. QED
        BY <2>1, <2>2, <2>4, <2>5, <2>6, CallerStep
<1>3. CASE Cached(img)
    <2> DEFINE i == CHOOSE k \in DOMAIN order : order[k].key = img
               b == Fresh(1)
               j == [w EXCEPT !.op = "built", !.embs = Append(@, b)]
    <2>1. i \in DOMAIN order
        BY <1>3 DEF Cached
    <2>2. /\ order' = <<order[i]>> \o RemoveAt(order, i) /\ heap' = heap \cup {b} /\ Sets(c, j)
          /\ UNCHANGED <<limits, garbage>>
        BY <1>3 DEF Encode
    <2>3. b \in Owning /\ b \in Nat /\ b \notin heap
        <3>1. ImageTypes /\ 1 \in Nat
            BY DEF ImageInv
        <3>2. b \in Owning /\ \A n \in 0..(1 - 1) : b + n \notin heap
            BY <3>1, FreshIsFree
        <3> HIDE DEF b
        <3>3. 0 \in 0..(1 - 1) /\ b + 0 = b /\ b \in Nat
            BY <3>2 DEF Owning
        <3>4. QED
            BY <3>2, <3>3
    <2> HIDE DEF i, b
    <2>4. /\ order \in Seq(CacheEntry) /\ heap \subseteq Owning /\ IsFiniteSet(BytesIn(order)) /\ WithinLimits
          /\ \A a, k \in DOMAIN order : order[a].emb = order[k].emb => a = k
        BY DEF ImageInv, ImageTypes, Owned
    <2>5. \A a, k \in DOMAIN order : order[a].key = order[k].key => a = k
        BY <2>4 DEF WithinLimits
    <2>6. /\ order' \in Seq(CacheEntry) /\ Len(order') = Len(order) /\ ToSet(order') = ToSet(order)
          /\ \A a, k \in DOMAIN order' : order'[a].key = order'[k].key => a = k
          /\ \A a, k \in DOMAIN order' : order'[a].emb = order'[k].emb => a = k
        <3>1. Rearranged(order, order')
            BY <2>1, <2>2, <2>4, ToFront
        <3>2. QED
            BY <2>4, <2>5, <3>1 DEF Rearranged, KeysOnce, EmbsOnce
    <2>7. Embs(order') = Embs(order) /\ BytesIn(order') = BytesIn(order) /\ Bytes(order') = Bytes(order)
        <3>1. Embs(order') = {e.emb : e \in ToSet(order')} /\ Embs(order) = {e.emb : e \in ToSet(order)}
            BY DEF Embs, ToSet
        <3>2. QED
            BY <2>6, <3>1 DEF BytesIn, Bytes
    <2>8. WithinLimits'
        BY <2>2, <2>4, <2>6, <2>7 DEF WithinLimits
    <2>9. /\ Apart(w) /\ heap = Embs(order) \cup Held(w) \cup garbage \cup Others(c)
          /\ Embs(order) \cap garbage = {} /\ Held(w) \cap (Embs(order) \cup garbage \cup Others(c)) = {}
          /\ Others(c) \cap (Embs(order) \cup garbage) = {}
        BY Shares
    <2>10. b \notin ToSet(w.embs) /\ b \notin ToSet(w.spans) /\ 0 \notin ToSet(w.embs)
        <3>1. ToSet(w.embs) \subseteq Owning /\ b # 0
            BY <2>3, WorkOf DEF Owning
        <3>2. b \notin Held(w)
            BY <2>3, <2>9
        <3>3. QED
            BY <3>1, <3>2 DEF Held, Owning
    <2>11. IsInjective(w.embs)
        BY <2>9 DEF Apart
    <2>12. /\ Append(w.embs, b) \in Seq(Owning) /\ IsInjective(Append(w.embs, b))
           /\ ToSet(Append(w.embs, b)) = ToSet(w.embs) \cup {b}
        BY <1>1, <2>3, <2>10, <2>11, OneMore
    <2>13. /\ j \in Work /\ j.op = "built" /\ j.emb = 0 /\ j.clone = 0
           /\ j.embs = Append(w.embs, b) /\ j.spans = w.spans
        BY <1>1, <2>12 DEF Work
    <2> HIDE DEF j
    <2>14. Held(j) = Held(w) \cup {b}
        BY <1>1, <2>3, <2>12, <2>13 DEF Held, Owning
    <2>15. Apart(j)
        BY <1>1, <2>3, <2>9, <2>10, <2>12, <2>13 DEF Apart, Owning
    <2>16. prompt' = [prompt EXCEPT ![c] = j] /\ prompt' \in [Callers -> Work] /\ InHand'
        BY <2>2, <2>13, GoesOn
    <2>17. Owned'
        <3>1. /\ garbage' = garbage /\ Embs(order') \cap garbage' = {}
              /\ Held(j) \cap (Embs(order') \cup garbage') = {}
              /\ (Embs(order') \cup Held(j) \cup garbage') \cap Others(c) = {}
            BY <2>2, <2>3, <2>7, <2>9, <2>14
        <3>2. heap' = Embs(order') \cup Held(j) \cup garbage' \cup Others(c)
            BY <2>2, <2>7, <2>9, <2>14
        <3>3. QED
            BY <2>6, <2>15, <2>16, <3>1, <3>2, Hands
    <2>18. ImageTypes'
        <3>1. heap' \subseteq Owning /\ heap' \subseteq heap \cup (0..b)
            BY <2>2, <2>3, <2>4
        <3>2. limits' \in [entries : Nat, bytes : Nat]
            BY <2>2 DEF ImageInv, ImageTypes
        <3>3. IsFiniteSet(BytesIn(order'))
            BY <2>4, <2>7
        <3>4. \E n \in Nat : heap' \subseteq 0..n
            BY <2>3, <3>1, HeapBounded
        <3>5. QED
            BY <2>6, <2>16, <3>1, <3>2, <3>3, <3>4 DEF ImageTypes, BytesIn
    <2>19. QED
        BY <2>8, <2>16, <2>17, <2>18 DEF ImageInv
<1>4. QED
    BY <1>2, <1>3

\* What is encoded goes to the caller, or is held until it is inserted.
LEMMA ImageEncoded ==
    ASSUME ImageInv, NEW c \in Callers, VisionEncode(c)
    PROVE  ImageInv'
<1> DEFINE w == prompt[c]
           b == Fresh(1)
<1>1. /\ w \in Work /\ w.op = "encode" /\ w.emb = 0 /\ w.clone = 0 /\ w.img \in Nat /\ w.max \in Nat
      /\ w.embs \in Seq(Owning) /\ w.spans \in Seq(Owning)
    BY WorkOf DEF VisionEncode
<1>2. b \in Owning /\ b \notin heap
    <2>1. ImageTypes /\ 1 \in Nat
        BY DEF ImageInv
    <2>2. b \in Owning /\ \A n \in 0..(1 - 1) : b + n \notin heap
        BY <2>1, FreshIsFree
    <2> HIDE DEF b
    <2>3. 0 \in 0..(1 - 1) /\ b + 0 = b
        BY <2>2 DEF Owning
    <2>4. QED
        BY <2>2, <2>3
<1>3. heap' = heap \cup {Fresh(1)} /\ UNCHANGED <<order, limits, garbage>>
    BY DEF VisionEncode
<1> HIDE DEF b
<1>4. Apart(w) /\ heap = Embs(order) \cup Held(w) \cup garbage \cup Others(c)
    BY Shares
<1>5. b \notin Held(w) /\ b # 0
    BY <1>2, <1>4 DEF Owning
<1>6. b \notin ToSet(w.embs) /\ b \notin ToSet(w.spans) /\ 0 \notin ToSet(w.embs) /\ 0 \notin ToSet(w.spans)
    <2>1. ToSet(w.embs) \subseteq Owning /\ ToSet(w.spans) \subseteq Owning
        BY WorkOf
    <2>2. QED
        BY <1>5, <2>1 DEF Held, Owning
<1>7. CASE w.img = 0 \/ w.img > w.max
    <2> DEFINE j == [w EXCEPT !.op = "built", !.img = 0, !.max = 0, !.embs = Append(@, b)]
    <2>1. Sets(c, j)
        BY <1>7 DEF VisionEncode, b
    <2>2. IsInjective(w.embs)
        BY <1>4 DEF Apart
    <2>3. /\ Append(w.embs, b) \in Seq(Owning) /\ IsInjective(Append(w.embs, b))
          /\ ToSet(Append(w.embs, b)) = ToSet(w.embs) \cup {b}
        BY <1>1, <1>2, <1>6, <2>2, OneMore
    <2>4. /\ j \in Work /\ j.op = "built" /\ j.emb = 0 /\ j.clone = 0
          /\ j.embs = Append(w.embs, b) /\ j.spans = w.spans
        BY <1>1, <2>3 DEF Work
    <2> HIDE DEF j
    <2>5. Held(j) = Held(w) \cup {b}
        BY <1>1, <1>5, <2>3, <2>4 DEF Held
    <2>6. Apart(j)
        BY <1>1, <1>4, <1>5, <1>6, <2>3, <2>4 DEF Apart
    <2>7. Held(j) = Held(prompt[c]) \cup {Fresh(1)}
        BY <2>5 DEF b
    <2>8. QED
        BY <1>3, <2>1, <2>4, <2>6, <2>7, GetsOne
<1>8. CASE ~(w.img = 0 \/ w.img > w.max)
    <2> DEFINE j == [w EXCEPT !.op = "fresh", !.emb = b]
    <2>1. Sets(c, j)
        BY <1>8 DEF VisionEncode, b
    <2>2. /\ j \in Work /\ j.op = "fresh" /\ j.emb = b /\ j.clone = 0
          /\ j.embs = w.embs /\ j.spans = w.spans
        BY <1>1, <1>2 DEF Work, Owning
    <2> HIDE DEF j
    <2>3. Held(j) = Held(w) \cup {b}
        BY <1>1, <1>5, <2>2 DEF Held
    <2>4. Apart(j)
        BY <1>1, <1>4, <1>5, <1>6, <2>2 DEF Apart
    <2>5. Held(j) = Held(prompt[c]) \cup {Fresh(1)}
        BY <2>3 DEF b
    <2>6. QED
        BY <1>3, <1>5, <2>1, <2>2, <2>4, <2>5, GetsOne
<1>9. QED
    BY <1>7, <1>8

\* The clone for the caller.
LEMMA ImageCloned ==
    ASSUME ImageInv, NEW c \in Callers, Clone(c)
    PROVE  ImageInv'
<1> DEFINE w == prompt[c]
           b == Fresh(1)
           j == [w EXCEPT !.op = "insert", !.clone = b]
<1>1. /\ w \in Work /\ w.op = "fresh" /\ w.emb # 0 /\ w.clone = 0
      /\ ToSet(w.embs) \subseteq Owning /\ ToSet(w.spans) \subseteq Owning
    BY WorkOf DEF Clone
<1>2. b \in Owning /\ b \notin heap
    <2>1. ImageTypes /\ 1 \in Nat
        BY DEF ImageInv
    <2>2. b \in Owning /\ \A n \in 0..(1 - 1) : b + n \notin heap
        BY <2>1, FreshIsFree
    <2> HIDE DEF b
    <2>3. 0 \in 0..(1 - 1) /\ b + 0 = b
        BY <2>2 DEF Owning
    <2>4. QED
        BY <2>2, <2>3
<1>3. heap' = heap \cup {Fresh(1)} /\ UNCHANGED <<order, limits, garbage>> /\ Sets(c, j)
    BY DEF Clone
<1> HIDE DEF b
<1>4. Apart(w) /\ heap = Embs(order) \cup Held(w) \cup garbage \cup Others(c)
    BY Shares
<1>5. b \notin Held(w) /\ b # 0
    BY <1>2, <1>4 DEF Owning
<1>6. b \notin ToSet(w.embs) /\ b \notin ToSet(w.spans) /\ b # w.emb
    BY <1>5 DEF Held
<1>7. /\ j \in Work /\ j.op = "insert" /\ j.emb = w.emb /\ j.clone = b
      /\ j.embs = w.embs /\ j.spans = w.spans
    BY <1>1, <1>2 DEF Work, Owning
<1> HIDE DEF j
<1>8. Held(j) = Held(w) \cup {b}
    BY <1>1, <1>5, <1>7 DEF Held
<1>9. Apart(j)
    BY <1>1, <1>4, <1>5, <1>6, <1>7 DEF Apart
<1>10. Held(j) = Held(prompt[c]) \cup {Fresh(1)}
    BY <1>8 DEF b
<1>11. QED
    BY <1>1, <1>3, <1>5, <1>7, <1>9, <1>10, GetsOne

\* What the cache is like when the first k entries are kept.
Shortened(k, p) ==
    /\ p \in Seq(CacheEntry) /\ Len(p) = k /\ Embs(p) \subseteq Embs(order)
    /\ \A i \in DOMAIN p : i \in DOMAIN order /\ p[i] = order[i]
    /\ EmbsOnce(p) /\ KeysOnce(p)
    /\ IsFiniteSet(BytesIn(p)) /\ Bytes(p) \in Nat /\ (k = 0 => Bytes(p) = 0)

\* An eviction shortens it.
LEMMA FirstKept ==
    ASSUME ImageInv, NEW k \in 0..Len(order), NEW p, p = SubSeq(order, 1, k)
    PROVE  Shortened(k, p)
<1>1. order \in Seq(CacheEntry) /\ IsFiniteSet(BytesIn(order)) /\ EmbsOnce(order) /\ KeysOnce(order)
    BY DEF ImageInv, ImageTypes, Owned, WithinLimits, EmbsOnce, KeysOnce
<1>2. FirstOf(order, k, p)
    BY <1>1, FirstOnes
<1>3. /\ p \in Seq(CacheEntry) /\ Len(p) = k
      /\ DOMAIN p = 1..k /\ \A i \in 1..k : i \in DOMAIN order /\ p[i] = order[i]
      /\ Embs(p) \subseteq Embs(order) /\ BytesIn(p) \subseteq BytesIn(order)
    BY <1>2 DEF FirstOf
<1>4. IsFiniteSet(BytesIn(p))
    BY <1>1, <1>3, FS_Subset
<1>5. Bytes(p) \in Nat
    BY <1>4, BytesNat
<1>6. ASSUME k = 0 PROVE Bytes(p) = 0
    <2>1. DOMAIN p = {}
        BY <1>3, <1>6
    <2>2. BytesIn(p) = {}
        BY <2>1 DEF BytesIn, ToSet
    <2>3. QED
        BY <2>2, FS_EmptySet DEF Bytes, BytesIn
<1>7. EmbsOnce(p) /\ KeysOnce(p)
    <2>1. \A i \in DOMAIN p : i \in DOMAIN order /\ p[i] = order[i]
        BY <1>3
    <2>2. EmbsOnce(p)
        BY <1>1, <2>1 DEF EmbsOnce
    <2>3. KeysOnce(p)
        BY <1>1, <2>1 DEF KeysOnce
    <2>4. QED
        BY <2>2, <2>3
<1>8. QED
    BY <1>3, <1>4, <1>5, <1>6, <1>7 DEF Shortened

\* New limits: what is evicted is freed.
LEMMA ImageLimits ==
    ASSUME ImageInv, SetLimits
    PROVE  ImageInv'
<1>1. PICK lim \in [entries : Entries, bytes : Budgets] :
          /\ limits' = lim /\ order' = Kept(order, lim, 0, 0)
          /\ heap' = heap \ (Embs(order) \ Embs(order')) /\ UNCHANGED <<prompt, garbage>>
    BY DEF SetLimits
<1>2. lim.entries \in Nat /\ lim.bytes \in Nat /\ lim \in [entries : Nat, bytes : Nat]
    BY ImageAssumption
<1>3. order \in Seq(CacheEntry)
    BY DEF ImageInv, ImageTypes
<1>4. PICK k \in 0..Len(order) :
          /\ order' = SubSeq(order, 1, k)
          /\ k # 0 => k + 0 <= lim.entries /\ Bytes(order') + 0 <= lim.bytes
    BY <1>1, <1>3, KeptFits
<1>5. Shortened(k, order')
    BY <1>4, FirstKept
<1>6. /\ order' \in Seq(CacheEntry) /\ Len(order') = k /\ Embs(order') \subseteq Embs(order)
      /\ EmbsOnce(order') /\ KeysOnce(order')
      /\ IsFiniteSet(BytesIn(order')) /\ Bytes(order') \in Nat /\ (k = 0 => Bytes(order') = 0)
    BY <1>5 DEF Shortened
<1>7. WithinLimits'
    <2>1. k \in Nat
        BY <1>3
    <2>2. k <= lim.entries /\ Bytes(order') <= lim.bytes
        BY <1>2, <1>4, <1>6, <2>1
    <2>3. Bytes(order)' = Bytes(order')
        BY DEF Bytes
    <2>4. QED
        BY <1>1, <1>6, <2>2, <2>3 DEF WithinLimits, KeysOnce
<1> DEFINE H == UNION {Held(prompt[c]) : c \in Callers}
<1>8. /\ heap = Embs(order) \cup garbage \cup H
      /\ Embs(order) \cap garbage = {} /\ Embs(order) \cap H = {}
      /\ \A c \in Callers : Apart(prompt[c]) /\ Held(prompt[c]) \cap (Embs(order) \cup garbage \cup Others(c)) = {}
    <2>1. /\ heap = Embs(order) \cup garbage \cup H /\ Embs(order) \cap garbage = {}
          /\ \A c \in Callers : Apart(prompt[c]) /\ Held(prompt[c]) \cap (Embs(order) \cup garbage \cup Others(c)) = {}
        BY DEF ImageInv, Owned
    <2>2. \A c \in Callers : Held(prompt[c]) \cap Embs(order) = {}
        BY <2>1
    <2>3. Embs(order) \cap H = {}
        BY <2>2
    <2>4. QED
        BY <2>1, <2>3
<1>9. Owned'
    <2>1. prompt' = prompt /\ garbage' = garbage
        BY <1>1
    <2>2. heap' = Embs(order') \cup garbage' \cup H
        <3> HIDE DEF H
        <3>1. QED
            BY <1>1, <1>6, <1>8
    <2>3. \A c \in Callers : Others(c)' = Others(c)
        BY <2>1 DEF Others
    <2>4. Embs(order') \cap garbage' = {}
        BY <1>6, <1>8, <2>1
    <2>5. \A c \in Callers : Apart(prompt'[c]) /\ Held(prompt'[c]) \cap (Embs(order') \cup garbage' \cup Others(c)') = {}
        BY <1>6, <1>8, <2>1, <2>3
    <2>6. heap' = Embs(order') \cup garbage' \cup UNION {Held(prompt'[c]) : c \in Callers}
        BY <2>1, <2>2
    <2>7. QED
        BY <1>6, <2>4, <2>5, <2>6 DEF Owned, EmbsOnce
<1>10. ImageTypes'
    <2>1. heap' \subseteq heap /\ heap \subseteq Owning /\ prompt' \in [Callers -> Work]
          /\ \E n \in Nat : heap \subseteq 0..n
        BY <1>1 DEF ImageInv, ImageTypes
    <2>2. \E n \in Nat : heap' \subseteq 0..n
        BY <2>1
    <2>3. limits' \in [entries : Nat, bytes : Nat]
        BY <1>1, <1>2
    <2>4. BytesIn(order)' = BytesIn(order')
        BY DEF BytesIn
    <2>5. QED
        BY <1>6, <2>1, <2>2, <2>3, <2>4 DEF ImageTypes
<1>11. InHand'
    BY <1>1 DEF ImageInv, InHand
<1>12. QED
    BY <1>7, <1>9, <1>10, <1>11 DEF ImageInv

\* Insert: the clone is the caller's, and the embedding is freed, or is in the
\* cache where there was room made for it.
LEMMA ImageInserted ==
    ASSUME ImageInv, NEW c \in Callers, Insert(c)
    PROVE  ImageInv'
<1> DEFINE w == prompt[c]
           j == [w EXCEPT !.op = "built", !.img = 0, !.max = 0, !.emb = 0,
                          !.clone = 0, !.embs = Append(@, w.clone)]
<1>1. /\ w \in Work /\ w.op = "insert" /\ w.emb \in Nat /\ w.emb # 0 /\ w.clone \in Nat /\ w.clone # 0
      /\ w.img \in Nat /\ w.embs \in Seq(Owning) /\ w.spans \in Seq(Owning)
      /\ ToSet(w.embs) \subseteq Owning /\ ToSet(w.spans) \subseteq Owning
    BY WorkOf DEF Insert
<1>2. Sets(c, j) /\ UNCHANGED <<limits, garbage>>
    BY DEF Insert, Encoded
<1>3. /\ Apart(w) /\ heap = Embs(order) \cup Held(w) \cup garbage \cup Others(c)
      /\ Embs(order) \cap garbage = {} /\ Held(w) \cap (Embs(order) \cup garbage \cup Others(c)) = {}
      /\ Others(c) \cap (Embs(order) \cup garbage) = {}
    BY Shares
<1>4. /\ IsInjective(w.embs) /\ w.clone \in Owning /\ w.emb \in Owning /\ w.emb # w.clone
      /\ w.clone \notin ToSet(w.embs) /\ w.clone \notin ToSet(w.spans)
      /\ w.emb \notin ToSet(w.embs) /\ w.emb \notin ToSet(w.spans)
    BY <1>1, <1>3 DEF Apart, Owning
<1>5. /\ Append(w.embs, w.clone) \in Seq(Owning) /\ IsInjective(Append(w.embs, w.clone))
      /\ ToSet(Append(w.embs, w.clone)) = ToSet(w.embs) \cup {w.clone}
    BY <1>1, <1>4, OneMore
<1>6. /\ j \in Work /\ j.op = "built" /\ j.emb = 0 /\ j.clone = 0
      /\ j.embs = Append(w.embs, w.clone) /\ j.spans = w.spans
    BY <1>1, <1>5 DEF Work
<1> HIDE DEF j
<1>7. Held(w) = Held(j) \cup {w.emb} /\ w.emb \notin Held(j) /\ w.emb # 0
    BY <1>1, <1>4, <1>5, <1>6 DEF Held, Owning
<1>8. Apart(j)
    <2>1. 0 \notin ToSet(j.embs) /\ 0 \notin ToSet(j.spans)
        BY <1>1, <1>4, <1>5, <1>6 DEF Owning
    <2>2. ToSet(j.embs) \cap ToSet(j.spans) = {} /\ IsInjective(j.embs) /\ IsInjective(j.spans)
        BY <1>3, <1>4, <1>5, <1>6 DEF Apart
    <2>3. QED
        BY <1>6, <2>1, <2>2 DEF Apart
<1> HIDE DEF w
<1>9. CASE Cached(w.img) \/ limits.entries = 0 \/ w.img > limits.bytes
    <2>1. heap' = heap \ {w.emb} /\ UNCHANGED <<order, limits>>
        BY <1>2, <1>9 DEF Insert, w
    <2>2. heap \subseteq Owning /\ garbage' = garbage
        BY <1>2 DEF ImageInv, ImageTypes
    <2>3. heap' \subseteq Owning /\ heap' \subseteq heap \cup (0..0)
        BY <2>1, <2>2
    <2>4. /\ Embs(order) \cap garbage' = {} /\ Held(j) \cap (Embs(order) \cup garbage') = {}
          /\ (Held(j) \cup garbage') \cap Others(c) = {}
        BY <1>3, <1>7, <2>2
    <2>5. heap' = Embs(order) \cup Held(j) \cup garbage' \cup Others(c)
        BY <1>3, <1>7, <2>1, <2>2
    <2>6. QED
        BY <1>2, <1>6, <1>8, <2>1, <2>3, <2>4, <2>5, CallerStep
<1>10. CASE ~(Cached(w.img) \/ limits.entries = 0 \/ w.img > limits.bytes)
    <2> DEFINE kept == Kept(order, limits, 1, w.img)
               e == [key |-> w.img, emb |-> w.emb]
    <2>1. order' = <<e>> \o kept /\ heap' = heap \ (Embs(order) \ Embs(kept))
        BY <1>10 DEF Insert, w
    <2>2. /\ order \in Seq(CacheEntry) /\ limits.entries \in Nat /\ limits.bytes \in Nat
          /\ limits \in [entries : Nat, bytes : Nat] /\ heap \subseteq Owning
        BY DEF ImageInv, ImageTypes
    <2>3. PICK k \in 0..Len(order) :
              /\ kept = SubSeq(order, 1, k)
              /\ k # 0 => k + 1 <= limits.entries /\ Bytes(SubSeq(order, 1, k)) + w.img <= limits.bytes
        BY <2>2, KeptFits
    <2> HIDE DEF kept
    <2>4. /\ kept \in Seq(CacheEntry) /\ Len(kept) = k /\ Embs(kept) \subseteq Embs(order)
          /\ \A i \in DOMAIN kept : i \in DOMAIN order /\ kept[i] = order[i]
          /\ EmbsOnce(kept) /\ KeysOnce(kept)
          /\ IsFiniteSet(BytesIn(kept)) /\ Bytes(kept) \in Nat /\ (k = 0 => Bytes(kept) = 0)
        <3>1. Shortened(k, kept)
            BY <2>3, FirstKept
        <3>2. QED
            BY <3>1 DEF Shortened
    <2>5. e \in CacheEntry /\ e.emb = w.emb /\ e.key = w.img
        BY <1>1, <1>4 DEF CacheEntry, w
    <2> HIDE DEF e
    <2>6. e.emb \notin Embs(kept)
        BY <1>3, <1>7, <2>4, <2>5
    <2>7. \A i \in DOMAIN kept : kept[i].key # e.key
        BY <1>10, <2>4, <2>5 DEF Cached
    <2>8. /\ order' \in Seq(CacheEntry) /\ Len(order') = Len(kept) + 1
          /\ Embs(order') = Embs(kept) \cup {e.emb} /\ EmbsOnce(order') /\ KeysOnce(order')
          /\ IsFiniteSet(BytesIn(order')) /\ Bytes(order') = Bytes(kept) + e.key
        <3>1. Longer(kept, e, order')
            BY <2>1, <2>4, <2>5, <2>6, <2>7, InFront
        <3>2. QED
            BY <3>1 DEF Longer
    <2>9. WithinLimits'
        <3>1. k \in Nat /\ w.img \in Nat
            BY <1>1, <2>2 DEF w
        <3>2. Len(order') <= limits.entries
            <4>1. CASE k = 0
                BY <1>10, <2>2, <2>4, <2>8, <4>1
            <4>2. CASE k # 0
                BY <2>3, <2>4, <2>8, <4>2
            <4>3. QED
                BY <4>1, <4>2
        <3>3. Bytes(order') <= limits.bytes
            <4>1. CASE k = 0
                BY <1>10, <2>2, <2>4, <2>5, <2>8, <3>1, <4>1
            <4>2. CASE k # 0
                BY <2>3, <2>4, <2>5, <2>8, <4>2
            <4>3. QED
                BY <4>1, <4>2
        <3>4. Bytes(order)' = Bytes(order') /\ limits' = limits
            BY <1>2 DEF Bytes
        <3>5. QED
            BY <2>8, <3>2, <3>3, <3>4 DEF WithinLimits, KeysOnce
    <2>10. prompt' = [prompt EXCEPT ![c] = j] /\ prompt' \in [Callers -> Work] /\ InHand'
        BY <1>2, <1>6, GoesOn
    <2>11. garbage' = garbage
        BY <1>2
    <2>12. Embs(order') \cap garbage' = {} /\ Held(j) \cap (Embs(order') \cup garbage') = {}
        BY <1>3, <1>7, <2>4, <2>5, <2>8, <2>11
    <2>13. (Embs(order') \cup Held(j) \cup garbage') \cap Others(c) = {}
        BY <1>3, <1>7, <2>4, <2>5, <2>8, <2>11
    <2>14. heap' = Embs(order') \cup Held(j) \cup garbage' \cup Others(c)
        BY <1>3, <1>7, <2>1, <2>4, <2>5, <2>8, <2>11
    <2>15. Owned'
        BY <1>8, <2>8, <2>10, <2>12, <2>13, <2>14, Hands DEF EmbsOnce
    <2>16. ImageTypes'
        <3>1. heap' \subseteq heap
            BY <2>1
        <3>2. \E n \in Nat : heap' \subseteq 0..n
            BY <3>1 DEF ImageInv, ImageTypes
        <3>3. limits' \in [entries : Nat, bytes : Nat]
            BY <1>2, <2>2
        <3>4. BytesIn(order)' = BytesIn(order')
            BY DEF BytesIn
        <3>5. QED
            BY <2>2, <2>8, <2>10, <3>1, <3>2, <3>3, <3>4 DEF ImageTypes
    <2>17. QED
        BY <2>9, <2>10, <2>15, <2>16 DEF ImageInv
<1>11. QED
    BY <1>9, <1>10

\* The buffers that libds4 hands back, the ones it was given or new ones, are
\* apart from those that belong to anybody else.
Exchanged(old, got) ==
    /\ got \in Seq(Owning) /\ IsInjective(got) /\ ToSet(got) \subseteq Owning
    /\ ToSet(got) \cap (heap \ ToSet(old)) = {}
    /\ \E n \in Nat : ToSet(got) \subseteq 0..n

LEMMA ReplacedBy ==
    ASSUME ImageInv, NEW c \in Callers, NEW got \in Replaced(prompt[c].embs)
    PROVE  Exchanged(prompt[c].embs, got)
<1> DEFINE old == prompt[c].embs
           m == Len(old)
           b == Fresh(m)
<1>1. /\ old \in Seq(Owning) /\ IsInjective(old) /\ m \in Nat /\ DOMAIN old = 1..m
      /\ ToSet(old) \subseteq Owning /\ ToSet(old) \subseteq heap
    <2>1. old \in Seq(Owning) /\ ToSet(old) \subseteq Owning
        BY WorkOf
    <2>2. IsInjective(old) /\ Held(prompt[c]) \subseteq heap
        BY Shares DEF Apart
    <2>3. ToSet(old) \subseteq heap
        BY <2>1, <2>2 DEF Held, Owning
    <2>4. QED
        BY <2>1, <2>2, <2>3
<1>2. b \in Owning /\ \A i \in 0..(m - 1) : b + i \notin heap
    BY <1>1, FreshIsFree DEF ImageInv
<1>3. PICK new \in SUBSET DOMAIN old :
          got = [i \in DOMAIN old |-> IF i \in new THEN b + i - 1 ELSE old[i]]
    BY DEF Replaced
<1> HIDE DEF old, m, b
<1>4. b \in Nat /\ b # 0
    BY <1>2 DEF Owning
<1>5. /\ DOMAIN got = 1..m
      /\ \A i \in 1..m : got[i] = IF i \in new THEN b + i - 1 ELSE old[i]
    BY <1>1, <1>3
<1>6. \A i \in 1..m : b + i - 1 \in Nat /\ b + i - 1 # 0 /\ b + i - 1 <= b + m
    BY <1>1, <1>4
<1>7. \A i \in 1..m : old[i] \in Owning /\ old[i] \in heap
    BY <1>1 DEF ToSet
<1>8. \A i \in 1..m : got[i] \in Owning
    BY <1>5, <1>6, <1>7 DEF Owning
<1>9. got \in Seq(Owning)
    <2>1. got = [i \in 1..m |-> got[i]]
        BY <1>1, <1>3, <1>5
    <2>2. QED
        BY <1>1, <1>8, <2>1
<1>10. \A i \in 1..m : b + i - 1 \notin heap
    <2> SUFFICES ASSUME NEW i \in 1..m PROVE b + i - 1 \notin heap
        OBVIOUS
    <2>1. i - 1 \in 0..(m - 1) /\ b + (i - 1) = b + i - 1
        BY <1>1, <1>4
    <2>2. QED
        BY <1>2, <2>1
<1>11. IsInjective(got)
    <2>1. ASSUME NEW i \in 1..m, NEW k \in 1..m, got[i] = got[k] PROVE i = k
        <3>1. CASE i \in new /\ k \in new
            BY <1>4, <1>5, <2>1, <3>1
        <3>2. CASE i \notin new /\ k \notin new
            BY <1>1, <1>5, <2>1, <3>2 DEF IsInjective
        <3>3. CASE i \in new /\ k \notin new
            BY <1>5, <1>7, <1>10, <2>1, <3>3
        <3>4. CASE i \notin new /\ k \in new
            BY <1>5, <1>7, <1>10, <2>1, <3>4
        <3>5. QED
            BY <3>1, <3>2, <3>3, <3>4
    <2>2. QED
        BY <1>5, <2>1 DEF IsInjective
<1>12. ToSet(got) \cap (heap \ ToSet(old)) = {} /\ ToSet(got) \subseteq Owning
    <2>1. \A i \in 1..m : got[i] \notin heap \/ got[i] \in ToSet(old)
        BY <1>1, <1>5, <1>10 DEF ToSet
    <2>2. QED
        BY <1>5, <1>8, <2>1 DEF ToSet
<1>13. \E n \in Nat : ToSet(got) \subseteq 0..n
    <2>1. PICK n \in Nat : heap \subseteq 0..n
        BY DEF ImageInv, ImageTypes
    <2>2. b + m + n \in Nat
        BY <1>1, <1>4
    <2>3. \A i \in 1..m : got[i] \in 0..(b + m + n)
        <3> SUFFICES ASSUME NEW i \in 1..m PROVE got[i] \in 0..(b + m + n)
            OBVIOUS
        <3>1. CASE i \in new
            BY <1>1, <1>4, <1>5, <1>6, <3>1
        <3>2. CASE i \notin new
            <4>1. got[i] \in 0..n
                BY <1>5, <1>7, <2>1, <3>2
            <4>2. n <= b + m + n
                BY <1>1, <1>4
            <4>3. QED
                BY <2>2, <4>1, <4>2
        <3>3. QED
            BY <3>1, <3>2
    <2>4. ToSet(got) \subseteq 0..(b + m + n)
        BY <1>5, <2>3 DEF ToSet
    <2>5. QED
        BY <2>2, <2>4
<1>14. QED
    BY <1>9, <1>11, <1>12, <1>13 DEF Exchanged, old

\* What a caller holds who has no embedding in hand.
LEMMA HoldsLists ==
    ASSUME NEW j, j.emb = 0, j.clone = 0, ToSet(j.embs) \subseteq Owning, ToSet(j.spans) \subseteq Owning
    PROVE  Held(j) = ToSet(j.embs) \cup ToSet(j.spans)
BY DEF Held, Owning

\* A call on the embeddings of a message: its buffers are exchanged.
LEMMA ImageExchanged ==
    ASSUME ImageInv, NEW c \in Callers, NEW j \in Work, Sets(c, j), UNCHANGED <<order, limits, garbage>>,
           prompt[c].op = "built", j.op \in {"built", "failed"}, j.emb = 0, j.clone = 0,
           NEW got \in Replaced(prompt[c].embs), Apart(j),
           heap' = (heap \ ToSet(prompt[c].embs)) \cup ToSet(got),
           Held(j) = ToSet(got) \cup ToSet(prompt[c].spans)
    PROVE  ImageInv'
<1> DEFINE w == prompt[c]
           E == ToSet(w.embs)
           S == ToSet(w.spans)
           G == ToSet(got)
<1>1. w.emb = 0 /\ w.clone = 0 /\ E \subseteq Owning /\ S \subseteq Owning
    BY WorkOf
<1>2. Held(w) = E \cup S
    BY <1>1, HoldsLists
<1>3. G \subseteq Owning /\ G \cap (heap \ E) = {}
    BY ReplacedBy DEF Exchanged
<1>4. PICK n \in Nat : G \subseteq 0..n
    BY ReplacedBy DEF Exchanged
<1>5. E \cap S = {}
    BY Shares DEF Apart
<1>6. heap' = (heap \ E) \cup G /\ Held(j) = G \cup S /\ garbage' = garbage
    OBVIOUS
<1> HIDE DEF w, E, S, G
<1>7. /\ heap = Embs(order) \cup Held(w) \cup garbage \cup Others(c)
      /\ Embs(order) \cap garbage = {} /\ Held(w) \cap (Embs(order) \cup garbage \cup Others(c)) = {}
      /\ Others(c) \cap (Embs(order) \cup garbage) = {}
    BY Shares DEF w
<1>8. heap \ E = Embs(order) \cup S \cup garbage \cup Others(c)
    BY <1>2, <1>5, <1>7
<1>9. heap' \subseteq Owning /\ heap' \subseteq heap \cup (0..n)
    <2>1. heap \subseteq Owning
        BY DEF ImageInv, ImageTypes
    <2>2. QED
        BY <1>3, <1>4, <1>6, <2>1
<1>10. /\ Embs(order) \cap garbage' = {} /\ Held(j) \cap (Embs(order) \cup garbage') = {}
       /\ (Held(j) \cup garbage') \cap Others(c) = {}
    BY <1>2, <1>3, <1>6, <1>7, <1>8
<1>11. heap' = Embs(order) \cup Held(j) \cup garbage' \cup Others(c)
    BY <1>6, <1>8
<1>12. QED
    BY <1>9, <1>10, <1>11, CallerStep

\* The embeddings of a message become spans of the prompt.
LEMMA ImageAppended ==
    ASSUME ImageInv, NEW c \in Callers, AppendMessage(c)
    PROVE  ImageInv'
<1> DEFINE w == prompt[c]
<1>1. PICK got \in Replaced(w.embs) :
          /\ heap' = (heap \ ToSet(w.embs)) \cup ToSet(got)
          /\ Sets(c, [w EXCEPT !.embs = <<>>, !.spans = @ \o got])
    BY DEF AppendMessage
<1> DEFINE j == [w EXCEPT !.embs = <<>>, !.spans = @ \o got]
<1>2. /\ w \in Work /\ w.op = "built" /\ w.emb = 0 /\ w.clone = 0 /\ w.spans \in Seq(Owning)
      /\ ToSet(w.embs) \subseteq Owning /\ ToSet(w.spans) \subseteq Owning
    BY WorkOf DEF AppendMessage
<1>3. /\ got \in Seq(Owning) /\ IsInjective(got) /\ ToSet(got) \subseteq Owning
      /\ ToSet(got) \cap (heap \ ToSet(w.embs)) = {}
    BY ReplacedBy DEF Exchanged
<1>4. /\ Apart(w) /\ IsInjective(w.spans) /\ ToSet(w.embs) \cap ToSet(w.spans) = {}
      /\ Held(w) = ToSet(w.embs) \cup ToSet(w.spans) /\ Held(w) \subseteq heap
    <2>1. Apart(w) /\ Held(w) \subseteq heap
        BY Shares
    <2>2. Held(w) = ToSet(w.embs) \cup ToSet(w.spans)
        BY <1>2, HoldsLists
    <2>3. QED
        BY <2>1, <2>2 DEF Apart
<1>5. ToSet(w.spans) \cap ToSet(got) = {}
    BY <1>3, <1>4
<1>6. /\ w.spans \o got \in Seq(Owning) /\ IsInjective(w.spans \o got)
      /\ ToSet(w.spans \o got) = ToSet(w.spans) \cup ToSet(got)
    BY <1>2, <1>3, <1>4, <1>5, Joined
<1>7. /\ j \in Work /\ j.op = "built" /\ j.emb = 0 /\ j.clone = 0
      /\ j.embs = <<>> /\ j.spans = w.spans \o got
    <2> DEFINE both == w.spans \o got
    <2>1. both \in Seq(Owning) /\ <<>> \in Seq(Owning) /\ j = [w EXCEPT !.embs = <<>>, !.spans = both]
        BY <1>6
    <2> HIDE DEF both, j
    <2>2. /\ j \in Work /\ j.op = "built" /\ j.emb = 0 /\ j.clone = 0
          /\ j.embs = <<>> /\ j.spans = both
        BY <1>2, <2>1 DEF Work
    <2>3. QED
        BY <2>2 DEF both
<1>8. Sets(c, j) /\ UNCHANGED <<order, limits, garbage>>
    BY <1>1 DEF AppendMessage
<1> HIDE DEF j
<1>9. ToSet(j.embs) = {} /\ IsInjective(j.embs) /\ ToSet(j.spans) = ToSet(w.spans) \cup ToSet(got)
    <2>1. ToSet(<<>>) = {} /\ IsInjective(<<>>)
        BY DEF ToSet, IsInjective
    <2>2. QED
        BY <1>6, <1>7, <2>1
<1>10. Held(j) = ToSet(got) \cup ToSet(w.spans)
    <2>1. ToSet(j.embs) \subseteq Owning /\ ToSet(j.spans) \subseteq Owning
        BY <1>2, <1>3, <1>9
    <2>2. Held(j) = ToSet(j.embs) \cup ToSet(j.spans)
        BY <1>7, <2>1, HoldsLists
    <2>3. QED
        BY <1>9, <2>2
<1>11. Apart(j)
    <2>1. 0 \notin ToSet(j.embs) \cup ToSet(j.spans)
        BY <1>2, <1>3, <1>9 DEF Owning
    <2>2. IsInjective(j.spans)
        BY <1>6, <1>7
    <2>3. QED
        BY <1>7, <1>9, <2>1, <2>2 DEF Apart
<1>12. QED
    BY <1>1, <1>2, <1>7, <1>8, <1>10, <1>11, ImageExchanged

\* It fails, and the handles adopt what came back.
LEMMA ImageAppendFails ==
    ASSUME ImageInv, NEW c \in Callers, AppendFails(c)
    PROVE  ImageInv'
<1> DEFINE w == prompt[c]
<1>1. PICK got \in Replaced(w.embs) :
          /\ heap' = (heap \ ToSet(w.embs)) \cup ToSet(got)
          /\ Sets(c, [w EXCEPT !.op = "failed", !.embs = got])
    BY DEF AppendFails
<1> DEFINE j == [w EXCEPT !.op = "failed", !.embs = got]
<1>2. /\ w \in Work /\ w.op = "built" /\ w.emb = 0 /\ w.clone = 0 /\ w.spans \in Seq(Owning)
      /\ ToSet(w.embs) \subseteq Owning /\ ToSet(w.spans) \subseteq Owning
    BY WorkOf DEF AppendFails
<1>3. /\ got \in Seq(Owning) /\ IsInjective(got) /\ ToSet(got) \subseteq Owning
      /\ ToSet(got) \cap (heap \ ToSet(w.embs)) = {}
    BY ReplacedBy DEF Exchanged
<1>4. /\ IsInjective(w.spans) /\ ToSet(w.embs) \cap ToSet(w.spans) = {}
      /\ Held(w) = ToSet(w.embs) \cup ToSet(w.spans) /\ Held(w) \subseteq heap
    <2>1. Apart(w) /\ Held(w) \subseteq heap
        BY Shares
    <2>2. Held(w) = ToSet(w.embs) \cup ToSet(w.spans)
        BY <1>2, HoldsLists
    <2>3. QED
        BY <2>1, <2>2 DEF Apart
<1>5. ToSet(got) \cap ToSet(w.spans) = {}
    BY <1>3, <1>4
<1>6. /\ j \in Work /\ j.op = "failed" /\ j.emb = 0 /\ j.clone = 0
      /\ j.embs = got /\ j.spans = w.spans
    BY <1>2, <1>3 DEF Work
<1>7. Sets(c, j) /\ UNCHANGED <<order, limits, garbage>>
    BY <1>1 DEF AppendFails
<1> HIDE DEF j
<1>8. Held(j) = ToSet(got) \cup ToSet(w.spans)
    BY <1>2, <1>3, <1>6, HoldsLists
<1>9. Apart(j)
    <2>1. 0 \notin ToSet(j.embs) \cup ToSet(j.spans)
        BY <1>2, <1>3, <1>6 DEF Owning
    <2>2. QED
        BY <1>3, <1>4, <1>5, <1>6, <2>1 DEF Apart
<1>10. QED
    BY <1>1, <1>2, <1>6, <1>7, <1>8, <1>9, ImageExchanged

\* Another call fails, and what was in hand is freed.
LEMMA ImageCallFails ==
    ASSUME ImageInv, NEW c \in Callers, CallFails(c)
    PROVE  ImageInv'
<1> DEFINE w == prompt[c]
           j == [w EXCEPT !.op = "failed", !.img = 0, !.max = 0, !.emb = 0]
<1>1. /\ w \in Work /\ w.op \in {"encode", "fresh", "built"} /\ w.clone = 0
      /\ ToSet(w.embs) \subseteq Owning /\ ToSet(w.spans) \subseteq Owning
    BY WorkOf DEF CallFails
<1>2. heap' = heap \ {w.emb} /\ Sets(c, j) /\ UNCHANGED <<order, limits, garbage>>
    BY DEF CallFails
<1>3. /\ j \in Work /\ j.op = "failed" /\ j.emb = 0 /\ j.clone = 0
      /\ j.embs = w.embs /\ j.spans = w.spans
    BY <1>1 DEF Work
<1> HIDE DEF j
<1>4. Held(j) = ToSet(w.embs) \cup ToSet(w.spans)
    BY <1>1, <1>3, HoldsLists
<1>5. /\ Apart(w) /\ heap = Embs(order) \cup Held(w) \cup garbage \cup Others(c)
      /\ Embs(order) \cap garbage = {} /\ Held(w) \cap (Embs(order) \cup garbage \cup Others(c)) = {}
      /\ Others(c) \cap (Embs(order) \cup garbage) = {} /\ heap \subseteq Owning
    BY Shares DEF ImageInv, ImageTypes
<1>6. Held(w) \ {w.emb} = Held(j) /\ (w.emb # 0 => w.emb \in Held(w))
    BY <1>1, <1>4, <1>5 DEF Held, Apart, Owning
<1>7. Apart(j)
    <2>1. 0 \notin ToSet(j.embs) \cup ToSet(j.spans)
        BY <1>1, <1>3 DEF Owning
    <2>2. QED
        BY <1>3, <1>5, <2>1 DEF Apart
<1>8. w.emb \notin Embs(order) \cup garbage \cup Others(c)
    <2>1. 0 \notin heap
        BY <1>5 DEF Owning
    <2>2. QED
        BY <1>5, <1>6, <2>1
<1> HIDE DEF w
<1>9. /\ Embs(order) \cap garbage' = {} /\ Held(j) \cap (Embs(order) \cup garbage') = {}
      /\ (Held(j) \cup garbage') \cap Others(c) = {}
    BY <1>2, <1>5, <1>6
<1>10. heap' = Embs(order) \cup Held(j) \cup garbage' \cup Others(c)
    BY <1>2, <1>5, <1>6, <1>8
<1>11. heap' \subseteq Owning /\ heap' \subseteq heap \cup (0..0)
    BY <1>2, <1>5
<1>12. QED
    BY <1>2, <1>3, <1>7, <1>9, <1>10, <1>11, CallerStep

\* The prompt is freed.
LEMMA ImageFreed ==
    ASSUME ImageInv, NEW c \in Callers, FreePrompt(c)
    PROVE  ImageInv'
<1>1. heap' = heap \ Held(prompt[c]) /\ Sets(c, Idle) /\ UNCHANGED <<order, limits, garbage>>
    BY DEF FreePrompt
<1>2. /\ heap = Embs(order) \cup Held(prompt[c]) \cup garbage \cup Others(c)
      /\ Embs(order) \cap garbage = {} /\ Held(prompt[c]) \cap (Embs(order) \cup garbage \cup Others(c)) = {}
      /\ Others(c) \cap (Embs(order) \cup garbage) = {} /\ heap \subseteq Owning
    BY Shares DEF ImageInv, ImageTypes
<1>3. /\ Embs(order) \cap garbage' = {} /\ Held(Idle) \cap (Embs(order) \cup garbage') = {}
      /\ (Held(Idle) \cup garbage') \cap Others(c) = {}
      /\ heap' = Embs(order) \cup Held(Idle) \cup garbage' \cup Others(c)
    BY <1>1, <1>2, IdleHolds
<1>4. heap' \subseteq Owning /\ heap' \subseteq heap \cup (0..0)
    BY <1>1, <1>2
<1>5. QED
    BY <1>1, <1>3, <1>4, IdleHolds, CallerStep

\* It is forgotten, and what it holds waits for its cleanup.
LEMMA ImageDropped ==
    ASSUME ImageInv, NEW c \in Callers, DropPrompt(c)
    PROVE  ImageInv'
<1>1. garbage' = garbage \cup Held(prompt[c]) /\ Sets(c, Idle) /\ UNCHANGED <<heap, order, limits>>
    BY DEF DropPrompt
<1>2. /\ heap = Embs(order) \cup Held(prompt[c]) \cup garbage \cup Others(c)
      /\ Embs(order) \cap garbage = {} /\ Held(prompt[c]) \cap (Embs(order) \cup garbage \cup Others(c)) = {}
      /\ Others(c) \cap (Embs(order) \cup garbage) = {} /\ heap \subseteq Owning
    BY Shares DEF ImageInv, ImageTypes
<1>3. /\ Embs(order) \cap garbage' = {} /\ Held(Idle) \cap (Embs(order) \cup garbage') = {}
      /\ (Held(Idle) \cup garbage') \cap Others(c) = {}
      /\ heap' = Embs(order) \cup Held(Idle) \cup garbage' \cup Others(c)
    BY <1>1, <1>2, IdleHolds
<1>4. heap' \subseteq Owning /\ heap' \subseteq heap \cup (0..0)
    BY <1>1, <1>2
<1>5. QED
    BY <1>1, <1>3, <1>4, IdleHolds, CallerStep

\* The runtime frees what nobody reaches.
LEMMA ImageCleanup ==
    ASSUME ImageInv, Cleanup
    PROVE  ImageInv'
<1>1. PICK b \in garbage : garbage' = garbage \ {b} /\ heap' = heap \ {b} /\ UNCHANGED <<order, limits, prompt>>
    BY DEF Cleanup
<1> DEFINE H == UNION {Held(prompt[c]) : c \in Callers}
<1>2. /\ heap = Embs(order) \cup garbage \cup H /\ Embs(order) \cap garbage = {} /\ EmbsOnce(order)
      /\ \A c \in Callers : Apart(prompt[c]) /\ Held(prompt[c]) \cap (Embs(order) \cup garbage \cup Others(c)) = {}
    BY DEF ImageInv, Owned, EmbsOnce
<1>3. b \notin H
    BY <1>2
<1>4. Owned'
    <2>1. order' = order /\ prompt' = prompt
        BY <1>1
    <2>2. heap' = Embs(order') \cup garbage' \cup UNION {Held(prompt'[c]) : c \in Callers}
        <3>1. heap' = Embs(order) \cup garbage' \cup H
            <4> HIDE DEF H
            <4>1. QED
                BY <1>1, <1>2, <1>3
        <3>2. QED
            BY <2>1, <3>1
    <2>3. \A c \in Callers : Others(c)' = Others(c)
        BY <2>1 DEF Others
    <2>4. \A c \in Callers : Apart(prompt'[c]) /\ Held(prompt'[c]) \cap (Embs(order') \cup garbage' \cup Others(c)') = {}
        BY <1>1, <1>2, <2>1, <2>3
    <2>5. Embs(order') \cap garbage' = {} /\ EmbsOnce(order')
        BY <1>1, <1>2, <2>1
    <2>6. QED
        BY <2>2, <2>4, <2>5 DEF Owned, EmbsOnce
<1>5. ImageTypes'
    <2>1. heap' \subseteq heap
        BY <1>1
    <2>2. \E n \in Nat : heap' \subseteq 0..n
        BY <2>1 DEF ImageInv, ImageTypes
    <2>3. BytesIn(order)' = BytesIn(order)
        BY <1>1 DEF BytesIn
    <2>4. QED
        BY <1>1, <2>1, <2>2, <2>3 DEF ImageInv, ImageTypes
<1>6. InHand'
    BY <1>1 DEF ImageInv, InHand
<1>7. WithinLimits'
    BY <1>1 DEF ImageInv, WithinLimits, Bytes
<1>8. QED
    BY <1>4, <1>5, <1>6, <1>7 DEF ImageInv

\* Every step keeps the invariant.
LEMMA ImageStep == ImageInv /\ [ImageNext]_imageVars => ImageInv'
<1> SUFFICES ASSUME ImageInv, [ImageNext]_imageVars PROVE ImageInv'
    OBVIOUS
<1>1. CASE SetLimits
    BY <1>1, ImageLimits
<1>2. CASE Cleanup
    BY <1>2, ImageCleanup
<1>3. ASSUME NEW c \in Callers, NEW img \in Images, Encode(c, img) PROVE ImageInv'
    BY <1>3, ImageEncode
<1>4. ASSUME NEW c \in Callers, VisionEncode(c) PROVE ImageInv'
    BY <1>4, ImageEncoded
<1>5. ASSUME NEW c \in Callers, Clone(c) PROVE ImageInv'
    BY <1>5, ImageCloned
<1>6. ASSUME NEW c \in Callers, Insert(c) PROVE ImageInv'
    BY <1>6, ImageInserted
<1>7. ASSUME NEW c \in Callers, AppendMessage(c) PROVE ImageInv'
    BY <1>7, ImageAppended
<1>8. ASSUME NEW c \in Callers, AppendFails(c) PROVE ImageInv'
    BY <1>8, ImageAppendFails
<1>9. ASSUME NEW c \in Callers, CallFails(c) PROVE ImageInv'
    BY <1>9, ImageCallFails
<1>10. ASSUME NEW c \in Callers, FreePrompt(c) PROVE ImageInv'
    BY <1>10, ImageFreed
<1>11. ASSUME NEW c \in Callers, DropPrompt(c) PROVE ImageInv'
    BY <1>11, ImageDropped
<1>12. CASE UNCHANGED imageVars
    <2>1. UNCHANGED <<heap, order, limits, prompt, garbage>>
        BY <1>12 DEF imageVars
    <2>2. ImageTypes' /\ InHand'
        BY <2>1 DEF ImageInv, ImageTypes, InHand, BytesIn
    <2>3. Owned'
        BY <2>1 DEF ImageInv, Owned, Others
    <2>4. WithinLimits'
        BY <2>1 DEF ImageInv, WithinLimits, Bytes
    <2>5. QED
        BY <2>2, <2>3, <2>4 DEF ImageInv
<1>13. QED
    BY <1>1, <1>2, <1>3, <1>4, <1>5, <1>6, <1>7, <1>8, <1>9, <1>10, <1>11, <1>12 DEF ImageNext

\* ImageInv is an inductive invariant of the embeddings.
THEOREM ImageInvariance == ImageSpec => []ImageInv
<1>1. QED
    BY ImagesBegin, ImageStep, PTL DEF ImageSpec

\* For any callers, images and limits: every buffer has one owner, and the cache
\* keeps to its limits (vision.go:120-177, ds4api/vision.go:271-291).
THEOREM ImagesAccountedForTheorem == ImageSpec => []ImagesAccountedFor
<1>1. ImageInv => ImagesAccountedFor
    BY DEF ImageInv, ImagesAccountedFor
<1>2. QED
    BY <1>1, ImageInvariance, PTL
=============================================================================
