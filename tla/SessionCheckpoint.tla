-------------------------- MODULE SessionCheckpoint --------------------------
(***************************************************************************)
(* What a session holds and what its program takes it to hold              *)
(* (ds4api/session.go, ds4api/vision.go; libds4 as ds4api/mock_library.go  *)
(* states it): the tokens, whether there is a checkpoint of them to        *)
(* continue from, and the images whose rows are among them.                *)
(*                                                                         *)
(* Tokens are "t" and "u", and "i" for a row of any image: only a span     *)
(* [start, count, image] tells which image it is.  One goroutine uses the  *)
(* session.  Whether libds4 can cut a checkpoint or loses it depends on    *)
(* the family and on where the cut is: it is a choice.                     *)
(***************************************************************************)
EXTENDS Naturals, SequencesExt

CONSTANTS Prompts,      \* [tokens, spans]: what may be synced
          Identities,   \* of images
          MaxBlock,     \* bound of a speculative block
          MaxText       \* bound: tokens in the session

Vocabulary == {"t", "u", "i"}
Spans == [start : Nat, count : Nat, image : Identities]

ASSUME PromptsAssumption ==
    \A p \in Prompts : p.tokens \in Seq(Vocabulary) /\ p.spans \in Seq(Spans)

VARIABLES tokens,    \* the session's tokens in libds4
          valid,     \* there is a checkpoint of them
          images,    \* the identities libds4 noted with the last sync
          told,      \* the tokens the program takes the session to hold
          spans,     \* the spans of the prompt it synced, "callers ... set it"
          sure,      \* its last sync was not interrupted
          result     \* what the last operation returned

sessionVars == <<tokens, valid, images, told, spans, sure, result>>

CheckpointInit ==
    /\ tokens = <<>> /\ valid = TRUE /\ images = <<>>
    /\ told = <<>> /\ spans = <<>> /\ sure = TRUE /\ result = "none"

End(sp) == sp.start + sp.count
Cut(s, pos) == IF pos >= Len(s) THEN s ELSE SubSeq(s, 1, pos)

-----------------------------------------------------------------------------
(* libds4 *)

\* A sync of prompt with the spans given: images is none for a sync of text.
\* An interrupted one keeps the old checkpoint, but for the images if it is
\* one of text.
NativeSync(prompt, given, interrupted) ==
    /\ tokens' = IF interrupted THEN tokens ELSE prompt
    /\ valid' = (valid \/ ~interrupted)
    /\ images' = IF interrupted /\ given # <<>> THEN images ELSE given

\* ds4_session_sync_multimodal takes spans that ascend and lie in the prompt.
SpansFit(prompt, given) ==
    \A k \in DOMAIN given :
        /\ given[k].count > 0
        /\ given[k].start >= (IF k = 1 THEN 0 ELSE End(given[k - 1]))
        /\ End(given[k]) <= Len(prompt)

-----------------------------------------------------------------------------
(* Syncs *)

\* SyncMultimodalWithCancel, which is SyncTokensWithCancel without spans.
SyncPrompt(p, interrupted) ==
    /\ SpansFit(p.tokens, p.spans)
    /\ NativeSync(p.tokens, p.spans, interrupted)
    /\ sure' = ~interrupted
    /\ IF interrupted
       THEN result' = "interrupted" /\ UNCHANGED <<told, spans>>
       ELSE result' = "synced" /\ told' = p.tokens /\ spans' = p.spans

\* Spans that libds4 refuses: nothing happens.
SyncRefused(p) ==
    /\ ~SpansFit(p.tokens, p.spans)
    /\ result' = "refused"
    /\ UNCHANGED <<tokens, valid, images, told, spans, sure>>

-----------------------------------------------------------------------------
(* Decoding *)

\* Eval of a token that was drawn; without a checkpoint none is (-1).
Eval(t) ==
    /\ valid /\ Len(tokens) < MaxText
    /\ tokens' = Append(tokens, t) /\ told' = Append(told, t)
    /\ result' = "evaluated"
    /\ UNCHANGED <<valid, images, spans, sure>>

\* EvalSpeculative and EvalSpeculativeArgmax: the token that was drawn and what
\* libds4 accepts after it.  The program is told all that the session holds.
EvalSpeculative(block) ==
    /\ valid /\ Len(tokens) + Len(block) <= MaxText
    /\ tokens' = tokens \o block /\ told' = told \o block
    /\ result' = "evaluated"
    /\ UNCHANGED <<valid, images, spans, sure>>

\* Argmax, Sample, Eval without a checkpoint: an error.
DrawFails ==
    /\ ~valid
    /\ result' = "no checkpoint"
    /\ UNCHANGED <<tokens, valid, images, told, spans, sure>>

Invalidate ==
    /\ valid' = FALSE
    /\ result' = "none"
    /\ UNCHANGED <<tokens, images, told, spans, sure>>

-----------------------------------------------------------------------------
(* Rewinding *)

\* ds4_session_rewind: nothing at or past the end; before it the checkpoint is
\* cut as well, if libds4 can.
Cutting(pos) == pos < Len(tokens)
Keeps(pos, can) == valid /\ (Cutting(pos) => can)

\* Spans ascend, so that those before a place, or up to it, are the first ones.
FirstSpans(ks) == SubSeq(spans, 1, Max({0} \cup ks))

\* What the program takes to be left.
Leaves(n) ==
    /\ told' = Cut(told, n)
    /\ spans' = FirstSpans({k \in DOMAIN spans : spans[k].start < n})

Rewind(pos, can) ==
    /\ tokens' = Cut(tokens, pos) /\ valid' = Keeps(pos, can)
    /\ Leaves(pos)
    /\ result' = "none"
    /\ UNCHANGED <<images, sure>>

\* A variant of RewindSynced: it does not ask whether there is a checkpoint.
RewindUnsynced(pos, can, interrupted) ==
    /\ tokens' = Cut(tokens, pos) /\ valid' = Keeps(pos, can)
    /\ Leaves(pos)
    /\ result' = "rewound"
    /\ UNCHANGED <<images, sure>>

\* The spans inside the n tokens that are left, and one that straddles the end.
KeptSpans(n) == FirstSpans({k \in DOMAIN spans : End(spans[k]) <= n})
Straddled(n) == \E k \in DOMAIN spans : spans[k].start < n /\ n < End(spans[k])

\* RewindSynced.  Rewind, and if what is left is no longer the common prefix of
\* itself and the checkpoint a sync of it, which a persistent cancel callback
\* may interrupt.
RewindSynced(pos, can, interrupted) ==
    LET left == Cut(tokens, pos)
        n == Len(left)
        common == IF Keeps(pos, can) THEN n ELSE 0
    IN  /\ Leaves(pos)
        /\ tokens' = left
        /\ \/ /\ common = n
              /\ valid' = Keeps(pos, can) /\ result' = "rewound"
              /\ UNCHANGED <<images, sure>>
           \/ /\ common # n /\ Straddled(n)
              /\ valid' = FALSE /\ result' = "split"
              /\ UNCHANGED <<images, sure>>
           \/ /\ common # n /\ ~Straddled(n)
              /\ valid' = ~interrupted /\ sure' = ~interrupted
              /\ images' = IF interrupted /\ KeptSpans(n) # <<>> THEN images ELSE KeptSpans(n)
              /\ result' = IF interrupted THEN "interrupted" ELSE "rebuilt"

-----------------------------------------------------------------------------
(* Images *)

\* ds4_session_vision_prefix_matches, of a session with a checkpoint: the
\* images it has are unchanged, and others come after its tokens.
VisionPrefixMatches(given) ==
    /\ valid
    /\ IsPrefix(images, given)
    /\ \A k \in (Len(images) + 1)..Len(given) : given[k].start >= Len(tokens)

-----------------------------------------------------------------------------
CheckpointNext ==
    \/ \E p \in Prompts : SyncRefused(p) \/ \E b \in BOOLEAN : SyncPrompt(p, b)
    \/ \E t \in {"t", "u"} : Eval(t)
    \/ \E n \in 1..MaxBlock : EvalSpeculative([k \in 1..n |-> IF k = 1 THEN "t" ELSE "u"])
    \/ \E pos \in 0..(Len(tokens) + 1), can, interrupted \in BOOLEAN :
          Rewind(pos, can) \/ RewindSynced(pos, can, interrupted)
    \/ DrawFails \/ Invalidate

CheckpointSpec == CheckpointInit /\ [][CheckpointNext]_sessionVars

-----------------------------------------------------------------------------
(* Properties *)

\* A session that can go on holds what its program takes it to hold, whatever
\* was synced, drawn, cut or interrupted before: the same tokens, and of each
\* image wholly among them the identity.  RewindSynced "restores a valid
\* checkpoint for the retained prefix" (session.go:600) with exactly the images
\* in it, and the session can be continued with the spans that are left.
CheckpointOfTheText ==
    /\ tokens = told
    /\ sure /\ valid =>
          \A k \in DOMAIN spans : End(spans[k]) <= Len(tokens) => spans[k] \in ToSet(images)
    /\ result = "rewound" => valid \/ tokens = <<>>
    /\ result = "rebuilt" => images = spans /\ SpansFit(tokens, images)
    /\ result \in {"synced", "rebuilt"} => VisionPrefixMatches(spans)
=============================================================================
