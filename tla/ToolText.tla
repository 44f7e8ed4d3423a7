------------------------------ MODULE ToolText ------------------------------
(***************************************************************************)
(* A text within the tags of a tool call (dsml/tooltext.go).  Only what    *)
(* reads as the tag that closes it is escaped, and what reads as that tag  *)
(* escaped: anything else, other entities included, is the text itself.    *)
(*                                                                         *)
(* A text is a sequence of pieces; <<"<", "/p>">> is the tag that closes a *)
(* value, in whatever grammar.                                             *)
(***************************************************************************)
EXTENDS Naturals, SequencesExt

Tags == INSTANCE Markup

End == <<"<", "/p>">>

\* toolTextEscapedClose: "&", any number of "amp;", and the rest of the tag.
EscapedClose(s) ==
    \E n \in 0..Len(s) :
        IsPrefix(<<"&">> \o [i \in 1..n |-> "amp;"] \o <<"lt;", "/p>">>, s)

EscapedPiece(s, i) ==
    CASE IsPrefix(End, Tags!From(s, i)) -> <<"&", "lt;">>
      [] EscapedClose(Tags!From(s, i)) -> <<"&", "amp;">>
      [] OTHER -> <<s[i]>>
escapeToolText(s) == FlattenSeq([i \in DOMAIN s |-> EscapedPiece(s, i)])

\* One level back.
OneLevel(piece) == IF piece = "amp;" THEN "&" ELSE "<"
UnescapedPiece(s, i) ==
    CASE EscapedClose(Tags!From(s, i)) -> <<OneLevel(s[i + 1])>>
      [] i > 1 /\ EscapedClose(Tags!From(s, i - 1)) -> <<>>
      [] OTHER -> <<s[i]>>
unescapeToolText(s) == FlattenSeq([i \in DOMAIN s |-> UnescapedPiece(s, i)])

-----------------------------------------------------------------------------
\* A text comes back as it was, whatever it quotes, tags that were escaped before
\* among it, and while it is escaped nothing in it closes the value.
TextKept(s) ==
    /\ unescapeToolText(escapeToolText(s)) = s
    /\ Tags!At(escapeToolText(s), End) = 0
=============================================================================
