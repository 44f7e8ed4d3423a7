----------------------------- MODULE PromptPrefix -----------------------------
(***************************************************************************)
(* A --prefix-file (prompt_prefix.go): the turns that a conversation is    *)
(* preloaded with.  A file is a sequence of pieces, and a marker, wherever *)
(* it stands, is one piece.                                                *)
(***************************************************************************)
EXTENDS Naturals, SequencesExt, FiniteSetsExt

BOM == "bom"
Nul == "nul"
NewLine == "\n"
Return == "\r"
Blanks == {" ", "\t"}

Error == << <<"error">> >>     \* no content is this

\* prefixMarkerAt
Marker(role) == IF role = "user" THEN "USER:" ELSE "ASSISTANT:"
MarkerAt(data, pos) == pos <= Len(data) /\ data[pos] \in {"USER:", "ASSISTANT:"}

Expected(turns) == IF Len(turns) % 2 = 0 THEN "user" ELSE "assistant"

\* The line of the next marker, or the place after the end.
NextTurn(data, from) ==
    Min({Len(data) + 1} \cup
        {i \in (from + 1)..Len(data) : data[i - 1] = NewLine /\ MarkerAt(data, i)})

\* The end of the line goes, a return only with it.
Trimmed(content) ==
    IF content = <<>> \/ Last(content) # NewLine THEN content
    ELSE LET line == Front(content) IN
         IF line # <<>> /\ Last(line) = Return THEN Front(line) ELSE line

RECURSIVE Turns(_, _, _)
Turns(data, pos, turns) ==
    LET start == IF pos < Len(data) /\ data[pos + 1] \in Blanks THEN pos + 2 ELSE pos + 1
        next == NextTurn(data, start)
        content == Trimmed(SubSeq(data, start, next - 1))
    IN  IF pos > Len(data) THEN turns
        ELSE IF ~MarkerAt(data, pos) \/ data[pos] # Marker(Expected(turns)) \/ content = <<>>
        THEN Error
        ELSE Turns(data, next, Append(turns, content))

\* ParsePromptPrefix: the contents of the turns, which alternate.
ParsePromptPrefix(data) ==
    LET text == IF data # <<>> /\ data[1] = BOM THEN Tail(data) ELSE data
        turns == Turns(text, 1, <<>>)
    IN  IF \/ text = <<>> \/ Nul \in Range(data)
           \/ turns = Error \/ Len(turns) % 2 = 1
        THEN Error ELSE turns

-----------------------------------------------------------------------------
(* What it should be *)

\* A file of these turns.
Written(turns, blank, eol, end, bom) ==
    (IF bom THEN <<BOM>> ELSE <<>>)
    \o FlattenSeq([i \in DOMAIN turns |->
           <<Marker(IF i % 2 = 1 THEN "user" ELSE "assistant")>> \o blank \o turns[i]
           \o (IF i < Len(turns) THEN eol ELSE end)])

MarkerLine(content) == \E i \in 2..Len(content) : content[i - 1] = NewLine /\ MarkerAt(content, i)

\* Contents that a file can hold: no line of them, after the first, begins with
\* a marker, and neither end is taken for what is around it.
Holds(content, blank, eol) ==
    /\ content # <<>> /\ Nul \notin Range(content)
    /\ ~MarkerLine(content)
    /\ content[1] \in Blanks => blank # <<>>
    /\ Last(content) = NewLine => eol # <<>>
    /\ Last(content) = Return => eol # <<NewLine>>

\* The turns of a file are read as they were written, with either end of line,
\* with or without the last one, a blank or a byte-order mark.
PrefixReadBack(turns, blank, eol, end, bom) ==
    (/\ turns # <<>> /\ Len(turns) % 2 = 0
     /\ \A i \in DOMAIN turns : Holds(turns[i], blank, IF i < Len(turns) THEN eol ELSE end))
    => ParsePromptPrefix(Written(turns, blank, eol, end, bom)) = turns

\* A file that is not refused is one of the turns it is read as: nothing in it
\* is passed over, and no marker of a turn taken for text.
NothingPassedOver(data) ==
    LET turns == ParsePromptPrefix(data) IN
    turns # Error =>
        /\ turns # <<>> /\ Len(turns) % 2 = 0
        /\ \A i \in DOMAIN turns : turns[i] # <<>> /\ ~MarkerLine(turns[i])
        /\ \E bom \in BOOLEAN, blanks \in [DOMAIN turns -> {<<>>} \cup {<<b>> : b \in Blanks}],
              ends \in [DOMAIN turns -> {<<>>, <<NewLine>>, <<Return, NewLine>>}] :
              data = (IF bom THEN <<BOM>> ELSE <<>>)
                     \o FlattenSeq([i \in DOMAIN turns |->
                            <<Marker(IF i % 2 = 1 THEN "user" ELSE "assistant")>>
                            \o blanks[i] \o turns[i] \o ends[i]])

-----------------------------------------------------------------------------
(* Files *)

Contents == { <<"a">>, <<" ">>, <<NewLine>>, <<"a", NewLine>>, <<"a", Return>>, <<Return, NewLine>>,
              <<"a", NewLine, " ", "USER:">>, <<"USER:", "a">>, <<" ", "a", NewLine, NewLine, "a">> }
Some == { <<"a">>, <<NewLine>>, <<"a", Return>> }
Ends == {<<NewLine>>, <<Return, NewLine>>}
Writings ==
    [turns : [1..2 -> Contents] \cup [1..4 -> Some], blank : {<<>>, <<" ">>},
     eol : Ends, end : Ends \cup {<<>>}, bom : BOOLEAN]
Texts(pieces, n) == UNION {[1..k -> pieces] : k \in 0..n}
Files == Texts({"a", " ", NewLine, Return, BOM, Nul, "USER:", "ASSISTANT:"}, 4)
         \cup Texts({"a", NewLine, "USER:", "ASSISTANT:"}, 7)
=============================================================================
