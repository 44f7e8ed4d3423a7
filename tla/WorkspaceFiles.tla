---------------------------- MODULE WorkspaceFiles ----------------------------
(***************************************************************************)
(* What the editing and reading tools of a workspace answer                *)
(* (workspacetool's edit.go, read.go): where an edit goes, and which lines *)
(* read and more show.                                                     *)
(***************************************************************************)
EXTENDS Naturals, SequencesExt, FiniteSetsExt

-----------------------------------------------------------------------------
(* edit: texts are sequences of symbols, two of which mean something *)

Upto == "[upto]"
NewLine == "\n"

\* strings.Index, strings.Contains: where needle begins in data, from 0.
Occurs(data, needle) ==
    {p \in 0..Len(data) : p + Len(needle) <= Len(data) /\ SubSeq(data, p + 1, p + Len(needle)) = needle}

Past(data, p) == SubSeq(data, p + 1, Len(data))

\* findUnique: the place of the needle, if it is not found again further on.
FindUnique(data, needle) ==
    {p \in Occurs(data, needle) :
        /\ \A q \in Occurs(data, needle) : p <= q
        /\ Occurs(Past(data, p + Len(needle)), needle) = {}}

NewLines(text) == \A x \in Range(text) : x = NewLine
TrimLeft(text) == Past(text, Max({n \in 0..Len(text) : NewLines(SubSeq(text, 1, n))}))

HeadOf(old) == SubSeq(old, 1, SelectInSeq(old, LAMBDA x : x = Upto) - 1)
TailOf(old) == TrimLeft(Past(old, Len(HeadOf(old)) + 1))

\* findEditSpan: the one span to replace, from and to, or none and an error.
FindEditSpan(data, old) ==
    IF Upto \notin Range(old)
    THEN {<<p, p + Len(old)>> : p \in FindUnique(data, old)}
    ELSE LET head == HeadOf(old)
             tail == TailOf(old)
             From(h) == h + Len(head)
         IN IF Upto \in Range(tail) \/ NewLines(head) \/ NewLines(tail)
            THEN {}
            ELSE UNION {{<<h, From(h) + t + Len(tail)>> : t \in FindUnique(Past(data, From(h)), tail)} :
                        h \in FindUnique(data, head)}

\* EditTool's handler: the file after the edit, or as it was.
Edit(data, old, new) ==
    LET spans == IF old = <<>> THEN {} ELSE FindEditSpan(data, old) IN
    IF spans = {} THEN data
    ELSE LET s == CHOOSE s \in spans : TRUE IN SubSeq(data, 1, s[1]) \o new \o Past(data, s[2])

-----------------------------------------------------------------------------
(* read and more: a line is the size it is shown with, or one of two that end *)
(* the read; a raw line is shorter by its number.                             *)

Nul == 0        \* a line of a binary file
Huge == 100     \* longer than the reader's buffer and than MaxReadBytes
Heading == 1     \* what is written above the lines

NoMore == [valid |-> FALSE]
Bytes(lines, raw) == FoldSeq(LAMBDA x, n : IF raw THEN x + n - 1 ELSE x + n, 0, lines)

\* A call that fails either leaves what more would continue or has cleared it.
Refused(clears) == [ok |-> FALSE, clears |-> clears]

\* readRange: it looks one line past those it shows.  What it shows is the
\* numbers of the lines, in "shown".
ReadRange(file, start, max, raw, limit) ==
    LET last == Min({start + max - 1, Len(file)})
        looked == SubSeq(file, 1, Min({start + max, Len(file)}))
        wanted == SubSeq(file, start, last)
    IN IF Range(looked) \cap {Nul, Huge} # {} \/ Bytes(wanted, raw) > limit
       THEN Refused(FALSE)
       ELSE [ok |-> TRUE, shown |-> [i \in 1..Len(wanted) |-> start + i - 1],
             more |-> IF start + max <= Len(file)
                      THEN [valid |-> TRUE, next |-> start + Len(wanted), raw |-> raw]
                      ELSE NoMore]

\* readWhole: the size of the file is looked at before more is cleared, that of
\* the text with its numbers after it.
ReadWhole(file, raw, limit) ==
    IF Range(file) \cap {Nul, Huge} # {} \/ Bytes(file, TRUE) > limit
    THEN Refused(FALSE)
    ELSE IF ~raw /\ Heading + Bytes(file, FALSE) > limit
    THEN Refused(TRUE)
    ELSE [ok |-> TRUE, shown |-> [i \in 1..Len(file) |-> i], more |-> NoMore]

\* The session so far: what more would continue, the lines shown by the last read
\* and the calls of more after it, beginning at from, and whether a whole read
\* that showed nothing has cleared more since.
Fresh == [more |-> NoMore, from |-> 1, seen |-> <<>>, cleared |-> FALSE]

Answered(session, from, seen, result) ==
    IF result.ok
    THEN [more |-> result.more, from |-> from, seen |-> seen \o result.shown, cleared |-> FALSE]
    ELSE IF result.clears THEN [session EXCEPT !.more = NoMore, !.cleared = TRUE]
    ELSE session

\* One call of a tool: ReadTool, with whole or a start and a count, MoreTool.
Called(session, c, file, limit) ==
    CASE c.tool = "more" ->
            IF session.more.valid
            THEN Answered(session, session.from, session.seen,
                          ReadRange(file, session.more.next, c.count, session.more.raw, limit))
            ELSE session
      [] c.tool = "read" ->
            Answered(session, c.start, <<>>, ReadRange(file, c.start, c.count, c.raw, limit))
      [] c.tool = "whole" -> Answered(session, 1, <<>>, ReadWhole(file, c.raw, limit))

-----------------------------------------------------------------------------
(* What the tools promise *)

\* "Replace exactly one old text match": an edit replaces the text there is
\* just one of, and does nothing when there is none or when there are two that
\* do not overlap.  (Of two that overlap the code replaces the first.)
EditsTheMatch(data, old, new) ==
    LET places == Occurs(data, old)
        result == Edit(data, old, new)
        Replaced(p, n) == SubSeq(data, 1, p) \o new \o Past(data, p + n)
        heads == Occurs(data, HeadOf(old))
        EndOf(h) == h + Len(HeadOf(old))
        tails(h) == {t \in Occurs(data, TailOf(old)) : t >= EndOf(h)}
    IN IF old = <<>> THEN result = data
       ELSE IF Upto \notin Range(old)
       THEN /\ Cardinality(places) = 1 => result = Replaced(Min(places), Len(old))
            /\ places = {} \/ (\E p, q \in places : p + Len(old) <= q) => result = data
       ELSE /\ Upto \in Range(TailOf(old)) => result = data
            /\ (\E p, q \in heads : p + Len(HeadOf(old)) <= q) => result = data
            /\ \A h \in heads : Cardinality(heads) = 1 =>
                  /\ tails(h) = {} \/ (\E t, u \in tails(h) : t + Len(TailOf(old)) <= u) => result = data
                  /\ /\ Cardinality(tails(h)) = 1 /\ ~NewLines(HeadOf(old)) /\ ~NewLines(TailOf(old))
                     /\ Upto \notin Range(TailOf(old))
                     => \A t \in tails(h) : result = Replaced(h, t + Len(TailOf(old)) - h)

\* The session after each of some calls.
SessionsAfter(file, calls, limit) ==
    LET after[k \in 0..Len(calls)] ==
            IF k = 0 THEN Fresh ELSE Called(after[k - 1], calls[k], file, limit)
    IN  after

\* However the calls of more cut a file up, and whichever of them fail, they
\* show each line from the start once and in order; more is there to call as
\* long as a line is left, and a call that failed can be made again.  It is not
\* after a whole read that is refused when its lines have got their numbers:
\* that one leaves nothing to continue, whatever was being read.
ReadsOn(file, calls, limit) ==
    LET session == SessionsAfter(file, calls, limit)[Len(calls)] IN
    /\ \A i \in DOMAIN session.seen : session.seen[i] = session.from + i - 1
    /\ session.more.valid => session.more.next = session.from + Len(session.seen)
    /\ session.seen # <<>> =>
          (session.more.valid <=> session.from + Len(session.seen) <= Len(file) /\ ~session.cleared)

-----------------------------------------------------------------------------
(* Files, edits and calls *)

Texts(xs, n) == UNION {[1..k -> xs] : k \in 0..n}

Edits(n) == [data : Texts({"a", "b"}, n) \cup Texts({"a", Upto}, n - 1),
             old : Texts({"a", "b", NewLine, Upto}, n - 1)]

ToolCalls ==
    [tool : {"more"}, count : {1, 3}]
    \cup [tool : {"read"}, start : {1, 3}, count : {1, 2}, raw : {FALSE}]
    \cup {[tool |-> "read", start |-> 1, count |-> 1, raw |-> TRUE]}
    \cup [tool : {"whole"}, raw : BOOLEAN]
Reads(n) == [file : Texts({2, 3, Nul, Huge}, n), calls : Texts(ToolCalls, n)]
=============================================================================
