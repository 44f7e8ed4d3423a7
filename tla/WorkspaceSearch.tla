--------------------------- MODULE WorkspaceSearch ---------------------------
(***************************************************************************)
(* What the search tool of a workspace finds (workspacetool's search.go),  *)
(* and what it says it left.                                               *)
(***************************************************************************)
EXTENDS Naturals, SequencesExt, FiniteSetsExt

(* search: a node is a directory of entries, a file of lines that match or do *)
(* not, a link, or something a search skips *)

Git == 0    \* an entry named .git
Dir(entries) == [kind |-> "dir", entries |-> entries]
File(lines) == [kind |-> "file", lines |-> lines]
Link(to) == [kind |-> "link", to |-> to]
Skipped == [kind |-> "skipped"]     \* unreadable, large, binary, or not of the glob

\* searchFile: the lines around each match, none of them twice.
SearchFile(s, name, lines, q) ==
    LET Line(t, i) ==
            IF t.results >= q.max THEN [t EXCEPT !.truncated = TRUE]
            ELSE IF ~lines[i] THEN t
            ELSE LET from == Max({1, i - q.context, t.last + 1})
                     to == IF i + q.context > Len(lines) THEN Len(lines) ELSE i + q.context
                 IN [t EXCEPT !.results = @ + 1,
                              !.last = IF from <= to THEN to ELSE @,
                              !.shown = @ \o [k \in 1..(to + 1 - Min({from, to + 1})) |-> <<name, from + k - 1>>]]
    IN FoldLeft(Line, [s EXCEPT !.last = 0], [i \in 1..Len(lines) |-> i])

RECURSIVE SearchNode(_, _, _, _, _)
SearchNode(s, tree, node, depth, q) ==
    LET n == IF tree[node].kind = "link" /\ q.follow THEN tree[node].to ELSE node
        Entry(t, e) ==
            IF t.results >= q.max THEN [t EXCEPT !.truncated = TRUE]
            ELSE IF e = Git THEN t
            ELSE SearchNode(t, tree, e, depth + 1, q)
    IN CASE s.results >= q.max -> [s EXCEPT !.truncated = TRUE]
         [] s.results < q.max /\ depth > q.depth -> [s EXCEPT !.depthLimited = TRUE]
         [] s.results < q.max /\ depth <= q.depth ->
            CASE tree[n].kind = "file" -> SearchFile(s, n, tree[n].lines, q)
              [] tree[n].kind = "dir" ->
                    IF q.follow /\ n \in s.visited THEN s
                    ELSE FoldLeft(Entry, [s EXCEPT !.visited = @ \cup {n}], tree[n].entries)
              [] OTHER -> s

\* SearchTool's handler.
Search(tree, root, q) ==
    SearchNode([results |-> 0, shown |-> <<>>, last |-> 0, truncated |-> FALSE,
                depthLimited |-> FALSE, visited |-> {}], tree, root, 0, q)

-----------------------------------------------------------------------------
(* What it promises *)

\* The files under the root, whatever their depth.
Reached(tree, root, q) ==
    LET Target(n) == IF tree[n].kind = "link" /\ q.follow THEN tree[n].to ELSE n
        Below(ns) == ns \cup {Target(e) : e \in UNION {Range(tree[n].entries) \ {Git} :
                                                      n \in {m \in ns : tree[m].kind = "dir"}}}
        closure == FoldLeft(LAMBDA ns, i : Below(ns), {Target(root)}, [i \in 1..Cardinality(DOMAIN tree) |-> i])
    IN {n \in closure : tree[n].kind = "file"}

\* A search that says nothing of having stopped has shown every match there
\* is, through links and their cycles too; it shows no line that is not near a
\* match, and no line twice unless a link that it follows leads to the file.
SearchAccounts(tree, root, q) ==
    LET s == Search(tree, root, q)
        files == Reached(tree, root, q)
        matches == {<<f, i>> \in files \X (1..5) : i \in DOMAIN tree[f].lines /\ tree[f].lines[i]}
    IN /\ s.results <= q.max /\ (s.truncated => s.results = q.max)
       /\ ~s.truncated /\ ~s.depthLimited => matches \subseteq Range(s.shown)
       /\ \A x \in Range(s.shown) :
             \E m \in matches : m[1] = x[1] /\ x[2] <= m[2] + q.context /\ m[2] <= x[2] + q.context
       /\ (q.follow => \A n \in DOMAIN tree : tree[n].kind = "link" => tree[tree[n].to].kind = "dir")
          => IsInjective(s.shown)

-----------------------------------------------------------------------------
(* Trees *)

\* A directory 1 with another one, 2, two files and a link, which may lead back.
Trees ==
    {<<Dir(shape[1]), Dir(shape[2]), File(f), g, Link(to), File(h)>> :
        shape \in {<< <<2, 3, 4>>, <<5, 6>> >>, << <<5, 2, 3>>, <<Git, 6>> >>,
                   << <<4, Git, 3, 2, 5>>, <<6>> >>},
        f \in {<<TRUE, FALSE, TRUE>>, <<FALSE, FALSE, FALSE, TRUE>>},
        g \in {Skipped, File(<<TRUE>>)}, to \in 1..4,
        h \in {<<TRUE, TRUE>>, <<FALSE, TRUE, FALSE, FALSE, TRUE>>}}
Searches == [tree : Trees, q : [follow : BOOLEAN, context : 0..1, max : {1, 2, 9}, depth : {0, 1, 3}]]
=============================================================================
