---------------------------- MODULE ProcessHolders ----------------------------
(***************************************************************************)
(* Who is using the library or a model (internal/install): the output of   *)
(* lsof is read into processes and their files, and for models the answer  *)
(* is joined with the PIDs that hold the engine run locks.                 *)
(*                                                                         *)
(* A line of `lsof -F pfnc` is a record: "p" a process, "c" its command,   *)
(* "n" a file, "f" a descriptor, which nobody looks at.  A file is         *)
(* [dir, name], and name "lock" a run lock.                                *)
(***************************************************************************)
EXTENDS Naturals, SequencesExt, FiniteSetsExt

NoPid == 0          \* a PID that is no number, or no process yet

\* The next process begins; one whose PID cannot be read takes its lines with it.
Begun(acc, pid) ==
    (IF Last(acc).pid = NoPid THEN Front(acc) ELSE acc)
        \o <<[pid |-> pid, name |-> "", files |-> <<>>]>>

\* parseLsofOutput: the processes so far, the current one last; then line by line.
ParsedLine(acc, line) ==
    LET cur == Last(acc) IN
    CASE line.k = "p" -> Begun(acc, line.v)
      [] line.k = "c" /\ cur.pid # NoPid -> Append(Front(acc), [cur EXCEPT !.name = line.v])
      [] line.k = "n" /\ cur.pid # NoPid ->
            Append(Front(acc), [cur EXCEPT !.files = Append(@, line.v)])
      [] OTHER -> acc
ParsedLsof(lines) ==
    LET acc == FoldLeft(ParsedLine, <<[pid |-> NoPid, name |-> "", files |-> <<>>]>>, lines)
    IN  IF Last(acc).pid = NoPid THEN Front(acc) ELSE acc

\* findDirHoldersLsof (findDirHoldersProc answers the same from /proc).  Both
\* compare with strings.HasPrefix, so that a directory beside it whose name only
\* begins with this one's counts as well: no file of the instance is in one.
DirHoldersLsof(dir, lines) ==
    {[pid |-> p.pid, files |-> {f \in ToSet(p.files) : f.dir = dir}] :
        p \in ToSet(ParsedLsof(lines))}

\* FindDirHolders: models whose run lock a process holds, and its other files.
\* holder is what GetLockHolder answers for each model with a run lock file.
FindDirHolders(dir, holder, lines) ==
    [pid \in ({holder[m] : m \in DOMAIN holder} \ {NoPid})
                 \cup {p.pid : p \in {q \in DirHoldersLsof(dir, lines) : q.files # {}}} |->
        {[dir |-> dir, name |-> m] : m \in {n \in DOMAIN holder : holder[n] = pid}}
        \cup {f \in UNION {p.files : p \in {q \in DirHoldersLsof(dir, lines) : q.pid = pid}} :
                  f.name # "lock"}]

\* Status: the processes that have the library, and the models each has open.
Status(lines, models) ==
    {[pid |-> p.pid, engine |-> IF p.pid \in DOMAIN models THEN models[p.pid] ELSE {}] :
        p \in ToSet(ParsedLsof(lines))}

-----------------------------------------------------------------------------
(* What it should answer *)

\* The output that describes processes with their open files: unreadable marks a
\* process whose PID lsof garbled.
Printed(world) ==
    FlattenSeq([i \in DOMAIN world |->
        << [k |-> "p", v |-> IF world[i].unreadable THEN NoPid ELSE world[i].pid],
           [k |-> "c", v |-> world[i].name] >>
        \o FlattenSeq([j \in DOMAIN world[i].files |->
              << [k |-> "f", v |-> ""], [k |-> "n", v |-> world[i].files[j]] >>])])

\* Every process that can be read is reported, with its own files in the
\* directory and the models it has locked, and nobody else's.
HoldersFound(dir, holder, world) ==
    LET found == FindDirHolders(dir, holder, Printed(world))
        readable == {i \in DOMAIN world : ~world[i].unreadable}
        Open(pid) == UNION {ToSet(world[i].files) : i \in {j \in readable : world[j].pid = pid}}
        Has(pid) == {[dir |-> dir, name |-> m] : m \in {n \in DOMAIN holder : holder[n] = pid}}
                    \cup {f \in Open(pid) : f.dir = dir /\ f.name # "lock"}
    IN  /\ \A pid \in {world[i].pid : i \in DOMAIN world} :
              Has(pid) = IF pid \in DOMAIN found THEN found[pid] ELSE {}
        /\ Status(Printed(world), found) =
              {[pid |-> pid, engine |-> Has(pid)] : pid \in {world[i].pid : i \in readable}}
=============================================================================
