--------------------------- MODULE LibraryInstall ---------------------------
(***************************************************************************)
(* The library directory of internal/install: the library itself, the      *)
(* ".sha256" sidecar that ds4api checks before it loads the library, and   *)
(* the metadata file.  `ds4go install`, `install --pin` and `uninstall`    *)
(* change the three without a lock, so the steps of several processes mix, *)
(* and each of them may die anywhere.                                      *)
(*                                                                         *)
(* A version stands for the bytes of a release asset or of a pinned file,  *)
(* and for their hash.                                                     *)
(***************************************************************************)
CONSTANTS Procs, Versions,
          None,       \* no such file
          Torn        \* a file truncated and not yet written

ASSUME InstallAssumption ==
    /\ None # Torn
    /\ {None, Torn} \cap [v : Versions, whole : BOOLEAN] = {}
    /\ {None, Torn} \cap [v : Versions, whole : BOOLEAN, by : Procs] = {}
    /\ {None, Torn} \cap [kind : {"release", "pinned"}, v : Versions,
                          sha : [v : Versions, whole : BOOLEAN]] = {}

VARIABLES lib,        \* the library: its bytes, whether all are there, who is writing it
          sidecar,    \* the hash in the sidecar
          meta,       \* the metadata
          pc,         \* step of each process
          job,        \* what each process was called to do
          over,       \* whether the process may replace a library
          seen,       \* the hash it read, to record it
          found,      \* the files it saw, to remove them
          disturbed   \* since the last start two processes overlapped, or a write failed

vars == <<lib, sidecar, meta, pc, job, over, seen, found, disturbed>>
dir == <<lib, sidecar, meta>>

Jobs == [op : {"install", "pin"}, v : Versions, force : BOOLEAN]
            \cup [op : {"uninstall"}, v : {None}, force : BOOLEAN]
NoJob == [op |-> "none", v |-> None, force |-> FALSE]

Files == {"lib", "sidecar", "meta"}
Hashes == [v : Versions, whole : BOOLEAN]   \* a part of a library has another hash
Hash == [v |-> lib.v, whole |-> lib.whole]
Busy == {"look", "resolve", "fetch", "write", "fill", "hash", "clear", "record", "meta",
         "describe", "remove1", "remove2", "remove3"}

TypeOK ==
    /\ lib = None \/ lib \in [v : Versions, whole : BOOLEAN, by : Procs]
    /\ sidecar \in Hashes \cup {None, Torn}
    /\ \/ meta \in {None, Torn}
       \/ meta \in [kind : {"release", "pinned"}, v : Versions, sha : Hashes]
    /\ pc \in [Procs -> Busy \cup {"idle", "already", "done"}]
    /\ job \in [Procs -> Jobs \cup {NoJob}]
    /\ \A p \in Procs : job[p] = NoJob <=> pc[p] = "idle"
    /\ over \in [Procs -> BOOLEAN]
    /\ seen \in [Procs -> Hashes \cup {None}]
    /\ found \in [Procs -> SUBSET Files]
    /\ disturbed \in BOOLEAN

Init ==
    /\ lib = None /\ sidecar = None /\ meta = None
    /\ pc = [p \in Procs |-> "idle"]
    /\ job = [p \in Procs |-> NoJob]
    /\ over = [p \in Procs |-> FALSE]
    /\ seen = [p \in Procs |-> None]
    /\ found = [p \in Procs |-> {}]
    /\ disturbed = FALSE

Goto(p, l) == pc' = [pc EXCEPT ![p] = l]

\* The function returns an error, or the process dies: it forgets everything.
Forget(p) ==
    /\ Goto(p, "idle")
    /\ job' = [job EXCEPT ![p] = NoJob]
    /\ over' = [over EXCEPT ![p] = FALSE]
    /\ seen' = [seen EXCEPT ![p] = None]
    /\ found' = [found EXCEPT ![p] = {}]
    /\ UNCHANGED disturbed

Fail(p) == Forget(p) /\ UNCHANGED dir

\* Run, runPin or Uninstall is called.
Start(p) ==
    /\ pc[p] = "idle"
    /\ \E j \in Jobs : job' = [job EXCEPT ![p] = j]
    /\ disturbed' = \E q \in Procs \ {p} : pc[q] # "idle"
    /\ Goto(p, "look")
    /\ UNCHANGED <<dir, over, seen, found>>

Pinned == meta \notin {None, Torn} /\ meta.kind = "pinned"

Proceed(p, o) ==
    /\ over' = [over EXCEPT ![p] = o]
    /\ job' = [job EXCEPT ![p].force = FALSE]     \* it has had its effect
    /\ Goto(p, "fetch")
    /\ UNCHANGED <<dir, seen, found, disturbed>>

\* The question on a terminal: the user agrees or does not.  Without one there
\* is only --force.
Confirmed(p) == Proceed(p, TRUE) \/ Fail(p)

\* Run: a pinned library refuses a release without --force, before the network
\* is asked for anything.
LookInstall(p) ==
    /\ pc[p] = "look" /\ job[p].op = "install"
    /\ \/ Pinned /\ ~job[p].force /\ Fail(p)
       \/ /\ ~Pinned \/ job[p].force
          /\ Goto(p, "resolve")
          /\ UNCHANGED <<dir, job, over, seen, found, disturbed>>

\* The asset is known, or is not to be found.  The version that is there already
\* is left; another one needs --force or an answer.
Resolve(p) ==
    /\ pc[p] = "resolve"
    /\ \/ Fail(p)
       \/ job[p].force /\ Proceed(p, TRUE)
       \/ ~job[p].force /\ lib = None /\ Proceed(p, FALSE)
       \/ /\ ~job[p].force /\ lib # None
          /\ IF meta \notin {None, Torn} /\ meta.kind = "release" /\ meta.v = job[p].v
                   /\ Hash = meta.sha
             THEN Goto(p, "already") /\ UNCHANGED <<dir, job, over, seen, found, disturbed>>
             ELSE Confirmed(p)

\* decidePinOverwrite: the metadata counts only where there is a library.
LookPin(p) ==
    /\ pc[p] = "look" /\ job[p].op = "pin"
    /\ LET f == job[p].force IN
       \/ lib = None /\ Proceed(p, FALSE)
       \/ lib # None /\ f /\ Proceed(p, TRUE)
       \/ lib # None /\ ~f /\ Pinned /\ Fail(p)
       \/ lib # None /\ ~f /\ ~Pinned /\ Confirmed(p)

\* The asset is downloaded and its digest compared (a pinned file is only
\* opened): a failure ends the run, nothing has been written.
Fetch(p) ==
    /\ pc[p] = "fetch"
    /\ \/ Fail(p)
       \/ /\ Goto(p, "write")
          /\ UNCHANGED <<dir, job, over, seen, found, disturbed>>

\* A variant of Replace: the library is truncated and filled where it is.
ReplaceInPlace(p) ==
    /\ pc[p] = "write" /\ over[p]
    /\ lib' = [v |-> job[p].v, whole |-> FALSE, by |-> p]
    /\ Goto(p, "fill")
    /\ over' = [over EXCEPT ![p] = FALSE]
    /\ UNCHANGED <<sidecar, meta, job, seen, found, disturbed>>

\* writeFile with force: a temporary file takes the library's place.
Replace(p) ==
    /\ pc[p] = "write" /\ over[p]
    /\ lib' = [v |-> job[p].v, whole |-> TRUE, by |-> p]
    /\ Goto(p, "hash")
    /\ over' = [over EXCEPT ![p] = FALSE]
    /\ UNCHANGED <<sidecar, meta, job, seen, found, disturbed>>

\* A variant of CreateExclusive: the existence check without O_EXCL.
CreateAnyway(p) ==
    /\ pc[p] = "write" /\ ~over[p]
    /\ lib' = [v |-> job[p].v, whole |-> FALSE, by |-> p]
    /\ Goto(p, "fill")
    /\ over' = [over EXCEPT ![p] = FALSE]
    /\ UNCHANGED <<sidecar, meta, job, seen, found, disturbed>>

\* writeFile without: the file must not exist, and is filled where it is.
CreateExclusive(p) ==
    /\ pc[p] = "write" /\ ~over[p]
    /\ \/ lib # None /\ Fail(p)
       \/ /\ lib = None
          /\ lib' = [v |-> job[p].v, whole |-> FALSE, by |-> p]
          /\ Goto(p, "fill")
          /\ UNCHANGED <<sidecar, meta, job, over, seen, found, disturbed>>

\* The last bytes; if the name is another file's by now they do not count.
Fill(p) ==
    /\ pc[p] = "fill"
    /\ lib' = IF lib # None /\ lib.by = p /\ ~lib.whole
              THEN [lib EXCEPT !.whole = TRUE] ELSE lib
    /\ Goto(p, "hash")
    /\ UNCHANGED <<sidecar, meta, job, over, seen, found, disturbed>>

\* A variant of HashLibrary: a sidecar that is there is kept.
HashLibraryOnce(p) ==
    /\ pc[p] \in {"hash", "meta"}
    /\ seen' = [seen EXCEPT ![p] = IF lib = None THEN None ELSE Hash]
    /\ Goto(p, IF pc[p] = "hash"
               THEN IF lib = None \/ sidecar # None THEN "meta" ELSE "clear"
               ELSE IF lib = None THEN "done" ELSE "describe")
    /\ UNCHANGED <<dir, job, over, found, disturbed>>

\* fileSHA256 of whatever has the library's name now; none is a warning.
HashLibrary(p) ==
    /\ pc[p] \in {"hash", "meta"}
    /\ seen' = [seen EXCEPT ![p] = IF lib = None THEN None ELSE Hash]
    /\ Goto(p, IF pc[p] = "hash" THEN IF lib = None THEN "meta" ELSE "clear"
               ELSE IF lib = None THEN "done" ELSE "describe")
    /\ UNCHANGED <<dir, job, over, found, disturbed>>

\* writeLibraryChecksum: os.WriteFile truncates and then writes; a failure is
\* a warning, and the old text or an empty file stays.
ClearSidecar(p) ==
    /\ pc[p] = "clear"
    /\ \/ /\ sidecar' = Torn
          /\ Goto(p, "record")
          /\ UNCHANGED disturbed
          /\ UNCHANGED seen
       \/ /\ Goto(p, "meta")
          /\ disturbed' = TRUE
          /\ seen' = [seen EXCEPT ![p] = None]
          /\ UNCHANGED sidecar
    /\ UNCHANGED <<lib, meta, job, over, found>>

\* A write that fails after the truncation leaves the file empty.
WriteSidecar(p) ==
    /\ pc[p] = "record"
    /\ \/ sidecar' = seen[p] /\ UNCHANGED disturbed
       \/ disturbed' = TRUE /\ UNCHANGED sidecar
    /\ seen' = [seen EXCEPT ![p] = None]
    /\ Goto(p, "meta")
    /\ UNCHANGED <<lib, meta, job, over, found>>

\* The metadata, written the same way, truncation and write in one step each.
WriteMetadata(p) ==
    /\ pc[p] = "describe"
    /\ \/ /\ meta # Torn
          /\ meta' = Torn
          /\ UNCHANGED <<pc, seen, disturbed>>
       \/ /\ meta = Torn
          /\ meta' = [kind |-> IF job[p].op = "pin" THEN "pinned" ELSE "release",
                      v |-> job[p].v, sha |-> seen[p]]
          /\ Goto(p, "done")
          /\ seen' = [seen EXCEPT ![p] = None]
          /\ UNCHANGED disturbed
       \/ /\ Goto(p, "done")
          /\ seen' = [seen EXCEPT ![p] = None]
          /\ disturbed' = TRUE
          /\ UNCHANGED meta
    /\ UNCHANGED <<lib, sidecar, job, over, found>>

\* Uninstall looks which of the files exist, and asks unless forced.
LookUninstall(p) ==
    /\ pc[p] = "look" /\ job[p].op = "uninstall"
    /\ LET there == {f \in Files : CASE f = "lib" -> lib # None
                                    [] f = "sidecar" -> sidecar # None
                                    [] f = "meta" -> meta # None}
       IN \/ /\ there # {}
             /\ found' = [found EXCEPT ![p] = there]
             /\ job' = [job EXCEPT ![p].force = FALSE]
             /\ Goto(p, "remove1")
             /\ UNCHANGED <<dir, over, seen, disturbed>>
          \/ /\ there = {}
             /\ Goto(p, "done")
             /\ UNCHANGED <<dir, job, over, seen, found, disturbed>>
          \/ there # {} /\ ~job[p].force /\ Fail(p)

Removed(p, f, file) == IF f \in found[p] THEN None ELSE file
Dealt(p, f) == found' = [found EXCEPT ![p] = @ \ {f}]

\* The removals, in this order.
RemoveFile(p) ==
    /\ \/ /\ pc[p] = "remove1" /\ Goto(p, "remove2") /\ Dealt(p, "lib")
          /\ lib' = Removed(p, "lib", lib)
          /\ UNCHANGED <<sidecar, meta>>
       \/ /\ pc[p] = "remove2" /\ Goto(p, "remove3") /\ Dealt(p, "sidecar")
          /\ sidecar' = Removed(p, "sidecar", sidecar)
          /\ UNCHANGED <<lib, meta>>
       \/ /\ pc[p] = "remove3" /\ Goto(p, "done") /\ Dealt(p, "meta")
          /\ meta' = Removed(p, "meta", meta)
          /\ UNCHANGED <<lib, sidecar>>
    /\ UNCHANGED <<job, over, seen, disturbed>>

\* A file that cannot be removed does not keep the others: the next removal
\* follows, and the command fails in the end.
CannotRemove(p) ==
    /\ pc[p] \in {"remove1", "remove2"}
    /\ \/ pc[p] = "remove1" /\ Goto(p, "remove2") /\ Dealt(p, "lib")
       \/ pc[p] = "remove2" /\ Goto(p, "remove3") /\ Dealt(p, "sidecar")
    /\ disturbed' = TRUE
    /\ UNCHANGED <<dir, job, over, seen>>

\* The command has succeeded, and its process ends.
Finish(p) == pc[p] \in {"already", "done"} /\ Forget(p) /\ UNCHANGED dir

Crash(p) == pc[p] \in Busy /\ Fail(p)

Next == \E p \in Procs :
    \/ Start(p) \/ LookInstall(p) \/ Resolve(p) \/ LookPin(p) \/ Fetch(p)
    \/ Replace(p) \/ CreateExclusive(p) \/ Fill(p)
    \/ HashLibrary(p) \/ ClearSidecar(p) \/ WriteSidecar(p) \/ WriteMetadata(p)
    \/ LookUninstall(p) \/ RemoveFile(p) \/ CannotRemove(p)
    \/ Finish(p) \/ Crash(p)

InstallSpec == Init /\ [][Next]_vars

-----------------------------------------------------------------------------
(* Who reads the directory *)

\* ds4api.verifyChecksumSidecar: a sidecar with text must name the library's
\* hash; no sidecar, or an empty one, does not hinder the load.
LoaderAccepts == lib # None /\ sidecar \in {None, Torn, Hash}

\* install.Validate is stricter: it takes an empty sidecar for a mismatch, and
\* metadata it can read must name the hash as well.
Validates ==
    /\ LoaderAccepts /\ sidecar # Torn
    /\ meta \notin {None, Torn} => meta.sha = Hash

-----------------------------------------------------------------------------
(* Properties *)

\* A complete library is replaced by a complete one or removed; a process that
\* loads it never maps half of an update.  This is what writeFile does and says
\* ("A rename installs the new inode atomically", install.go:1114-1119).  The
\* comment of copyFile, through which a pinned file gets there, still tells of
\* the older way: "the existing dst is truncated" (install.go:530-531).
ReplacedAtomically ==
    [][lib # None /\ lib.whole /\ lib' # None => lib'.whole]_lib

\* Nobody replaces a library without --force or the user's yes, not even one
\* that appeared while the asset was downloading.
UnaskedKeeps ==
    [][lib # None /\ lib' # None /\ lib'.by # lib.by => over[lib'.by]]_vars

\* A command that installs leaves a whole library of the version asked for that
\* validates and so loads, and metadata that describe it; one that uninstalls
\* leaves nothing.  The exceptions are commands that overlap with another or
\* cannot write: what earlier ones left, however they ended, does not count.
DoneIsLoadable ==
    \A p \in Procs : pc[p] = "done" /\ ~disturbed =>
        IF job[p].op = "uninstall" THEN lib = None /\ sidecar = None /\ meta = None
        ELSE /\ Validates /\ lib.whole /\ lib.v = job[p].v
             /\ meta # Torn /\ meta.v = job[p].v /\ meta.sha = Hash

\* What Run calls "already installed and matches checksum" (install.go:207) can
\* be loaded.  Two commands that died are enough to refute it: Run compares the
\* library with the metadata, the loader with the sidecar.
AlreadyIsLoadable ==
    \A p \in Procs : pc[p] = "already" /\ ~disturbed => LoaderAccepts
=============================================================================
