---------------------------- MODULE ModelManager ----------------------------
(***************************************************************************)
(* The model manager of internal/models (manager.go, leftovers.go) used by *)
(* several processes: Set, Download, Delete, DeletePartial, and            *)
(* RemoveLeftovers on what Leftovers found.                                *)
(*                                                                         *)
(* A model is a file under its name, and perhaps a partial download next   *)
(* to it.  The default model is kept twice: the link models/ds4flash.gguf, *)
(* which is what an engine opens, and DefaultModel in ds4go.json, which is *)
(* what List reports.  Link and configuration are written one after the    *)
(* other under the state lock; a process may crash, or a write may fail,   *)
(* between any two of these writes.                                        *)
(*                                                                         *)
(* Nobody unlinks the file of the state lock, which makes it a mutex (see  *)
(* FileLock).  A download lock is the flock of a file: it is opened by its *)
(* name and locked a step later, and RemoveLeftovers unlinks it while it   *)
(* holds it.  Who has a lock file open has the one the name leads to, or   *)
(* one that has lost its name since.  (A missing lock file is created by   *)
(* who opens it, so one that is missing is like one that is idle.)         *)
(***************************************************************************)
CONSTANTS Procs,     \* processes, each with one operation at a time
          Models,    \* the catalog
          Eligible,  \* the models that are neither Optional nor Distributed
          None,      \* no model, no process, no file
          Named,     \* the lock file of a model that its name leads to
          Unnamed,   \* those that have lost their name, for each model
          Links,     \* what links the file system has: "hard", "symbolic"
          Kinds,     \* bound: the leftovers looked at, "partial" or "lock"
          May        \* bound: the operations a process is used for

ASSUME ModelManagerAssumption ==
    /\ Eligible \subseteq Models
    /\ None \notin Models
    /\ None \notin Procs
    /\ {None, Named} \cap Unnamed = {} /\ Named # None
    /\ Links \subseteq {"hard", "symbolic"}

Ops == {"none", "set", "download", "delete", "deletePartial", "leftovers"}

VARIABLES links,   \* the kind of link swapLinkAtomic makes: it never changes
          file,    \* the models installed under their names
          part,    \* the models with a partial download
          link,    \* the model whose data the default link leads to
          config,  \* DefaultModel in ds4go.json
          state,   \* the holder of the state lock
          fd,      \* the lock file of its model that a process has open
          op,      \* the operation a process is in
          obj,     \* the model the operation is about
          todo,    \* the leftovers still to remove
          pc,      \* what it does next
          torn     \* what left link and configuration half changed, unless
                   \* something has set both since: a crash or a failed
                   \* "write", or a "link" that could not be removed

files == <<file, part>>
default == <<link, config, torn>>
locks == <<state, fd>>
local == <<op, obj, todo, pc>>
vars == <<links, file, part, link, config, state, fd, op, obj, todo, pc, torn>>

\* What is done under the state lock.
Inside == {"swap", "save", "record", "hash", "remove", "removePart", "clear",
           "saveCleared", "next", "drop", "unlink", "close"}
PCs == Inside \cup {"idle", "trylock", "flock", "fetch", "wait", "done"}

\* What RemoveLeftovers removes: a partial download, or a lock file.
Items == [kind : Kinds, model : Models]

TypeOK ==
    /\ links \in Links
    /\ file \in SUBSET Models
    /\ part \in SUBSET Models
    /\ link \in Models \cup {None}
    /\ config \in Models \cup {None}
    /\ state \in Procs \cup {None}
    /\ fd \in [Procs -> Unnamed \cup {Named, None}]
    /\ op \in [Procs -> Ops]
    /\ obj \in [Procs -> Models \cup {None}]
    /\ todo \in [Procs -> SUBSET Items]
    /\ pc \in [Procs -> PCs]
    /\ torn \in {"no", "write", "link"}
    \* every section is under the state lock, every transfer under a download
    \* lock, and a process that is in no operation has no lock
    /\ \A p \in Procs :
          /\ pc[p] \in Inside => state = p
          /\ pc[p] = "fetch" => obj[p] # None /\ fd[p] # None
          /\ pc[p] = "idle" => state # p /\ fd[p] = None

Init ==
    /\ links \in Links
    /\ file = {} /\ part = {}
    /\ link = None /\ config = None /\ torn = "no"
    /\ state = None
    /\ fd = [p \in Procs |-> None]
    /\ op = [p \in Procs |-> "none"]
    /\ obj = [p \in Procs |-> None]
    /\ todo = [p \in Procs |-> {}]
    /\ pc = [p \in Procs |-> "idle"]

-----------------------------------------------------------------------------
(* What the manager reads *)

\* detectDefaultAlias reads the link, and only a symbolic link can be read.
Detected == IF links = "symbolic" THEN link ELSE None

\* The default of List: the configured one, else the one the link names.
Configured == IF config # None THEN config ELSE Detected

\* hasActiveDefaultLocked: List marks an installed model as the default.
Active == Configured \in file

-----------------------------------------------------------------------------
(* The start of an operation, before any lock *)

Goes(p, step) == pc' = [pc EXCEPT ![p] = step]

Begin(p, o, m, items, step) ==
    /\ pc[p] = "idle" /\ o \in May[p]
    /\ op' = [op EXCEPT ![p] = o]
    /\ obj' = [obj EXCEPT ![p] = m]
    /\ todo' = [todo EXCEPT ![p] = items]
    /\ Goes(p, step)
    /\ UNCHANGED <<links, files, default, locks>>

\* Set takes the state lock and looks at the model afterwards.
StartSet(p) == \E m \in Models : Begin(p, "set", m, {}, "wait")

\* Download returns at once when the model is installed.
StartDownload(p) ==
    \E m \in Models \ file : Begin(p, "download", m, {}, "trylock")

StartDelete(p) ==
    \E m \in file \cup part : Begin(p, "delete", m, {}, "trylock")

StartDeletePartial(p) ==
    \E m \in part : Begin(p, "deletePartial", m, {}, "trylock")

-----------------------------------------------------------------------------
(* The end of an operation *)

\* The locks a process has are released when it returns, fails or dies.
Unlocks(p) ==
    /\ state' = IF state = p THEN None ELSE state
    /\ fd' = [fd EXCEPT ![p] = None]

Ends(p) ==
    /\ Unlocks(p)
    /\ op' = [op EXCEPT ![p] = "none"]
    /\ obj' = [obj EXCEPT ![p] = None]
    /\ todo' = [todo EXCEPT ![p] = {}]
    /\ Goes(p, "idle")

Return(p) ==
    /\ pc[p] = "done"
    /\ Ends(p)
    /\ UNCHANGED <<links, files, default>>

-----------------------------------------------------------------------------
(* Locks *)

\* A process that has a lock file open has locked it, unless it is about to.
HasLock(p) == fd[p] # None /\ pc[p] # "flock"
Holds(p, m, f) == HasLock(p) /\ obj[p] = m /\ fd[p] = f

\* Leftovers lists the partial downloads and the lock files of the models
\* nobody is at work on, as far as the lock file of that name tells.
StartRemoveLeftovers(p) ==
    LET idle == {m \in Models : \A q \in Procs : ~Holds(q, m, Named)}
        items == {i \in Items : i.model \in idle /\ (i.kind = "partial" => i.model \in part)}
    IN  items # {} /\ Begin(p, "leftovers", None, items, "wait")

\* TryLock of a download lock: open the file that has the name now,
OpenLock(p) ==
    /\ pc[p] = "trylock"
    /\ fd' = [fd EXCEPT ![p] = Named]
    /\ Goes(p, "flock")
    /\ UNCHANGED <<links, files, default, state, op, obj, todo>>

Busy(p) == \E q \in Procs : Holds(q, obj[p], fd[p])

\* Which of its items RemoveLeftovers is at.
Takes(p, item) ==
    /\ item \in todo[p] /\ item.model = obj[p]
    /\ todo' = [todo EXCEPT ![p] = @ \ {item}]

\* and lock it, whatever its name leads to by then.
Flock(p) ==
    /\ pc[p] = "flock"
    /\ ~Busy(p)
    /\ \/ /\ op[p] # "leftovers"
          /\ Goes(p, IF op[p] = "download" THEN "fetch" ELSE "wait")
          /\ UNCHANGED todo
       \/ /\ op[p] = "leftovers"
          /\ \E item \in todo[p] :
                Takes(p, item) /\ Goes(p, IF item.kind = "partial" THEN "drop" ELSE "unlink")
    /\ UNCHANGED <<links, files, default, locks, op, obj>>

\* Seeded fault: waiting for a download to end instead of skipping its item.
FlockBusyWaits(p) ==
    /\ pc[p] = "flock"
    /\ Busy(p) /\ op[p] # "leftovers"
    /\ Ends(p)
    /\ UNCHANGED <<links, files, default>>

\* ErrLocked: the operation is refused; RemoveLeftovers goes to its next item.
FlockBusy(p) ==
    /\ pc[p] = "flock"
    /\ Busy(p)
    /\ \/ op[p] # "leftovers" /\ Ends(p)
       \/ /\ op[p] = "leftovers"
          /\ \E item \in todo[p] : Takes(p, item)
          /\ fd' = [fd EXCEPT ![p] = None]
          /\ obj' = [obj EXCEPT ![p] = None]
          /\ Goes(p, "next")
          /\ UNCHANGED <<state, op>>
    /\ UNCHANGED <<links, files, default>>

FirstStep(o) ==
    CASE o = "set" -> "swap"
      [] o = "download" -> "record"
      [] o = "delete" -> "remove"
      [] o = "deletePartial" -> "removePart"
      [] OTHER -> "next"

\* lockState: waits for the state lock.
LockState(p) ==
    /\ pc[p] = "wait"
    /\ state = None
    /\ state' = p
    /\ Goes(p, FirstStep(op[p]))
    /\ UNCHANGED <<links, files, default, fd, op, obj, todo>>

-----------------------------------------------------------------------------
(* Download: the transfer itself is module PartDownload *)

FetchWrites(p) ==
    /\ pc[p] = "fetch"
    /\ obj[p] \notin part
    /\ part' = part \cup {obj[p]}
    /\ UNCHANGED <<links, file, default, locks, local>>

\* The complete .part file is renamed: the model is installed, under the
\* download lock alone.
FetchInstalls(p) ==
    /\ pc[p] = "fetch"
    /\ obj[p] \in part
    /\ part' = part \ {obj[p]}
    /\ file' = file \cup {obj[p]}
    /\ Goes(p, "wait")
    /\ UNCHANGED <<links, default, locks, op, obj, todo>>

\* The transfer gives up; what arrived stays, and a mismatch sets it aside.
FetchFails(p) ==
    /\ pc[p] = "fetch"
    /\ part' \in {part, part \ {obj[p]}}
    /\ Ends(p)
    /\ UNCHANGED <<links, file, default>>

\* Seeded fault: a configured default counts whether or not it is installed.
RecordTrustsConfig(p) ==
    /\ pc[p] = "record"
    /\ Goes(p, IF obj[p] \in Eligible /\ Configured = None THEN "swap" ELSE "hash")
    /\ UNCHANGED <<links, files, default, locks, op, obj, todo>>

\* Seeded fault: every eligible download becomes the default.
RecordOverrides(p) ==
    /\ pc[p] = "record"
    /\ Goes(p, IF obj[p] \in Eligible THEN "swap" ELSE "hash")
    /\ UNCHANGED <<links, files, default, locks, op, obj, todo>>

\* recordDownloadLocked: the first eligible model becomes the default.
Record(p) ==
    /\ pc[p] = "record"
    /\ Goes(p, IF obj[p] \in Eligible /\ ~Active THEN "swap" ELSE "hash")
    /\ UNCHANGED <<links, files, default, locks, op, obj, todo>>

\* Then the hash is saved with what List reports, a default it detected
\* included; a failure to save is ignored.
SaveHash(p) ==
    /\ pc[p] = "hash"
    /\ config' \in {config, Configured}
    /\ Goes(p, "done")
    /\ UNCHANGED <<links, files, link, torn, locks, op, obj, todo>>

-----------------------------------------------------------------------------
(* Set *)

\* setLocked refuses an ineligible model and one that is not installed;
\* otherwise swapLinkAtomic points the link at the model.
SwapLink(p) ==
    /\ pc[p] = "swap"
    /\ \/ /\ obj[p] \in Eligible \cap file
          /\ link' = obj[p]
          /\ Goes(p, "save")
          /\ UNCHANGED <<locks, op, obj, todo>>
       \/ obj[p] \notin Eligible \cap file /\ Ends(p) /\ UNCHANGED link
    /\ UNCHANGED <<links, files, config, torn>>

\* Seeded fault: the configuration keeps a default it already has.
SaveDefaultOnce(p) ==
    /\ pc[p] = "save"
    /\ config' = IF config = None THEN obj[p] ELSE config
    /\ torn' = "no"
    /\ Goes(p, IF op[p] = "download" THEN "hash" ELSE "done")
    /\ UNCHANGED <<links, files, link, locks, op, obj, todo>>

\* and the configuration follows.
SaveDefault(p) ==
    /\ pc[p] = "save"
    /\ config' = obj[p]
    /\ torn' = "no"
    /\ Goes(p, IF op[p] = "download" THEN "hash" ELSE "done")
    /\ UNCHANGED <<links, files, link, locks, op, obj, todo>>

-----------------------------------------------------------------------------
(* Delete and DeletePartial *)

RemoveFile(p) ==
    /\ pc[p] = "remove"
    /\ file' = file \ {obj[p]}
    /\ Goes(p, "removePart")
    /\ UNCHANGED <<links, part, default, locks, op, obj, todo>>

RemovePart(p) ==
    /\ pc[p] = "removePart"
    /\ part' = part \ {obj[p]}
    /\ Goes(p, IF op[p] = "delete" THEN "clear" ELSE "done")
    /\ UNCHANGED <<links, file, default, locks, op, obj, todo>>

\* Seeded fault: the link is not looked at.
ClearConfigured(p) ==
    /\ pc[p] = "clear"
    /\ \/ /\ config = obj[p]
          /\ link' \in {link, None}
          /\ Goes(p, "saveCleared")
       \/ /\ config # obj[p]
          /\ Goes(p, "done")
          /\ UNCHANGED link
    /\ UNCHANGED <<links, files, config, torn, locks, op, obj, todo>>

\* The default goes with its model: first the link, and nobody asks whether it
\* could be removed,
ClearLink(p) ==
    /\ pc[p] = "clear"
    /\ \/ /\ obj[p] \in {config, Detected}
          /\ link' \in {link, None}
          /\ Goes(p, "saveCleared")
       \/ /\ obj[p] \notin {config, Detected}
          /\ Goes(p, "done")
          /\ UNCHANGED link
    /\ UNCHANGED <<links, files, config, torn, locks, op, obj, todo>>

\* then the configuration.
SaveCleared(p) ==
    /\ pc[p] = "saveCleared"
    /\ config' = None
    /\ torn' = IF link = None THEN "no" ELSE "link"
    /\ Goes(p, "done")
    /\ UNCHANGED <<links, files, link, locks, op, obj, todo>>

-----------------------------------------------------------------------------
(* RemoveLeftovers: under the state lock, item by item *)

\* Seeded fault: the answer of the scan is trusted, and no lock is taken.
NextItemUnlocked(p) ==
    /\ pc[p] = "next"
    /\ \/ \E item \in todo[p] :
             /\ todo' = [todo EXCEPT ![p] = @ \ {item}]
             /\ obj' = [obj EXCEPT ![p] = item.model]
             /\ Goes(p, "drop")
       \/ /\ todo[p] = {}
          /\ Goes(p, "done")
          /\ UNCHANGED <<obj, todo>>
    /\ UNCHANGED <<links, files, default, locks, op>>

\* The lock of the next item is opened (and locked like any other).
NextItem(p) ==
    /\ pc[p] = "next"
    /\ \/ \E item \in todo[p] :
             /\ fd' = [fd EXCEPT ![p] = Named]
             /\ obj' = [obj EXCEPT ![p] = item.model]
             /\ Goes(p, "flock")
       \/ /\ todo[p] = {}
          /\ Goes(p, "done")
          /\ UNCHANGED <<fd, obj>>
    /\ UNCHANGED <<links, files, default, state, op, todo>>

\* A partial download is removed, and its lock file only if there was one.
Drop(p) ==
    /\ pc[p] = "drop"
    /\ part' = part \ {obj[p]}
    /\ Goes(p, IF obj[p] \in part THEN "unlink" ELSE "close")
    /\ UNCHANGED <<links, file, default, locks, op, obj, todo>>

\* The lock file is removed before the lock is released: whoever has the file
\* of that name open has one without a name now, and the next to open it makes
\* another.
Unlink(p) ==
    /\ pc[p] = "unlink"
    /\ \E f \in {g \in Unnamed : \A q \in Procs : obj[q] = obj[p] => fd[q] # g} :
          fd' = [q \in Procs |-> IF obj[q] = obj[p] /\ fd[q] = Named THEN f ELSE fd[q]]
    /\ Goes(p, "close")
    /\ UNCHANGED <<links, files, default, state, op, obj, todo>>

CloseLock(p) ==
    /\ pc[p] = "close"
    /\ fd' = [fd EXCEPT ![p] = None]
    /\ obj' = [obj EXCEPT ![p] = None]
    /\ Goes(p, "next")
    /\ UNCHANGED <<links, files, default, state, op, todo>>

-----------------------------------------------------------------------------
(* Failures *)

\* Between the first write of a section and the last one.
Midway(p) ==
    \/ pc[p] \in {"save", "clear", "saveCleared"}
    \/ pc[p] = "removePart" /\ op[p] = "delete"

\* A lock file, the file system or the configuration fails, which the operation
\* returns, or its process dies: it ends where it is.  Its locks are released by
\* its deferred calls, or by the kernel.
Stops(p) ==
    /\ pc[p] # "idle"
    /\ Ends(p)
    /\ torn' = IF Midway(p) THEN "write" ELSE torn
    /\ UNCHANGED <<links, files, link, config>>

-----------------------------------------------------------------------------
Starts(p) ==
    \/ StartSet(p) \/ StartDownload(p) \/ StartDelete(p)
    \/ StartDeletePartial(p) \/ StartRemoveLeftovers(p)

\* A step of an operation that waits for nobody.
Works(p) ==
    \/ OpenLock(p) \/ Flock(p) \/ FlockBusy(p) \/ FetchInstalls(p) \/ FetchFails(p)
    \/ Record(p) \/ SaveHash(p) \/ SwapLink(p) \/ SaveDefault(p)
    \/ RemoveFile(p) \/ RemovePart(p) \/ ClearLink(p) \/ SaveCleared(p)
    \/ NextItem(p) \/ Drop(p) \/ Unlink(p) \/ CloseLock(p) \/ Return(p)

Next ==
    \E p \in Procs :
        \/ Starts(p) \/ LockState(p) \/ FetchWrites(p) \/ Works(p)
        \/ Stops(p)

Spec == Init /\ [][Next]_vars

\* Operations go on, transfers end, and the kernel wakes who waits in flock.
FairSpec ==
    /\ Spec
    /\ \A p \in Procs : WF_vars(Works(p)) /\ SF_vars(LockState(p))

-----------------------------------------------------------------------------
(* Properties *)

\* Outside of sections, the configuration and the link agree on the default
\* and its model is installed, whatever processes did and wherever a crash or
\* a failed write hit them, but for those that hit between the two writes and
\* for a link that could not be removed; and from those the next Set, or
\* Delete of the default, recovers.
DefaultIsTheLink ==
    torn = "no" /\ state = None => config = link /\ config \in file \cup {None}

\* "If the deleted model was the default, the default is cleared"
\* (manager.go:463).  When Delete succeeds, the configuration does not name
\* the model, and the link leads to it only if it could not be removed (its
\* error is dropped) or if it cannot be read and was left half changed.
DeleteClearsKnownDefault ==
    \A p \in Procs : op[p] = "delete" /\ pc[p] = "done" =>
        /\ config # obj[p]
        /\ link = obj[p] => torn = "link" \/ (links = "hard" /\ torn = "write")

\* A recorded download of an eligible model leaves an installed default, also
\* when the configured one is no longer installed.
DownloadLeavesDefault ==
    \A p \in Procs :
        op[p] = "download" /\ pc[p] = "done" /\ obj[p] \in Eligible => Active

\* "An existing default is never overridden" by a download that ends between
\* the check and the write of another one: only Set changes an installed one,
\* or its own Delete, while another process is installing it again.
Deletes(p, m) == op[p] = "delete" /\ obj[p] = m

OnlySetOverrides ==
    [][config' # config /\ config \in file /\ torn = "no"
          => \E p \in Procs : state = p /\ (op[p] = "set" \/ Deletes(p, config))]_vars

\* "Hold the download lock so we never delete a file mid-download"
\* (manager.go:476): nobody removes what a download is writing.
DownloadUndisturbed ==
    [][\A p \in Procs :
          pc[p] = "fetch" /\ pc'[p] = "fetch" /\ obj[p] \in part
              => obj[p] \in part']_vars

\* That much holds: a download is disturbed only while somebody, itself
\* included, works under a lock file of the model that has lost its name.
Orphaned(m) == \E q \in Procs, f \in Unnamed : Holds(q, m, f)

UndisturbedByName ==
    [][\A p \in Procs :
          pc[p] = "fetch" /\ pc'[p] = "fetch" /\ obj[p] \in part /\ ~Orphaned(obj[p])
              => obj[p] \in part']_vars

\* Every operation ends: nobody waits for ever for the state lock, though
\* Delete takes it after a download lock and RemoveLeftovers before.
OperationsEnd == \A p \in Procs : pc[p] # "idle" ~> pc[p] = "idle"
=============================================================================
