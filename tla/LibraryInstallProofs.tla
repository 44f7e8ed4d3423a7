------------------------ MODULE LibraryInstallProofs ------------------------
(***************************************************************************)
(* Proofs about LibraryInstall, for any processes and versions.            *)
(***************************************************************************)
EXTENDS LibraryInstall, TLAPS

Writing == {"clear", "record", "describe"}
Installing == Writing \cup {"resolve", "already", "fetch", "write", "fill", "hash", "meta"}
Removing == {"remove1", "remove2", "remove3"}

\* A command is at a step of its own, and what it records is a hash.
JobInv == \A p \in Procs :
    /\ pc[p] \in Installing => job[p].op # "uninstall"
    /\ pc[p] \in Removing => job[p].op = "uninstall"
    /\ pc[p] \in Writing => seen[p] \in Hashes

\* An undisturbed command is the only one.
AloneInv == ~disturbed =>
    \A p, q \in Procs : pc[p] # "idle" /\ pc[q] # "idle" => p = q

\* What the undisturbed command of p has achieved so far.
Placed(p) == lib # None /\ lib.v = job[p].v /\ lib.whole
Described(p) == meta \notin {None, Torn} /\ meta.v = job[p].v /\ meta.sha = Hash
Ended(p) ==
    IF job[p].op = "uninstall" THEN lib = None /\ sidecar = None /\ meta = None
    ELSE Placed(p) /\ sidecar = Hash /\ Described(p)
Stage(p) ==
    /\ pc[p] = "fill" => lib # None /\ lib.v = job[p].v /\ ~lib.whole /\ lib.by = p
    /\ pc[p] \in Writing \cup {"hash", "meta"} => Placed(p)
    /\ pc[p] \in Writing => seen[p] = Hash
    /\ pc[p] \in {"meta", "describe"} => sidecar = Hash
    /\ pc[p] = "remove1" => lib = None \/ "lib" \in found[p]
    /\ pc[p] \in {"remove2", "remove3"} => lib = None
    /\ pc[p] \in {"remove1", "remove2"} => sidecar = None \/ "sidecar" \in found[p]
    /\ pc[p] = "remove3" => sidecar = None
    /\ pc[p] \in Removing => meta = None \/ "meta" \in found[p]
    /\ pc[p] = "done" => Ended(p)
StageInv == ~disturbed => \A p \in Procs : Stage(p)

IInv == TypeOK /\ JobInv /\ AloneInv /\ StageInv

USE InstallAssumption
-----------------------------------------------------------------------------
LEMMA InitIInv == Init => IInv
BY DEF Init, IInv, TypeOK, JobInv, AloneInv, StageInv, Stage, Jobs, NoJob, Busy, Hashes, Files,
       Writing, Installing, Removing, Placed, Ended, Hash

\* A command that is at work has a job, and having used up its --force it still has one.
LEMMA Working ==
    ASSUME TypeOK, NEW p \in Procs, pc[p] # "idle"
    PROVE  /\ job[p] \in Jobs
           /\ [job[p] EXCEPT !.force = FALSE] \in Jobs
<1>1. job[p] \in Jobs
    BY DEF TypeOK
<1>2. QED
    BY <1>1 DEF Jobs

LEMMA JobsNotNone == NoJob \notin Jobs
BY DEF NoJob, Jobs

\* To forget everything, and to go on to the download, keep the types.
LEMMA FailTypeOK ==
    ASSUME TypeOK, NEW p \in Procs, Fail(p)
    PROVE  TypeOK'
<1>1. pc' \in [Procs -> Busy \cup {"idle", "already", "done"}] /\ job' \in [Procs -> Jobs \cup {NoJob}]
    BY DEF TypeOK, Fail, Forget, Goto
<1>2. \A q \in Procs : job'[q] = NoJob <=> pc'[q] = "idle"
    BY DEF TypeOK, Fail, Forget, Goto
<1>3. over' \in [Procs -> BOOLEAN] /\ seen' \in [Procs -> Hashes \cup {None}]
      /\ found' \in [Procs -> SUBSET Files]
    BY DEF TypeOK, Fail, Forget, Goto
<1>4. QED
    BY <1>1, <1>2, <1>3 DEF TypeOK, Fail, Forget, dir

LEMMA ProceedTypeOK ==
    ASSUME TypeOK, NEW p \in Procs, pc[p] # "idle", NEW o \in BOOLEAN, Proceed(p, o)
    PROVE  TypeOK'
<1>1. job' \in [Procs -> Jobs \cup {NoJob}] /\ job'[p] # NoJob
    BY Working, JobsNotNone DEF TypeOK, Proceed
<1>2. pc' \in [Procs -> Busy \cup {"idle", "already", "done"}] /\ pc'[p] # "idle"
    BY DEF TypeOK, Proceed, Goto, Busy
<1>3. \A q \in Procs : job'[q] = NoJob <=> pc'[q] = "idle"
    <2> TAKE q \in Procs
    <2>1. CASE q = p
        BY <1>1, <1>2, <2>1
    <2>2. CASE q # p
        BY <2>2 DEF TypeOK, Proceed, Goto
    <2>3. QED
        BY <2>1, <2>2
<1>4. over' \in [Procs -> BOOLEAN]
    BY DEF TypeOK, Proceed
<1>5. QED
    BY <1>1, <1>2, <1>3, <1>4 DEF TypeOK, Proceed, dir

\* So does a step that only moves the command on.
LEMMA GotoTypeOK ==
    ASSUME TypeOK, NEW p \in Procs, pc[p] # "idle", NEW l \in Busy \cup {"already", "done"}, Goto(p, l)
    PROVE  /\ pc' \in [Procs -> Busy \cup {"idle", "already", "done"}]
           /\ job' = job => \A q \in Procs : job'[q] = NoJob <=> pc'[q] = "idle"
BY DEF TypeOK, Goto, Busy

\* What Uninstall sees, and what it does about it.
ToRemove(p, there) ==
    /\ there # {}
    /\ found' = [found EXCEPT ![p] = there]
    /\ job' = [job EXCEPT ![p].force = FALSE]
    /\ Goto(p, "remove1")
    /\ UNCHANGED <<dir, over, seen, disturbed>>
Looked(p, there) ==
    /\ pc[p] = "look" /\ job[p].op = "uninstall"
    /\ "lib" \in there <=> lib # None
    /\ "sidecar" \in there <=> sidecar # None
    /\ "meta" \in there <=> meta # None
    /\ \/ ToRemove(p, there)
       \/ /\ there = {}
          /\ Goto(p, "done")
          /\ UNCHANGED <<dir, job, over, seen, found, disturbed>>
       \/ there # {} /\ ~job[p].force /\ Fail(p)

LEMMA LookedAround ==
    ASSUME NEW p \in Procs, LookUninstall(p)
    PROVE  \E there \in SUBSET Files : Looked(p, there)
<1> DEFINE there == {f \in Files : CASE f = "lib" -> lib # None
                                     [] f = "sidecar" -> sidecar # None
                                     [] f = "meta" -> meta # None}
<1>1. there \in SUBSET Files
    OBVIOUS
<1>2. /\ "lib" \in there <=> lib # None
      /\ "sidecar" \in there <=> sidecar # None
      /\ "meta" \in there <=> meta # None
    BY DEF Files
<1>3. /\ pc[p] = "look" /\ job[p].op = "uninstall"
      /\ \/ ToRemove(p, there)
         \/ /\ there = {}
            /\ Goto(p, "done")
            /\ UNCHANGED <<dir, job, over, seen, found, disturbed>>
         \/ there # {} /\ ~job[p].force /\ Fail(p)
    BY DEF LookUninstall, ToRemove
<1> HIDE DEF there
<1>4. Looked(p, there)
    BY <1>2, <1>3 DEF Looked
<1>5. QED
    BY <1>1, <1>4

\* Every step keeps the types: what is recorded is a hash, and what is written
\* is of the version asked for.
LEMMA NextTypeOK == IInv /\ [Next]_vars => TypeOK'
<1> SUFFICES ASSUME IInv, [Next]_vars PROVE TypeOK'
    OBVIOUS
<1>0. TypeOK /\ JobInv
    BY DEF IInv
<1>1. CASE UNCHANGED vars
    BY <1>0, <1>1 DEF vars, TypeOK, Hashes
<1>2. ASSUME NEW p \in Procs, Start(p) PROVE TypeOK'
    <2>1. PICK j \in Jobs : job' = [job EXCEPT ![p] = j]
        BY <1>2 DEF Start
    <2>2. job' \in [Procs -> Jobs \cup {NoJob}] /\ job'[p] # NoJob
        BY <2>1, JobsNotNone, <1>0 DEF TypeOK
    <2>3. pc' \in [Procs -> Busy \cup {"idle", "already", "done"}] /\ pc'[p] # "idle"
        BY <1>2, <1>0 DEF TypeOK, Start, Goto, Busy
    <2>4. \A q \in Procs : job'[q] = NoJob <=> pc'[q] = "idle"
        <3> TAKE q \in Procs
        <3>1. CASE q = p
            BY <2>2, <2>3, <3>1
        <3>2. CASE q # p
            BY <1>2, <2>1, <3>2, <1>0 DEF TypeOK, Start, Goto
        <3>3. QED
            BY <3>1, <3>2
    <2>5. QED
        BY <1>2, <2>2, <2>3, <2>4, <1>0 DEF TypeOK, Start, dir
<1>3. ASSUME NEW p \in Procs, LookInstall(p) PROVE TypeOK'
    <2>1. CASE Fail(p)
        BY <2>1, FailTypeOK, <1>0
    <2>2. CASE Goto(p, "resolve") /\ UNCHANGED <<dir, job, over, seen, found, disturbed>>
        BY <1>3, <2>2, GotoTypeOK, <1>0 DEF LookInstall, TypeOK, dir, Busy
    <2>3. QED
        BY <1>3, <2>1, <2>2 DEF LookInstall
<1>4. ASSUME NEW p \in Procs, Resolve(p) PROVE TypeOK'
    <2>1. CASE Fail(p)
        BY <2>1, FailTypeOK, <1>0
    <2>2. CASE Proceed(p, TRUE) \/ Proceed(p, FALSE)
        BY <1>4, <2>2, ProceedTypeOK, <1>0 DEF Resolve
    <2>3. CASE Goto(p, "already") /\ UNCHANGED <<dir, job, over, seen, found, disturbed>>
        BY <1>4, <2>3, GotoTypeOK, <1>0 DEF Resolve, TypeOK, dir
    <2>4. QED
        BY <1>4, <2>1, <2>2, <2>3 DEF Resolve, Confirmed
<1>5. ASSUME NEW p \in Procs, LookPin(p) PROVE TypeOK'
    <2>1. CASE Fail(p)
        BY <2>1, FailTypeOK, <1>0
    <2>2. CASE Proceed(p, TRUE) \/ Proceed(p, FALSE)
        BY <1>5, <2>2, ProceedTypeOK, <1>0 DEF LookPin
    <2>3. QED
        BY <1>5, <2>1, <2>2 DEF LookPin, Confirmed
<1>6. ASSUME NEW p \in Procs, Fetch(p) PROVE TypeOK'
    <2>1. CASE Fail(p)
        BY <2>1, FailTypeOK, <1>0
    <2>2. CASE Goto(p, "write") /\ UNCHANGED <<dir, job, over, seen, found, disturbed>>
        BY <1>6, <2>2, GotoTypeOK, <1>0 DEF Fetch, TypeOK, dir, Busy
    <2>3. QED
        BY <1>6, <2>1, <2>2 DEF Fetch
<1>7. ASSUME NEW p \in Procs, Replace(p) PROVE TypeOK'
    <2>1. Goto(p, "hash") /\ pc[p] # "idle" /\ job' = job
        BY <1>7 DEF Replace
    <2>2. job[p].v \in Versions
        BY <1>7, Working, <1>0 DEF JobInv, Replace, Jobs, Installing
    <2>3. QED
        BY <1>7, <2>1, <2>2, GotoTypeOK, <1>0 DEF Replace, TypeOK, Busy
<1>8. ASSUME NEW p \in Procs, CreateExclusive(p) PROVE TypeOK'
    <2>1. CASE Fail(p)
        BY <2>1, FailTypeOK, <1>0
    <2>2. CASE ~Fail(p)
        <3>1. Goto(p, "fill") /\ pc[p] # "idle" /\ job' = job
            BY <1>8, <2>2 DEF CreateExclusive
        <3>2. job[p].v \in Versions
            BY <1>8, Working, <1>0 DEF JobInv, CreateExclusive, Jobs, Installing
        <3>3. /\ lib' = [v |-> job[p].v, whole |-> FALSE, by |-> p]
              /\ UNCHANGED <<sidecar, meta, job, over, seen, found, disturbed>>
            BY <1>8, <2>2 DEF CreateExclusive
        <3>4. QED
            BY <1>0, <3>1, <3>2, <3>3, GotoTypeOK DEF TypeOK, Busy
    <2>3. QED
        BY <2>1, <2>2
<1>9. ASSUME NEW p \in Procs, Fill(p) PROVE TypeOK'
    BY <1>0, <1>9 DEF Fill, Goto,
           TypeOK, JobInv, Jobs, NoJob, Busy, Hashes, Files, Writing, Installing, Removing
<1>10. ASSUME NEW p \in Procs, HashLibrary(p) PROVE TypeOK'
    BY <1>0, <1>10 DEF HashLibrary, Goto, Hash, dir,
           TypeOK, JobInv, Jobs, NoJob, Busy, Hashes, Files, Writing, Installing, Removing
<1>11. ASSUME NEW p \in Procs, ClearSidecar(p) PROVE TypeOK'
    BY ZenonT(40), <1>0, <1>11 DEF ClearSidecar, Goto,
           TypeOK, JobInv, Jobs, NoJob, Busy, Hashes, Files, Writing, Installing, Removing
<1>12. ASSUME NEW p \in Procs, WriteSidecar(p) PROVE TypeOK'
    BY <1>0, <1>12 DEF WriteSidecar, Goto,
           TypeOK, JobInv, Jobs, NoJob, Busy, Hashes, Files, Writing, Installing, Removing
<1>13. ASSUME NEW p \in Procs, WriteMetadata(p) PROVE TypeOK'
    <2>1. pc[p] = "describe" /\ (pc' = pc \/ Goto(p, "done")) /\ job' = job
        BY <1>13 DEF WriteMetadata
    <2>2. /\ pc' \in [Procs -> Busy \cup {"idle", "already", "done"}]
          /\ \A q \in Procs : job'[q] = NoJob <=> pc'[q] = "idle"
        BY <2>1, GotoTypeOK, <1>0 DEF TypeOK
    <2>3. job[p].v \in Versions /\ seen[p] \in Hashes
        BY <2>1, Working, <1>0 DEF JobInv, Jobs, Installing, Writing
    <2>4. \/ meta' \in {None, Torn}
          \/ meta' \in [kind : {"release", "pinned"}, v : Versions, sha : Hashes]
        BY <1>13, <2>3, <1>0 DEF WriteMetadata, TypeOK
    <2>5. seen' \in [Procs -> Hashes \cup {None}] /\ disturbed' \in BOOLEAN
        BY <1>13, <1>0 DEF WriteMetadata, TypeOK
    <2>6. QED
        BY <1>13, <2>2, <2>4, <2>5, <1>0 DEF WriteMetadata, TypeOK
<1>14. ASSUME NEW p \in Procs, LookUninstall(p) PROVE TypeOK'
    <2>1. PICK there \in SUBSET Files : Looked(p, there)
        BY <1>14, LookedAround
    <2>2. CASE Fail(p)
        BY <2>2, FailTypeOK, <1>0
    <2>3. CASE Goto(p, "done") /\ UNCHANGED <<dir, job, over, seen, found, disturbed>>
        BY <2>1, <2>3, GotoTypeOK, <1>0 DEF Looked, TypeOK, dir
    <2>4. CASE ToRemove(p, there)
        <3>1. job' \in [Procs -> Jobs \cup {NoJob}] /\ job'[p] # NoJob
            BY <2>1, <2>4, Working, JobsNotNone, <1>0 DEF TypeOK, ToRemove, Looked
        <3>2. pc' \in [Procs -> Busy \cup {"idle", "already", "done"}] /\ pc'[p] # "idle"
            BY <2>4, <1>0 DEF TypeOK, ToRemove, Goto, Busy
        <3>3. \A q \in Procs : job'[q] = NoJob <=> pc'[q] = "idle"
            <4> TAKE q \in Procs
            <4>1. CASE q = p
                BY <3>1, <3>2, <4>1
            <4>2. CASE q # p
                BY <2>4, <4>2, <1>0 DEF TypeOK, ToRemove, Goto
            <4>3. QED
                BY <4>1, <4>2
        <3>4. found' \in [Procs -> SUBSET Files]
            BY <2>4, <1>0 DEF TypeOK, ToRemove
        <3>5. QED
            BY <2>4, <3>1, <3>2, <3>3, <3>4, <1>0 DEF TypeOK, ToRemove, dir
    <2>5. QED
        BY <2>1, <2>2, <2>3, <2>4 DEF Looked
<1>15. ASSUME NEW p \in Procs, RemoveFile(p) PROVE TypeOK'
    BY <1>0, <1>15 DEF RemoveFile, Goto, Dealt, Removed,
           TypeOK, JobInv, Jobs, NoJob, Busy, Hashes, Files, Writing, Installing, Removing
<1>16. ASSUME NEW p \in Procs, CannotRemove(p) PROVE TypeOK'
    BY SMTT(30), <1>0, <1>16 DEF CannotRemove, Goto, Dealt, dir,
           TypeOK, JobInv, Jobs, NoJob, Busy, Hashes, Files, Writing, Installing, Removing
<1>17. ASSUME NEW p \in Procs, Finish(p) PROVE TypeOK'
    BY <1>0, <1>17, FailTypeOK DEF Finish, Fail
<1>18. ASSUME NEW p \in Procs, Crash(p) PROVE TypeOK'
    BY <1>0, <1>18, FailTypeOK DEF Crash
<1> QED
    BY <1>1, <1>2, <1>3, <1>4, <1>5, <1>6, <1>7, <1>8, <1>9, <1>10, <1>11, <1>12, <1>13, <1>14, <1>15, <1>16, <1>17, <1>18 DEF Next

\* Every step goes to a step of the same command.
LEMMA NextJobInv == IInv /\ [Next]_vars => JobInv'
<1> SUFFICES ASSUME IInv, [Next]_vars PROVE JobInv'
    OBVIOUS
<1> USE DEF IInv, TypeOK, JobInv, Jobs, NoJob, Busy, Hashes, Files, Writing, Installing, Removing
<1>1. CASE UNCHANGED vars
    BY <1>1 DEF vars
<1>2. ASSUME NEW p \in Procs, Start(p) PROVE JobInv'
    BY <1>2 DEF Start, Goto
<1>3. ASSUME NEW p \in Procs, LookInstall(p) PROVE JobInv'
    BY <1>3 DEF LookInstall, Goto, Fail, Forget, Pinned, dir
<1>4. ASSUME NEW p \in Procs, Resolve(p) PROVE JobInv'
    BY <1>4 DEF Resolve, Goto, Fail, Forget, Proceed, Confirmed, dir
<1>5. ASSUME NEW p \in Procs, LookPin(p) PROVE JobInv'
    BY <1>5 DEF LookPin, Goto, Fail, Forget, Proceed, Confirmed, dir
<1>6. ASSUME NEW p \in Procs, Fetch(p) PROVE JobInv'
    BY <1>6 DEF Fetch, Goto, Fail, Forget, dir
<1>7. ASSUME NEW p \in Procs, Replace(p) PROVE JobInv'
    BY <1>7 DEF Replace, Goto
<1>8. ASSUME NEW p \in Procs, CreateExclusive(p) PROVE JobInv'
    BY <1>8 DEF CreateExclusive, Goto, Fail, Forget, dir
<1>9. ASSUME NEW p \in Procs, Fill(p) PROVE JobInv'
    BY <1>9 DEF Fill, Goto
<1>10. ASSUME NEW p \in Procs, HashLibrary(p) PROVE JobInv'
    BY <1>10 DEF HashLibrary, Goto, Hash, dir
<1>11. ASSUME NEW p \in Procs, ClearSidecar(p) PROVE JobInv'
    BY <1>11 DEF ClearSidecar, Goto
<1>12. ASSUME NEW p \in Procs, WriteSidecar(p) PROVE JobInv'
    BY <1>12 DEF WriteSidecar, Goto
<1>13. ASSUME NEW p \in Procs, WriteMetadata(p) PROVE JobInv'
    BY <1>13 DEF WriteMetadata, Goto
<1>14. ASSUME NEW p \in Procs, LookUninstall(p) PROVE JobInv'
    <2>1. PICK there \in SUBSET Files : Looked(p, there)
        BY <1>14, LookedAround
    <2>2. CASE Fail(p)
        BY <2>2 DEF Fail, Forget, Goto, dir
    <2>3. CASE Goto(p, "done") /\ UNCHANGED <<dir, job, over, seen, found, disturbed>>
        BY <2>3 DEF Goto, dir
    <2>4. CASE ToRemove(p, there)
        <3>1. job'[p].op = "uninstall"
            BY <2>1, <2>4, Working DEF ToRemove, Looked
        <3>2. QED
            BY <2>4, <3>1 DEF ToRemove, Goto
    <2>5. QED
        BY <2>1, <2>2, <2>3, <2>4 DEF Looked
<1>15. ASSUME NEW p \in Procs, RemoveFile(p) PROVE JobInv'
    BY <1>15 DEF RemoveFile, Goto, Dealt, Removed
<1>16. ASSUME NEW p \in Procs, CannotRemove(p) PROVE JobInv'
    BY <1>16 DEF CannotRemove, Goto, Dealt, dir
<1>17. ASSUME NEW p \in Procs, Finish(p) PROVE JobInv'
    BY <1>17 DEF Finish, Goto, Forget, dir
<1>18. ASSUME NEW p \in Procs, Crash(p) PROVE JobInv'
    BY <1>18 DEF Crash, Goto, Fail, Forget, dir, Busy
<1> QED
    BY <1>1, <1>2, <1>3, <1>4, <1>5, <1>6, <1>7, <1>8, <1>9, <1>10, <1>11, <1>12, <1>13, <1>14, <1>15, <1>16, <1>17, <1>18 DEF Next

\* A command that starts while another runs disturbs both.
LEMMA NextAloneInv == IInv /\ [Next]_vars => AloneInv'
<1> SUFFICES ASSUME IInv, [Next]_vars PROVE AloneInv'
    OBVIOUS
<1> USE DEF IInv, TypeOK, AloneInv, Busy
<1>1. CASE UNCHANGED vars
    BY <1>1 DEF vars
<1>2. ASSUME NEW p \in Procs, Start(p) PROVE AloneInv'
    BY <1>2 DEF Start, Goto
<1>3. ASSUME NEW p \in Procs, LookInstall(p) PROVE AloneInv'
    BY <1>3 DEF LookInstall, Goto, Fail, Forget, Pinned, dir
<1>4. ASSUME NEW p \in Procs, Resolve(p) PROVE AloneInv'
    BY <1>4 DEF Resolve, Goto, Fail, Forget, Proceed, Confirmed, dir
<1>5. ASSUME NEW p \in Procs, LookPin(p) PROVE AloneInv'
    BY <1>5 DEF LookPin, Goto, Fail, Forget, Proceed, Confirmed, dir
<1>6. ASSUME NEW p \in Procs, Fetch(p) PROVE AloneInv'
    BY <1>6 DEF Fetch, Goto, Fail, Forget, dir
<1>7. ASSUME NEW p \in Procs, Replace(p) PROVE AloneInv'
    BY <1>7 DEF Replace, Goto
<1>8. ASSUME NEW p \in Procs, CreateExclusive(p) PROVE AloneInv'
    BY <1>8 DEF CreateExclusive, Goto, Fail, Forget, dir
<1>9. ASSUME NEW p \in Procs, Fill(p) PROVE AloneInv'
    BY <1>9 DEF Fill, Goto
<1>10. ASSUME NEW p \in Procs, HashLibrary(p) PROVE AloneInv'
    BY <1>10 DEF HashLibrary, Goto, Hash, dir
<1>11. ASSUME NEW p \in Procs, ClearSidecar(p) PROVE AloneInv'
    BY <1>11 DEF ClearSidecar, Goto
<1>12. ASSUME NEW p \in Procs, WriteSidecar(p) PROVE AloneInv'
    BY <1>12 DEF WriteSidecar, Goto
<1>13. ASSUME NEW p \in Procs, WriteMetadata(p) PROVE AloneInv'
    BY <1>13 DEF WriteMetadata, Goto
<1>14. ASSUME NEW p \in Procs, LookUninstall(p) PROVE AloneInv'
    BY <1>14, LookedAround DEF Looked, ToRemove, Goto, Fail, Forget, dir
<1>15. ASSUME NEW p \in Procs, RemoveFile(p) PROVE AloneInv'
    BY <1>15 DEF RemoveFile, Goto, Dealt, Removed
<1>16. ASSUME NEW p \in Procs, CannotRemove(p) PROVE AloneInv'
    BY <1>16 DEF CannotRemove, Goto, Dealt, dir
<1>17. ASSUME NEW p \in Procs, Finish(p) PROVE AloneInv'
    BY <1>17 DEF Finish, Goto, Forget, dir
<1>18. ASSUME NEW p \in Procs, Crash(p) PROVE AloneInv'
    BY <1>18 DEF Crash, Goto, Fail, Forget, dir, Busy
<1> QED
    BY <1>1, <1>2, <1>3, <1>4, <1>5, <1>6, <1>7, <1>8, <1>9, <1>10, <1>11, <1>12, <1>13, <1>14, <1>15, <1>16, <1>17, <1>18 DEF Next

\* While nothing disturbs it, the one command at work answers for all.
LEMMA StageOfActor ==
    ASSUME TypeOK, AloneInv, NEW p \in Procs, pc[p] # "idle", ~disturbed,
           \A q \in Procs \ {p} : pc'[q] = pc[q],
           Stage(p)'
    PROVE  \A q \in Procs : Stage(q)'
<1> TAKE q \in Procs
<1>1. CASE q = p
    BY <1>1
<1>2. CASE q # p
    <2>1. pc'[q] = "idle"
        BY <1>2 DEF AloneInv
    <2>2. QED
        BY <2>1 DEF Stage, Writing, Removing
<1>3. QED
    BY <1>1, <1>2

LEMMA StageOfFailed ==
    ASSUME TypeOK, AloneInv, NEW p \in Procs, pc[p] # "idle", ~disturbed, Fail(p)
    PROVE  \A q \in Procs : Stage(q)'
<1>1. pc'[p] = "idle" /\ \A q \in Procs \ {p} : pc'[q] = pc[q]
    BY DEF TypeOK, Fail, Forget, Goto
<1>2. Stage(p)'
    BY <1>1 DEF Stage, Writing, Removing
<1>3. QED
    BY <1>1, <1>2, StageOfActor

\* A step to a place where nothing has been achieved yet.
LEMMA StageOfEarly ==
    ASSUME TypeOK, AloneInv, NEW p \in Procs, pc[p] # "idle", ~disturbed,
           NEW l \in {"look", "resolve", "already", "fetch", "write"}, Goto(p, l)
    PROVE  \A q \in Procs : Stage(q)'
<1>1. pc'[p] = l /\ \A q \in Procs \ {p} : pc'[q] = pc[q]
    BY DEF TypeOK, Goto
<1>2. Stage(p)'
    BY <1>1 DEF Stage, Writing, Removing
<1>3. QED
    BY <1>1, <1>2, StageOfActor

\* Every step of an undisturbed command achieves what it is there for.
LEMMA NextStageInv == IInv /\ [Next]_vars => StageInv'
<1> DEFINE Staged == \A q \in Procs : Stage(q)'
<1> SUFFICES ASSUME IInv, [Next]_vars, ~disturbed' PROVE Staged
    BY DEF StageInv
<1>0. TypeOK /\ JobInv /\ AloneInv /\ StageInv
    BY DEF IInv
<1>1. CASE UNCHANGED vars
    BY <1>0, <1>1 DEF vars, StageInv, Stage, Ended, Placed, Described, Hash
<1>2. ASSUME NEW p \in Procs, Start(p) PROVE Staged
    <2> SUFFICES ASSUME NEW q \in Procs PROVE Stage(q)'
        OBVIOUS
    <2>1. pc'[q] \in {"idle", "look"}
        BY <1>0, <1>2 DEF Start, Goto, TypeOK
    <2>2. QED
        BY <2>1 DEF Stage, Writing, Removing
<1>3. ASSUME NEW p \in Procs, LookInstall(p) PROVE Staged
    BY <1>0, <1>3, StageOfFailed, StageOfEarly DEF LookInstall, Fail, Forget
<1>4. ASSUME NEW p \in Procs, Resolve(p) PROVE Staged
    BY <1>0, <1>4, StageOfFailed, StageOfEarly DEF Resolve, Confirmed, Proceed, Fail, Forget
<1>5. ASSUME NEW p \in Procs, LookPin(p) PROVE Staged
    BY <1>0, <1>5, StageOfFailed, StageOfEarly DEF LookPin, Confirmed, Proceed, Fail, Forget
<1>6. ASSUME NEW p \in Procs, Fetch(p) PROVE Staged
    BY <1>0, <1>6, StageOfFailed, StageOfEarly DEF Fetch, Fail, Forget
<1>7. ASSUME NEW p \in Procs, Replace(p) PROVE Staged
    <2>1. /\ pc[p] # "idle" /\ ~disturbed /\ job' = job
          /\ pc'[p] = "hash" /\ \A q \in Procs \ {p} : pc'[q] = pc[q]
          /\ lib' = [v |-> job[p].v, whole |-> TRUE, by |-> p]
        BY <1>0, <1>7 DEF Replace, Goto, TypeOK
    <2>2. job[p].v \in Versions
        BY <1>0, <1>7, Working DEF JobInv, Replace, Jobs, Installing
    <2>3. lib' \in [v : Versions, whole : BOOLEAN, by : Procs]
        BY <2>1, <2>2
    <2>4. lib'.v = job'[p].v /\ lib'.whole
        BY <2>1
    <2>5. Stage(p)'
        BY <2>1, <2>3, <2>4 DEF Stage, Writing, Removing, Placed
    <2>6. QED
        BY <1>0, <2>1, <2>5, StageOfActor
<1>8. ASSUME NEW p \in Procs, CreateExclusive(p) PROVE Staged
    <2>1. CASE Fail(p)
        BY <1>0, <1>8, <2>1, StageOfFailed DEF CreateExclusive, Fail, Forget
    <2>2. CASE ~Fail(p)
        <3>1. /\ pc[p] # "idle" /\ ~disturbed /\ job' = job
              /\ pc'[p] = "fill" /\ \A q \in Procs \ {p} : pc'[q] = pc[q]
              /\ lib' = [v |-> job[p].v, whole |-> FALSE, by |-> p]
            BY <1>0, <1>8, <2>2 DEF CreateExclusive, Goto, TypeOK
        <3>2. job[p].v \in Versions
            BY <1>0, <1>8, Working DEF JobInv, CreateExclusive, Jobs, Installing
        <3>3. lib' \in [v : Versions, whole : BOOLEAN, by : Procs]
            BY <3>1, <3>2
        <3>4. lib'.v = job'[p].v /\ ~lib'.whole /\ lib'.by = p
            BY <3>1
        <3>5. Stage(p)'
            BY <3>1, <3>3, <3>4 DEF Stage, Writing, Removing
        <3>6. QED
            BY <1>0, <3>1, <3>5, StageOfActor
    <2>3. QED
        BY <2>1, <2>2
<1>9. ASSUME NEW p \in Procs, Fill(p) PROVE Staged
    <2>1. /\ pc[p] = "fill" /\ ~disturbed /\ job' = job
          /\ pc'[p] = "hash" /\ \A q \in Procs \ {p} : pc'[q] = pc[q]
        BY <1>0, <1>9 DEF Fill, Goto, TypeOK
    <2>2. /\ lib # None /\ lib.v = job[p].v /\ ~lib.whole /\ lib.by = p
          /\ lib \in [v : Versions, whole : BOOLEAN, by : Procs]
        BY <1>0, <2>1 DEF StageInv, Stage, TypeOK
    <2>3. /\ lib' \in [v : Versions, whole : BOOLEAN, by : Procs]
          /\ lib'.v = job[p].v /\ lib'.whole
        BY <1>9, <2>2 DEF Fill
    <2>4. Stage(p)'
        BY <2>1, <2>3 DEF Stage, Writing, Removing, Placed
    <2>5. QED
        BY <1>0, <2>1, <2>4, StageOfActor
<1>10. ASSUME NEW p \in Procs, HashLibrary(p) PROVE Staged
    <2>1. /\ pc[p] \in {"hash", "meta"} /\ ~disturbed
          /\ job' = job /\ lib' = lib /\ sidecar' = sidecar /\ meta' = meta
          /\ \A q \in Procs \ {p} : pc'[q] = pc[q]
        BY <1>0, <1>10 DEF HashLibrary, Goto, TypeOK, dir
    <2>2. Placed(p)
        BY <1>0, <2>1 DEF StageInv, Stage
    <2>3. seen'[p] = Hash /\ pc'[p] = (IF pc[p] = "hash" THEN "clear" ELSE "describe")
        BY <1>0, <1>10, <2>2 DEF HashLibrary, Goto, TypeOK, Placed
    <2>4. pc[p] = "meta" => sidecar = Hash
        BY <1>0, <2>1 DEF StageInv, Stage
    <2>5. Stage(p)'
        BY <2>1, <2>2, <2>3, <2>4 DEF Stage, Writing, Removing, Placed, Hash
    <2>6. QED
        BY <1>0, <2>1, <2>5, StageOfActor
<1>11. ASSUME NEW p \in Procs, ClearSidecar(p) PROVE Staged
    <2>1. /\ pc[p] = "clear" /\ ~disturbed
          /\ job' = job /\ lib' = lib /\ seen' = seen
          /\ pc'[p] = "record" /\ \A q \in Procs \ {p} : pc'[q] = pc[q]
        BY <1>0, <1>11 DEF ClearSidecar, Goto, TypeOK
    <2>2. Placed(p) /\ seen[p] = Hash
        BY <1>0, <2>1 DEF StageInv, Stage, Writing
    <2>3. Stage(p)'
        BY <2>1, <2>2 DEF Stage, Writing, Removing, Placed, Hash
    <2>4. QED
        BY <1>0, <2>1, <2>3, StageOfActor
<1>12. ASSUME NEW p \in Procs, WriteSidecar(p) PROVE Staged
    <2>1. /\ pc[p] = "record" /\ ~disturbed
          /\ job' = job /\ lib' = lib /\ sidecar' = seen[p]
          /\ pc'[p] = "meta" /\ \A q \in Procs \ {p} : pc'[q] = pc[q]
        BY <1>0, <1>12 DEF WriteSidecar, Goto, TypeOK
    <2>2. Placed(p) /\ seen[p] = Hash
        BY <1>0, <2>1 DEF StageInv, Stage, Writing
    <2>3. Stage(p)'
        BY <2>1, <2>2 DEF Stage, Writing, Removing, Placed, Hash
    <2>4. QED
        BY <1>0, <2>1, <2>3, StageOfActor
<1>13. ASSUME NEW p \in Procs, WriteMetadata(p) PROVE Staged
    <2>1. /\ pc[p] = "describe" /\ ~disturbed
          /\ job' = job /\ lib' = lib /\ sidecar' = sidecar
          /\ \A q \in Procs \ {p} : pc'[q] = pc[q]
        BY <1>0, <1>13 DEF WriteMetadata, Goto, TypeOK
    <2>2. /\ Placed(p) /\ seen[p] = Hash /\ sidecar = Hash
          /\ job[p].op # "uninstall" /\ job[p].v \in Versions /\ seen[p] \in Hashes
        BY <1>0, <2>1, Working DEF StageInv, Stage, Writing, JobInv, Installing, Jobs
    <2>3. CASE pc' = pc /\ seen' = seen
        BY <1>0, <2>1, <2>2, <2>3, StageOfActor DEF Stage, Writing, Removing, Placed, Hash
    <2>4. CASE pc'[p] = "done" /\ meta' = [kind |-> IF job[p].op = "pin" THEN "pinned" ELSE "release",
                                           v |-> job[p].v, sha |-> seen[p]]
        <3>1. meta' \in [kind : {"release", "pinned"}, v : Versions, sha : Hashes]
            BY <2>2, <2>4
        <3>2. Described(p)'
            BY <2>1, <2>2, <2>4, <3>1 DEF Described, Hash, Hashes
        <3>3. Ended(p)'
            BY <2>1, <2>2, <3>2 DEF Ended, Placed, Hash
        <3>4. Stage(p)'
            BY <2>4, <3>3 DEF Stage, Writing, Removing
        <3>5. QED
            BY <1>0, <2>1, <3>4, StageOfActor
    <2>5. QED
        BY <1>0, <1>13, <2>1, <2>3, <2>4 DEF WriteMetadata, Goto, TypeOK
<1>14. ASSUME NEW p \in Procs, LookUninstall(p) PROVE Staged
    <2>1. PICK there \in SUBSET Files : Looked(p, there)
        BY <1>14, LookedAround
    <2>2. pc[p] # "idle" /\ job[p].op = "uninstall" /\ ~disturbed
        BY <2>1 DEF Looked, ToRemove, Fail, Forget
    <2>3. CASE Fail(p)
        BY <1>0, <2>2, <2>3, StageOfFailed
    <2>4. CASE there = {} /\ Goto(p, "done") /\ UNCHANGED <<dir, job, over, seen, found, disturbed>>
        <3>1. lib = None /\ sidecar = None /\ meta = None
            BY <2>1, <2>4 DEF Looked
        <3>2. pc'[p] = "done" /\ \A q \in Procs \ {p} : pc'[q] = pc[q]
            BY <1>0, <2>4 DEF Goto, TypeOK
        <3>3. Stage(p)'
            BY <2>2, <2>4, <3>1, <3>2 DEF Stage, Ended, Writing, Removing, dir
        <3>4. QED
            BY <1>0, <2>2, <3>2, <3>3, StageOfActor
    <2>5. CASE ToRemove(p, there)
        <3>1. /\ pc'[p] = "remove1" /\ \A q \in Procs \ {p} : pc'[q] = pc[q]
              /\ found'[p] = there /\ lib' = lib /\ sidecar' = sidecar /\ meta' = meta
            BY <1>0, <2>5 DEF ToRemove, Goto, TypeOK, dir
        <3>2. Stage(p)'
            BY <2>1, <3>1 DEF Stage, Looked, Writing, Removing
        <3>3. QED
            BY <1>0, <2>2, <3>1, <3>2, StageOfActor
    <2>6. QED
        BY <2>1, <2>3, <2>4, <2>5 DEF Looked
<1>15. ASSUME NEW p \in Procs, RemoveFile(p) PROVE Staged
    <2>1. /\ pc[p] \in Removing /\ ~disturbed /\ job' = job /\ job[p].op = "uninstall"
          /\ \A q \in Procs \ {p} : pc'[q] = pc[q]
          /\ Stage(p)
        BY <1>0, <1>15 DEF RemoveFile, Goto, TypeOK, Removing, JobInv, StageInv
    <2>2. CASE pc[p] = "remove1"
        <3>1. /\ pc'[p] = "remove2" /\ found'[p] = found[p] \ {"lib"}
              /\ lib' = None /\ sidecar' = sidecar /\ meta' = meta
            BY <1>0, <1>15, <2>1, <2>2 DEF RemoveFile, Goto, Dealt, Removed, TypeOK, Stage
        <3>2. Stage(p)'
            BY <2>1, <2>2, <3>1 DEF Stage, Writing, Removing
        <3>3. QED
            BY <1>0, <2>1, <2>2, <3>2, StageOfActor
    <2>3. CASE pc[p] = "remove2"
        <3>1. /\ pc'[p] = "remove3" /\ found'[p] = found[p] \ {"sidecar"}
              /\ lib' = lib /\ sidecar' = None /\ meta' = meta
            BY <1>0, <1>15, <2>1, <2>3 DEF RemoveFile, Goto, Dealt, Removed, TypeOK, Stage
        <3>2. Stage(p)'
            BY <2>1, <2>3, <3>1 DEF Stage, Writing, Removing
        <3>3. QED
            BY <1>0, <2>1, <2>3, <3>2, StageOfActor
    <2>4. CASE pc[p] = "remove3"
        <3>1. /\ pc'[p] = "done"
              /\ lib' = lib /\ sidecar' = sidecar /\ meta' = None
            BY <1>0, <1>15, <2>1, <2>4 DEF RemoveFile, Goto, Dealt, Removed, TypeOK, Stage, Removing
        <3>2. Stage(p)'
            BY <2>1, <2>4, <3>1 DEF Stage, Ended, Writing, Removing
        <3>3. QED
            BY <1>0, <2>1, <2>4, <3>2, StageOfActor
    <2>5. QED
        BY <2>1, <2>2, <2>3, <2>4 DEF Removing
<1>16. ASSUME NEW p \in Procs, CannotRemove(p) PROVE Staged
    BY <1>16 DEF CannotRemove
<1>17. ASSUME NEW p \in Procs, Finish(p) PROVE Staged
    BY <1>0, <1>17, StageOfFailed DEF Finish, Fail, Forget
<1>18. ASSUME NEW p \in Procs, Crash(p) PROVE Staged
    BY <1>0, <1>18, StageOfFailed DEF Crash, Fail, Forget, Busy
<1> QED
    BY <1>1, <1>2, <1>3, <1>4, <1>5, <1>6, <1>7, <1>8, <1>9, <1>10, <1>11, <1>12, <1>13, <1>14, <1>15, <1>16, <1>17, <1>18 DEF Next

-----------------------------------------------------------------------------
(* The theorems *)

LEMMA Inductive == InstallSpec => []IInv
<1>1. IInv /\ [Next]_vars => IInv'
    BY NextTypeOK, NextJobInv, NextAloneInv, NextStageInv DEF IInv
<1>2. QED
    BY <1>1, InitIInv, PTL DEF InstallSpec

\* The three files and the steps of the commands that change them have their
\* types, whatever the interleaving and whoever dies (install.go Run, runPin and
\* Uninstall).
THEOREM TypeCorrect == InstallSpec => []TypeOK
<1>1. IInv => TypeOK
    BY DEF IInv
<1>2. QED
    BY <1>1, Inductive, PTL

\* Whatever the number of processes and their interleaving, a whole library is
\* only ever replaced by a whole one (writeFile's rename, and O_EXCL without
\* force).
THEOREM ReplacedAtomicallyTheorem == InstallSpec => ReplacedAtomically
<1> DEFINE A == lib # None /\ lib.whole /\ lib' # None => lib'.whole
<1>1. IInv /\ [Next]_vars => [A]_lib
    <2> SUFFICES ASSUME IInv, Next, lib' # lib, lib # None, lib.whole, lib' # None
                 PROVE  lib'.whole
        BY DEF vars
    <2>1. PICK p \in Procs : Replace(p) \/ CreateExclusive(p) \/ Fill(p) \/ RemoveFile(p)
        BY ZenonT(60) DEF Next, Start, LookInstall, Resolve, Confirmed, Proceed, LookPin, Fetch, HashLibrary,
               ClearSidecar, WriteSidecar, WriteMetadata, LookUninstall, CannotRemove, Finish,
               Crash, Fail, Forget, dir
    <2>2. CASE Replace(p)
        BY <2>2 DEF Replace
    <2>3. CASE CreateExclusive(p)
        BY <2>3 DEF CreateExclusive, Fail, dir
    <2>4. CASE Fill(p)
        BY <2>4 DEF Fill
    <2>5. CASE RemoveFile(p)
        BY <2>5 DEF RemoveFile, Removed
    <2>6. QED
        BY <2>1, <2>2, <2>3, <2>4, <2>5
<1>2. QED
    BY <1>1, Inductive, PTL DEF InstallSpec, ReplacedAtomically

\* Whatever happens while an asset downloads, the library somebody else put there
\* is replaced only by a command that was given --force or the user's yes
\* (install.go:1158-1187).
THEOREM UnaskedKeepsTheorem == InstallSpec => UnaskedKeeps
<1> DEFINE A == lib # None /\ lib' # None /\ lib'.by # lib.by => over[lib'.by]
<1>1. IInv /\ [Next]_vars => [A]_vars
    <2> SUFFICES ASSUME IInv, Next, lib # None, lib' # None, lib'.by # lib.by
                 PROVE  over[lib'.by]
        OBVIOUS
    <2>1. PICK p \in Procs : Replace(p) \/ CreateExclusive(p) \/ Fill(p) \/ RemoveFile(p)
        BY ZenonT(60) DEF Next, Start, LookInstall, Resolve, Confirmed, Proceed, LookPin, Fetch, HashLibrary,
               ClearSidecar, WriteSidecar, WriteMetadata, LookUninstall, CannotRemove, Finish,
               Crash, Fail, Forget, dir
    <2>2. CASE Replace(p)
        BY <2>2 DEF Replace
    <2>3. CASE CreateExclusive(p)
        BY <2>3 DEF CreateExclusive, Fail, dir
    <2>4. CASE Fill(p)
        BY <2>4 DEF Fill, IInv, TypeOK
    <2>5. CASE RemoveFile(p)
        BY <2>5 DEF RemoveFile, Removed
    <2>6. QED
        BY <2>1, <2>2, <2>3, <2>4, <2>5
<1>2. QED
    BY <1>1, Inductive, PTL DEF InstallSpec, UnaskedKeeps

\* A command that nothing disturbed leaves what it was called for: the version
\* asked for, with a sidecar and metadata that name its hash, or nothing at all;
\* however the earlier commands ended (install.go:207-329).
THEOREM DoneIsLoadableTheorem == InstallSpec => []DoneIsLoadable
<1>1. IInv => DoneIsLoadable
    <2> SUFFICES ASSUME IInv, NEW p \in Procs, pc[p] = "done", ~disturbed
                 PROVE  IF job[p].op = "uninstall" THEN lib = None /\ sidecar = None /\ meta = None
                        ELSE /\ Validates /\ lib.whole /\ lib.v = job[p].v
                             /\ meta # Torn /\ meta.v = job[p].v /\ meta.sha = Hash
        BY DEF DoneIsLoadable
    <2>1. Ended(p) /\ lib \in {None} \cup [v : Versions, whole : BOOLEAN, by : Procs]
        BY DEF IInv, StageInv, Stage, TypeOK
    <2>2. CASE job[p].op = "uninstall"
        BY <2>1, <2>2 DEF Ended
    <2>3. CASE job[p].op # "uninstall"
        <3>1. Placed(p) /\ sidecar = Hash /\ Described(p)
            BY <2>1, <2>3 DEF Ended
        <3>2. Hash \in Hashes
            BY <2>1, <3>1 DEF Placed, Hash, Hashes
        <3>3. Validates
            BY <3>1, <3>2 DEF Validates, LoaderAccepts, Placed, Described, Hashes
        <3>4. QED
            BY <2>3, <3>1, <3>3 DEF Placed, Described
    <2>4. QED
        BY <2>2, <2>3
<1>2. QED
    BY <1>1, Inductive, PTL
=============================================================================
