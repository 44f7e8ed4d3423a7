---------------------------- MODULE SplitDownload ----------------------------
(***************************************************************************)
(* A model published in pieces (internal/models/split.go, gguf_merge.go).  *)
(* The rigid variable kind is Model.MergeGGUF:                             *)
(*                                                                         *)
(*   "join"   downloadSplit: the first part becomes the assembling file,   *)
(*            each later part is fetched, appended to it and removed       *)
(*   "merge"  downloadGGUFShards: every shard is fetched, then mergeGGUF   *)
(*            writes a header and the aligned tensors, checking what an    *)
(*            interrupted merge left; the shards are kept                  *)
(*                                                                         *)
(* Files are sequences of blocks.  A part is transferred as PartDownload   *)
(* describes; here a transfer moves block by block and resumes.  A process *)
(* may die, or find the disk full, before any step.                        *)
(***************************************************************************)
EXTENDS Naturals, Sequences, FiniteSetsExt, SequencesExt

CONSTANTS Procs,      \* processes downloading or deleting this model
          NParts,     \* number of published parts
          PartLen,    \* blocks of a part
          NoFile,     \* there is no such file
          Nobody      \* the download lock is free

ASSUME SplitDownloadAssumption ==
    /\ NParts \in Nat \ {0} /\ PartLen \in Nat \ {0}
    /\ Nobody \notin Procs
    /\ NoFile \notin Seq(Nat \X Nat)

VARIABLES kind,     \* how this model is put together: never changes
          foreign,  \* files this code did not write were there at the start: never changes
          part,     \* state of each part's file
          resume,   \* blocks in each part's ".part" file
          asm,      \* the ".assembling" file
          out,      \* the model's file
          lock,     \* holder of the download lock
          pc,       \* step of each process
          at,       \* the part a process is at
          pos,      \* blocks a merging process has accounted for
          room      \* blocks of disk the last space check granted

vars == <<kind, foreign, part, resume, asm, out, lock, pc, at, pos, room>>

Parts == 1..NParts
Blocks(k) == [i \in 1..PartLen |-> <<k, i>>]
\* Blocks no part has: what something else wrote.
Junk(n) == [i \in 1..n |-> <<0, i>>]

\* What a merge adds to the blocks of the parts.
Header == <<NParts + 1, 0>>
Pad(k) == <<NParts + 1, k>>

\* What the finished file is.  A merge puts a header in front, and padding
\* (here one block) after the tensors of a shard.
JoinImage == [i \in 1..(NParts * PartLen) |->
                 <<((i - 1) \div PartLen) + 1, ((i - 1) % PartLen) + 1>>]
MergeImage == <<Header>> \o
    [i \in 1..(NParts * (PartLen + 1)) |->
        LET k == ((i - 1) \div (PartLen + 1)) + 1
            j == ((i - 1) % (PartLen + 1)) + 1
        IN  IF j <= PartLen THEN <<k, j>> ELSE Pad(k)]
Image == IF kind = "join" THEN JoinImage ELSE MergeImage

Locked == {"fetch", "first", "resume", "append", "remove", "open", "merge",
           "verify", "publish", "unlink", "record", "wiping"}
PCs == Locked \cup {"idle", "lock", "down"}

\* Types, and: a process inside has the download lock, whoever has it is inside.
TypeOK ==
    /\ kind \in {"join", "merge"} /\ foreign \in BOOLEAN
    /\ part \in [Parts -> {"none", "good", "stale"}]
    /\ resume \in [Parts -> 0..PartLen]
    /\ asm \in Seq(Nat \X Nat) \cup {NoFile}
    /\ out \in Seq(Nat \X Nat) \cup {NoFile}
    /\ lock \in Procs \cup {Nobody}
    /\ pc \in [Procs -> PCs]
    /\ at \in [Procs -> 1..(NParts + 1)]
    /\ pos \in [Procs -> 0..Len(Image)]
    /\ room \in [Procs -> Nat]
    /\ \A p \in Procs : pc[p] \in Locked <=> lock = p

\* Nothing, or what a foreign program or an older catalog left.
Init ==
    /\ kind \in {"join", "merge"}
    /\ foreign \in BOOLEAN
    /\ part \in [Parts -> IF foreign THEN {"none", "stale"} ELSE {"none"}]
    /\ resume = [k \in Parts |-> 0]
    /\ asm \in {NoFile} \cup
           (IF foreign THEN {Junk(n) : n \in 0..(Len(Image) + 1)} ELSE {})
    /\ out = NoFile
    /\ lock = Nobody
    /\ pc = [p \in Procs |-> "idle"]
    /\ at = [p \in Procs |-> 1]
    /\ pos = [p \in Procs |-> 0]
    /\ room = [p \in Procs |-> 0]

-----------------------------------------------------------------------------
(* The space check *)

Size(file) == IF file = NoFile THEN 0 ELSE Len(file)

\* The blocks of the parts that have a file of their own, and of the ".part" files.
PartBlocks == {b \in Parts \X (1..PartLen) : part[b[1]] # "none"}
ResumeBlocks == {b \in Parts \X (1..PartLen) : b[2] <= resume[b[1]]}

\* What the pieces of this model take on the disk.
OnDisk == Size(asm) + Cardinality(PartBlocks) + Cardinality(ResumeBlocks)

\* Seeded fault: the scratch space of a join, for a merge as well.
ScratchOfJoin == (NParts - 1) * PartLen

\* splitJoinScratchBytes: appended parts exist twice, a merge is a copy.
Scratch == IF kind = "merge" THEN Len(Image) ELSE (NParts - 1) * PartLen

\* What counts as downloaded.  In a join: every piece.
HaveOfJoin == OnDisk
\* In a merge a shard and its ".part" count once, and no file for more than it
\* can be.
HaveOfMerge == Min({Size(asm), Len(Image)}) + Cardinality(PartBlocks \cup ResumeBlocks)

\* The blocks that have to be free, the fixed reserve aside.
Required ==
    LET total == NParts * PartLen + Scratch
        have == IF kind = "join" THEN HaveOfJoin ELSE HaveOfMerge
    IN  IF total > have THEN total - have ELSE 0

-----------------------------------------------------------------------------
(* Downloading *)

files == <<part, resume, asm, out>>
rigid == <<kind, foreign>>

Goto(p, l) == pc' = [pc EXCEPT ![p] = l]

\* The lock is given back, and what the process knew is gone.
Ends(p, l) ==
    /\ Goto(p, l)
    /\ lock' = Nobody
    /\ at' = [at EXCEPT ![p] = 1]
    /\ pos' = [pos EXCEPT ![p] = 0]
    /\ room' = [room EXCEPT ![p] = 0]

\* A function returns, with a model or an error: the deferred lock.Close().
Return(p) == Ends(p, "idle")

\* Download: a join looks at the file and the space before it has the lock.
Start(p) ==
    /\ pc[p] = "idle"
    /\ kind = "join" => out = NoFile
    /\ room' = [room EXCEPT ![p] = IF kind = "join" THEN OnDisk + Required ELSE 0]
    /\ Goto(p, "lock")
    /\ UNCHANGED <<rigid, files, lock, at, pos>>

\* TryLock fails, or a merge finds the file installed.
Leave(p) ==
    /\ pc[p] = "lock"
    /\ lock # Nobody \/ (kind = "merge" /\ out # NoFile)
    /\ Goto(p, "idle")
    /\ room' = [room EXCEPT ![p] = 0]
    /\ UNCHANGED <<rigid, files, lock, at, pos>>

\* TryLock succeeds.  Only a merge looks at file and space again.
Locks(p) ==
    /\ pc[p] = "lock" /\ lock = Nobody
    /\ kind = "merge" => out = NoFile
    /\ lock' = p
    /\ room' = IF kind = "merge" THEN [room EXCEPT ![p] = OnDisk + Required] ELSE room
    /\ Goto(p, IF kind = "join" /\ asm # NoFile THEN "resume" ELSE "fetch")
    /\ UNCHANGED <<rigid, files, at, pos>>

\* Where downloadSplit and downloadGGUFShards go once a part is complete.
AfterPart(p) ==
    LET k == at[p]
    IN  /\ at' = IF kind = "merge" THEN [at EXCEPT ![p] = k + 1] ELSE at
        /\ Goto(p, CASE kind = "merge" -> IF k = NParts THEN "open" ELSE "fetch"
                      [] kind = "join" -> IF k = 1 THEN "first" ELSE "append")

\* ensurePart: a file with the right hash is taken as it is, one with another
\* hash is set aside, and a missing one is downloaded.
EnsurePart(p) ==
    /\ pc[p] = "fetch"
    /\ LET k == at[p] IN
       \/ /\ part[k] = "good"
          /\ AfterPart(p)
          /\ UNCHANGED <<part, resume>>
       \/ /\ part[k] = "stale"
          /\ part' = [part EXCEPT ![k] = "none"]
          /\ UNCHANGED <<resume, at, pc>>
       \/ /\ part[k] = "none" /\ resume[k] < PartLen
          /\ resume' = [resume EXCEPT ![k] = @ + 1]
          /\ UNCHANGED <<part, at, pc>>
       \/ /\ part[k] = "none" /\ resume[k] = PartLen
          /\ part' = [part EXCEPT ![k] = "good"]
          /\ resume' = [resume EXCEPT ![k] = 0]
          /\ UNCHANGED <<at, pc>>
    /\ UNCHANGED <<rigid, asm, out, lock, pos, room>>

\* The first part becomes the assembling file.
RenameFirst(p) ==
    /\ pc[p] = "first"
    /\ asm' = Blocks(1)
    /\ part' = [part EXCEPT ![1] = "none"]
    /\ Goto(p, "resume")
    /\ UNCHANGED <<rigid, resume, out, lock, at, pos, room>>

\* Seeded fault: an interrupted join goes on without the truncation.
ResumeNoTruncate(p) ==
    /\ pc[p] = "resume"
    /\ \/ /\ Len(asm) < PartLen
          /\ Return(p)
       \/ /\ Len(asm) >= PartLen
          /\ at' = [at EXCEPT ![p] = 2]
          /\ Goto(p, IF NParts = 1 THEN "verify" ELSE "fetch")
          /\ UNCHANGED <<lock, pos, room>>
    /\ UNCHANGED <<rigid, files>>

\* Seeded fault: the truncation cuts into the first part.
ResumeCutsFirst(p) ==
    /\ pc[p] = "resume"
    /\ \/ /\ Len(asm) < PartLen
          /\ Return(p)
          /\ UNCHANGED asm
       \/ /\ Len(asm) >= PartLen
          /\ asm' = SubSeq(asm, 1, PartLen - 1)
          /\ at' = [at EXCEPT ![p] = 2]
          /\ Goto(p, IF NParts = 1 THEN "verify" ELSE "fetch")
          /\ UNCHANGED <<lock, pos, room>>
    /\ UNCHANGED <<rigid, part, resume, out>>

\* The assembling file is cut to the first part; one that is smaller is an error.
Resume(p) ==
    /\ pc[p] = "resume"
    /\ \/ /\ Len(asm) < PartLen
          /\ Return(p)
          /\ UNCHANGED asm
       \/ /\ Len(asm) >= PartLen
          /\ asm' = SubSeq(asm, 1, PartLen)
          /\ at' = [at EXCEPT ![p] = 2]
          /\ Goto(p, IF NParts = 1 THEN "verify" ELSE "fetch")
          /\ UNCHANGED <<lock, pos, room>>
    /\ UNCHANGED <<rigid, part, resume, out>>

\* appendFile, a block at a time.
AppendFile(p) ==
    /\ pc[p] = "append"
    /\ asm' = Append(asm, Blocks(at[p])[pos[p] + 1])
    /\ pos' = [pos EXCEPT ![p] = (@ + 1) % PartLen]
    /\ Goto(p, IF pos[p] + 1 = PartLen THEN "remove" ELSE "append")
    /\ UNCHANGED <<rigid, part, resume, out, lock, at, room>>

\* The part just appended is removed.
RemovePart(p) ==
    /\ pc[p] = "remove"
    /\ part' = [part EXCEPT ![at[p]] = "none"]
    /\ at' = [at EXCEPT ![p] = @ + 1]
    /\ Goto(p, IF at[p] = NParts THEN "verify" ELSE "fetch")
    /\ UNCHANGED <<rigid, resume, asm, out, lock, pos, room>>

\* Seeded fault: a file that is already complete counts as too long.
OpenPendingComplete(p) ==
    /\ pc[p] = "open"
    /\ \/ /\ Size(asm) >= Len(Image)
          /\ Return(p)
          /\ UNCHANGED asm
       \/ /\ Size(asm) < Len(Image)
          /\ asm' = IF asm = NoFile THEN <<>> ELSE asm
          /\ Goto(p, "merge")
          /\ UNCHANGED <<lock, at, pos, room>>
    /\ UNCHANGED <<rigid, part, resume, out>>

\* mergeGGUF opens the assembling file; one that is too long is an error.
OpenPending(p) ==
    /\ pc[p] = "open"
    /\ \/ /\ Size(asm) > Len(Image)
          /\ Return(p)
          /\ UNCHANGED asm
       \/ /\ Size(asm) <= Len(Image)
          /\ asm' = IF asm = NoFile THEN <<>> ELSE asm
          /\ Goto(p, "merge")
          /\ UNCHANGED <<lock, at, pos, room>>
    /\ UNCHANGED <<rigid, part, resume, out>>

\* appendData: a block that is there is compared, one that is missing written.
AppendData(p) ==
    /\ pc[p] = "merge"
    /\ LET i == pos[p] + 1 IN
       \/ /\ pos[p] = Len(Image)
          /\ Goto(p, "verify")
          /\ UNCHANGED <<asm, lock, at, pos, room>>
       \/ /\ i <= Len(asm) /\ asm[i] # Image[i]
          /\ Return(p)
          /\ UNCHANGED asm
       \/ /\ pos[p] < Len(Image)
          /\ i <= Len(asm) => asm[i] = Image[i]
          /\ asm' = IF i <= Len(asm) THEN asm ELSE Append(asm, Image[i])
          /\ pos' = [pos EXCEPT ![p] = i]
          /\ UNCHANGED <<pc, lock, at, room>>
    /\ UNCHANGED <<rigid, part, resume, out>>

\* validateSHA256: a join sets a wrong file aside, a merge leaves it.
Verify(p) ==
    /\ pc[p] = "verify"
    /\ \/ /\ asm = Image
          /\ Goto(p, "publish")
          /\ UNCHANGED <<asm, lock, at, pos, room>>
       \/ /\ asm # Image
          /\ asm' = IF kind = "join" THEN NoFile ELSE asm
          /\ Return(p)
    /\ UNCHANGED <<rigid, part, resume, out>>

\* A join renames the assembling file; a merge links it and removes its name.
Publish(p) ==
    /\ pc[p] = "publish"
    /\ out' = asm
    /\ asm' = IF kind = "join" THEN NoFile ELSE asm
    /\ Goto(p, IF kind = "join" THEN "record" ELSE "unlink")
    /\ UNCHANGED <<rigid, part, resume, lock, at, pos, room>>

Unlink(p) ==
    /\ pc[p] = "unlink"
    /\ asm' = NoFile
    /\ Goto(p, "record")
    /\ UNCHANGED <<rigid, part, resume, out, lock, at, pos, room>>

\* recordDownloadLocked (ModelManager has its steps), and the return.
Record(p) ==
    /\ pc[p] = "record"
    /\ Return(p)
    /\ UNCHANGED <<rigid, files>>

\* DeletePartial under the download lock: the pieces in order, one by one.
DeletePartial(p) ==
    /\ pc[p] = "idle" /\ lock = Nobody /\ OnDisk > 0
    /\ lock' = p
    /\ Goto(p, "wiping")
    /\ UNCHANGED <<rigid, files, at, pos, room>>

RemovePartialFiles(p) ==
    /\ pc[p] = "wiping"
    /\ LET k == at[p] IN
       \/ /\ k <= NParts
          /\ part' = [part EXCEPT ![k] = "none"]
          /\ resume' = [resume EXCEPT ![k] = 0]
          /\ at' = [at EXCEPT ![p] = k + 1]
          /\ UNCHANGED <<asm, lock, pc, pos, room>>
       \/ /\ k = NParts + 1
          /\ asm' = NoFile
          /\ Return(p)
          /\ UNCHANGED <<part, resume>>
    /\ UNCHANGED <<rigid, out>>

\* The process dies, and the kernel releases its lock; or a transfer or a
\* write fails and the function returns.  Either way it may be called again.
Interrupted(p) ==
    /\ pc[p] \in Locked
    /\ Ends(p, "down")
    /\ UNCHANGED <<rigid, files>>

Restart(p) ==
    /\ pc[p] = "down"
    /\ Goto(p, "idle")
    /\ UNCHANGED <<rigid, files, lock, at, pos, room>>

-----------------------------------------------------------------------------
\* What a process does once it has called Download or DeletePartial.
Step(p) ==
    \/ Leave(p) \/ Locks(p) \/ EnsurePart(p)
    \/ RenameFirst(p) \/ Resume(p) \/ AppendFile(p) \/ RemovePart(p)
    \/ OpenPending(p) \/ AppendData(p)
    \/ Verify(p) \/ Publish(p) \/ Unlink(p) \/ Record(p)
    \/ RemovePartialFiles(p) \/ Restart(p)

Next == \E p \in Procs :
    Start(p) \/ Step(p) \/ DeletePartial(p) \/ Interrupted(p)

Spec == Init /\ [][Next]_vars

\* Somebody tries again, and what was started goes on.
FairSpec == Spec /\ \A p \in Procs : WF_vars(Step(p)) /\ WF_vars(Start(p))

-----------------------------------------------------------------------------
(* Properties *)

\* What this code assembles never has a block twice, out of order or missing,
\* wherever a process died and whoever resumed: it is a prefix of the image
\* (split.go:110-128, gguf_merge.go:343-386); and whatever else was on the disk,
\* only the complete image is installed (split.go:129-141, gguf_merge.go:393-399).
AssemblyIsImage ==
    /\ ~foreign /\ asm # NoFile => IsPrefix(asm, Image)
    /\ out # NoFile => out = Image

\* What a check of the free space granted is enough, to the end of the
\* download, as long as nobody installs the model in the meantime
\* (split.go:22-34, 76-85; gguf_merge.go:418-423, 451-466).
SpaceSuffices ==
    ~foreign /\ out = NoFile =>
        \A p \in Procs : lock = p /\ pc[p] # "wiping" => OnDisk <= room[p]

\* A verified first part of a join is never fetched again, nor any shard of a
\* merge: the bytes stay, as the part, at the front of the assembling file or
\* in the installed file, until DeletePartial (split.go:59-61, gguf_merge.go:299).
Verified(k) ==
    \/ part[k] = "good"
    \/ kind = "join" /\ asm # NoFile /\ IsPrefix(Blocks(1), asm)
    \/ kind = "join" /\ out = Image
VerifiedKept ==
    [][\A k \in Parts :
        /\ kind = "merge" \/ k = 1
        /\ Verified(k)
        /\ \A p \in Procs : pc[p] # "wiping"
        => Verified(k)']_vars

\* Unless they are interrupted for ever, or partial files are deleted for
\* ever, repeated downloads end with the model installed; nothing an
\* interrupted one leaves behind is in the way (split.go:102-115,
\* gguf_merge.go:339-356).
DownloadsEnd ==
    ~foreign =>
        \/ <>(out # NoFile)
        \/ []<><<\E p \in Procs : Interrupted(p) \/ DeletePartial(p)>>_vars
=============================================================================
