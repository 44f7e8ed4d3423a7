--------------------------- MODULE DownloadProofs ----------------------------
(***************************************************************************)
(* Proofs about ModelManager, for any processes, any catalog and both      *)
(* kinds of links, and about PartDownload, for any sizes and bounds: the   *)
(* object is of any length, and so are chunks, retries and the bound on    *)
(* .part files.                                                            *)
(***************************************************************************)
EXTENDS ModelManager, PartDownload, SequenceTheorems, TLAPS

-----------------------------------------------------------------------------
(* ModelManager *)

Agree == config = link /\ config \in file \cup {None}

\* Which steps belong to which operation, which model it is about, and what of
\* its locks it has.
Fits(p) ==
    /\ pc[p] = "idle" => op[p] = "none"
    /\ pc[p] \in {"fetch", "record", "hash"} => op[p] = "download"
    /\ pc[p] \in {"swap", "save"} => op[p] \in {"set", "download"}
    /\ pc[p] \in {"remove", "clear", "saveCleared"} => op[p] = "delete"
    /\ pc[p] = "removePart" => op[p] \in {"delete", "deletePartial"}
    /\ pc[p] \in {"next", "drop", "unlink", "close"} => op[p] = "leftovers"
    /\ pc[p] = "trylock" => op[p] \in {"download", "delete", "deletePartial"}
    /\ pc[p] = "flock" => op[p] \in {"download", "delete", "deletePartial", "leftovers"}
    /\ pc[p] = "flock" => (op[p] = "leftovers" <=> state = p)
    /\ pc[p] = "wait" => op[p] # "none"
    /\ op[p] \notin {"none", "leftovers"} => obj[p] # None
    /\ pc[p] \in {"flock", "drop", "unlink", "close"} => obj[p] # None /\ fd[p] # None
    /\ op[p] \in {"delete", "deletePartial"}
          /\ pc[p] \in {"wait", "remove", "removePart", "clear", "saveCleared"}
          => fd[p] # None

\* Who has the state lock is in a section or returns from one.
OwnerInside ==
    \A p \in Procs :
        /\ state = p => pc[p] \in Inside \cup {"done", "flock"}
        /\ pc[p] = "done" => state = p

\* Where a section stands, step by step.
Section(p) ==
    /\ torn = "no" =>
          /\ pc[p] \in {"swap", "record", "hash", "remove", "next", "flock", "drop", "unlink",
                        "close", "done"}
                => Agree
          /\ pc[p] = "removePart" /\ op[p] = "deletePartial" => Agree
          /\ pc[p] = "clear" \/ (pc[p] = "removePart" /\ op[p] = "delete")
                => config = link /\ config \in file \cup {None, obj[p]}
          /\ pc[p] = "saveCleared" => config = obj[p]
          /\ pc[p] \in {"swap", "save"} /\ op[p] = "download" => config = None
    /\ pc[p] = "save" => link = obj[p] /\ obj[p] \in Eligible \cap file
    /\ pc[p] \in {"hash", "done"} /\ op[p] = "download" /\ obj[p] \in Eligible => Active
    /\ pc[p] = "done" /\ op[p] = "delete" =>
          /\ config # obj[p]
          /\ link = obj[p] => torn = "link" \/ (links = "hard" /\ torn = "write")

\* The inductive invariant.
IInv ==
    /\ TypeOK
    /\ OwnerInside
    /\ \A p \in Procs : Fits(p)
    /\ state = None /\ torn = "no" => Agree
    /\ \A p \in Procs : state = p => Section(p)

USE ModelManagerAssumption DEF files, default, locks, local, vars

-----------------------------------------------------------------------------
(* Steps outside and inside of sections *)

LEMMA InitIInv == Init => IInv
<1> SUFFICES ASSUME Init PROVE IInv
    OBVIOUS
<1>1. TypeOK
    BY DEF Init, TypeOK, Ops, PCs, Inside
<1>2. OwnerInside /\ Agree /\ \A p \in Procs : Fits(p) /\ state # p
    BY DEF Init, OwnerInside, Agree, Fits
<1> QED
    BY <1>1, <1>2 DEF IInv

\* Two processes are never in sections at once.
LEMMA Alone ==
    ASSUME IInv, NEW p \in Procs, state = p, NEW q \in Procs, q # p
    PROVE  pc[q] \notin Inside \cup {"done"} /\ state # q /\ (pc[q] = "flock" => op[q] # "leftovers")
BY DEF IInv, TypeOK, OwnerInside, Fits

\* A step of a process without the state lock changes neither the default nor
\* how far a section of another process is; a model it installs cannot make an
\* agreeing default disagree.
LEMMA OutsideStep ==
    ASSUME IInv, NEW p \in Procs, state # p,
           TypeOK', OwnerInside', \A q \in Procs : Fits(q)',
           links' = links, link' = link, config' = config, torn' = torn, state' = state,
           file \subseteq file',
           \A q \in Procs \ {p} : pc'[q] = pc[q] /\ op'[q] = op[q] /\ obj'[q] = obj[q]
    PROVE  IInv'
<1>1. Agree => Agree'
    BY DEF Agree
<1>2. Active => Active'
    BY DEF Active, Configured, Detected
<1>3. ASSUME NEW q \in Procs, state' = q PROVE Section(q)'
  <2>1. q # p /\ Section(q)
    BY <1>3 DEF IInv
  <2>2. pc'[q] = pc[q] /\ op'[q] = op[q] /\ obj'[q] = obj[q]
    BY <2>1
  <2> QED
    BY <2>1, <2>2, <1>1, <1>2 DEF Section
<1> QED
    BY <1>1, <1>3 DEF IInv

\* A step of the process with the state lock only has to keep its own section.
LEMMA InsideStep ==
    ASSUME NEW p \in Procs, state' = p, TypeOK', OwnerInside', \A q \in Procs : Fits(q)',
           Section(p)'
    PROVE  IInv'
BY DEF IInv

-----------------------------------------------------------------------------
(* Operations start, and transfers run, outside of sections *)

LEMMA BeginIInv ==
    ASSUME IInv, NEW p \in Procs, NEW o \in Ops \ {"none"}, NEW m \in Models \cup {None},
           NEW items \in SUBSET Items, NEW step \in {"wait", "trylock"},
           o # "leftovers" => m # None,
           step = "trylock" => o \in {"download", "delete", "deletePartial"},
           step = "wait" => o \in {"set", "leftovers"},
           Begin(p, o, m, items, step)
    PROVE  IInv'
<1>1. state # p /\ pc[p] = "idle"
    BY DEF Begin, IInv, TypeOK
<1>2. TypeOK'
    BY DEF IInv, TypeOK, Begin, Goes, Inside, PCs
<1>3. OwnerInside'
    BY <1>1 DEF IInv, TypeOK, OwnerInside, Begin, Goes
<1>4. \A q \in Procs : Fits(q)'
    BY DEF IInv, TypeOK, Fits, Begin, Goes
<1> QED
    BY <1>1, <1>2, <1>3, <1>4, OutsideStep DEF Begin, Goes, IInv, TypeOK

LEMMA StartsIInv == ASSUME IInv, NEW p \in Procs, Starts(p) PROVE IInv'
<1>1. file \subseteq Models /\ part \subseteq Models
    BY DEF IInv, TypeOK
<1>2. CASE StartSet(p)
    BY <1>2, BeginIInv DEF StartSet, Ops
<1>3. CASE StartDownload(p)
    BY <1>3, BeginIInv DEF StartDownload, Ops
<1>4. CASE StartDelete(p)
    BY <1>1, <1>4, BeginIInv DEF StartDelete, Ops
<1>5. CASE StartDeletePartial(p)
    BY <1>1, <1>5, BeginIInv DEF StartDeletePartial, Ops
<1>6. CASE StartRemoveLeftovers(p)
    BY <1>1, <1>6, BeginIInv DEF StartRemoveLeftovers, Ops
<1> QED
    BY <1>2, <1>3, <1>4, <1>5, <1>6 DEF Starts

LEMMA OpenLockIInv == ASSUME IInv, NEW p \in Procs, OpenLock(p) PROVE IInv'
<1>1. state # p
    BY DEF OpenLock, IInv, OwnerInside, Inside
<1>2. TypeOK'
    BY DEF IInv, TypeOK, Fits, OpenLock, Goes, Inside, PCs
<1>3. OwnerInside'
    BY <1>1 DEF IInv, TypeOK, OwnerInside, OpenLock, Goes
<1>4. \A q \in Procs : Fits(q)'
    BY <1>1 DEF IInv, TypeOK, Fits, OpenLock, Goes
<1> QED
    BY <1>1, <1>2, <1>3, <1>4, OutsideStep DEF OpenLock, Goes, IInv, TypeOK

LEMMA FetchWritesIInv == ASSUME IInv, NEW p \in Procs, FetchWrites(p) PROVE IInv'
<1>1. state # p
    BY DEF FetchWrites, IInv, OwnerInside, Inside
<1>2. TypeOK'
    BY DEF IInv, TypeOK, Fits, FetchWrites, Goes, Inside, PCs
<1>3. OwnerInside'
    BY <1>1 DEF IInv, TypeOK, OwnerInside, FetchWrites, Goes
<1>4. \A q \in Procs : Fits(q)'
    BY DEF IInv, TypeOK, Fits, FetchWrites, Goes
<1> QED
    BY <1>1, <1>2, <1>3, <1>4, OutsideStep DEF FetchWrites, Goes, IInv, TypeOK

LEMMA FetchInstallsIInv == ASSUME IInv, NEW p \in Procs, FetchInstalls(p) PROVE IInv'
<1>1. state # p
    BY DEF FetchInstalls, IInv, OwnerInside, Inside
<1>2. TypeOK'
    BY DEF IInv, TypeOK, Fits, FetchInstalls, Goes, Inside, PCs
<1>3. OwnerInside'
    BY <1>1 DEF IInv, TypeOK, OwnerInside, FetchInstalls, Goes
<1>4. \A q \in Procs : Fits(q)'
    BY DEF IInv, TypeOK, Fits, FetchInstalls, Goes
<1> QED
    BY <1>1, <1>2, <1>3, <1>4, OutsideStep DEF FetchInstalls, Goes, IInv, TypeOK

-----------------------------------------------------------------------------
(* Sections *)

LEMMA LockStateIInv == ASSUME IInv, NEW p \in Procs, LockState(p) PROVE IInv'
<1>1. pc' = [pc EXCEPT ![p] = FirstStep(op[p])] /\ op[p] \in Ops \ {"none"}
    BY DEF LockState, Goes, IInv, TypeOK, Fits
<1>2. /\ FirstStep(op[p]) \in {"swap", "record", "remove", "removePart", "next"}
      /\ FirstStep(op[p]) = "swap" => op[p] = "set"
      /\ FirstStep(op[p]) = "record" => op[p] = "download"
      /\ FirstStep(op[p]) = "remove" => op[p] = "delete"
      /\ FirstStep(op[p]) = "removePart" => op[p] = "deletePartial"
      /\ FirstStep(op[p]) = "next" => op[p] = "leftovers"
    BY <1>1 DEF FirstStep, Ops
<1> DEFINE step == FirstStep(op[p])
<1> HIDE DEF step
<1>3. TypeOK'
    BY <1>1, <1>2 DEF IInv, TypeOK, LockState, Inside, PCs, step
<1>4. OwnerInside'
    BY <1>1, <1>2 DEF IInv, TypeOK, OwnerInside, LockState, Inside, step
<1>5. \A q \in Procs : Fits(q)'
    BY <1>1, <1>2 DEF IInv, TypeOK, Fits, LockState, step
<1>6. Section(p)'
    BY <1>1, <1>2 DEF IInv, TypeOK, Section, Agree, LockState, step
<1> QED
    BY <1>3, <1>4, <1>5, <1>6, InsideStep DEF LockState

LEMMA RecordIInv == ASSUME IInv, NEW p \in Procs, Record(p) PROVE IInv'
<1>1. state = p /\ state' = p /\ Fits(p) /\ Section(p)
    BY DEF Record, IInv, TypeOK, Inside
<1>2. TypeOK'
    BY <1>1 DEF IInv, TypeOK, Fits, Record, Goes, Inside, PCs
<1>3. OwnerInside'
    BY <1>1, Alone DEF IInv, TypeOK, OwnerInside, Record, Goes, Inside
<1>4. \A q \in Procs : Fits(q)'
    BY DEF IInv, TypeOK, Fits, Record, Goes
<1>5. Section(p)'
    BY <1>1 DEF IInv, TypeOK, Fits, Section, Agree, Active, Configured, Detected, Record, Goes
<1> QED
    BY <1>1, <1>2, <1>3, <1>4, <1>5, InsideStep

LEMMA SaveHashIInv == ASSUME IInv, NEW p \in Procs, SaveHash(p) PROVE IInv'
<1>1. state = p /\ state' = p /\ Fits(p) /\ Section(p)
    BY DEF SaveHash, IInv, TypeOK, Inside
<1>0. config' \in Models \cup {None}
    BY DEF SaveHash, Configured, Detected, IInv, TypeOK
<1>2. TypeOK'
    BY <1>1, <1>0 DEF IInv, TypeOK, Fits, SaveHash, Goes, Inside, PCs
<1>3. OwnerInside'
    BY <1>1, Alone DEF IInv, TypeOK, OwnerInside, SaveHash, Goes, Inside
<1>4. \A q \in Procs : Fits(q)'
    BY DEF IInv, TypeOK, Fits, SaveHash, Goes
<1>5. Section(p)'
    BY <1>1 DEF IInv, TypeOK, Fits, Section, Agree, Active, Configured, Detected, SaveHash, Goes
<1> QED
    BY <1>1, <1>2, <1>3, <1>4, <1>5, InsideStep

LEMMA SaveDefaultIInv == ASSUME IInv, NEW p \in Procs, SaveDefault(p) PROVE IInv'
<1>1. state = p /\ state' = p /\ Fits(p) /\ Section(p)
    BY DEF SaveDefault, IInv, TypeOK, Inside
<1>0. config' \in Models \cup {None} /\ torn' \in {"no", "write", "link"}
    BY DEF SaveDefault, IInv, TypeOK
<1>2. TypeOK'
    BY <1>1, <1>0 DEF IInv, TypeOK, Fits, SaveDefault, Goes, Inside, PCs
<1>3. OwnerInside'
    BY <1>1, Alone DEF IInv, TypeOK, OwnerInside, SaveDefault, Goes, Inside
<1>4. \A q \in Procs : Fits(q)'
    BY DEF IInv, TypeOK, Fits, SaveDefault, Goes
<1>5. Section(p)'
    BY <1>1 DEF IInv, TypeOK, Fits, Section, Agree, Active, Configured, Detected, SaveDefault, Goes
<1> QED
    BY <1>1, <1>2, <1>3, <1>4, <1>5, InsideStep

LEMMA RemoveFileIInv == ASSUME IInv, NEW p \in Procs, RemoveFile(p) PROVE IInv'
<1>1. state = p /\ state' = p /\ Fits(p) /\ Section(p)
    BY DEF RemoveFile, IInv, TypeOK, Inside
<1>2. TypeOK'
    BY <1>1 DEF IInv, TypeOK, Fits, RemoveFile, Goes, Inside, PCs
<1>3. OwnerInside'
    BY <1>1, Alone DEF IInv, TypeOK, OwnerInside, RemoveFile, Goes, Inside
<1>4. \A q \in Procs : Fits(q)'
    BY DEF IInv, TypeOK, Fits, RemoveFile, Goes
<1>5. Section(p)'
    BY <1>1 DEF IInv, TypeOK, Fits, Section, Agree, Active, Configured, Detected, RemoveFile, Goes
<1> QED
    BY <1>1, <1>2, <1>3, <1>4, <1>5, InsideStep

LEMMA RemovePartIInv == ASSUME IInv, NEW p \in Procs, RemovePart(p) PROVE IInv'
<1>1. state = p /\ state' = p /\ Fits(p) /\ Section(p)
    BY DEF RemovePart, IInv, TypeOK, Inside
<1>2. TypeOK'
    BY <1>1 DEF IInv, TypeOK, Fits, RemovePart, Goes, Inside, PCs
<1>3. OwnerInside'
    BY <1>1, Alone DEF IInv, TypeOK, OwnerInside, RemovePart, Goes, Inside
<1>4. \A q \in Procs : Fits(q)'
    BY DEF IInv, TypeOK, Fits, RemovePart, Goes
<1>5. Section(p)'
    BY <1>1 DEF IInv, TypeOK, Fits, Section, Agree, Active, Configured, Detected, RemovePart, Goes
<1> QED
    BY <1>1, <1>2, <1>3, <1>4, <1>5, InsideStep

LEMMA ClearLinkIInv == ASSUME IInv, NEW p \in Procs, ClearLink(p) PROVE IInv'
<1>1. state = p /\ state' = p /\ Fits(p) /\ Section(p)
    BY DEF ClearLink, IInv, TypeOK, Inside
<1>2. TypeOK'
    BY <1>1 DEF IInv, TypeOK, Fits, ClearLink, Goes, Inside, PCs
<1>3. OwnerInside'
    BY <1>1, Alone DEF IInv, TypeOK, OwnerInside, ClearLink, Goes, Inside
<1>4. \A q \in Procs : Fits(q)'
    BY DEF IInv, TypeOK, Fits, ClearLink, Goes
<1>5. Section(p)'
    BY <1>1 DEF IInv, TypeOK, Fits, Section, Agree, Active, Configured, Detected, ClearLink, Goes
<1> QED
    BY <1>1, <1>2, <1>3, <1>4, <1>5, InsideStep

LEMMA SaveClearedIInv == ASSUME IInv, NEW p \in Procs, SaveCleared(p) PROVE IInv'
<1>1. state = p /\ state' = p /\ Fits(p) /\ Section(p)
    BY DEF SaveCleared, IInv, TypeOK, Inside
<1>0. config' \in Models \cup {None} /\ torn' \in {"no", "write", "link"}
    BY DEF SaveCleared, IInv, TypeOK
<1>2. TypeOK'
    BY <1>1, <1>0 DEF IInv, TypeOK, Fits, SaveCleared, Goes, Inside, PCs
<1>3. OwnerInside'
    BY <1>1, Alone DEF IInv, TypeOK, OwnerInside, SaveCleared, Goes, Inside
<1>4. \A q \in Procs : Fits(q)'
    BY DEF IInv, TypeOK, Fits, SaveCleared, Goes
<1>5. Section(p)'
    BY <1>1 DEF IInv, TypeOK, Fits, Section, Agree, Active, Configured, Detected, SaveCleared, Goes
<1> QED
    BY <1>1, <1>2, <1>3, <1>4, <1>5, InsideStep

LEMMA NextItemIInv == ASSUME IInv, NEW p \in Procs, NextItem(p) PROVE IInv'
<1>1. state = p /\ state' = p /\ Fits(p) /\ Section(p)
    BY DEF NextItem, IInv, TypeOK, Inside
<1>2. TypeOK'
    BY <1>1 DEF IInv, TypeOK, Fits, NextItem, Goes, Inside, PCs, Items
<1>3. OwnerInside'
    BY <1>1, Alone DEF IInv, TypeOK, OwnerInside, NextItem, Goes, Inside
<1>4. \A q \in Procs : Fits(q)'
    BY <1>1 DEF IInv, TypeOK, Fits, NextItem, Goes, Items
<1>5. Section(p)'
    BY <1>1 DEF IInv, TypeOK, Fits, Section, Agree, Active, Configured, Detected, NextItem, Goes
<1> QED
    BY <1>1, <1>2, <1>3, <1>4, <1>5, InsideStep

LEMMA DropIInv == ASSUME IInv, NEW p \in Procs, Drop(p) PROVE IInv'
<1>1. state = p /\ state' = p /\ Fits(p) /\ Section(p)
    BY DEF Drop, IInv, TypeOK, Inside
<1>2. TypeOK'
    BY <1>1 DEF IInv, TypeOK, Fits, Drop, Goes, Inside, PCs
<1>3. OwnerInside'
    BY <1>1, Alone DEF IInv, TypeOK, OwnerInside, Drop, Goes, Inside
<1>4. \A q \in Procs : Fits(q)'
    BY DEF IInv, TypeOK, Fits, Drop, Goes
<1>5. Section(p)'
    BY <1>1 DEF IInv, TypeOK, Fits, Section, Agree, Active, Configured, Detected, Drop, Goes
<1> QED
    BY <1>1, <1>2, <1>3, <1>4, <1>5, InsideStep

LEMMA UnlinkIInv == ASSUME IInv, NEW p \in Procs, Unlink(p) PROVE IInv'
<1>1. state = p /\ state' = p /\ Fits(p) /\ Section(p)
    BY DEF Unlink, IInv, TypeOK, Inside
<1>2. TypeOK'
    BY <1>1 DEF IInv, TypeOK, Fits, Unlink, Goes, Inside, PCs
<1>3. OwnerInside'
    BY <1>1, Alone DEF IInv, TypeOK, OwnerInside, Unlink, Goes, Inside
<1>4. \A q \in Procs : Fits(q)'
    BY <1>1 DEF IInv, TypeOK, Fits, Unlink, Goes
<1>5. Section(p)'
    BY <1>1 DEF IInv, TypeOK, Fits, Section, Agree, Active, Configured, Detected, Unlink, Goes
<1> QED
    BY <1>1, <1>2, <1>3, <1>4, <1>5, InsideStep

LEMMA CloseLockIInv == ASSUME IInv, NEW p \in Procs, CloseLock(p) PROVE IInv'
<1>1. state = p /\ state' = p /\ Fits(p) /\ Section(p)
    BY DEF CloseLock, IInv, TypeOK, Inside
<1>2. TypeOK'
    BY <1>1 DEF IInv, TypeOK, Fits, CloseLock, Goes, Inside, PCs
<1>3. OwnerInside'
    BY <1>1, Alone DEF IInv, TypeOK, OwnerInside, CloseLock, Goes, Inside
<1>4. \A q \in Procs : Fits(q)'
    BY <1>1 DEF IInv, TypeOK, Fits, CloseLock, Goes
<1>5. Section(p)'
    BY <1>1 DEF IInv, TypeOK, Fits, Section, Agree, Active, Configured, Detected, CloseLock, Goes
<1> QED
    BY <1>1, <1>2, <1>3, <1>4, <1>5, InsideStep

-----------------------------------------------------------------------------
(* The end of an operation *)

\* A process gives its locks back; what it leaves agrees or is torn.
LEMMA EndsIInv ==
    ASSUME IInv, NEW p \in Procs, Ends(p), UNCHANGED <<links, file, link, config>>, part' \in SUBSET Models,
           torn' \in {"no", "write", "link"}, state # p => torn' = torn,
           state = p /\ torn' = "no" => Agree
    PROVE  IInv'
<1>1. TypeOK'
    BY DEF IInv, TypeOK, Ends, Unlocks, Goes, Inside, PCs, Ops
<1>2. OwnerInside'
    BY DEF IInv, TypeOK, OwnerInside, Ends, Unlocks, Goes
<1>3. \A q \in Procs : Fits(q)'
    BY DEF IInv, TypeOK, Fits, Ends, Unlocks, Goes
<1>4. CASE state = p
  <2>1. state' = None
    BY <1>4 DEF Ends, Unlocks
  <2>2. torn' = "no" => Agree'
    BY <1>4 DEF Agree
  <2> QED
    BY <1>1, <1>2, <1>3, <2>1, <2>2 DEF IInv
<1>5. CASE state # p
    BY SMTT(30), <1>1, <1>2, <1>3, <1>5, OutsideStep DEF Ends, Unlocks, Goes, IInv, TypeOK
<1> QED
    BY <1>4, <1>5

LEMMA ReturnIInv == ASSUME IInv, NEW p \in Procs, Return(p) PROVE IInv'
<1>1. state = p /\ torn = "no" => Agree
    BY DEF Return, IInv, Section
<1> QED
    BY <1>1, EndsIInv DEF Return, IInv, TypeOK

LEMMA FetchFailsIInv == ASSUME IInv, NEW p \in Procs, FetchFails(p) PROVE IInv'
<1>1. state # p
    BY DEF FetchFails, IInv, OwnerInside, Inside
<1> QED
    BY <1>1, EndsIInv DEF FetchFails, IInv, TypeOK

\* A model that cannot be the default ends the operation, else its section goes
\* on.
LEMMA SwapLinkIInv == ASSUME IInv, NEW p \in Procs, SwapLink(p) PROVE IInv'
<1>1. state = p /\ Fits(p) /\ Section(p)
    BY DEF SwapLink, IInv, TypeOK, Inside
<1>2. CASE Ends(p) /\ UNCHANGED link
    BY <1>1, <1>2, EndsIInv DEF SwapLink, Section, IInv, TypeOK
<1>3. CASE ~(Ends(p) /\ UNCHANGED link)
  <2>1. /\ obj[p] \in Eligible \cap file /\ link' = obj[p] /\ pc' = [pc EXCEPT ![p] = "save"]
        /\ UNCHANGED <<locks, op, obj, todo, links, files, config, torn>>
    BY <1>3 DEF SwapLink, Goes
  <2>2. TypeOK'
    BY <1>1, <2>1 DEF IInv, TypeOK, Fits, Inside, PCs
  <2>3. OwnerInside'
    BY <1>1, <2>1, Alone DEF IInv, TypeOK, OwnerInside, Inside
  <2>4. \A q \in Procs : Fits(q)'
    BY <1>1, <2>1 DEF IInv, TypeOK, Fits, SwapLink
  <2>5. Section(p)'
    BY <1>1, <2>1 DEF IInv, TypeOK, Fits, Section, SwapLink, Agree
  <2> QED
    BY <1>1, <2>1, <2>2, <2>3, <2>4, <2>5, InsideStep
<1> QED
    BY <1>2, <1>3

\* Only RemoveLeftovers locks a download lock in a section.
LEMMA FlockIInv == ASSUME IInv, NEW p \in Procs, Flock(p) PROVE IInv'
<1>1. Fits(p) /\ pc[p] = "flock" /\ todo' \in [Procs -> SUBSET Items]
    BY DEF Flock, Takes, IInv, TypeOK
<1>2. PICK step \in {"fetch", "wait", "drop", "unlink"} :
        /\ pc' = [pc EXCEPT ![p] = step]
        /\ step \in {"drop", "unlink"} <=> op[p] = "leftovers"
        /\ step = "fetch" <=> op[p] = "download"
    BY DEF Flock, Goes
<1>3. UNCHANGED <<links, files, default, locks, op, obj>>
    BY DEF Flock
<1>4. TypeOK'
    BY <1>1, <1>2, <1>3 DEF IInv, TypeOK, Fits, Inside, PCs
<1>5. OwnerInside'
    BY <1>1, <1>2, <1>3 DEF IInv, TypeOK, OwnerInside, Inside, Fits
<1>6. \A q \in Procs : Fits(q)'
    BY <1>1, <1>2, <1>3 DEF IInv, TypeOK, Fits
<1>7. CASE state = p
  <2>1. Section(p)'
    BY <1>1, <1>2, <1>3, <1>7 DEF IInv, TypeOK, Fits, Section, Agree
  <2> QED
    BY <1>3, <1>4, <1>5, <1>6, <1>7, <2>1, InsideStep
<1>8. CASE state # p
    BY <1>2, <1>3, <1>4, <1>5, <1>6, <1>8, OutsideStep DEF IInv, TypeOK
<1> QED
    BY <1>7, <1>8

LEMMA FlockBusyIInv == ASSUME IInv, NEW p \in Procs, FlockBusy(p) PROVE IInv'
<1>1. Fits(p) /\ pc[p] = "flock"
    BY DEF FlockBusy, IInv
<1>2. CASE op[p] # "leftovers"
    BY <1>1, <1>2, EndsIInv DEF FlockBusy, Fits, IInv, TypeOK
<1>3. CASE op[p] = "leftovers"
  <2>1. /\ state = p /\ todo' \in [Procs -> SUBSET Items]
        /\ fd' = [fd EXCEPT ![p] = None] /\ obj' = [obj EXCEPT ![p] = None]
        /\ pc' = [pc EXCEPT ![p] = "next"]
        /\ UNCHANGED <<links, files, default, state, op>>
    BY <1>1, <1>3 DEF FlockBusy, Takes, Goes, Fits, IInv, TypeOK
  <2>2. TypeOK'
    BY <1>3, <2>1 DEF IInv, TypeOK, Inside, PCs
  <2>3. OwnerInside'
    BY <2>1, Alone DEF IInv, TypeOK, OwnerInside, Inside
  <2>4. \A q \in Procs : Fits(q)'
    BY <1>3, <2>1 DEF IInv, TypeOK, Fits
  <2>5. Section(p)'
    BY <1>1, <1>3, <2>1 DEF IInv, TypeOK, Section, Agree
  <2> QED
    BY <2>1, <2>2, <2>3, <2>4, <2>5, InsideStep
<1> QED
    BY <1>2, <1>3

LEMMA StopsIInv == ASSUME IInv, NEW p \in Procs, Stops(p) PROVE IInv'
<1>1. torn' = (IF Midway(p) THEN "write" ELSE torn) /\ torn' \in {"no", "write", "link"}
    BY DEF Stops, IInv, TypeOK
<1>2. Midway(p) => state = p
    BY DEF Midway, IInv, TypeOK, Inside
<1>3. state = p /\ torn' = "no" => Agree
    BY <1>1 DEF IInv, TypeOK, OwnerInside, Section, Fits, Midway, Inside
<1>4. UNCHANGED <<links, file, part, link, config>> /\ Ends(p)
    BY DEF Stops
<1> QED
    BY <1>1, <1>2, <1>3, <1>4, EndsIInv DEF IInv, TypeOK

LEMMA NextIInv == IInv /\ [Next]_vars => IInv'
<1> SUFFICES ASSUME IInv, [Next]_vars PROVE IInv'
    OBVIOUS
<1>1. CASE UNCHANGED vars
    BY <1>1 DEF IInv, TypeOK, OwnerInside, Fits, Section, Agree, Active, Configured, Detected
<1>2. ASSUME NEW p \in Procs, Works(p) PROVE IInv'
    BY <1>2, OpenLockIInv, FlockIInv, FlockBusyIInv, FetchInstallsIInv, FetchFailsIInv,
       RecordIInv, SaveHashIInv, SwapLinkIInv, SaveDefaultIInv, RemoveFileIInv, RemovePartIInv,
       ClearLinkIInv, SaveClearedIInv, NextItemIInv, DropIInv, UnlinkIInv, CloseLockIInv,
       ReturnIInv DEF Works
<1> QED
    BY <1>1, <1>2, StartsIInv, LockStateIInv, FetchWritesIInv, StopsIInv DEF Next

LEMMA SpecIInv == Spec => []IInv
BY InitIInv, NextIInv, PTL DEF Spec

-----------------------------------------------------------------------------
(* The theorems *)

\* Type correctness, with the lock discipline: every section is under the state
\* lock, every transfer under its download lock.
THEOREM TypeCorrect == Spec => []TypeOK
<1>1. IInv => TypeOK
    BY DEF IInv
<1> QED
    BY <1>1, SpecIInv, PTL

\* Set, Download and Delete keep link and configuration in agreement, through
\* every crash and failure but those between their writes.
THEOREM DefaultIsTheLinkTheorem == Spec => []DefaultIsTheLink
<1>1. IInv => DefaultIsTheLink
    BY DEF IInv, DefaultIsTheLink, Agree
<1> QED
    BY <1>1, SpecIInv, PTL

\* Delete clears the configuration, and the link unless it could not be removed
\* or, where links cannot be read, was left half changed.
THEOREM DeleteClearsTheorem == Spec => []DeleteClearsKnownDefault
<1>1. IInv => DeleteClearsKnownDefault
    BY DEF IInv, DeleteClearsKnownDefault, OwnerInside, Section
<1> QED
    BY <1>1, SpecIInv, PTL

\* A recorded download of an eligible model leaves an installed default.
THEOREM DownloadLeavesDefaultTheorem == Spec => []DownloadLeavesDefault
<1>1. IInv => DownloadLeavesDefault
    BY DEF IInv, DownloadLeavesDefault, OwnerInside, Section
<1> QED
    BY <1>1, SpecIInv, PTL

\* A default that is installed is only changed by Set, or by its own Delete.
THEOREM OnlySetOverridesTheorem == Spec => OnlySetOverrides
<1>1. IInv /\ [Next]_vars =>
        (config' # config /\ config \in file /\ torn = "no"
            => \E p \in Procs : state = p /\ (op[p] = "set" \/ Deletes(p, config)))
  <2> SUFFICES ASSUME IInv, [Next]_vars, config' # config, config \in file, torn = "no"
               PROVE  \E p \in Procs : state = p /\ (op[p] = "set" \/ Deletes(p, config))
    OBVIOUS
  <2>1. None \notin file
    BY DEF IInv, TypeOK
  <2>2. PICK p \in Procs : SaveDefault(p) \/ SaveHash(p) \/ SaveCleared(p)
    BY DEF Next, Works, Starts, StartSet, StartDownload, StartDelete, StartDeletePartial,
           StartRemoveLeftovers, Begin, OpenLock, Flock, FlockBusy, LockState, FetchWrites,
           FetchInstalls, FetchFails, Record, SwapLink, RemoveFile, RemovePart, ClearLink,
           NextItem, Drop, Unlink, CloseLock, Return, Stops
  <2>3. state = p /\ Section(p) /\ Fits(p)
    BY <2>2 DEF SaveDefault, SaveHash, SaveCleared, IInv, TypeOK, Inside
  <2>4. CASE SaveDefault(p)
    BY <2>1, <2>3, <2>4 DEF SaveDefault, Section, Fits
  <2>5. CASE SaveHash(p)
    BY <2>1, <2>5 DEF SaveHash, Configured
  <2>6. CASE SaveCleared(p)
    BY <2>1, <2>3, <2>6 DEF SaveCleared, Section, Fits, Deletes
  <2> QED
    BY <2>2, <2>4, <2>5, <2>6
<1> QED
    BY <1>1, SpecIInv, PTL DEF Spec, OnlySetOverrides

-----------------------------------------------------------------------------
(* The download lock *)

\* The flock of a file has one holder, whether the file has a name or not.
Exclusive ==
    \A p, q \in Procs :
        HasLock(p) /\ HasLock(q) /\ obj[p] = obj[q] /\ fd[p] = fd[q] => p = q

\* Whoever has a lock keeps it, and nobody gets one.
LEMMA NoLockTaken ==
    ASSUME Exclusive,
           \A q \in Procs : HasLock(q)' => HasLock(q) /\ obj'[q] = obj[q] /\ fd'[q] = fd[q]
    PROVE  Exclusive'
BY DEF Exclusive

LEMMA NextExclusive == IInv /\ Exclusive /\ [Next]_vars => Exclusive'
<1> SUFFICES ASSUME IInv, Exclusive, [Next]_vars PROVE Exclusive'
    OBVIOUS
<1>1. CASE UNCHANGED vars
    BY <1>1 DEF Exclusive, HasLock
<1>2. ASSUME NEW p \in Procs, Starts(p) PROVE Exclusive'
  <2>1. /\ pc[p] = "idle" /\ fd[p] = None /\ fd' = fd
        /\ \A q \in Procs \ {p} : pc'[q] = pc[q] /\ obj'[q] = obj[q]
    BY <1>2 DEF Starts, StartSet, StartDownload, StartDelete, StartDeletePartial,
                StartRemoveLeftovers, Begin, Goes, IInv, TypeOK
  <2> QED
    BY <2>1, NoLockTaken DEF HasLock
<1>3. ASSUME NEW p \in Procs, Ends(p) PROVE Exclusive'
  <2>1. fd'[p] = None /\ \A q \in Procs \ {p} : pc'[q] = pc[q] /\ obj'[q] = obj[q] /\ fd'[q] = fd[q]
    BY <1>3 DEF Ends, Unlocks, Goes, IInv, TypeOK
  <2> QED
    BY <2>1, NoLockTaken DEF HasLock
<1>4. ASSUME NEW p \in Procs, pc[p] # "flock",
             fd' = fd, obj' = obj, \A q \in Procs \ {p} : pc'[q] = pc[q]
      PROVE  Exclusive'
    BY <1>4, NoLockTaken DEF HasLock
<1>5. ASSUME NEW p \in Procs, OpenLock(p) PROVE Exclusive'
  <2>1. pc'[p] = "flock" /\ \A q \in Procs \ {p} : pc'[q] = pc[q] /\ obj'[q] = obj[q] /\ fd'[q] = fd[q]
    BY <1>5 DEF OpenLock, Goes, IInv, TypeOK
  <2> QED
    BY <2>1, NoLockTaken DEF HasLock
<1>6. ASSUME NEW p \in Procs, NextItem(p) PROVE Exclusive'
  <2>1. CASE fd' = fd /\ obj' = obj
    BY <1>4, <1>6, <2>1 DEF NextItem, Goes, IInv, TypeOK
  <2>2. CASE ~(fd' = fd /\ obj' = obj)
    <3>1. pc'[p] = "flock" /\ \A q \in Procs \ {p} : pc'[q] = pc[q] /\ obj'[q] = obj[q] /\ fd'[q] = fd[q]
      BY <1>6, <2>2 DEF NextItem, Goes, IInv, TypeOK
    <3> QED
      BY <3>1, NoLockTaken DEF HasLock
  <2> QED
    BY <2>1, <2>2
<1>7. ASSUME NEW p \in Procs, Flock(p) PROVE Exclusive'
  <2>1. ~Busy(p) /\ fd' = fd /\ obj' = obj /\ \A q \in Procs \ {p} : pc'[q] = pc[q]
    BY <1>7 DEF Flock, Goes, IInv, TypeOK
  <2>2. \A q \in Procs \ {p} : HasLock(q)' => HasLock(q) /\ ~(obj[q] = obj[p] /\ fd[q] = fd[p])
    BY <2>1 DEF HasLock, Busy, Holds
  <2> QED
    BY <2>1, <2>2 DEF Exclusive
<1>8. ASSUME NEW p \in Procs, fd' = [fd EXCEPT ![p] = None], obj' = [obj EXCEPT ![p] = None],
             \A q \in Procs \ {p} : pc'[q] = pc[q]
      PROVE  Exclusive'
  <2>1. fd'[p] = None /\ \A q \in Procs \ {p} : obj'[q] = obj[q] /\ fd'[q] = fd[q]
    BY <1>8 DEF IInv, TypeOK
  <2> QED
    BY <1>8, <2>1, NoLockTaken DEF HasLock
<1>9. ASSUME NEW p \in Procs, Unlink(p) PROVE Exclusive'
  <2>1. PICK f \in Unnamed :
          /\ \A q \in Procs : obj[q] = obj[p] => fd[q] # f
          /\ \A q \in Procs : fd'[q] = IF obj[q] = obj[p] /\ fd[q] = Named THEN f ELSE fd[q]
    BY <1>9 DEF Unlink
  <2>2. obj' = obj /\ \A q \in Procs : pc[q] # "flock" => pc'[q] # "flock"
    BY <1>9 DEF Unlink, Goes, IInv, TypeOK
  <2>3. \A q \in Procs : HasLock(q)' => HasLock(q)
    BY <1>9, <2>1, <2>2 DEF Unlink, Goes, HasLock, IInv, TypeOK
  <2>4. \A q, r \in Procs : obj[q] = obj[r] /\ fd'[q] = fd'[r] => fd[q] = fd[r]
    BY <2>1
  <2> QED
    BY <2>2, <2>3, <2>4 DEF Exclusive
<1>10. ASSUME NEW p \in Procs, FlockBusy(p) PROVE Exclusive'
    BY <1>3, <1>8, <1>10 DEF FlockBusy, Goes, IInv, TypeOK
<1>11. ASSUME NEW p \in Procs, CloseLock(p) PROVE Exclusive'
    BY <1>8, <1>11 DEF CloseLock, Goes, IInv, TypeOK
<1>12. ASSUME NEW p \in Procs, SwapLink(p) PROVE Exclusive'
    BY <1>3, <1>4, <1>12 DEF SwapLink, Goes, IInv, TypeOK
<1>13. ASSUME NEW p \in Procs,
              \/ LockState(p) \/ FetchWrites(p) \/ FetchInstalls(p) \/ Record(p) \/ SaveHash(p)
              \/ SaveDefault(p) \/ RemoveFile(p) \/ RemovePart(p) \/ ClearLink(p)
              \/ SaveCleared(p) \/ Drop(p)
       PROVE  Exclusive'
    BY <1>4, <1>13 DEF LockState, FetchWrites, FetchInstalls, Record, SaveHash, SaveDefault,
       RemoveFile, RemovePart, ClearLink, SaveCleared, Drop, Goes, IInv, TypeOK
<1>14. ASSUME NEW p \in Procs, FetchFails(p) \/ Return(p) \/ Stops(p) PROVE Exclusive'
    BY <1>3, <1>14 DEF FetchFails, Return, Stops
<1> QED
    BY <1>1, <1>2, <1>5, <1>6, <1>7, <1>9, <1>10, <1>11, <1>12, <1>13, <1>14 DEF Next, Works

LEMMA SpecExclusive == Spec => []Exclusive
<1>1. Init => Exclusive
    BY DEF Init, Exclusive, HasLock
<1> QED
    BY <1>1, NextExclusive, SpecIInv, PTL DEF Spec

\* Nobody but the downloader removes a partial download, as long as all who
\* work on the model do so under the lock file of its name.
THEOREM UndisturbedByNameTheorem == Spec => UndisturbedByName
<1>1. ASSUME IInv, Exclusive, [Next]_vars, NEW q \in Procs, pc[q] = "fetch", pc'[q] = "fetch",
             obj[q] \in part, ~Orphaned(obj[q])
      PROVE  obj[q] \in part'
  <2>1. HasLock(q) /\ obj[q] \in Models
    BY <1>1 DEF IInv, TypeOK, HasLock
  <2>2. ASSUME NEW p \in Procs, HasLock(p), obj[p] = obj[q] PROVE p = q
    <3>1. fd[p] = Named /\ fd[q] = Named
      BY <1>1, <2>1, <2>2 DEF Orphaned, Holds, HasLock, IInv, TypeOK
    <3> QED
      BY <1>1, <2>1, <2>2, <3>1 DEF Exclusive
  <2>3. ASSUME NEW p \in Procs,
               FetchInstalls(p) \/ FetchFails(p) \/ RemovePart(p) \/ Drop(p)
        PROVE  obj[q] \in part'
    <3>1. HasLock(p)
      BY <1>1, <2>3 DEF FetchInstalls, FetchFails, RemovePart, Drop, HasLock, IInv, TypeOK, Fits
    <3>2. p # q
      BY <1>1, <2>3 DEF FetchInstalls, FetchFails, RemovePart, Drop, Ends, Goes, IInv, TypeOK
    <3>3. part' \in {part, part \ {obj[p]}}
      BY <2>3 DEF FetchInstalls, FetchFails, RemovePart, Drop
    <3> QED
      BY <1>1, <2>2, <3>1, <3>2, <3>3
  <2>4. \/ part \subseteq part'
        \/ \E p \in Procs : FetchInstalls(p) \/ FetchFails(p) \/ RemovePart(p) \/ Drop(p)
    BY <1>1 DEF Next, Works, Starts, StartSet, StartDownload, StartDelete, StartDeletePartial,
           StartRemoveLeftovers, Begin, OpenLock, Flock, FlockBusy, LockState, FetchWrites,
           Record, SaveHash, SwapLink, SaveDefault, RemoveFile, ClearLink, SaveCleared,
           NextItem, Unlink, CloseLock, Return, Stops
  <2> QED
    BY <1>1, <2>3, <2>4
<1>2. IInv /\ Exclusive /\ [Next]_vars =>
        \A p \in Procs :
            pc[p] = "fetch" /\ pc'[p] = "fetch" /\ obj[p] \in part /\ ~Orphaned(obj[p])
                => obj[p] \in part'
    BY <1>1
<1> QED
    BY <1>2, SpecIInv, SpecExclusive, PTL DEF Spec, UndisturbedByName

-----------------------------------------------------------------------------
(* PartDownload *)

Bytes == 0 .. Size

\* A download past its start.
Asking == [pc : {"request", "promote", "verify"}, restart : BOOLEAN, expected : BOOLEAN,
           known : BOOLEAN, hash : BOOLEAN, start : 0 .. MaxLength, first : BOOLEAN,
           retries : 0 .. MaxRetries]

\* Once a download has asked for bytes its .part file exists.
PartExists == run.pc \in {"request", "promote", "verify"} => Exists(partFile)

\* The inductive invariant.
PartIInv == PartTypeOK /\ PartExists /\ ResumesAtEnd

USE DownloadAssumption

-----------------------------------------------------------------------------
(* What the server sends *)

LEMMA ObjectType == Object \in Seq(Bytes) /\ Len(Object) = Size
<1>1. Size \in Nat
    OBVIOUS
<1>2. Object \in [1 .. Size -> Bytes]
    BY <1>1 DEF Object, Bytes
<1>3. Object \in Seq(Bytes)
    BY <1>1, <1>2, SeqDef
<1>4. DOMAIN Object = 1 .. Size /\ DOMAIN Object = 1 .. Len(Object)
    BY <1>2, <1>3, LenProperties
<1> QED
    BY <1>1, <1>3, <1>4, LenProperties

\* A file is a sequence of bytes, never NoFile.
LEMMA SeqExists == ASSUME NEW s \in Seq(Bytes) PROVE Exists(s)
BY DEF Exists, Bytes

\* The first n blocks of a sequence are n blocks.
LEMMA PrefixType ==
    ASSUME NEW s \in Seq(Bytes), NEW n \in 0 .. Len(s)
    PROVE  SubSeq(s, 1, n) \in Seq(Bytes) /\ Len(SubSeq(s, 1, n)) = n
<1>1. Len(s) \in Nat
    BY LenProperties
<1>2. \A i \in 1 .. n : s[i] \in Bytes
    BY <1>1, ElementOfSeq
<1> QED
    BY <1>1, <1>2, SubSeqProperties

\* A body is a sequence of bytes, also the part of the object a range names.
LEMMA BodyType ==
    ASSUME NEW body \in Bodies, run \in Asking
    PROVE  body \in Seq(Bytes)
<1>1. run.start \in Nat /\ Last \in Int /\ Last <= Size
    BY DEF Asking, Last, Smaller
<1>2. \A i \in run.start + 1 .. Last : Object[i] \in Bytes
    BY <1>1 DEF Object, Bytes
<1>3. SubSeq(Object, run.start + 1, Last) \in Seq(Bytes)
    BY <1>1, <1>2, SubSeqProperties
<1> QED
    BY <1>3, ObjectType DEF Bodies

\* n blocks arrive as n blocks, whatever is in them.
LEMMA ArrivalType ==
    ASSUME NEW body \in Seq(Bytes), NEW n \in 0 .. Len(body), NEW got \in Arrivals(body, n)
    PROVE  got \in Seq(Bytes) /\ Len(got) = n
<1> DEFINE s == SubSeq(body, 1, n)
<1>1. s \in Seq(Bytes) /\ Len(s) = n
    BY PrefixType
<1>2. n \in Nat
    BY LenProperties
<1>3. n # 0 => [s EXCEPT ![n] = Wrong] \in Seq(Bytes) /\ Len([s EXCEPT ![n] = Wrong]) = n
  <2> SUFFICES ASSUME n # 0
               PROVE  [s EXCEPT ![n] = Wrong] \in Seq(Bytes)
                      /\ Len([s EXCEPT ![n] = Wrong]) = n
    OBVIOUS
  <2>1. n \in 1 .. Len(s) /\ Wrong \in Bytes
    BY <1>1, <1>2 DEF Wrong, Bytes
  <2> HIDE DEF s
  <2> QED BY <1>1, <2>1, ExceptSeq
<1> QED
    BY <1>1, <1>3 DEF Arrivals

-----------------------------------------------------------------------------
(* The inductive invariant *)

LEMMA PartInitIInv == PartInit => PartIInv
<1> SUFFICES ASSUME PartInit PROVE PartIInv
    OBVIOUS
<1>1. ~Exists(partFile) /\ ~Exists(out.file)
    BY DEF PartInit, Exists
<1>2. out.hash = FALSE /\ bad = FALSE
    BY DEF PartInit
<1>3. run \in Runs /\ run.pc = "idle"
    BY DEF PartInit, Runs, NoRun
<1> QED
    BY <1>1, <1>2, <1>3 DEF PartInit, PartIInv, PartTypeOK, PartExists, ResumesAtEnd

\* A response that leaves n more blocks in the file keeps the file in step
\* with the position.
LEMMA ReceivesIInv ==
    ASSUME PartIInv, run \in Asking, run.pc = "request",
           NEW got \in Seq(Bytes), Receives(got),
           NEW e \in BOOLEAN, NEW to \in {"request", "verify"}, NEW r \in 0 .. MaxRetries,
           \/ run' = NoRun
           \/ run' = [run EXCEPT !.pc = to, !.start = run.start + Len(got),
                                 !.first = FALSE, !.expected = e, !.retries = r]
    PROVE  PartIInv'
<1>1. Exists(partFile) /\ partFile \in Seq(Bytes) /\ run.start = Len(partFile) /\ Len(partFile) <= MaxLength
    BY DEF PartIInv, PartTypeOK, PartExists, ResumesAtEnd, LengthOf, Bytes
<1>2. Len(partFile) \in Nat /\ Len(got) \in Nat
    BY <1>1, LenProperties
<1>3. partFile' \in Seq(Bytes) /\ Len(partFile') = Len(partFile) + Len(got)
    BY <1>1, ConcatProperties DEF Receives
<1>4. Len(partFile') <= MaxLength
    BY <1>1, <1>3 DEF Receives, LengthOf
<1>5. Exists(partFile)' /\ LengthOf(partFile)' = Len(partFile')
    BY <1>3, SeqExists DEF LengthOf, Exists
<1>6. CASE run' = NoRun
    BY <1>3, <1>4, <1>5, <1>6
    DEF PartIInv, PartTypeOK, PartExists, ResumesAtEnd, Receives, Runs, NoRun, Bytes
<1>7. CASE run' = [run EXCEPT !.pc = to, !.start = run.start + Len(got),
                              !.first = FALSE, !.expected = e, !.retries = r]
  <2>1. run.start + Len(got) = Len(partFile') /\ run.start + Len(got) \in 0 .. MaxLength
    BY <1>1, <1>2, <1>3, <1>4
  <2>2. run' \in Asking /\ run'.pc = to /\ run'.start = Len(partFile')
    BY <1>7, <2>1 DEF Asking
  <2>3. run' \in Runs
    BY <2>2 DEF Runs, Asking
  <2> QED
    BY <1>3, <1>4, <1>5, <2>2, <2>3
    DEF PartIInv, PartTypeOK, PartExists, ResumesAtEnd, Receives, Bytes
<1> QED
    BY <1>6, <1>7

\* What a step of a request starts from.
LEMMA InRequest ==
    ASSUME PartIInv, run.pc = "request"
    PROVE  /\ run \in Asking
           /\ Exists(partFile) /\ partFile \in Seq(Bytes) /\ run.start = Len(partFile)
BY DEF PartIInv, PartTypeOK, PartExists, ResumesAtEnd, LengthOf, Runs, NoRun, Asking, Bytes

LEMMA BeginPartIInv == PartIInv /\ BeginPart => PartIInv'
<1> SUFFICES ASSUME PartIInv, BeginPart PROVE PartIInv'
    OBVIOUS
<1>1. run' \in Runs /\ run'.pc = "attempt"
    BY DEF PartIInv, PartTypeOK, BeginPart, Runs
<1> QED
    BY <1>1 DEF PartIInv, PartTypeOK, PartExists, ResumesAtEnd, BeginPart, Exists

LEMMA AttemptIInv ==
    ASSUME PartIInv, NEW known \in BOOLEAN, NEW hash \in BOOLEAN, Attempt(known, hash)
    PROVE  PartIInv'
<1>1. LengthOf(partFile) \in 0 .. MaxLength
    BY LenProperties DEF PartIInv, PartTypeOK, LengthOf, Bytes
<1>2. run' \in Asking /\ run'.start = LengthOf(partFile) /\ run'.pc \in {"request", "promote"}
  <2>1. run.restart \in BOOLEAN /\ run.expected \in BOOLEAN
    BY DEF PartIInv, PartTypeOK, Attempt, Runs, NoRun
  <2> QED
    BY <1>1, <2>1 DEF Attempt, Asking
<1>3. /\ Exists(partFile)' /\ partFile' \in Seq(0 .. Size)
      /\ Len(partFile') <= MaxLength /\ Len(partFile') = LengthOf(partFile)
  <2>1. CASE LengthOf(partFile) = 0
    <3>1. partFile' = <<>>
        BY <2>1 DEF Attempt
    <3>2. partFile' \in Seq(Bytes) /\ Len(partFile') = 0
        BY <3>1, EmptySeq
    <3>3. Exists(partFile)'
        BY <3>2, SeqExists DEF Exists
    <3> QED BY <2>1, <3>2, <3>3 DEF Bytes
  <2>2. CASE LengthOf(partFile) # 0
    <3>1. partFile' = partFile
        BY <2>2 DEF Attempt
    <3> QED BY <2>2, <3>1 DEF PartIInv, PartTypeOK, LengthOf, Exists
  <2> QED BY <2>1, <2>2
<1>4. run' \in Runs
    BY <1>2 DEF Asking, Runs
<1> QED
    BY <1>2, <1>3, <1>4 DEF PartIInv, PartTypeOK, PartExists, ResumesAtEnd, LengthOf, Exists, Attempt

\* A step that keeps the file, and stops the download, asks once more from the
\* same place or goes on to the end.
LEMMA KeepsFileIInv ==
    ASSUME PartIInv, UNCHANGED <<world, partFile, out, bad>>,
           \/ run' = NoRun
           \/ /\ run.pc = "request"
              /\ \E r \in 0 .. MaxRetries : run' = [run EXCEPT !.retries = r, !.start = run.start]
           \/ run.pc = "request" /\ run' = [run EXCEPT !.pc = "promote"]
    PROVE  PartIInv'
<1>1. CASE run' = NoRun
    BY <1>1 DEF PartIInv, PartTypeOK, PartExists, ResumesAtEnd, Exists, Runs, NoRun
<1>2. CASE /\ run.pc = "request"
           /\ \E r \in 0 .. MaxRetries : run' = [run EXCEPT !.retries = r, !.start = run.start]
  <2>1. run' \in Asking /\ run'.pc = "request" /\ run'.start = run.start
    BY <1>2, InRequest DEF Asking
  <2>2. run' \in Runs
    BY <2>1 DEF Asking, Runs
  <2> QED
    BY <1>2, <2>1, <2>2, InRequest
    DEF PartIInv, PartTypeOK, PartExists, ResumesAtEnd, Exists, LengthOf
<1>3. CASE run.pc = "request" /\ run' = [run EXCEPT !.pc = "promote"]
  <2>1. run' \in Asking /\ run'.pc = "promote"
    BY <1>3, InRequest DEF Asking
  <2>2. run' \in Runs
    BY <2>1 DEF Asking, Runs
  <2> QED
    BY <2>1, <2>2, <1>3, InRequest DEF PartIInv, PartTypeOK, PartExists, ResumesAtEnd, Exists
<1> QED
    BY <1>1, <1>2, <1>3

LEMMA NoResponseIInv == PartIInv /\ NoResponse => PartIInv'
<1> SUFFICES ASSUME PartIInv, NoResponse PROVE PartIInv'
    OBVIOUS
<1>1. run.retries \in 0 .. MaxRetries
    BY InRequest DEF NoResponse, Asking
<1>2. \/ run' = NoRun
      \/ \E r \in 0 .. MaxRetries : run' = [run EXCEPT !.retries = r, !.start = run.start]
  <2>1. CASE run.retries < MaxRetries
    <3>1. run.retries + 1 \in 0 .. MaxRetries
        BY <1>1, <2>1
    <3>2. run' = [run EXCEPT !.retries = run.retries + 1, !.start = run.start]
        BY <2>1 DEF NoResponse, Retries
    <3> QED BY <3>1, <3>2
  <2>2. CASE ~(run.retries < MaxRetries)
    BY <2>2 DEF NoResponse, Retries, Fails
  <2> QED BY <2>1, <2>2
<1> QED
    BY <1>2, KeepsFileIInv DEF NoResponse

LEMMA RangeIgnoredIInv == PartIInv /\ RangeIgnored => PartIInv'
<1> SUFFICES ASSUME PartIInv, RangeIgnored PROVE PartIInv'
    OBVIOUS
<1>1. partFile' = <<>> /\ run' \in Asking /\ run'.pc = "request" /\ run'.start = 0
    BY InRequest DEF RangeIgnored, Asking
<1>2. partFile' \in Seq(Bytes) /\ Len(partFile') = 0
    BY <1>1, EmptySeq
<1>3. Exists(partFile)'
    BY <1>2, SeqExists DEF Exists
<1>4. run' \in Runs
    BY <1>1 DEF Asking, Runs
<1> QED
    BY <1>1, <1>2, <1>3, <1>4
    DEF PartIInv, PartTypeOK, PartExists, ResumesAtEnd, LengthOf, Exists, Bytes, RangeIgnored

LEMMA DeliveredIInv == PartIInv /\ Delivered => PartIInv'
<1> SUFFICES ASSUME PartIInv, Delivered PROVE PartIInv'
    OBVIOUS
<1>1. run.pc = "request" /\ run \in Asking
    BY InRequest DEF Delivered
<1>2. PICK body \in Bodies, header \in BOOLEAN : \E got \in Arrivals(body, Len(body)) :
        /\ Receives(got)
        /\ run' = [run EXCEPT
              !.pc = IF ~run.known \/ run.start + Len(got) >= Size THEN "verify" ELSE "request",
              !.start = run.start + Len(got), !.first = FALSE,
              !.expected = Expected \/ (run.first /\ header)]
    BY DEF Delivered
<1>3. PICK got \in Arrivals(body, Len(body)) :
        /\ Receives(got)
        /\ run' = [run EXCEPT
              !.pc = IF ~run.known \/ run.start + Len(got) >= Size THEN "verify" ELSE "request",
              !.start = run.start + Len(got), !.first = FALSE,
              !.expected = Expected \/ (run.first /\ header)]
    BY <1>2
<1>4. body \in Seq(Bytes)
    BY <1>1, BodyType
<1>5. got \in Seq(Bytes)
    BY <1>4, LenProperties, ArrivalType
<1> DEFINE to == IF ~run.known \/ run.start + Len(got) >= Size THEN "verify" ELSE "request"
           e == Expected \/ (run.first /\ header)
<1>6. run' = [run EXCEPT !.pc = to, !.start = run.start + Len(got), !.first = FALSE,
                         !.expected = e, !.retries = run.retries]
    BY <1>1, <1>3 DEF Asking
<1>7. to \in {"request", "verify"} /\ e \in BOOLEAN /\ run.retries \in 0 .. MaxRetries
    BY <1>1 DEF Asking
<1> HIDE DEF to, e
<1> QED
    BY ZenonT(40), <1>1, <1>3, <1>5, <1>6, <1>7, ReceivesIInv

\* A retry stays in the same state of the request.
LEMMA StaysInRequest ==
    ASSUME run \in Asking, run.pc = "request", NEW s, NEW e, NEW r
    PROVE  [run EXCEPT !.retries = r, !.start = s, !.first = FALSE, !.expected = e]
         = [run EXCEPT !.pc = "request", !.start = s, !.first = FALSE, !.expected = e,
                       !.retries = r]
BY DEF Asking

LEMMA DroppedIInv == PartIInv /\ Dropped => PartIInv'
<1> SUFFICES ASSUME PartIInv, Dropped PROVE PartIInv'
    OBVIOUS
<1>1. run.pc = "request" /\ run \in Asking
    BY InRequest DEF Dropped
<1> DEFINE used(n) == IF n > 0 THEN 0 ELSE run.retries
           Step(n, header, got) ==
              /\ Receives(got)
              /\ IF used(n) < MaxRetries
                 THEN run' = [run EXCEPT
                         !.retries = used(n) + 1, !.start = run.start + n, !.first = FALSE,
                         !.expected = Expected \/ (run.first /\ header)]
                 ELSE run' = NoRun
<1>2. PICK body \in Bodies, header \in BOOLEAN :
        \E n \in 0 .. Len(body) : \E got \in Arrivals(body, n) : Step(n, header, got)
    BY DEF Dropped, Fails
<1>3. PICK n \in 0 .. Len(body) : \E got \in Arrivals(body, n) : Step(n, header, got)
    BY <1>2
<1>8. PICK got \in Arrivals(body, n) : Step(n, header, got)
    BY <1>3
<1>4. body \in Seq(Bytes)
    BY <1>1, BodyType
<1>5. got \in Seq(Bytes) /\ Len(got) = n
    BY <1>4, ArrivalType
<1> DEFINE e == Expected \/ (run.first /\ header)
<1>6. \/ run' = NoRun
      \/ \E r \in 0 .. MaxRetries :
            run' = [run EXCEPT !.pc = "request", !.start = run.start + Len(got),
                               !.first = FALSE, !.expected = e, !.retries = r]
  <2>1. used(n) \in 0 .. MaxRetries
    BY <1>1 DEF Asking
  <2>2. CASE used(n) < MaxRetries
    <3>1. used(n) + 1 \in 0 .. MaxRetries
        BY <2>1, <2>2
    <3>2. run' = [run EXCEPT !.pc = "request", !.start = run.start + Len(got),
                             !.first = FALSE, !.expected = e, !.retries = used(n) + 1]
      <4>1. run' = [run EXCEPT !.retries = used(n) + 1, !.start = run.start + Len(got),
                               !.first = FALSE, !.expected = e]
        BY <1>5, <1>8, <2>2
      <4> HIDE DEF used, e, Step
      <4> QED
        BY <1>1, <4>1, StaysInRequest
    <3> QED BY <3>1, <3>2
  <2>3. CASE ~(used(n) < MaxRetries)
    BY <1>8, <2>3
  <2> QED BY <2>2, <2>3
<1>7. e \in BOOLEAN /\ Receives(got)
    BY <1>8
<1> HIDE DEF e, Step, used
<1>9. CASE run' = NoRun
    BY <1>1, <1>5, <1>7, <1>9, ReceivesIInv
<1>10. ASSUME NEW r \in 0 .. MaxRetries,
              run' = [run EXCEPT !.pc = "request", !.start = run.start + Len(got),
                                 !.first = FALSE, !.expected = e, !.retries = r]
       PROVE  PartIInv'
    BY <1>1, <1>5, <1>7, <1>10, ReceivesIInv
<1> QED
    BY <1>6, <1>9, <1>10

\* Both ways to finish: the file is installed, set aside or left.
LEMMA FinishIInv == PartIInv /\ Finish => PartIInv'
<1> SUFFICES ASSUME PartIInv, Finish PROVE PartIInv'
    OBVIOUS
<1>1. run \in Asking /\ Exists(partFile) /\ partFile \in Seq(0 .. Size)
    BY DEF PartIInv, PartTypeOK, PartExists, Finish, Promote, Verify, Runs, NoRun, Asking
<1>2. ASSUME NEW hash \in BOOLEAN, Installs(hash) PROVE PartIInv'
    BY <1>1, <1>2 DEF PartIInv, PartTypeOK, PartExists, ResumesAtEnd, Exists, Installs, Fails, Runs, NoRun
<1>3. ASSUME Mismatch PROVE PartIInv'
  <2>1. CASE run.restart
    <3>1. run' = [pc |-> "attempt", restart |-> FALSE, expected |-> run.expected]
          /\ partFile' = NoFile
        BY <1>3, <2>1 DEF Mismatch
    <3>2. run.expected \in BOOLEAN
        BY <1>1 DEF Asking
    <3>3. run' \in Runs /\ run'.pc = "attempt"
        BY <3>1, <3>2 DEF Runs
    <3> QED
        BY <1>3, <2>1, <3>1, <3>3 DEF Mismatch, PartIInv, PartTypeOK, PartExists, ResumesAtEnd, Exists
  <2>2. CASE ~run.restart
    BY <1>3, <2>2, KeepsFileIInv DEF Mismatch, Fails
  <2> QED BY <2>1, <2>2
<1>4. ASSUME Fails, UNCHANGED <<world, partFile, out, bad>> PROVE PartIInv'
    BY <1>4, KeepsFileIInv DEF Fails
<1>5. (run.expected \/ run.hash) \in BOOLEAN /\ run.expected \in BOOLEAN
    BY <1>1 DEF Asking
<1> QED
    BY <1>2, <1>3, <1>4, <1>5 DEF Finish, Promote, Verify

LEMMA PartNextIInv == PartIInv /\ [PartNext]_partVars => PartIInv'
<1> SUFFICES ASSUME PartIInv, [PartNext]_partVars PROVE PartIInv'
    OBVIOUS
<1>1. CASE UNCHANGED partVars
    BY <1>1 DEF partVars, PartIInv, PartTypeOK, PartExists, ResumesAtEnd, Exists, LengthOf
<1>2. CASE Refused \/ CrashPart
    BY <1>2, KeepsFileIInv DEF Refused, CrashPart, Fails
<1>3. CASE RangeNotSatisfiable
    BY <1>3, KeepsFileIInv DEF RangeNotSatisfiable
<1> QED
    BY <1>1, <1>2, <1>3, BeginPartIInv, AttemptIInv, NoResponseIInv, RangeIgnoredIInv,
       DeliveredIInv, DroppedIInv, FinishIInv DEF PartNext, PartProgress

LEMMA PartSpecIInv == PartSpec => []PartIInv
BY PartInitIInv, PartNextIInv, PTL DEF PartSpec

-----------------------------------------------------------------------------
(* The theorems *)

\* Type correctness: positions, retries and files stay within their bounds.
THEOREM PartTypeCorrect == PartSpec => []PartTypeOK
<1>1. PartIInv => PartTypeOK
    BY DEF PartIInv
<1> QED
    BY <1>1, PartSpecIInv, PTL

\* Every request of downloadFileAttempt asks for the byte after the last one
\* in the .part file.
THEOREM ResumesAtEndTheorem == PartSpec => []ResumesAtEnd
<1>1. PartIInv => ResumesAtEnd
    BY DEF PartIInv
<1> QED
    BY <1>1, PartSpecIInv, PTL

\* What is installed under a hash is the object: only Promote and Verify
\* install, and both look at the whole file first.
THEOREM HashIsOfTheObjectTheorem == PartSpec => []HashIsOfTheObject
<1>1. PartInit => HashIsOfTheObject
    BY DEF PartInit, HashIsOfTheObject
<1>2. HashIsOfTheObject /\ [PartNext]_partVars => HashIsOfTheObject'
  <2> SUFFICES ASSUME HashIsOfTheObject, [PartNext]_partVars PROVE HashIsOfTheObject'
    OBVIOUS
  <2>1. CASE UNCHANGED out
    BY <2>1 DEF HashIsOfTheObject, Exists
  <2>2. CASE Verify
    BY <2>2 DEF Verify, Mismatch, Installs, HashIsOfTheObject, Exists
  <2>3. CASE Promote
    <3>1. ASSUME NEW hash, Installs(hash), hash => partFile = Object
          PROVE  HashIsOfTheObject'
        BY <3>1 DEF Installs, HashIsOfTheObject
    <3>2. \/ UNCHANGED out
          \/ /\ Installs(run.expected \/ run.hash)
             /\ ~((run.expected \/ run.hash) /\ partFile # Object)
        BY <2>3 DEF Promote, Mismatch
    <3> QED BY <2>1, <3>1, <3>2
  <2>4. PartNext /\ ~Verify /\ ~Promote => UNCHANGED out
    BY DEF PartNext, PartProgress, Finish, BeginPart, Attempt, NoResponse, Refused, RangeNotSatisfiable,
           RangeIgnored, Delivered, Dropped, Receives, CrashPart
  <2> QED
    BY <2>1, <2>2, <2>3, <2>4 DEF partVars
<1> QED
    BY <1>1, <1>2, PTL DEF PartSpec

-----------------------------------------------------------------------------
(* A server that honours ranges *)

\* The .part file never outgrows the object.
FitsIn == world.ranges => LengthOf(partFile) <= Size

\* The range that was asked for ends where the object ends.
LEMMA RangeFits ==
    ASSUME PartIInv, world.ranges, run.pc = "request", NEW body \in Bodies
    PROVE  body \in Seq(Bytes) /\ run.start + Len(body) <= Size
<1>1. run \in Asking
    BY InRequest
<1>2. run.start < Size /\ body = SubSeq(Object, run.start + 1, Last)
    BY DEF Bodies
<1>3. run.start \in Nat /\ Last \in Int /\ run.start <= Last /\ Last <= Size
    BY <1>1, <1>2 DEF Asking, Last, Smaller
<1>4. \A i \in run.start + 1 .. Last : Object[i] \in Bytes
    BY <1>3 DEF Object, Bytes
<1>5. Len(body) = Last - run.start
    BY <1>2, <1>3, <1>4, SubSeqProperties
<1> QED
    BY <1>1, <1>3, <1>5, BodyType

LEMMA ConcatType ==
    ASSUME NEW s \in Seq(Bytes), NEW t \in Seq(Bytes)
    PROVE  s \o t \in Seq(Bytes) /\ Len(s \o t) = Len(s) + Len(t)
BY ConcatProperties

\* What arrives of it fits as well.
LEMMA ReceivesFits ==
    ASSUME PartIInv, world.ranges, run.pc = "request", NEW body \in Bodies,
           NEW n \in 0 .. Len(body), NEW got \in Arrivals(body, n), Receives(got)
    PROVE  LengthOf(partFile') <= Size
<1>1. body \in Seq(Bytes) /\ run.start + Len(body) <= Size
    BY RangeFits
<1>2. got \in Seq(Bytes) /\ Len(got) = n
    BY <1>1, ArrivalType
<1>3. Exists(partFile) /\ partFile \in Seq(Bytes) /\ run.start = Len(partFile)
    BY InRequest
<1>4. partFile' \in Seq(Bytes) /\ Len(partFile') = Len(partFile) + n
  <2>1. partFile' = partFile \o got
    BY DEF Receives
  <2>2. partFile \o got \in Seq(Bytes) /\ Len(partFile \o got) = Len(partFile) + Len(got)
    BY <1>2, <1>3, ConcatType
  <2> QED BY <1>2, <2>1, <2>2
<1>5. Len(body) \in Nat /\ Len(partFile) \in Nat
    BY <1>1, <1>3, LenProperties
<1> QED
    BY <1>1, <1>3, <1>4, <1>5, SeqExists DEF LengthOf

LEMMA NextFits == PartIInv /\ FitsIn /\ [PartNext]_partVars => FitsIn'
<1> SUFFICES ASSUME PartIInv, FitsIn, [PartNext]_partVars, world'.ranges PROVE LengthOf(partFile') <= Size
    BY DEF FitsIn
<1>1. world' = world /\ world.ranges
    BY DEF partVars, PartNext, PartProgress, Finish, BeginPart, Attempt, NoResponse, Refused,
           RangeNotSatisfiable, RangeIgnored, Delivered, Dropped, Receives, Installs,
           Mismatch, Promote, Verify, CrashPart
<1>2. CASE partFile' = partFile
    BY <1>1, <1>2 DEF FitsIn
<1>3. CASE partFile' \in {NoFile, <<>>}
    BY <1>3 DEF LengthOf, Exists
<1>4. CASE Delivered
  <2>1. PICK body \in Bodies : \E got \in Arrivals(body, Len(body)) : Receives(got)
    BY <1>4 DEF Delivered
  <2>2. Len(body) \in 0 .. Len(body)
    BY <1>1, <1>4, <2>1, RangeFits, LenProperties DEF Delivered
  <2> QED
    BY <1>1, <1>4, <2>1, <2>2, ReceivesFits DEF Delivered
<1>5. CASE Dropped
  <2>1. PICK body \in Bodies :
          \E n \in 0 .. Len(body) : \E got \in Arrivals(body, n) : Receives(got)
    BY <1>5 DEF Dropped
  <2> QED
    BY <1>1, <1>5, <2>1, ReceivesFits DEF Dropped
<1>6. \/ partFile' = partFile \/ partFile' \in {NoFile, <<>>} \/ Delivered \/ Dropped
    BY DEF partVars, PartNext, PartProgress, Finish, BeginPart, Attempt, NoResponse, Refused,
           RangeNotSatisfiable, RangeIgnored, Installs, Mismatch, Promote, Verify, CrashPart
<1> QED
    BY <1>2, <1>3, <1>4, <1>5, <1>6

\* A server that honours ranges never leaves a .part file the next download
\* would refuse, wherever connections drop and processes die.
THEOREM PartialResumableTheorem == PartSpec => []PartialResumable
<1>1. PartInit => FitsIn
    BY DEF PartInit, FitsIn, LengthOf, Exists
<1>2. FitsIn => PartialResumable
    BY DEF FitsIn, PartialResumable
<1> QED
    BY <1>1, <1>2, NextFits, PartInitIInv, PartNextIInv, PTL DEF PartSpec

\* What is on disk can be gone on with, by the download that runs and by the
\* next one (manager.go:700-720, 847-880, 944-957).
THEOREM ResumableTheorem == PartSpec => []Resumable
<1>1. ResumesAtEnd /\ PartialResumable => Resumable
    BY DEF Resumable
<1> QED
    BY <1>1, ResumesAtEndTheorem, PartialResumableTheorem, PTL
=============================================================================
