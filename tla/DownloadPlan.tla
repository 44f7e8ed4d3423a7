----------------------------- MODULE DownloadPlan -----------------------------
(***************************************************************************)
(* A download of several models by one command (internal/models/manager.go,*)
(* cmd/internal/cli/model.go): the encoders that are added to the list, the*)
(* check of the whole list, and the downloads one after another.  One      *)
(* download is a step here: see PartDownload and SplitDownload for what    *)
(* is in it.                                                               *)
(*                                                                         *)
(* A disk is [done, have, free, told]: the models installed, the bytes of  *)
(* the others that are there, the free space, and whether it can be known. *)
(***************************************************************************)
EXTENDS Integers, SequencesExt, FiniteSetsExt

\* The models there are: what each takes, what the catalog's rounded figure (SizeGB)
\* makes of it, both of which are something, how it is published, and its encoder.
\* One that is joined from parts needs scratch for as long as the join takes; one
\* of shards that are merged keeps them.
CONSTANT Catalog

Kinds == {"plain", "join", "merge"}
Published == DOMAIN Catalog
CatalogIs ==
    \A a \in Published : LET model == Catalog[a] IN
        /\ model.kind \in Kinds /\ model.size \in Nat \ {0} /\ model.listed \in Nat \ {0}
        /\ model.scratch \in Nat
        /\ model.kind = "plain" => model.scratch = 0

NoEncoder == ""
Reserve == 2      \* diskSpaceReserve

\* The encoder of a vision model, where both are known.
Encoder(a) ==
    IF a \in Published /\ Catalog[a].encoder \in Published THEN Catalog[a].encoder ELSE NoEncoder

\* WithEncoders: each alias, and right after it the encoder that is neither
\* installed nor in the list.
Brings(acc, a, done) == Encoder(a) \notin {NoEncoder} \cup acc.requested \cup done
Expand(acc, a, done) ==
    IF Brings(acc, a, done)
    THEN [requested |-> acc.requested \cup {Encoder(a)},
          added |-> Append(acc.added, Encoder(a)),
          expanded |-> acc.expanded \o <<a, Encoder(a)>>]
    ELSE [acc EXCEPT !.expanded = Append(@, a)]
ExpandedBy(aliases, done) ==
    LET after[k \in 0..Len(aliases)] ==
            IF k = 0 THEN [requested |-> Range(aliases), added |-> <<>>, expanded |-> <<>>]
            ELSE Expand(after[k - 1], aliases[k], done)
    IN  after
WithEncoders(aliases, done) == ExpandedBy(aliases, done)[Len(aliases)]

Positive(n) == IF n > 0 THEN n ELSE 0

\* What a download leaves on the disk, and what it takes at most: the scratch of a
\* join as well.
Leaves(a) == Catalog[a].size + (IF Catalog[a].kind = "merge" THEN Catalog[a].scratch ELSE 0)
Total(a) == Catalog[a].size + Catalog[a].scratch

\* What the check of the list counts for a model: the rounded figure, but for shards
\* the bytes of each with what they merge to.
Counted(a) == IF Catalog[a].kind = "merge" THEN Total(a) ELSE Catalog[a].listed

\* What the model's own check asks for: the bytes of its parts, or the size that the
\* server names, and the rounded figure for those in silent, of which it names none.
Asks(a, silent) ==
    IF Catalog[a].kind = "plain" /\ a \in silent THEN Catalog[a].listed ELSE Total(a)

\* checkCombinedDiskSpace: what the list takes, less what is there of each; the
\* sum so far.
Lacking(a, disk) == IF a \in disk.done THEN 0 ELSE Positive(Counted(a) - disk.have[a])
Remaining(models, disk) ==
    LET sum[k \in 0..Len(models)] == IF k = 0 THEN 0 ELSE sum[k - 1] + Lacking(models[k], disk)
    IN  sum
Combined(models, disk) ==
    LET all == Remaining(models, disk)[Len(models)]
    IN  all > 0 /\ disk.told => disk.free >= all + Reserve

\* Download of one: what is installed is looked at again, and can be bad; then the
\* space, unless it is forced, and the transfer.  One that fails leaves what it has,
\* and one that finds the disk full has filled it.
Rest(a, disk) == Positive(Leaves(a) - disk.have[a])
Peak(a, disk) == Positive(Total(a) - disk.have[a])
Need(a, disk, silent) == Positive(Asks(a, silent) - disk.have[a])
NoRoom(a, disk, force, silent) == ~force /\ disk.told /\ disk.free < Need(a, disk, silent) + Reserve
Partly(a, disk) ==
    LET n == Min({Rest(a, disk), disk.free, IF disk.free < Peak(a, disk) THEN disk.free ELSE 1})
    IN  [disk EXCEPT !.have[a] = @ + n, !.free = @ - n]
Installed(a, disk) ==
    [disk EXCEPT !.done = @ \cup {a}, !.free = @ - Rest(a, disk), !.have[a] = 0]
Download(disk, a, force, net) ==
    CASE a \in disk.done -> [disk |-> disk, error |-> IF a \in net.fails THEN "failed" ELSE "none"]
      [] a \notin disk.done /\ NoRoom(a, disk, force, net.silent) -> [disk |-> disk, error |-> "space"]
      [] OTHER ->
            IF a \in net.fails \/ disk.free < Peak(a, disk)
            THEN [disk |-> Partly(a, disk), error |-> "failed"]
            ELSE [disk |-> Installed(a, disk), error |-> "none"]

\* DownloadMany: all names first, then the space for all, then one after another
\* up to the first that fails.
DownloadNext(acc, a, force, net) ==
    LET r == Download(acc.disk, a, force, net) IN
    IF acc.error # "none" THEN acc
    ELSE [disk |-> r.disk, error |-> r.error,
          installed |-> IF r.error = "none" THEN Append(acc.installed, a) ELSE acc.installed]
Stopped(disk, error) == [disk |-> disk, error |-> error, installed |-> <<>>]
Downloads(aliases, disk, force, net) ==
    LET after[k \in 0..Len(aliases)] ==
            IF k = 0 THEN Stopped(disk, "none")
            ELSE DownloadNext(after[k - 1], aliases[k], force, net)
    IN  after
DownloadMany(aliases, disk, force, net) ==
    IF ~(Range(aliases) \subseteq Published) THEN Stopped(disk, "unknown")
    ELSE IF ~force /\ Len(aliases) > 1 /\ ~Combined(aliases, disk) THEN Stopped(disk, "refused")
    ELSE Downloads(aliases, disk, force, net)[Len(aliases)]

-----------------------------------------------------------------------------
(* What it should be *)

\* The list is what was asked for, in its order; what else is in it is an encoder
\* that was added, right after its model, once, and that was not there.
EncodersSlotIn(asked, done, plan) ==
    /\ IsInjective(plan.added) /\ Range(plan.added) \cap (Range(asked) \cup done) = {}
    /\ Len(plan.expanded) = Len(asked) + Len(plan.added)
    /\ \E at \in [DOMAIN asked -> DOMAIN plan.expanded] :
          /\ \A i, j \in DOMAIN asked : i < j => at[i] < at[j]
          /\ \A i \in DOMAIN asked : plan.expanded[at[i]] = asked[i]
          /\ \A p \in DOMAIN plan.expanded \ Range(at) :
                /\ p - 1 \in Range(at)
                /\ plan.expanded[p] \in Range(plan.added)
                /\ plan.expanded[p] = Encoder(plan.expanded[p - 1])

\* The check of a list counts at least what its models leave, and at least what each
\* after the first will ask for.
CountsEnough(list, silent) ==
    \A i \in DOMAIN list : list[i] \in Published =>
        /\ Leaves(list[i]) <= Counted(list[i])
        /\ i > 1 => Asks(list[i], silent) <= Counted(list[i])

\* Each model's own check asks for at least what it leaves.
AsksEnough(list, silent) ==
    \A i \in DOMAIN list : list[i] \in Published => Leaves(list[i]) <= Asks(list[i], silent)

\* One command leaves whole what it can and touches nothing it should not: a
\* vision model never ends up without its encoder by the command's own doing, no
\* model is listed twice that was not, a name that is wrong or a list that does
\* not fit moves no byte, what is reported is what is installed.  A list that was
\* found to fit is not refused halfway where the check of the list counts enough:
\* it counts too little for a joined model after the first, whose scratch it leaves
\* out, and where the catalog's figure is rounded down.  The reserve stays free
\* where no model is both rounded down and of a size the server does not name.
ListIsFetched(asked, disk, force, net) ==
    LET plan == WithEncoders(asked, disk.done)
        list == plan.expanded
        r == DownloadMany(list, disk, force, net)
        fetched == r.disk.done \ disk.done
    IN  /\ EncodersSlotIn(asked, disk.done, plan)
        /\ r.error = "none" =>
              /\ r.installed = list /\ Range(list) \subseteq r.disk.done
              /\ \A a \in Range(asked) : Encoder(a) \in r.disk.done \cup {NoEncoder}
        /\ r.error # "none" =>
              /\ IsStrictPrefix(r.installed, list) /\ Range(r.installed) \subseteq r.disk.done
        /\ fetched \subseteq Range(r.installed)
        /\ r.error \in {"unknown", "refused"} => r.disk = disk
        /\ ~(Range(asked) \subseteq Published) => r.error = "unknown"
        /\ r.error = "space" /\ CountsEnough(list, net.silent) => fetched = {}
        /\ ~force /\ disk.told /\ fetched # {} /\ AsksEnough(list, net.silent) => r.disk.free >= Reserve

-----------------------------------------------------------------------------
(* Lists and disks *)

Disks ==
    [done : {{}, {"enc"}, {"v1"}, {"v2", "merge"}}, free : {0, 2, 3, 4, 5, 6, 8}, told : BOOLEAN,
     have : {[a \in Published |-> 0], [a \in Published |-> 1], [a \in Published |-> Catalog[a].size]}]
\* Which downloads fail, and of which models the server does not name the size.
Nets == { [fails |-> {}, silent |-> {}], [fails |-> {}, silent |-> {"enc", "v2"}],
          [fails |-> {"v2"}, silent |-> {}], [fails |-> {"enc", "join"}, silent |-> {"v1"}] }
Orders(n) ==
    [asked : UNION {[1..k -> Published \cup {"nope"}] : k \in 1..n}, disk : Disks, force : BOOLEAN,
     net : Nets]
=============================================================================
