------------------------------ MODULE GGUFMerge ------------------------------
(***************************************************************************)
(* What the GGUF merge of internal/models accepts and where it puts the    *)
(* tensors (readGGUF, ggufPlan and the copying loop of mergeGGUF).         *)
(* SplitDownload tells how the merged file comes about across crashes.     *)
(*                                                                         *)
(* Lengths are in small units: a header has Fixed units, a metadata entry  *)
(* and a tensor's description one each, and the merged file is aligned to  *)
(* Alignment.  The text of metadata and tensor kinds are not looked at.    *)
(***************************************************************************)
EXTENDS Naturals, SequencesExt, FiniteSets

Fixed == 3
Alignment == 4                  \* ggufAlignment, the largest a shard may use
Split == {"no", "count", "total"}

Aligned(n, a) == ((n + a - 1) \div a) * a

\* The units before position i of a row of tensors, each aligned to a.
Before(tensors, a, i) ==
    LET before[k \in 0..(i - 1)] ==
            IF k = 0 THEN 0 ELSE before[k - 1] + Aligned(tensors[k].size, a)
    IN  before[i - 1]

\* A file: metadata (the split entries by name, the rest by number), tensors
\* described by name, offset and size, and its length.
HeaderLength(f) == Fixed + Cardinality(DOMAIN f.split) + f.entries + Len(f.tensors)
DataStart(f) == Aligned(HeaderLength(f), f.alignment)

\* readGGUF: the alignment is a power of two, the tensors follow each other
\* without a gap, and end where the file ends.
Readable(f) ==
    /\ f.alignment \in {1, 2, Alignment}
    /\ \A i \in DOMAIN f.tensors : f.tensors[i].offset = Before(f.tensors, f.alignment, i)
    /\ DataStart(f) + Before(f.tensors, f.alignment, Len(f.tensors) + 1) = f.length

AllTensors(shards) == FlattenSeq([i \in DOMAIN shards |-> shards[i].tensors])

\* ggufPlan: every shard says which one it is, of how many, with how many tensors
\* in all; only the first has other metadata; no tensor comes twice.
Plannable(shards) ==
    /\ \A i \in DOMAIN shards :
         /\ DOMAIN shards[i].split = Split
         /\ shards[i].split.no = i - 1
         /\ shards[i].split.count = Len(shards)
         /\ shards[i].split.total = Len(AllTensors(shards))
         /\ (shards[i].entries > 0) = (i = 1)
    /\ \A i, j \in DOMAIN AllTensors(shards) :
         AllTensors(shards)[i].name = AllTensors(shards)[j].name => i = j

\* The planned header: the metadata of the first shard without the split entries,
\* its alignment raised, and new offsets.
Merged(shards) ==
    LET ts == AllTensors(shards)
        head == Aligned(Fixed + shards[1].entries + Len(ts), Alignment)
    IN  [split |-> <<>>, entries |-> shards[1].entries, alignment |-> Alignment,
         tensors |-> [i \in DOMAIN ts |-> [ts[i] EXCEPT !.offset = Before(ts, Alignment, i)]],
         length |-> head + Before(ts, Alignment, Len(ts) + 1)]

\* The copying loop: header, then each tensor's units, from where its shard has
\* them, and padding.  A unit is <<shard, position>>, padding and header <<0, 0>>.
Written(shards) ==
    LET Row(k, s) == FlattenSeq([i \in DOMAIN s.tensors |->
            [j \in 1..Aligned(s.tensors[i].size, Alignment) |->
                IF j <= s.tensors[i].size
                THEN <<k, DataStart(s) + s.tensors[i].offset + j>> ELSE <<0, 0>>]])
        ts == AllTensors(shards)
        head == Aligned(Fixed + shards[1].entries + Len(ts), Alignment)
    IN  [i \in 1..head |-> <<0, 0>>] \o FlattenSeq([k \in DOMAIN shards |-> Row(k, shards[k])])

\* A shard that gguf-split would write: tensors of the given names and sizes.
Shard(k, n, total, a, names, sizes) ==
    LET raw == [i \in DOMAIN sizes |-> [name |-> names[i], offset |-> 0, size |-> sizes[i]]]
        ts == [i \in DOMAIN raw |-> [raw[i] EXCEPT !.offset = Before(raw, a, i)]]
        s == [split |-> [no |-> k - 1, count |-> n, total |-> total],
              entries |-> IF k = 1 THEN 2 ELSE 0, alignment |-> a, tensors |-> ts, length |-> 0]
    IN  [s EXCEPT !.length = DataStart(s) + Before(ts, a, Len(ts) + 1)]

\* Every merged file is one that readGGUF reads, exactly as long as planned, and
\* has each tensor of each shard, with the shard's own data, at its offset.
MergeReadsBack(shards) ==
    (\A k \in DOMAIN shards : Readable(shards[k])) /\ Plannable(shards) =>
        LET f == Merged(shards)
            units == Written(shards)
        IN  /\ Readable(f) /\ Len(units) = f.length
            /\ \A k \in DOMAIN shards : \A i \in DOMAIN shards[k].tensors :
                 LET t == shards[k].tensors[i] IN
                 \E m \in DOMAIN f.tensors :
                    /\ f.tensors[m].name = t.name
                    /\ \A j \in 1..t.size :
                         units[DataStart(f) + f.tensors[m].offset + j]
                             = <<k, DataStart(shards[k]) + t.offset + j>>
=============================================================================
