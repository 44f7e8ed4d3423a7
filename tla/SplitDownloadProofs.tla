------------------------ MODULE SplitDownloadProofs -------------------------
(***************************************************************************)
(* Proofs about SplitDownload, for any number of processes, parts and      *)
(* blocks of a part.                                                       *)
(***************************************************************************)
EXTENDS SplitDownload, SequenceTheorems, FiniteSetTheorems, TLAPS

\* What the pieces may take on the disk, and what the space check works from.
Total == NParts * PartLen + Scratch

\* The files.  A file of a part is there or its ".part" file is; what was put
\* together by this code goes on as the image does, and the first part of a join
\* is in one place only.
FilesInv ==
    /\ \A k \in Parts : part[k] # "none" => resume[k] = 0
    /\ ~foreign /\ asm # NoFile => IsPrefix(asm, Image)
    /\ kind = "join" /\ asm # NoFile /\ IsPrefix(Blocks(1), asm) => IsPrefix(asm, Image)
    /\ kind = "join" /\ asm # NoFile => part[1] # "good"
    /\ kind = "join" /\ asm # NoFile /\ ~foreign => part[1] = "none" /\ resume[1] = 0
    /\ out # NoFile => out = Image

\* Where the process that has the download lock is, in the parts and in the
\* assembling file.
Joined(p, n) == asm # NoFile /\ Len(asm) = n
JoinStage(p) ==
    /\ pc[p] \notin {"open", "merge", "unlink"}
    /\ pc[p] \in {"fetch", "append", "remove"} => at[p] <= NParts
    /\ pc[p] = "fetch" => IF at[p] = 1 THEN asm = NoFile ELSE Joined(p, (at[p] - 1) * PartLen)
    /\ pc[p] = "first" => at[p] = 1 /\ asm = NoFile /\ part[1] = "good"
    /\ pc[p] = "resume" => at[p] = 1 /\ asm # NoFile
    /\ pc[p] \in {"append", "remove"} => at[p] > 1
    /\ pc[p] = "append" => pos[p] < PartLen /\ Joined(p, (at[p] - 1) * PartLen + pos[p])
    /\ pc[p] = "remove" => Joined(p, at[p] * PartLen)
    /\ pc[p] = "verify" => Joined(p, NParts * PartLen)
    /\ pc[p] # "append" => pos[p] = 0
MergeStage(p) ==
    /\ pc[p] \in {"fetch", "open", "merge", "verify", "publish", "unlink", "record", "wiping"}
    /\ pc[p] = "fetch" => at[p] <= NParts
    /\ pc[p] \in {"fetch", "open"} => pos[p] = 0
    /\ pc[p] \in {"merge", "verify"} => asm # NoFile
    /\ pc[p] = "merge" => pos[p] <= Len(asm)
Stage(p) ==
    /\ IF kind = "join" THEN JoinStage(p) ELSE MergeStage(p)
    /\ pc[p] = "publish" => asm = Image
    /\ pc[p] = "unlink" => out = Image
    /\ pc[p] = "wiping" => pos[p] = 0
StageInv == \A p \in Procs : lock = p => Stage(p)

\* Who does not have the lock is at the start.
IdleInv == \A p \in Procs : lock # p => at[p] = 1 /\ pos[p] = 0

\* A process that goes ahead was granted what all the pieces may take.
RoomInv == \A p \in Procs :
    (lock = p /\ pc[p] # "wiping") \/ (kind = "join" /\ pc[p] = "lock") => room[p] >= Total

IInv == TypeOK /\ FilesInv /\ StageInv /\ IdleInv /\ RoomInv

Block == Nat \X Nat
USE SplitDownloadAssumption

-----------------------------------------------------------------------------
(* Sequences of blocks *)

\* A prefix is what agrees with the sequence as far as it goes.
LEMMA PrefixAt ==
    ASSUME NEW S, NEW s \in Seq(S), NEW t \in Seq(S)
    PROVE  IsPrefix(s, t) <=> Len(s) <= Len(t) /\ \A i \in 1..Len(s) : s[i] = t[i]
<1>1. SubSeq(s, 1, Len(s)) = s
    OBVIOUS
<1>2. CASE Len(s) <= Len(t)
    <2>1. /\ SubSeq(t, 1, Len(s)) \in Seq(S)
          /\ Len(SubSeq(t, 1, Len(s))) = Len(s)
          /\ \A i \in 1..Len(s) : SubSeq(t, 1, Len(s))[i] = t[i]
        BY <1>2
    <2>2. SubSeq(t, 1, Len(s)) = s <=> \A i \in 1..Len(s) : s[i] = t[i]
        BY <2>1, SeqEqual
    <2>3. QED
        BY <1>1, <1>2, <2>2 DEF IsPrefix
<1>3. CASE ~(Len(s) <= Len(t))
    BY <1>3 DEF IsPrefix
<1>4. QED
    BY <1>2, <1>3

\* A prefix grows by the next element.
LEMMA PrefixAppend ==
    ASSUME NEW S, NEW s \in Seq(S), NEW t \in Seq(S), IsPrefix(s, t), Len(s) < Len(t)
    PROVE  /\ Append(s, t[Len(s) + 1]) \in Seq(S)
           /\ IsPrefix(Append(s, t[Len(s) + 1]), t)
<1> DEFINE u == Append(s, t[Len(s) + 1])
<1>1. u \in Seq(S) /\ Len(u) = Len(s) + 1
    OBVIOUS
<1>2. Len(s) <= Len(t) /\ \A i \in 1..Len(s) : s[i] = t[i]
    BY PrefixAt
<1>3. \A i \in 1..Len(u) : u[i] = t[i]
    BY <1>2
<1>4. Len(u) <= Len(t)
    BY <1>1
<1> HIDE DEF u
<1>5. IsPrefix(u, t)
    BY <1>1, <1>3, <1>4, PrefixAt
<1>6. QED
    BY <1>1, <1>5 DEF u

\* Who is as long as what it is a prefix of is the same.
LEMMA PrefixWhole ==
    ASSUME NEW S, NEW s \in Seq(S), NEW t \in Seq(S), IsPrefix(s, t), Len(s) = Len(t)
    PROVE  s = t
BY PrefixAt, SeqEqual

LEMMA PrefixShorter ==
    ASSUME NEW S, NEW s \in Seq(S), NEW t \in Seq(S), NEW u \in Seq(S), IsPrefix(t, u), Len(s) <= Len(t)
    PROVE  IsPrefix(s, t) <=> IsPrefix(s, u)
<1>1. IsPrefix(s, t) <=> Len(s) <= Len(t) /\ \A i \in 1..Len(s) : s[i] = t[i]
    BY PrefixAt
<1>2. IsPrefix(s, u) <=> Len(s) <= Len(u) /\ \A i \in 1..Len(s) : s[i] = u[i]
    BY PrefixAt
<1>3. Len(t) <= Len(u) /\ \A i \in 1..Len(t) : t[i] = u[i]
    BY PrefixAt
<1>4. QED
    BY <1>1, <1>2, <1>3

\* The beginning of a sequence, and what it is a prefix of.
LEMMA CutType ==
    ASSUME NEW S, NEW t \in Seq(S), NEW n \in Nat, n <= Len(t)
    PROVE  /\ SubSeq(t, 1, n) \in Seq(S) /\ Len(SubSeq(t, 1, n)) = n
           /\ \A i \in 1..n : SubSeq(t, 1, n)[i] = t[i]
           /\ IsPrefix(SubSeq(t, 1, n), t)
<1> DEFINE s == SubSeq(t, 1, n)
<1>1. s \in Seq(S) /\ Len(s) = n /\ \A i \in 1..n : s[i] = t[i]
    OBVIOUS
<1> HIDE DEF s
<1>2. IsPrefix(s, t)
    BY <1>1, PrefixAt
<1>3. QED
    BY <1>1, <1>2 DEF s

\* Quotient and remainder of a position.
LEMMA Position ==
    ASSUME NEW P \in Nat \ {0}, NEW k \in Nat, NEW j \in 0..(P - 1)
    PROVE  (k * P + j) \div P = k /\ (k * P + j) % P = j
OBVIOUS

LEMMA Small ==
    ASSUME NEW P \in Nat \ {0}, NEW j \in 0..(P - 1)
    PROVE  j % P = j
OBVIOUS

LEMMA Sizes ==
    /\ NParts * PartLen \in Nat \ {0}
    /\ NParts * (PartLen + 1) \in Nat /\ NParts * (PartLen + 1) >= PartLen
    /\ \A k \in Parts : (k - 1) * PartLen + PartLen <= NParts * PartLen
    /\ \A k \in Parts : k > 1 => (k - 1) * PartLen >= PartLen
    /\ \A k \in Parts : (k - 1) * PartLen \in Nat /\ (k - 1) * PartLen + PartLen = k * PartLen
    /\ NParts * PartLen >= PartLen
<1>1. /\ NParts * PartLen \in Nat \ {0} /\ NParts * (PartLen + 1) \in Nat
      /\ NParts * PartLen >= PartLen /\ NParts * (PartLen + 1) >= PartLen
    OBVIOUS
<1>2. \A k \in Parts : (k - 1) * PartLen + PartLen <= NParts * PartLen
    BY DEF Parts
<1>3. \A k \in Parts : k > 1 => (k - 1) * PartLen >= PartLen
    BY DEF Parts
<1>4. \A k \in Parts : (k - 1) * PartLen \in Nat /\ (k - 1) * PartLen + PartLen = k * PartLen
    BY DEF Parts
<1>5. QED
    BY <1>1, <1>2, <1>3, <1>4

\* A part in a file of its own.
LEMMA BlocksType ==
    ASSUME NEW k \in Parts
    PROVE  /\ Blocks(k) \in Seq(Block) /\ Len(Blocks(k)) = PartLen
           /\ \A i \in 1..PartLen : Blocks(k)[i] = <<k, i>>
BY DEF Blocks, Block, Parts

\* The image of a join is the blocks of the parts one after the other.
LEMMA JoinImageType ==
    /\ JoinImage \in Seq(Block) /\ Len(JoinImage) = NParts * PartLen
    /\ \A k \in Parts, j \in 0..(PartLen - 1) : JoinImage[(k - 1) * PartLen + j + 1] = <<k, j + 1>>
<1> DEFINE n == NParts * PartLen
           e(i) == <<((i - 1) \div PartLen) + 1, ((i - 1) % PartLen) + 1>>
<1>1. n \in Nat
    BY Sizes
<1>2. \A i \in 1..n : e(i) \in Block
    BY <1>1 DEF Block
<1>3. JoinImage \in Seq(Block) /\ Len(JoinImage) = n
    <2>1. JoinImage = [i \in 1..n |-> e(i)]
        BY DEF JoinImage
    <2> HIDE DEF n, e
    <2>2. [i \in 1..n |-> e(i)] \in Seq(Block) /\ Len([i \in 1..n |-> e(i)]) = n
        BY <1>1, <1>2
    <2>3. QED
        BY <2>1, <2>2
<1>4. ASSUME NEW k \in Parts, NEW j \in 0..(PartLen - 1)
      PROVE  JoinImage[(k - 1) * PartLen + j + 1] = <<k, j + 1>>
    <2> DEFINE i == (k - 1) * PartLen + j + 1
    <2>1. i \in 1..n
        BY Sizes DEF Parts
    <2>2. (i - 1) \div PartLen = k - 1 /\ (i - 1) % PartLen = j
        <3>1. PartLen \in Nat \ {0} /\ k - 1 \in Nat
            BY DEF Parts
        <3>2. ((k - 1) * PartLen + j) \div PartLen = k - 1 /\ ((k - 1) * PartLen + j) % PartLen = j
            BY <3>1, Position
        <3>3. i - 1 = (k - 1) * PartLen + j
            BY <2>1, Sizes
        <3>4. QED
            BY <3>2, <3>3
    <2>3. JoinImage[i] = <<((i - 1) \div PartLen) + 1, ((i - 1) % PartLen) + 1>>
        BY <2>1 DEF JoinImage
    <2>4. QED
        BY <2>2, <2>3 DEF Parts
<1>5. QED
    BY <1>3, <1>4

LEMMA MergeImageType ==
    MergeImage \in Seq(Block) /\ Len(MergeImage) = 1 + NParts * (PartLen + 1)
<1> DEFINE n == NParts * (PartLen + 1)
           e(i) == LET k == ((i - 1) \div (PartLen + 1)) + 1
                       j == ((i - 1) % (PartLen + 1)) + 1
                   IN  IF j <= PartLen THEN <<k, j>> ELSE Pad(k)
<1>1. n \in Nat
    BY Sizes
<1>2. \A i \in 1..n : e(i) \in Block
    BY <1>1 DEF Block, Pad
<1>3. [i \in 1..n |-> e(i)] \in Seq(Block) /\ Len([i \in 1..n |-> e(i)]) = n
    BY <1>1, <1>2
<1>4. <<Header>> \in Seq(Block) /\ Len(<<Header>>) = 1
    BY DEF Header, Block
<1>5. MergeImage = <<Header>> \o [i \in 1..n |-> e(i)]
    BY DEF MergeImage
<1> HIDE DEF n, e
<1>6. QED
    BY <1>1, <1>3, <1>4, <1>5, ConcatProperties DEF n

LEMMA ImageType ==
    /\ Image \in Seq(Block) /\ Image # NoFile
    /\ kind = "join" => Len(Image) = NParts * PartLen /\ Image = JoinImage
    /\ kind # "join" => Len(Image) = 1 + NParts * (PartLen + 1) /\ Image = MergeImage
    /\ Len(Image) \in Nat /\ Len(Image) >= PartLen
<1>1. CASE kind = "join"
    <2>1. Image = JoinImage
        BY <1>1 DEF Image
    <2>2. QED
        BY <1>1, <2>1, JoinImageType, Sizes DEF Block
<1>2. CASE kind # "join"
    <2>1. Image = MergeImage
        BY <1>2 DEF Image
    <2>2. QED
        BY <1>2, <2>1, MergeImageType, Sizes DEF Block
<1>3. QED
    BY <1>1, <1>2

\* What a foreign program left does not begin with the first part.
LEMMA JunkType ==
    ASSUME NEW n \in Nat
    PROVE  Junk(n) \in Seq(Block) /\ ~IsPrefix(Blocks(1), Junk(n))
<1>1. Junk(n) \in Seq(Block) /\ Len(Junk(n)) = n /\ \A i \in 1..n : Junk(n)[i] = <<0, i>>
    BY DEF Junk, Block
<1>2. Blocks(1) \in Seq(Block) /\ Len(Blocks(1)) = PartLen /\ Blocks(1)[1] = <<1, 1>>
    BY BlocksType DEF Parts
<1>3. ASSUME IsPrefix(Blocks(1), Junk(n))
      PROVE  FALSE
    <2>1. PartLen <= n /\ Blocks(1)[1] = Junk(n)[1]
        BY <1>1, <1>2, <1>3, PrefixAt
    <2>2. QED
        BY <1>1, <1>2, <2>1
<1>4. QED
    BY <1>1, <1>3

\* The first part is a prefix of the image of a join, and what comes after a
\* number of blocks is the next block of a part.
LEMMA FirstPart ==
    IsPrefix(Blocks(1), JoinImage)
<1>1. Blocks(1) \in Seq(Block) /\ Len(Blocks(1)) = PartLen /\ \A i \in 1..PartLen : Blocks(1)[i] = <<1, i>>
    BY BlocksType DEF Parts
<1>2. \A i \in 1..PartLen : JoinImage[i] = <<1, i>>
    <2>1. SUFFICES ASSUME NEW i \in 1..PartLen PROVE JoinImage[i] = <<1, i>>
        OBVIOUS
    <2>2. 1 \in Parts /\ i - 1 \in 0..(PartLen - 1)
        BY DEF Parts
    <2>3. JoinImage[(1 - 1) * PartLen + (i - 1) + 1] = <<1, i - 1 + 1>>
        BY <2>2, JoinImageType
    <2>4. (1 - 1) * PartLen + (i - 1) + 1 = i /\ i - 1 + 1 = i
        OBVIOUS
    <2>5. QED
        BY <2>3, <2>4
<1>3. QED
    BY <1>1, <1>2, JoinImageType, PrefixAt, Sizes

LEMMA NextBlock ==
    ASSUME NEW k \in Parts, NEW j \in 0..(PartLen - 1)
    PROVE  /\ Blocks(k)[j + 1] = JoinImage[(k - 1) * PartLen + j + 1]
           /\ Blocks(k)[j + 1] \in Block
<1>1. j + 1 \in 1..PartLen /\ k \in Nat
    BY DEF Parts
<1>2. Blocks(k)[j + 1] = <<k, j + 1>>
    BY <1>1, BlocksType
<1>3. JoinImage[(k - 1) * PartLen + j + 1] = <<k, j + 1>>
    BY JoinImageType
<1>4. QED
    BY <1>1, <1>2, <1>3 DEF Block

-----------------------------------------------------------------------------
(* Space on the disk *)

LEMMA Grid ==
    ASSUME NEW a \in 1..2
    PROVE  LET G == (a..NParts) \X (1..PartLen)
           IN  /\ IsFiniteSet(G)
               /\ Cardinality(G) = (NParts - a + 1) * PartLen
<1> DEFINE A == a..NParts
           B == 1..PartLen
<1>1. IsFiniteSet(A) /\ Cardinality(A) = NParts - a + 1
    BY FS_Interval
<1>2. IsFiniteSet(B) /\ Cardinality(B) = PartLen
    BY FS_Interval
<1> HIDE DEF A, B
<1>3. IsFiniteSet(A \X B) /\ Cardinality(A \X B) = Cardinality(A) * Cardinality(B)
    BY <1>1, <1>2, FS_Product
<1>4. IsFiniteSet(A \X B) /\ Cardinality(A \X B) = (NParts - a + 1) * PartLen
    BY <1>1, <1>2, <1>3
<1>5. QED
    BY <1>4 DEF A, B

\* The pieces are finite sets of blocks.
LEMMA PiecesType ==
    /\ IsFiniteSet(PartBlocks) /\ Cardinality(PartBlocks) \in Nat
    /\ IsFiniteSet(ResumeBlocks) /\ Cardinality(ResumeBlocks) \in Nat
    /\ IsFiniteSet(PartBlocks \cup ResumeBlocks) /\ Cardinality(PartBlocks \cup ResumeBlocks) \in Nat
    /\ Cardinality(PartBlocks \cup ResumeBlocks) <= Cardinality(PartBlocks) + Cardinality(ResumeBlocks)
    /\ PartBlocks \cap ResumeBlocks = {} =>
          Cardinality(PartBlocks \cup ResumeBlocks) = Cardinality(PartBlocks) + Cardinality(ResumeBlocks)
<1>1. IsFiniteSet(Parts \X (1..PartLen))
    BY Grid DEF Parts
<1>2. IsFiniteSet(PartBlocks) /\ Cardinality(PartBlocks) \in Nat
    BY <1>1, FS_Subset, FS_CardinalityType DEF PartBlocks
<1>3. IsFiniteSet(ResumeBlocks) /\ Cardinality(ResumeBlocks) \in Nat
    BY <1>1, FS_Subset, FS_CardinalityType DEF ResumeBlocks
<1>4. /\ IsFiniteSet(PartBlocks \cup ResumeBlocks)
      /\ Cardinality(PartBlocks \cup ResumeBlocks)
           = Cardinality(PartBlocks) + Cardinality(ResumeBlocks) - Cardinality(PartBlocks \cap ResumeBlocks)
    BY <1>2, <1>3, FS_Union
<1>5. Cardinality(PartBlocks \cup ResumeBlocks) \in Nat
    BY <1>4, FS_CardinalityType
<1>6. Cardinality(PartBlocks \cap ResumeBlocks) \in Nat
    BY <1>2, FS_Intersection, FS_CardinalityType
<1>7. PartBlocks \cap ResumeBlocks = {} => Cardinality(PartBlocks \cap ResumeBlocks) = 0
    BY FS_EmptySet, Zenon
<1> DEFINE a == Cardinality(PartBlocks)
           b == Cardinality(ResumeBlocks)
           c == Cardinality(PartBlocks \cap ResumeBlocks)
           u == Cardinality(PartBlocks \cup ResumeBlocks)
<1>8. a \in Nat /\ b \in Nat /\ c \in Nat /\ u = a + b - c
    BY <1>2, <1>3, <1>4, <1>6
<1> HIDE DEF a, b, c, u
<1>9. u <= a + b /\ (c = 0 => u = a + b)
    BY <1>8
<1>10. QED
    BY <1>2, <1>3, <1>4, <1>5, <1>7, <1>9, Zenon DEF a, b, c, u

LEMMA ScratchType ==
    Scratch \in Nat /\ Total \in Nat
<1>1. (NParts - 1) * PartLen \in Nat
    <2>1. NParts \in Parts
        BY DEF Parts
    <2>2. QED
        BY <2>1, Sizes
<1>2. Scratch \in Nat
    BY <1>1, ImageType DEF Scratch
<1>3. QED
    BY <1>2, Sizes DEF Total

LEMMA SizeType ==
    TypeOK => Size(asm) \in Nat
BY DEF TypeOK, Size

\* What a check grants, with what is there, covers all the pieces: a shard
\* and its ".part" count once at most.
LEMMA Granted ==
    ASSUME TypeOK
    PROVE  /\ OnDisk \in Nat /\ Required \in Nat
           /\ OnDisk + Required >= Total
<1> DEFINE a == Size(asm)
           b == Len(Image)
<1>1. a \in Nat /\ b \in Nat
    BY SizeType, ImageType
<1>2. Min({a, b}) \in Nat /\ Min({a, b}) <= a
    <2> HIDE DEF a, b
    <2>1. \E x \in {a, b} : \A y \in {a, b} : x <= y
        <3>1. CASE a <= b
            BY <1>1, <3>1
        <3>2. CASE ~(a <= b)
            BY <1>1, <3>2
        <3>3. QED
            BY <3>1, <3>2
    <2>2. Min({a, b}) \in {a, b} /\ \A y \in {a, b} : Min({a, b}) <= y
        BY <2>1 DEF Min
    <2>3. QED
        BY <1>1, <2>2
<1>3. OnDisk \in Nat
    BY <1>1, PiecesType DEF OnDisk
<1>4. HaveOfMerge \in Nat /\ HaveOfMerge <= OnDisk
    BY <1>1, <1>2, PiecesType DEF HaveOfMerge, OnDisk
<1>5. HaveOfJoin = OnDisk
    BY DEF HaveOfJoin
<1> HIDE DEF a, b
<1>6. QED
    BY <1>3, <1>4, <1>5, ScratchType DEF Required, Total

\* Where only this code wrote, the pieces never take more than that.
LEMMA FitsTotal ==
    ASSUME TypeOK, FilesInv, ~foreign
    PROVE  OnDisk <= Total
<1> DEFINE pieces == PartBlocks \cup ResumeBlocks
<1>1. PartBlocks \cap ResumeBlocks = {}
    BY DEF PartBlocks, ResumeBlocks, FilesInv, TypeOK
<1>2. OnDisk = Size(asm) + Cardinality(pieces)
    BY <1>1, PiecesType, SizeType DEF OnDisk
<1>3. IsFiniteSet(pieces) /\ Cardinality(pieces) \in Nat
    BY PiecesType
<1>4. Cardinality(pieces) <= NParts * PartLen
    <2>1. pieces \subseteq (1..NParts) \X (1..PartLen)
        BY DEF PartBlocks, ResumeBlocks, Parts
    <2>2. IsFiniteSet((1..NParts) \X (1..PartLen)) /\ Cardinality((1..NParts) \X (1..PartLen)) = (NParts - 1 + 1) * PartLen
        BY Grid
    <2>3. Cardinality(pieces) <= (NParts - 1 + 1) * PartLen
        BY <2>1, <2>2, FS_Subset
    <2>4. QED
        BY <2>3
<1>5. CASE asm = NoFile
    BY <1>2, <1>3, <1>4, <1>5, ScratchType, Sizes DEF Size, Total
<1>6. CASE asm # NoFile
    <2>1. Size(asm) \in Nat /\ Size(asm) <= Len(Image)
        <3>1. asm \in Seq(Block) /\ IsPrefix(asm, Image)
            BY <1>6 DEF TypeOK, FilesInv, Block
        <3>2. Len(asm) <= Len(Image)
            BY <3>1, PrefixAt, ImageType
        <3>3. QED
            BY <1>6, <3>2, SizeType DEF Size
    <2>2. CASE kind = "merge"
        BY <1>2, <1>3, <1>4, <2>1, <2>2, ImageType, Sizes DEF Total, Scratch
    <2>3. CASE kind = "join"
        <3>1. part[1] = "none" /\ resume[1] = 0
            BY <1>6, <2>3 DEF FilesInv
        <3>2. pieces \subseteq (2..NParts) \X (1..PartLen)
            BY <3>1 DEF PartBlocks, ResumeBlocks, Parts
        <3>3. IsFiniteSet((2..NParts) \X (1..PartLen)) /\ Cardinality((2..NParts) \X (1..PartLen)) = (NParts - 2 + 1) * PartLen
            BY Grid
        <3>4. Cardinality(pieces) <= (NParts - 2 + 1) * PartLen
            BY <3>2, <3>3, FS_Subset
        <3>5. Cardinality(pieces) <= (NParts - 1) * PartLen
            BY <3>4
        <3> HIDE DEF pieces
        <3>6. QED
            BY <1>2, <1>3, <2>1, <2>3, <3>5, ImageType, Sizes DEF Total, Scratch
    <2>4. QED
        BY <2>2, <2>3 DEF TypeOK
<1>7. QED
    BY <1>5, <1>6

-----------------------------------------------------------------------------
(* The lock and the places of the processes *)

\* What never changes, and what depends on nothing else.
LEMMA Rigid ==
    ASSUME [Next]_vars
    PROVE  /\ kind' = kind /\ foreign' = foreign
           /\ Image' = Image /\ Total' = Total
<1>1. kind' = kind /\ foreign' = foreign
    BY DEF Next, Step, vars, rigid, Start, Leave, Locks, EnsurePart, RenameFirst, Resume, AppendFile,
           RemovePart, OpenPending, AppendData, Verify, Publish, Unlink, Record, DeletePartial,
           RemovePartialFiles, Interrupted, Restart
<1>2. Image' = Image
    BY <1>1 DEF Image
<1>3. QED
    BY <1>1, <1>2 DEF Total, Scratch

\* Who is inside has the download lock, and is at the place his stage says.
LEMMA Holder ==
    ASSUME IInv, NEW p \in Procs, pc[p] \in Locked
    PROVE  lock = p /\ Stage(p)
BY DEF IInv, TypeOK, StageInv

LEMMA Outside ==
    ASSUME IInv, NEW p \in Procs, pc[p] \notin Locked
    PROVE  lock # p /\ at[p] = 1 /\ pos[p] = 0
BY DEF IInv, TypeOK, IdleInv

\* A step inside that goes on: the lock stays.
Inside(p, l) == pc[p] \in Locked /\ l \in Locked /\ Goto(p, l) /\ lock' = lock

\* The types a step leaves alone when it only moves a process.
Places ==
    /\ lock' \in Procs \cup {Nobody}
    /\ pc' \in [Procs -> PCs]
    /\ at' \in [Procs -> 1..(NParts + 1)]
    /\ pos' \in [Procs -> 0..Len(Image)]
    /\ room' \in [Procs -> Nat]
    /\ \A p \in Procs : pc'[p] \in Locked <=> lock' = p

LEMMA EndsType ==
    ASSUME IInv, NEW p \in Procs, NEW l \in {"idle", "down"}, pc[p] \in Locked, Ends(p, l)
    PROVE  Places
<1>1. lock = p
    BY Holder
<1>2. lock' = Nobody /\ pc' = [pc EXCEPT ![p] = l]
    BY DEF Ends, Goto
<1>3. l \in PCs /\ l \notin Locked
    BY DEF PCs, Locked
<1>4. \A q \in Procs : pc'[q] \in Locked <=> lock' = q
    BY <1>1, <1>2, <1>3 DEF IInv, TypeOK
<1>5. pc' \in [Procs -> PCs]
    BY <1>2, <1>3 DEF IInv, TypeOK
<1>6. /\ at' \in [Procs -> 1..(NParts + 1)]
      /\ pos' \in [Procs -> 0..Len(Image)]
      /\ room' \in [Procs -> Nat]
    BY ImageType DEF Ends, IInv, TypeOK
<1>7. QED
    BY <1>2, <1>4, <1>5, <1>6 DEF Places

LEMMA InsideType ==
    ASSUME IInv, NEW p \in Procs, NEW l, Inside(p, l),
           at' \in [Procs -> 1..(NParts + 1)], pos' \in [Procs -> 0..Len(Image)], room' = room
    PROVE  Places
BY DEF IInv, TypeOK, Inside, Goto, Places, PCs

LEMMA OutsideType ==
    ASSUME IInv, NEW p \in Procs, NEW l \in {"idle", "lock", "down"}, pc[p] \notin Locked,
           Goto(p, l), lock' = lock, at' = at, pos' = pos, room' \in [Procs -> Nat]
    PROVE  Places
<1>1. l \in PCs /\ l \notin Locked
    BY DEF PCs, Locked
<1>2. QED
    BY <1>1 DEF IInv, TypeOK, Goto, Places

LEMMA EnterType ==
    ASSUME IInv, NEW p \in Procs, NEW l \in Locked, lock = Nobody, pc[p] \notin Locked,
           Goto(p, l), lock' = p, at' = at, pos' = pos, room' \in [Procs -> Nat]
    PROVE  Places
<1>1. l \in PCs
    BY DEF PCs
<1>2. QED
    BY <1>1 DEF IInv, TypeOK, Goto, Places

\* The next block of a join, for the process that appends it.
LEMMA Appended ==
    ASSUME IInv, NEW p \in Procs, AppendFile(p)
    PROVE  /\ kind = "join" /\ at[p] \in Parts /\ at[p] > 1
           /\ asm \in Seq(Block) /\ asm # NoFile /\ Len(asm) >= PartLen /\ Len(asm) < Len(Image)
           /\ pos[p] \in 0..(PartLen - 1) /\ Len(asm) = (at[p] - 1) * PartLen + pos[p]
           /\ asm' = Append(asm, Image[Len(asm) + 1])
           /\ Image[Len(asm) + 1] \in Block
<1>1. lock = p /\ Stage(p) /\ pc[p] = "append"
    BY Holder DEF AppendFile, Locked
<1>2. kind = "join" /\ JoinStage(p)
    BY <1>1 DEF Stage, MergeStage
<1>3. at[p] \in Parts /\ at[p] > 1
    BY <1>1, <1>2 DEF JoinStage, IInv, TypeOK, Parts
<1>4. pos[p] \in 0..(PartLen - 1)
    BY <1>1, <1>2 DEF JoinStage, IInv, TypeOK
<1>5. asm \in Seq(Block) /\ asm # NoFile /\ Len(asm) = (at[p] - 1) * PartLen + pos[p]
    BY <1>1, <1>2 DEF JoinStage, Joined, IInv, TypeOK, Block
<1>6. Image = JoinImage /\ Len(Image) = NParts * PartLen
    BY <1>2, ImageType
<1>7. Len(asm) >= PartLen /\ Len(asm) < Len(Image)
    <2>1. /\ (at[p] - 1) * PartLen + PartLen <= NParts * PartLen
          /\ (at[p] - 1) * PartLen >= PartLen /\ (at[p] - 1) * PartLen \in Nat
        BY <1>3, Sizes
    <2>2. NParts * PartLen \in Nat
        BY Sizes
    <2>3. QED
        BY <1>4, <1>5, <1>6, <2>1, <2>2
<1>8. Blocks(at[p])[pos[p] + 1] = Image[Len(asm) + 1] /\ Image[Len(asm) + 1] \in Block
    BY <1>3, <1>4, <1>5, <1>6, NextBlock
<1>9. QED
    BY <1>2, <1>3, <1>4, <1>5, <1>7, <1>8 DEF AppendFile

\* The next block of a merge, when the file does not have it yet.
LEMMA Compared ==
    ASSUME IInv, NEW p \in Procs, AppendData(p)
    PROVE  /\ kind = "merge" /\ asm \in Seq(Block) /\ asm # NoFile
           /\ asm' = asm \/ (Len(asm) = pos[p] /\ pos[p] < Len(Image) /\ asm' = Append(asm, Image[Len(asm) + 1]))
<1>1. lock = p /\ Stage(p) /\ pc[p] = "merge"
    BY Holder DEF AppendData, Locked
<1>2. kind = "merge" /\ MergeStage(p)
    BY <1>1 DEF Stage, JoinStage, IInv, TypeOK
<1>3. asm \in Seq(Block) /\ asm # NoFile /\ pos[p] <= Len(asm) /\ pos[p] \in Nat
    BY <1>1, <1>2 DEF MergeStage, IInv, TypeOK, Block
<1>4. CASE pos[p] < Len(Image) /\ asm' = IF pos[p] + 1 <= Len(asm) THEN asm ELSE Append(asm, Image[pos[p] + 1])
    BY <1>2, <1>3, <1>4
<1>5. QED
    BY <1>2, <1>3, <1>4 DEF AppendData

-----------------------------------------------------------------------------
(* The types *)

FileTypes ==
    /\ part' \in [Parts -> {"none", "good", "stale"}]
    /\ resume' \in [Parts -> 0..PartLen]
    /\ asm' \in Seq(Block) \cup {NoFile}
    /\ out' \in Seq(Block) \cup {NoFile}

LEMMA InitTypeOK == Init => TypeOK
<1> SUFFICES ASSUME Init PROVE TypeOK
    OBVIOUS
<1>2. asm \in Seq(Block) \cup {NoFile}
    <2>1. \A n \in 0..(Len(Image) + 1) : Junk(n) \in Seq(Block)
        BY JunkType
    <2>2. QED
        BY <2>1 DEF Init
<1>3. Len(Image) \in Nat /\ 0 \in 0..Len(Image) /\ 1 \in 1..(NParts + 1)
    BY ImageType
<1>4. /\ pc \in [Procs -> PCs]
      /\ \A p \in Procs : pc[p] \in Locked <=> lock = p
    BY DEF Init, PCs, Locked
<1>5. QED
    BY <1>2, <1>3, <1>4 DEF Init, TypeOK, Block

LEMMA NextTypeOK == IInv /\ [Next]_vars => TypeOK'
<1> SUFFICES ASSUME IInv, [Next]_vars PROVE FileTypes /\ Places
    BY Rigid DEF IInv, TypeOK, FileTypes, Places, Block
<1>2. /\ part \in [Parts -> {"none", "good", "stale"}] /\ resume \in [Parts -> 0..PartLen]
      /\ asm \in Seq(Block) \cup {NoFile} /\ out \in Seq(Block) \cup {NoFile}
      /\ at \in [Procs -> 1..(NParts + 1)] /\ pos \in [Procs -> 0..Len(Image)]
      /\ room \in [Procs -> Nat] /\ kind \in {"join", "merge"}
      /\ Len(Image) \in Nat /\ Len(Image) >= PartLen
    BY ImageType DEF IInv, TypeOK, Block
<1>3. CASE UNCHANGED vars
    BY <1>3 DEF vars, IInv, TypeOK, FileTypes, Places, Block
<1>4. SUFFICES ASSUME NEW p \in Procs, Start(p) \/ Step(p) \/ DeletePartial(p) \/ Interrupted(p)
               PROVE FileTypes /\ Places
    BY <1>3 DEF Next
<1>5. OnDisk + Required \in Nat
    BY Granted DEF IInv
<1>6. CASE Start(p)
    <2>1. FileTypes
        BY <1>2, <1>6 DEF Start, files, FileTypes
    <2>2. Places
        BY <1>2, <1>5, <1>6, OutsideType DEF Start, Locked
    <2>3. QED
        BY <2>1, <2>2
<1>7. CASE Leave(p)
    <2>1. FileTypes
        BY <1>2, <1>7 DEF Leave, files, FileTypes
    <2>2. Places
        BY <1>2, <1>7, OutsideType DEF Leave, Locked
    <2>3. QED
        BY <2>1, <2>2
<1>8. CASE Locks(p)
    <2>1. FileTypes
        BY <1>2, <1>8 DEF Locks, files, FileTypes
    <2>2. Places
        BY <1>2, <1>5, <1>8, EnterType DEF Locks, Locked
    <2>3. QED
        BY <2>1, <2>2
<1>9. CASE EnsurePart(p)
    <2>1. lock = p /\ Stage(p) /\ pc[p] = "fetch"
        BY <1>9, Holder DEF EnsurePart, Locked
    <2>2. at[p] \in Parts
        BY <1>2, <2>1 DEF Stage, JoinStage, MergeStage, Parts
    <2>3. FileTypes
        <3>1. part' \in [Parts -> {"none", "good", "stale"}]
            BY <1>2, <1>9, <2>2 DEF EnsurePart
        <3>2. resume' \in [Parts -> 0..PartLen]
            <4>1. CASE resume' = resume
                BY <1>2, <4>1
            <4>2. CASE resume[at[p]] < PartLen /\ resume' = [resume EXCEPT ![at[p]] = @ + 1]
                <5>1. resume[at[p]] + 1 \in 0..PartLen
                    BY <1>2, <2>2, <4>2
                <5>2. QED
                    BY <1>2, <4>2, <5>1
            <4>3. CASE resume' = [resume EXCEPT ![at[p]] = 0]
                <5>1. 0 \in 0..PartLen
                    OBVIOUS
                <5>2. QED
                    BY <1>2, <4>3, <5>1
            <4>4. QED
                BY <1>9, <4>1, <4>2, <4>3 DEF EnsurePart
        <3>3. QED
            BY <1>2, <1>9, <3>1, <3>2 DEF EnsurePart, FileTypes
    <2>4. CASE AfterPart(p) /\ UNCHANGED <<lock, pos, room>>
        <3>1. PICK l \in Locked : Goto(p, l)
            BY <1>2, <2>4 DEF AfterPart, Locked
        <3>2. at' \in [Procs -> 1..(NParts + 1)]
            BY <1>2, <2>2, <2>4 DEF AfterPart, Parts
        <3>3. QED
            BY <1>2, <2>1, <2>3, <2>4, <3>1, <3>2, InsideType DEF Inside, Locked
    <2>5. CASE UNCHANGED <<at, pc, lock, pos, room>>
        BY <2>3, <2>5 DEF Places, IInv, TypeOK
    <2>6. QED
        BY <1>9, <2>3, <2>4, <2>5 DEF EnsurePart
<1>10. CASE RenameFirst(p)
    <2>1. FileTypes
        BY <1>2, <1>10, BlocksType DEF RenameFirst, FileTypes, Parts
    <2>2. Places
        BY <1>2, <1>10, InsideType DEF RenameFirst, Locked, Inside
    <2>3. QED
        BY <2>1, <2>2
<1>11. CASE Resume(p)
    <2>1. lock = p /\ pc[p] = "resume" /\ asm # NoFile
        BY <1>11, Holder DEF Resume, Locked, Stage, JoinStage, MergeStage
    <2>2. FileTypes
        <3>1. Len(asm) >= PartLen => SubSeq(asm, 1, PartLen) \in Seq(Block)
            BY <1>2, <2>1, CutType
        <3>2. QED
            BY <1>2, <1>11, <3>1 DEF Resume, FileTypes
    <2>3. Places
        <3>1. CASE Return(p)
            BY <2>1, <3>1, EndsType DEF Return, Locked
        <3>2. CASE at' = [at EXCEPT ![p] = 2] /\ Goto(p, IF NParts = 1 THEN "verify" ELSE "fetch")
                   /\ UNCHANGED <<lock, pos, room>>
            <4>1. at' \in [Procs -> 1..(NParts + 1)]
                BY <1>2, <3>2
            <4>2. PICK l \in Locked : Goto(p, l)
                BY <3>2 DEF Locked
            <4>3. QED
                BY <1>2, <2>1, <3>2, <4>1, <4>2, InsideType DEF Inside, Locked
        <3>3. QED
            BY <1>11, <3>1, <3>2 DEF Resume
    <2>4. QED
        BY <2>2, <2>3
<1>12. CASE AppendFile(p)
    <2>1. FileTypes
        <3>1. asm' \in Seq(Block)
            <4>1. asm \in Seq(Block) /\ Image[Len(asm) + 1] \in Block /\ asm' = Append(asm, Image[Len(asm) + 1])
                BY <1>12, Appended
            <4>2. QED
                BY <4>1
        <3>2. QED
            BY <1>2, <1>12, <3>1 DEF AppendFile, FileTypes
    <2>2. pos' \in [Procs -> 0..Len(Image)]
        BY <1>2, <1>12, Appended DEF AppendFile
    <2>3. Places
        BY <1>2, <1>12, <2>2, InsideType DEF AppendFile, Locked, Inside
    <2>4. QED
        BY <2>1, <2>3
<1>13. CASE RemovePart(p)
    <2>1. at[p] \in Parts
        <3>1. pc[p] = "remove" /\ Stage(p)
            BY <1>13, Holder DEF RemovePart, Locked
        <3>2. QED
            BY <1>2, <3>1 DEF Stage, JoinStage, MergeStage, Parts
    <2>2. FileTypes
        BY <1>2, <1>13, <2>1 DEF RemovePart, FileTypes
    <2>3. at' \in [Procs -> 1..(NParts + 1)]
        BY SMTT(30), <1>2, <1>13, <2>1 DEF RemovePart, Parts
    <2>4. Places
        BY <1>2, <1>13, <2>3, InsideType DEF RemovePart, Locked, Inside
    <2>5. QED
        BY <2>2, <2>4
<1>14. CASE OpenPending(p)
    <2>1. FileTypes
        <3>1. <<>> \in Seq(Block)
            OBVIOUS
        <3>2. asm' \in Seq(Block) \cup {NoFile}
            BY <1>2, <1>14, <3>1 DEF OpenPending
        <3>3. QED
            BY <1>2, <1>14, <3>2 DEF OpenPending, FileTypes
    <2>2. CASE Return(p)
        BY <1>14, <2>1, <2>2, EndsType DEF Return, OpenPending, Locked
    <2>3. CASE Goto(p, "merge") /\ UNCHANGED <<lock, at, pos, room>>
        BY <1>2, <1>14, <2>1, <2>3, InsideType DEF Inside, OpenPending, Locked
    <2>4. QED
        BY <1>14, <2>2, <2>3 DEF OpenPending
<1>15. CASE AppendData(p)
    <2>1. FileTypes
        <3>1. asm' \in Seq(Block)
            <4>1. CASE asm' = asm
                BY <1>15, <4>1, Compared
            <4>2. CASE Len(asm) = pos[p] /\ pos[p] < Len(Image) /\ asm' = Append(asm, Image[Len(asm) + 1])
                <5>1. Image[Len(asm) + 1] \in Block
                    BY <1>2, <4>2, ImageType
                <5>2. QED
                    BY <1>15, <4>2, <5>1, Compared
            <4>3. QED
                BY <1>15, <4>1, <4>2, Compared
        <3>2. QED
            BY <1>2, <1>15, <3>1 DEF AppendData, FileTypes
    <2>2. CASE Return(p)
        BY <1>15, <2>1, <2>2, EndsType DEF Return, AppendData, Locked
    <2>3. CASE Goto(p, "verify") /\ UNCHANGED <<lock, at, pos, room>>
        BY <1>2, <1>15, <2>1, <2>3, InsideType DEF Inside, AppendData, Locked
    <2>4. CASE pos[p] < Len(Image) /\ pos' = [pos EXCEPT ![p] = pos[p] + 1] /\ UNCHANGED <<pc, lock, at, room>>
        BY SMTT(30), <1>2, <2>1, <2>4 DEF Places, IInv, TypeOK
    <2>5. QED
        BY <1>15, <2>2, <2>3, <2>4 DEF AppendData
<1>16. CASE Verify(p)
    <2>1. FileTypes
        BY <1>2, <1>16 DEF Verify, FileTypes
    <2>2. CASE Return(p)
        BY <1>16, <2>1, <2>2, EndsType DEF Return, Verify, Locked
    <2>3. CASE Goto(p, "publish") /\ UNCHANGED <<lock, at, pos, room>>
        BY <1>2, <1>16, <2>1, <2>3, InsideType DEF Inside, Verify, Locked
    <2>4. QED
        BY <1>16, <2>2, <2>3 DEF Verify
<1>17. CASE Publish(p)
    <2>1. FileTypes
        BY <1>2, <1>17 DEF Publish, FileTypes
    <2>2. Places
        BY <1>2, <1>17, InsideType DEF Publish, Locked, Inside
    <2>3. QED
        BY <2>1, <2>2
<1>18. CASE Unlink(p)
    <2>1. FileTypes
        BY <1>2, <1>18 DEF Unlink, FileTypes
    <2>2. Places
        BY <1>2, <1>18, InsideType DEF Unlink, Locked, Inside
    <2>3. QED
        BY <2>1, <2>2
<1>19. CASE Record(p)
    <2>1. FileTypes
        BY <1>2, <1>19 DEF Record, files, FileTypes
    <2>2. Places
        BY <1>19, EndsType DEF Record, Return, Locked
    <2>3. QED
        BY <2>1, <2>2
<1>20. CASE DeletePartial(p)
    <2>1. FileTypes
        BY <1>2, <1>20 DEF DeletePartial, files, FileTypes
    <2>2. Places
        BY <1>2, <1>20, EnterType DEF DeletePartial, Locked
    <2>3. QED
        BY <2>1, <2>2
<1>21. CASE RemovePartialFiles(p)
    <2>1. CASE /\ at[p] <= NParts /\ at' = [at EXCEPT ![p] = at[p] + 1] /\ UNCHANGED <<lock, pc, pos, room>>
               /\ part' = [part EXCEPT ![at[p]] = "none"] /\ resume' = [resume EXCEPT ![at[p]] = 0]
               /\ UNCHANGED <<asm, out>>
        <3>1. at[p] \in Parts /\ at' \in [Procs -> 1..(NParts + 1)]
            BY SMTT(30), <1>2, <2>1 DEF Parts
        <3>2. FileTypes
            <4>1. 0 \in 0..PartLen
                OBVIOUS
            <4>2. QED
                BY <1>2, <2>1, <4>1 DEF FileTypes
        <3>3. QED
            BY <1>2, <2>1, <3>1, <3>2 DEF Places, IInv, TypeOK
    <2>2. CASE Return(p) /\ asm' = NoFile /\ UNCHANGED <<part, resume, out>>
        <3>1. FileTypes
            BY <1>2, <2>2 DEF FileTypes
        <3>2. QED
            BY <1>21, <2>2, <3>1, EndsType DEF Return, RemovePartialFiles, Locked
    <2>3. QED
        BY <1>21, <2>1, <2>2 DEF RemovePartialFiles
<1>22. CASE Interrupted(p)
    <2>1. FileTypes
        BY <1>2, <1>22 DEF Interrupted, files, FileTypes
    <2>2. Places
        BY <1>22, EndsType DEF Interrupted
    <2>3. QED
        BY <2>1, <2>2
<1>23. CASE Restart(p)
    <2>1. FileTypes
        BY <1>2, <1>23 DEF Restart, files, FileTypes
    <2>2. Places
        BY <1>2, <1>23, OutsideType DEF Restart, Locked
    <2>3. QED
        BY <2>1, <2>2
<1>24. QED
    BY <1>4, <1>6, <1>7, <1>8, <1>9, <1>10, <1>11, <1>12, <1>13, <1>14, <1>15, <1>16, <1>17, <1>18,
       <1>19, <1>20, <1>21, <1>22, <1>23 DEF Step

-----------------------------------------------------------------------------
(* Who is outside, and what was granted *)

LEMMA NextIdleInv == IInv /\ [Next]_vars => IdleInv'
<1> SUFFICES ASSUME IInv, [Next]_vars PROVE IdleInv'
    OBVIOUS
<1>1. /\ at \in [Procs -> 1..(NParts + 1)] /\ pos \in [Procs -> 0..Len(Image)]
      /\ \A q \in Procs : lock # q => at[q] = 1 /\ pos[q] = 0
    BY DEF IInv, TypeOK, IdleInv
<1>2. CASE UNCHANGED vars
    BY <1>1, <1>2 DEF vars, IdleInv
<1>3. SUFFICES ASSUME NEW p \in Procs, Start(p) \/ Step(p) \/ DeletePartial(p) \/ Interrupted(p)
               PROVE IdleInv'
    BY <1>2 DEF Next
<1>4. CASE Start(p) \/ Leave(p) \/ Restart(p)
    BY <1>1, <1>4 DEF Start, Leave, Restart, IdleInv
<1>5. CASE Locks(p) \/ DeletePartial(p)
    BY <1>1, <1>5 DEF Locks, DeletePartial, IdleInv
<1>6. ASSUME NEW l, pc[p] \in Locked, Ends(p, l)
      PROVE  IdleInv'
    BY <1>1, <1>6, Holder DEF Ends, IdleInv
<1>7. ASSUME pc[p] \in Locked, lock' = lock,
             \E n : at' = [at EXCEPT ![p] = n] \/ at' = at,
             \E n : pos' = [pos EXCEPT ![p] = n] \/ pos' = pos
      PROVE  IdleInv'
    <2>1. lock = p
        BY <1>7, Holder
    <2>2. \A q \in Procs : q # p => at'[q] = at[q] /\ pos'[q] = pos[q]
        BY <1>1, <1>7
    <2>3. QED
        BY <1>1, <1>7, <2>1, <2>2 DEF IdleInv
<1>8. CASE EnsurePart(p)
    <2>1. at' = at \/ at' = [at EXCEPT ![p] = at[p] + 1]
        BY <1>8 DEF EnsurePart, AfterPart
    <2>2. QED
        BY <1>7, <1>8, <2>1 DEF EnsurePart, Locked
<1>9. CASE RenameFirst(p) \/ RemovePart(p)
    BY <1>7, <1>9 DEF RenameFirst, RemovePart, Locked
<1>10. CASE AppendFile(p)
    BY <1>7, <1>10 DEF AppendFile, Locked
<1>11. CASE Resume(p)
    <2>1. Return(p) \/ (at' = [at EXCEPT ![p] = 2] /\ lock' = lock /\ pos' = pos)
        BY <1>11 DEF Resume
    <2>2. pc[p] \in Locked
        BY <1>11 DEF Resume, Locked
    <2>3. QED
        BY <1>6, <1>7, <2>1, <2>2 DEF Return
<1>12. CASE OpenPending(p)
    BY <1>6, <1>7, <1>12 DEF OpenPending, Return, Locked
<1>13. CASE AppendData(p)
    BY SMTT(30), <1>6, <1>7, <1>13 DEF AppendData, Return, Locked
<1>14. CASE Verify(p)
    <2>1. Return(p) \/ (lock' = lock /\ at' = at /\ pos' = pos)
        BY <1>14 DEF Verify
    <2>2. pc[p] \in Locked
        BY <1>14 DEF Verify, Locked
    <2>3. QED
        BY <1>6, <1>7, <2>1, <2>2 DEF Return
<1>15. CASE Publish(p) \/ Unlink(p)
    BY <1>7, <1>15 DEF Publish, Unlink, Locked
<1>16. CASE Record(p)
    BY <1>6, <1>16 DEF Record, Return, Locked
<1>17. CASE RemovePartialFiles(p)
    BY <1>6, <1>7, <1>17 DEF RemovePartialFiles, Return, Locked
<1>18. CASE Interrupted(p)
    BY <1>6, <1>18 DEF Interrupted
<1>19. QED
    BY <1>3, <1>4, <1>5, <1>8, <1>9, <1>10, <1>11, <1>12, <1>13, <1>14, <1>15, <1>16, <1>17, <1>18
       DEF Step

\* A check is made by Download of a join, and of a merge under the lock; every
\* step from there on keeps what it granted, to the return.
LEMMA NextRoomInv == IInv /\ [Next]_vars => RoomInv'
<1> SUFFICES ASSUME IInv, [Next]_vars PROVE RoomInv'
    OBVIOUS
<1> DEFINE Needs(q) == (lock = q /\ pc[q] # "wiping") \/ (kind = "join" /\ pc[q] = "lock")
<1>1. /\ room \in [Procs -> Nat] /\ pc \in [Procs -> PCs] /\ kind \in {"join", "merge"}
      /\ kind' = kind /\ Total' = Total /\ Nobody \notin Procs
      /\ \A q \in Procs : Needs(q) => room[q] >= Total
    BY Rigid DEF IInv, TypeOK, RoomInv
<1>2. SUFFICES ASSUME NEW q \in Procs, Needs(q)' PROVE room'[q] >= Total
    BY <1>1 DEF RoomInv
<1>3. CASE UNCHANGED vars
    BY <1>1, <1>2, <1>3 DEF vars
<1>4. SUFFICES ASSUME NEW p \in Procs, Start(p) \/ Step(p) \/ DeletePartial(p) \/ Interrupted(p)
               PROVE room'[q] >= Total
    BY <1>3 DEF Next
<1>5. OnDisk + Required >= Total
    BY Granted DEF IInv
<1>6. CASE Start(p)
    BY <1>1, <1>2, <1>5, <1>6, Outside DEF Start, Goto, Locked
<1>7. CASE Leave(p)
    BY <1>1, <1>2, <1>7, Outside DEF Leave, Goto, Locked
<1>8. CASE Locks(p)
    BY <1>1, <1>2, <1>5, <1>8 DEF Locks, Goto
<1>9. CASE DeletePartial(p)
    BY <1>1, <1>2, <1>9 DEF DeletePartial, Goto
<1>10. CASE Restart(p)
    BY <1>1, <1>2, <1>10 DEF Restart, Goto
<1>11. ASSUME NEW l \in {"idle", "down"}, Ends(p, l), pc[p] \in Locked
       PROVE  room'[q] >= Total
    BY <1>1, <1>2, <1>11 DEF Ends, Goto
<1>12. ASSUME pc[p] \in Locked, lock' = lock, room' = room,
              pc' = pc \/ (pc[p] # "wiping" /\ \E l \in Locked : Goto(p, l))
       PROVE  room'[q] >= Total
    <2>1. lock = p
        BY <1>12, Holder
    <2>2. QED
        BY <1>1, <1>2, <1>12, <2>1 DEF Goto, Locked
<1>13. CASE EnsurePart(p)
    <2>1. pc' = pc \/ \E l \in Locked : Goto(p, l)
        BY <1>1, <1>13 DEF EnsurePart, AfterPart, Locked
    <2>2. QED
        BY <1>12, <1>13, <2>1 DEF EnsurePart, Locked
<1>14. CASE RenameFirst(p)
    BY <1>12, <1>14 DEF RenameFirst, Locked
<1>15. CASE RemovePart(p)
    BY <1>12, <1>15 DEF RemovePart, Locked
<1>16. CASE AppendFile(p)
    BY <1>12, <1>16 DEF AppendFile, Locked
<1>17. CASE Resume(p)
    BY <1>11, <1>12, <1>17 DEF Resume, Return, Locked
<1>18. CASE OpenPending(p)
    BY <1>11, <1>12, <1>18 DEF OpenPending, Return, Locked
<1>19. CASE AppendData(p)
    BY <1>11, <1>12, <1>19 DEF AppendData, Return, Locked
<1>20. CASE Verify(p)
    BY <1>11, <1>12, <1>20 DEF Verify, Return, Locked
<1>21. CASE Publish(p) \/ Unlink(p)
    BY <1>12, <1>21 DEF Publish, Unlink, Locked
<1>22. CASE Record(p)
    BY <1>11, <1>22 DEF Record, Return, Locked
<1>23. CASE RemovePartialFiles(p)
    BY <1>11, <1>12, <1>23 DEF RemovePartialFiles, Return, Locked
<1>24. CASE Interrupted(p)
    BY <1>11, <1>24 DEF Interrupted
<1>25. QED
    BY <1>4, <1>6, <1>7, <1>8, <1>9, <1>10, <1>13, <1>14, <1>15, <1>16, <1>17, <1>18, <1>19, <1>20,
       <1>21, <1>22, <1>23, <1>24 DEF Step

-----------------------------------------------------------------------------
(* The place of the process that has the lock *)

\* Where the lock goes to nobody else, only his place matters.
LEMMA StageOfHolder ==
    ASSUME NEW p \in Procs, lock' \in {p, Nobody}, lock' = p => Stage(p)'
    PROVE  StageInv'
BY DEF StageInv

\* Who is outside does nothing to the place of who is inside.
LEMMA StageOfOthers ==
    ASSUME IInv, NEW p \in Procs, pc[p] \notin Locked, NEW l, Goto(p, l),
           UNCHANGED <<kind, foreign, part, resume, asm, out, lock, at, pos>>
    PROVE  StageInv'
<1>1. pc \in [Procs -> PCs] /\ lock # p /\ Image' = Image
    BY Outside DEF IInv, TypeOK, Image
<1>2. SUFFICES ASSUME NEW q \in Procs, lock' = q PROVE Stage(q)'
    BY DEF StageInv
<1>3. pc'[q] = pc[q] /\ Stage(q)
    BY <1>1, <1>2 DEF Goto, IInv, StageInv
<1>4. QED
    BY <1>1, <1>3 DEF Stage, JoinStage, MergeStage, Joined

LEMMA NextStageInv == IInv /\ [Next]_vars => StageInv'
<1> SUFFICES ASSUME IInv, [Next]_vars PROVE StageInv'
    OBVIOUS
<1>1. /\ pc \in [Procs -> PCs] /\ at \in [Procs -> 1..(NParts + 1)] /\ pos \in [Procs -> 0..Len(Image)]
      /\ kind \in {"join", "merge"} /\ kind' = kind /\ Image' = Image
      /\ asm \in Seq(Block) \cup {NoFile} /\ Nobody \notin Procs
    BY Rigid DEF IInv, TypeOK, Block
<1>2. CASE UNCHANGED vars
    BY <1>1, <1>2 DEF vars, IInv, StageInv, Stage, JoinStage, MergeStage, Joined
<1>3. SUFFICES ASSUME NEW p \in Procs, Start(p) \/ Step(p) \/ DeletePartial(p) \/ Interrupted(p)
               PROVE StageInv'
    BY <1>2 DEF Next
<1>4. CASE Start(p) \/ Leave(p) \/ Restart(p)
    BY <1>4, StageOfOthers DEF Start, Leave, Restart, Locked, rigid, files
<1>5. CASE Locks(p)
    <2>1. at[p] = 1 /\ pos[p] = 0 /\ lock' = p
        BY <1>5, Outside DEF Locks, Locked
    <2>2. pc'[p] = IF kind = "join" /\ asm # NoFile THEN "resume" ELSE "fetch"
        BY <1>1, <1>5 DEF Locks, Goto
    <2>3. UNCHANGED <<part, asm, out, at, pos>>
        BY <1>5 DEF Locks, files
    <2>4. Stage(p)'
        BY <1>1, <2>1, <2>2, <2>3 DEF Stage, JoinStage, MergeStage
    <2>5. QED
        BY <2>1, <2>4, StageOfHolder
<1>6. CASE DeletePartial(p)
    <2>1. at[p] = 1 /\ pos[p] = 0 /\ lock' = p
        BY <1>6, Outside DEF DeletePartial, Locked
    <2>2. pc'[p] = "wiping"
        BY <1>1, <1>6 DEF DeletePartial, Goto
    <2>3. UNCHANGED <<part, asm, out, at, pos>>
        BY <1>6 DEF DeletePartial, files
    <2>4. Stage(p)'
        BY <1>1, <2>1, <2>2, <2>3 DEF Stage, JoinStage, MergeStage
    <2>5. QED
        BY <2>1, <2>4, StageOfHolder
<1>7. ASSUME NEW l \in {"idle", "down"}, Ends(p, l)
      PROVE  StageInv'
    BY <1>1, <1>7, StageOfHolder DEF Ends
<1>8. ASSUME pc[p] \in Locked
      PROVE  lock = p /\ Stage(p)
    BY <1>8, Holder
<1>9. CASE EnsurePart(p)
    <2>1. lock = p /\ Stage(p) /\ pc[p] = "fetch" /\ lock' = p /\ asm' = asm /\ pos' = pos /\ pos[p] = 0
        BY <1>1, <1>8, <1>9 DEF EnsurePart, Locked, Stage, JoinStage, MergeStage
    <2>2. CASE UNCHANGED <<at, pc>>
        <3>1. Stage(p)'
            BY <1>1, <2>1, <2>2 DEF Stage, JoinStage, MergeStage, Joined
        <3>2. QED
            BY <2>1, <3>1, StageOfHolder
    <2>3. CASE part[at[p]] = "good" /\ AfterPart(p) /\ part' = part
        <3>1. CASE kind = "merge"
            <4>1. at'[p] = at[p] + 1 /\ pc'[p] = IF at[p] = NParts THEN "open" ELSE "fetch"
                BY <1>1, <2>3, <3>1 DEF AfterPart, Goto
            <4>2. Stage(p)'
                BY <1>1, <2>1, <3>1, <4>1 DEF Stage, MergeStage
            <4>3. QED
                BY <2>1, <4>2, StageOfHolder
        <3>2. CASE kind = "join"
            <4>1. at'[p] = at[p] /\ pc'[p] = IF at[p] = 1 THEN "first" ELSE "append"
                BY <1>1, <2>3, <3>2 DEF AfterPart, Goto
            <4>2. at[p] # 1 => Joined(p, (at[p] - 1) * PartLen) /\ (at[p] - 1) * PartLen \in Nat
                <5>1. at[p] \in Parts
                    BY <1>1, <2>1, <3>2 DEF Stage, JoinStage, Parts
                <5>2. QED
                    BY <2>1, <3>2, <5>1, Sizes DEF Stage, JoinStage
            <4>3. Stage(p)'
                BY <1>1, <2>1, <2>3, <3>2, <4>1, <4>2 DEF Stage, JoinStage, Joined
            <4>4. QED
                BY <2>1, <4>3, StageOfHolder
        <3>3. QED
            BY <1>1, <3>1, <3>2
    <2>4. QED
        BY <1>9, <2>2, <2>3 DEF EnsurePart
<1>10. CASE RenameFirst(p)
    <2>1. lock = p /\ kind = "join" /\ at[p] = 1 /\ pos[p] = 0
        BY <1>1, <1>8, <1>10 DEF RenameFirst, Locked, Stage, JoinStage, MergeStage
    <2>2. /\ lock' = p /\ pc'[p] = "resume" /\ at'[p] = 1 /\ pos'[p] = 0
          /\ asm' \in Seq(Block)
        BY <1>1, <1>10, <2>1, BlocksType DEF RenameFirst, Goto, Parts
    <2>3. asm' # NoFile
        BY <2>2 DEF Block
    <2>4. Stage(p)'
        BY <1>1, <2>1, <2>2, <2>3 DEF Stage, JoinStage
    <2>5. QED
        BY <2>2, <2>4, StageOfHolder
<1>11. CASE Resume(p)
    <2>1. CASE Return(p)
        BY <1>7, <2>1 DEF Return
    <2>2. CASE /\ Len(asm) >= PartLen /\ asm' = SubSeq(asm, 1, PartLen) /\ at' = [at EXCEPT ![p] = 2]
               /\ Goto(p, IF NParts = 1 THEN "verify" ELSE "fetch") /\ UNCHANGED <<lock, pos>>
        <3>1. lock = p /\ kind = "join" /\ asm # NoFile /\ pos[p] = 0
            BY <1>1, <1>8, <1>11 DEF Resume, Locked, Stage, JoinStage, MergeStage
        <3>2. asm' \in Seq(Block) /\ Len(asm') = PartLen
            BY <1>1, <2>2, <3>1, CutType
        <3>3. asm' # NoFile
            BY <3>2 DEF Block
        <3>4. /\ lock' = p /\ at'[p] = 2 /\ pos'[p] = 0
              /\ pc'[p] = IF NParts = 1 THEN "verify" ELSE "fetch"
            BY <1>1, <2>2, <3>1 DEF Goto
        <3>5. Stage(p)'
            BY <1>1, <3>1, <3>2, <3>3, <3>4 DEF Stage, JoinStage, Joined
        <3>6. QED
            BY <3>4, <3>5, StageOfHolder
    <2>3. QED
        BY <1>11, <2>1, <2>2 DEF Resume
<1>12. CASE AppendFile(p)
    <2>1. lock = p
        BY <1>8, <1>12 DEF AppendFile, Locked
    <2>2. /\ kind = "join" /\ at[p] \in Parts /\ at[p] > 1 /\ asm \in Seq(Block) /\ pos[p] \in 0..(PartLen - 1)
          /\ Len(asm) = (at[p] - 1) * PartLen + pos[p]
          /\ asm' = Append(asm, Image[Len(asm) + 1]) /\ Image[Len(asm) + 1] \in Block
        BY <1>12, Appended
    <2>3. asm' \in Seq(Block) /\ Len(asm') = Len(asm) + 1
        BY <2>2
    <2>4. asm' # NoFile
        BY <2>3 DEF Block
    <2>5. /\ lock' = p /\ at'[p] = at[p] /\ pos'[p] = (pos[p] + 1) % PartLen
          /\ pc'[p] = IF pos[p] + 1 = PartLen THEN "remove" ELSE "append"
        BY <1>1, <1>12, <2>1 DEF AppendFile, Goto
    <2>6. /\ (at[p] - 1) * PartLen \in Nat /\ (at[p] - 1) * PartLen + PartLen = at[p] * PartLen
        BY <2>2, Sizes
    <2>7. CASE pos[p] + 1 = PartLen
        <3>1. pos'[p] = 0 /\ pc'[p] = "remove"
            BY <2>2, <2>5, <2>7
        <3>2. Len(asm') = at[p] * PartLen
            BY <2>2, <2>3, <2>6, <2>7
        <3>3. at[p] <= NParts /\ kind' = "join" /\ at'[p] = at[p]
            BY <1>1, <2>2, <2>5 DEF Parts
        <3>4. Joined(p, at[p] * PartLen)'
            BY <2>4, <2>5, <3>2, <3>3 DEF Joined
        <3>5. JoinStage(p)'
            BY <2>2, <3>1, <3>3, <3>4 DEF JoinStage
        <3>6. Stage(p)'
            BY <3>1, <3>3, <3>5 DEF Stage
        <3>7. QED
            BY <2>5, <3>6, StageOfHolder
    <2>8. CASE pos[p] + 1 # PartLen
        <3>1. pos'[p] = pos[p] + 1 /\ pc'[p] = "append" /\ pos'[p] < PartLen
            <4> DEFINE j == pos[p] + 1
            <4>1. j \in 0..(PartLen - 1)
                <5>1. pos[p] \in 0..(PartLen - 1)
                    BY <2>2
                <5>2. QED
                    BY <2>8, <5>1
            <4> HIDE DEF j
            <4>2. j % PartLen = j
                BY <4>1, Small
            <4>3. QED
                BY <2>5, <2>8, <4>1, <4>2 DEF j
        <3>2. Len(asm') = (at[p] - 1) * PartLen + pos'[p]
            BY <2>2, <2>3, <2>6, <3>1
        <3>3. Joined(p, (at[p] - 1) * PartLen + pos[p])'
            BY <2>4, <2>5, <3>2 DEF Joined
        <3>4. Stage(p)'
            BY <1>1, <2>2, <2>5, <3>1, <3>3 DEF Stage, JoinStage, Parts
        <3>5. QED
            BY <2>5, <3>4, StageOfHolder
    <2>9. QED
        BY <2>7, <2>8
<1>13. CASE RemovePart(p)
    <2>1. /\ lock = p /\ kind = "join" /\ at[p] \in Parts /\ at[p] > 1 /\ pos[p] = 0
          /\ Joined(p, at[p] * PartLen)
        BY <1>1, <1>8, <1>13 DEF RemovePart, Locked, Stage, JoinStage, MergeStage, Parts
    <2>2. /\ lock' = p /\ at'[p] = at[p] + 1 /\ pos'[p] = 0 /\ asm' = asm
          /\ pc'[p] = IF at[p] = NParts THEN "verify" ELSE "fetch"
        BY <1>1, <1>13, <2>1 DEF RemovePart, Goto
    <2>3. (at'[p] - 1) * PartLen = at[p] * PartLen /\ (at[p] # NParts => at[p] + 1 <= NParts)
        BY <2>1, <2>2 DEF Parts
    <2>4. at[p] # NParts => Joined(p, (at[p] - 1) * PartLen)'
        BY <2>1, <2>2, <2>3 DEF Joined
    <2>5. at[p] = NParts => Joined(p, NParts * PartLen)'
        BY <2>1, <2>2 DEF Joined
    <2>6. Stage(p)'
        BY <1>1, <2>1, <2>2, <2>3, <2>4, <2>5 DEF Stage, JoinStage, Parts
    <2>7. QED
        BY <2>2, <2>6, StageOfHolder
<1>14. CASE OpenPending(p)
    <2>1. CASE Return(p)
        BY <1>7, <2>1 DEF Return
    <2>2. CASE asm' = (IF asm = NoFile THEN <<>> ELSE asm) /\ Goto(p, "merge") /\ UNCHANGED <<lock, at, pos>>
        <3>1. lock = p /\ kind = "merge" /\ pos[p] = 0
            BY <1>1, <1>8, <1>14 DEF OpenPending, Locked, Stage, JoinStage, MergeStage
        <3>2. asm' \in Seq(Block) /\ Len(asm') \in Nat
            BY <1>1, <2>2
        <3>3. asm' # NoFile
            BY <3>2 DEF Block
        <3>4. lock' = p /\ pos'[p] = 0 /\ pc'[p] = "merge"
            BY <1>1, <2>2, <3>1 DEF Goto
        <3>5. Stage(p)'
            BY <1>1, <3>1, <3>2, <3>3, <3>4 DEF Stage, MergeStage
        <3>6. QED
            BY <3>4, <3>5, StageOfHolder
    <2>3. QED
        BY <1>14, <2>1, <2>2 DEF OpenPending
<1>15. CASE AppendData(p)
    <2>1. lock = p /\ kind = "merge" /\ asm # NoFile /\ asm \in Seq(Block) /\ pos[p] <= Len(asm) /\ pos[p] \in Nat
        BY <1>1, <1>8, <1>15 DEF AppendData, Locked, Stage, JoinStage, MergeStage
    <2>2. CASE Goto(p, "verify") /\ UNCHANGED <<asm, lock, at, pos>>
        <3>1. pc'[p] = "verify" /\ lock' = p
            BY <1>1, <2>1, <2>2 DEF Goto
        <3>2. Stage(p)'
            BY <1>1, <2>1, <2>2, <3>1 DEF Stage, MergeStage
        <3>3. QED
            BY <3>1, <3>2, StageOfHolder
    <2>3. CASE Return(p)
        BY <1>7, <2>3 DEF Return
    <2>4. CASE /\ pos[p] < Len(Image) /\ asm' = (IF pos[p] + 1 <= Len(asm) THEN asm ELSE Append(asm, Image[pos[p] + 1]))
               /\ pos' = [pos EXCEPT ![p] = pos[p] + 1] /\ UNCHANGED <<pc, lock, at>>
        <3>1. pc'[p] = "merge" /\ lock' = p /\ pos'[p] = pos[p] + 1
            BY <1>1, <1>15, <2>1, <2>4 DEF AppendData
        <3>2. asm' \in Seq(Block) /\ pos[p] + 1 <= Len(asm')
            <4>1. CASE pos[p] + 1 <= Len(asm)
                BY <2>1, <2>4, <4>1
            <4>2. CASE ~(pos[p] + 1 <= Len(asm))
                <5>1. Len(Image) \in Nat /\ Image[pos[p] + 1] \in Block
                    BY <2>1, <2>4, ImageType
                <5>2. asm' = Append(asm, Image[pos[p] + 1])
                    BY <2>4, <4>2
                <5>3. QED
                    BY <2>1, <4>2, <5>1, <5>2
            <4>3. QED
                BY <4>1, <4>2
        <3>3. asm' # NoFile
            BY <3>2 DEF Block
        <3>4. Stage(p)'
            BY <1>1, <2>1, <3>1, <3>2, <3>3 DEF Stage, MergeStage
        <3>5. QED
            BY <3>1, <3>4, StageOfHolder
    <2>5. QED
        BY <1>15, <2>2, <2>3, <2>4 DEF AppendData
<1>16. CASE Verify(p)
    <2>1. CASE asm = Image /\ Goto(p, "publish") /\ UNCHANGED <<asm, lock, at, pos>>
        <3>1. lock = p /\ (kind = "join" => pos[p] = 0)
            BY <1>8, <1>16 DEF Verify, Locked, Stage, JoinStage
        <3>2. pc'[p] = "publish" /\ lock' = p
            BY <1>1, <2>1, <3>1 DEF Goto
        <3>3. Stage(p)'
            BY <1>1, <2>1, <3>1, <3>2 DEF Stage, JoinStage, MergeStage
        <3>4. QED
            BY <3>2, <3>3, StageOfHolder
    <2>2. CASE Return(p)
        BY <1>7, <2>2 DEF Return
    <2>3. QED
        BY <1>16, <2>1, <2>2 DEF Verify
<1>17. CASE Publish(p)
    <2>1. lock = p /\ asm = Image /\ (kind = "join" => pos[p] = 0)
        BY <1>8, <1>17 DEF Publish, Locked, Stage, JoinStage
    <2>2. /\ pc'[p] = (IF kind = "join" THEN "record" ELSE "unlink") /\ lock' = p /\ out' = Image
          /\ pos' = pos
        BY <1>1, <1>17, <2>1 DEF Publish, Goto
    <2>3. Stage(p)'
        BY <1>1, <2>1, <2>2 DEF Stage, JoinStage, MergeStage
    <2>4. QED
        BY <2>2, <2>3, StageOfHolder
<1>18. CASE Unlink(p)
    <2>1. lock = p /\ kind = "merge"
        BY <1>1, <1>8, <1>18 DEF Unlink, Locked, Stage, JoinStage
    <2>2. pc'[p] = "record" /\ lock' = p
        BY <1>1, <1>18, <2>1 DEF Unlink, Goto
    <2>3. Stage(p)'
        BY <1>1, <2>1, <2>2 DEF Stage, MergeStage
    <2>4. QED
        BY <2>2, <2>3, StageOfHolder
<1>19. CASE Record(p)
    BY <1>7, <1>19 DEF Record, Return
<1>20. CASE RemovePartialFiles(p)
    <2>1. CASE Return(p)
        BY <1>7, <2>1 DEF Return
    <2>2. CASE UNCHANGED <<asm, lock, pc, pos>>
        <3>1. lock = p /\ pos[p] = 0 /\ pc'[p] = "wiping" /\ lock' = p
            BY <1>8, <1>20, <2>2 DEF RemovePartialFiles, Locked, Stage
        <3>2. Stage(p)'
            BY <1>1, <2>2, <3>1 DEF Stage, JoinStage, MergeStage
        <3>3. QED
            BY <3>1, <3>2, StageOfHolder
    <2>3. QED
        BY <1>20, <2>1, <2>2 DEF RemovePartialFiles
<1>21. CASE Interrupted(p)
    BY <1>7, <1>21 DEF Interrupted
<1>22. QED
    BY <1>3, <1>4, <1>5, <1>6, <1>9, <1>10, <1>11, <1>12, <1>13, <1>14, <1>15, <1>16, <1>17, <1>18,
       <1>19, <1>20, <1>21 DEF Step

-----------------------------------------------------------------------------
(* The files *)

\* The assembling file is the beginning of the image, as far as this code can
\* have written it.
AsmInv ==
    /\ ~foreign /\ asm # NoFile => IsPrefix(asm, Image)
    /\ kind = "join" /\ asm # NoFile /\ IsPrefix(Blocks(1), asm) => IsPrefix(asm, Image)
\* The files of the parts.
PieceInv ==
    /\ \A k \in Parts : part[k] # "none" => resume[k] = 0
    /\ kind = "join" /\ asm # NoFile => part[1] # "good"
    /\ kind = "join" /\ asm # NoFile /\ ~foreign => part[1] = "none" /\ resume[1] = 0

LEMMA FilesParts == FilesInv <=> AsmInv /\ PieceInv /\ (out # NoFile => out = Image)
BY DEF FilesInv, AsmInv, PieceInv

\* A file cut short, or with the next block of the image, is as good.
LEMMA CutFile ==
    ASSUME IInv, kind = "join", asm # NoFile, Len(asm) >= PartLen
    PROVE  LET s == SubSeq(asm, 1, PartLen)
           IN  /\ ~foreign => IsPrefix(s, Image)
               /\ IsPrefix(Blocks(1), s) <=> IsPrefix(Blocks(1), asm)
               /\ IsPrefix(Blocks(1), s) => IsPrefix(s, Image)
<1> DEFINE s == SubSeq(asm, 1, PartLen)
<1>1. asm \in Seq(Block) /\ Image \in Seq(Block) /\ Image = JoinImage
    BY ImageType DEF IInv, TypeOK, Block
<1>2. Blocks(1) \in Seq(Block) /\ Len(Blocks(1)) = PartLen
    BY BlocksType DEF Parts
<1>3. s \in Seq(Block) /\ Len(s) = PartLen /\ IsPrefix(s, asm)
    BY <1>1, CutType
<1> HIDE DEF s
<1>4. IsPrefix(Blocks(1), s) <=> IsPrefix(Blocks(1), asm)
    BY <1>1, <1>2, <1>3, PrefixShorter
<1>5. ASSUME IsPrefix(Blocks(1), s)
      PROVE  IsPrefix(s, Image)
    <2>1. Blocks(1) = s
        BY <1>2, <1>3, <1>5, PrefixWhole
    <2>2. QED
        BY <1>1, <2>1, FirstPart
<1>6. ASSUME ~foreign
      PROVE  IsPrefix(s, Image)
    <2>1. IsPrefix(asm, Image)
        BY <1>6 DEF IInv, FilesInv
    <2>2. PartLen <= Len(asm)
        OBVIOUS
    <2>3. IsPrefix(s, asm) <=> IsPrefix(s, Image)
        BY <1>1, <1>3, <2>1, <2>2, PrefixShorter
    <2>4. QED
        BY <1>3, <2>3
<1>7. QED
    BY <1>4, <1>5, <1>6 DEF s

LEMMA GrownFile ==
    ASSUME IInv, asm # NoFile, Len(asm) < Len(Image), kind = "join" => Len(asm) >= PartLen
    PROVE  LET s == Append(asm, Image[Len(asm) + 1])
           IN  /\ ~foreign => IsPrefix(s, Image)
               /\ kind = "join" => (IsPrefix(Blocks(1), s) <=> IsPrefix(Blocks(1), asm))
               /\ kind = "join" /\ IsPrefix(Blocks(1), s) => IsPrefix(s, Image)
<1> DEFINE b == Image[Len(asm) + 1]
           s == Append(asm, b)
<1>1. asm \in Seq(Block) /\ Image \in Seq(Block) /\ Len(Image) \in Nat /\ Len(asm) \in Nat
    BY ImageType DEF IInv, TypeOK, Block
<1>2. b \in Block
    BY <1>1
<1>3. Blocks(1) \in Seq(Block) /\ Len(Blocks(1)) = PartLen
    BY BlocksType DEF Parts
<1>4. IsPrefix(asm, Image) => IsPrefix(s, Image)
    BY <1>1, PrefixAppend
<1>5. s \in Seq(Block) /\ Len(s) = Len(asm) + 1 /\ \A i \in 1..Len(asm) : asm[i] = s[i]
    <2> HIDE DEF b
    <2>1. QED
        BY <1>1, <1>2
<1> HIDE DEF b, s
<1>6. IsPrefix(asm, s)
    BY <1>1, <1>5, PrefixAt
<1>7. kind = "join" => (IsPrefix(Blocks(1), asm) <=> IsPrefix(Blocks(1), s))
    BY <1>1, <1>3, <1>5, <1>6, PrefixShorter
<1>8. QED
    BY <1>4, <1>7 DEF IInv, FilesInv, b, s

LEMMA InitFilesInv == Init => FilesInv
<1> SUFFICES ASSUME Init PROVE FilesInv
    OBVIOUS
<1>1. asm # NoFile => foreign /\ ~IsPrefix(Blocks(1), asm)
    <2>1. \A n \in 0..(Len(Image) + 1) : ~IsPrefix(Blocks(1), Junk(n))
        BY JunkType, ImageType
    <2>2. QED
        BY <2>1 DEF Init
<1>2. \A k \in Parts : resume[k] = 0 /\ part[k] # "good"
    BY DEF Init
<1>3. 1 \in Parts
    BY DEF Parts
<1>4. QED
    BY <1>1, <1>2, <1>3 DEF Init, FilesInv

LEMMA NextFilesInv == IInv /\ [Next]_vars => FilesInv'
<1> SUFFICES ASSUME IInv, [Next]_vars PROVE FilesInv'
    OBVIOUS
<1>1. /\ kind \in {"join", "merge"} /\ kind' = kind /\ foreign' = foreign /\ Image' = Image
      /\ asm \in Seq(Block) \cup {NoFile} /\ part \in [Parts -> {"none", "good", "stale"}]
      /\ resume \in [Parts -> 0..PartLen] /\ at \in [Procs -> 1..(NParts + 1)]
      /\ AsmInv /\ PieceInv /\ (out # NoFile => out = Image) /\ 1 \in Parts
    BY Rigid, FilesParts DEF IInv, TypeOK, Block, Parts
<1>2. SUFFICES AsmInv' /\ PieceInv' /\ (out' # NoFile => out' = Image)
    BY <1>1 DEF FilesInv, AsmInv, PieceInv
<1>3. ASSUME asm' = asm
      PROVE  AsmInv'
    BY <1>1, <1>3 DEF AsmInv, Blocks
<1>4. ASSUME part' = part, resume' = resume, asm' \in {asm, NoFile} \/ kind = "merge"
      PROVE  PieceInv'
    BY <1>1, <1>4 DEF PieceInv
<1>5. ASSUME NEW k \in Parts, part' = [part EXCEPT ![k] = "none"], resume' = resume \/ resume' = [resume EXCEPT ![k] = 0],
             asm' \in {asm, NoFile}
      PROVE  PieceInv'
    <2>1. \A j \in Parts : part'[j] # "none" => part'[j] = part[j] /\ j # k /\ resume'[j] = resume[j]
        BY <1>1, <1>5
    <2>2. resume'[1] = resume[1] \/ resume'[1] = 0
        BY <1>1, <1>5
    <2>3. part'[1] = part[1] \/ part'[1] = "none"
        BY <1>1, <1>5
    <2>4. QED
        BY <1>1, <1>5, <2>1, <2>2, <2>3 DEF PieceInv
<1>6. ASSUME UNCHANGED files
      PROVE  AsmInv' /\ PieceInv' /\ (out' # NoFile => out' = Image)
    BY <1>1, <1>3, <1>4, <1>6 DEF files
<1>7. ASSUME asm' = NoFile
      PROVE  AsmInv'
    BY <1>7 DEF AsmInv
<1>8. CASE UNCHANGED vars
    BY <1>6, <1>8 DEF vars, files
<1>9. SUFFICES ASSUME NEW p \in Procs, Start(p) \/ Step(p) \/ DeletePartial(p) \/ Interrupted(p)
               PROVE AsmInv' /\ PieceInv' /\ (out' # NoFile => out' = Image)
    BY <1>8 DEF Next
<1>10. ASSUME pc[p] \in Locked
       PROVE  lock = p /\ Stage(p)
    BY <1>10, Holder
<1>11. CASE Start(p) \/ Leave(p) \/ Locks(p) \/ Restart(p) \/ DeletePartial(p) \/ Record(p) \/ Interrupted(p)
    BY <1>6, <1>11 DEF Start, Leave, Locks, Restart, DeletePartial, Record, Interrupted
<1>12. CASE EnsurePart(p)
    <2>1. asm' = asm /\ out' = out
        BY <1>12 DEF EnsurePart
    <2>2. at[p] \in Parts /\ (kind = "join" /\ asm # NoFile => at[p] # 1)
        BY <1>1, <1>10, <1>12 DEF EnsurePart, Locked, Stage, JoinStage, MergeStage, Parts
    <2>3. PieceInv'
        <3>1. CASE part' = part /\ resume' = resume
            BY <1>4, <2>1, <3>1
        <3>2. CASE part' = [part EXCEPT ![at[p]] = "none"] /\ resume' = resume
            BY <1>5, <2>1, <2>2, <3>2
        <3>3. CASE part[at[p]] = "none" /\ resume' = [resume EXCEPT ![at[p]] = @ + 1] /\ part' = part
            BY <1>1, <2>1, <2>2, <3>3 DEF PieceInv
        <3>4. CASE part[at[p]] = "none" /\ resume' = [resume EXCEPT ![at[p]] = 0] /\ part' = [part EXCEPT ![at[p]] = "good"]
            BY <1>1, <2>1, <2>2, <3>4 DEF PieceInv
        <3>5. QED
            BY <1>12, <3>1, <3>2, <3>3, <3>4 DEF EnsurePart
    <2>4. QED
        BY <1>1, <1>3, <2>1, <2>3
<1>13. CASE RenameFirst(p)
    <2>1. kind = "join" /\ part[1] = "good" /\ resume[1] = 0
        BY <1>1, <1>10, <1>13 DEF RenameFirst, Locked, Stage, JoinStage, MergeStage, PieceInv
    <2>2. asm' = Blocks(1) /\ part' = [part EXCEPT ![1] = "none"] /\ resume' = resume /\ out' = out
        BY <1>13 DEF RenameFirst
    <2>3. IsPrefix(asm', Image)
        BY <2>1, <2>2, FirstPart, ImageType
    <2>4. AsmInv'
        BY <1>1, <2>3 DEF AsmInv
    <2>5. PieceInv'
        BY <1>1, <2>1, <2>2 DEF PieceInv
    <2>6. QED
        BY <1>1, <2>2, <2>4, <2>5
<1>14. CASE Resume(p)
    <2>1. part' = part /\ resume' = resume /\ out' = out
        BY <1>14 DEF Resume
    <2>2. kind = "join" /\ asm # NoFile
        BY <1>1, <1>10, <1>14 DEF Resume, Locked, Stage, JoinStage, MergeStage
    <2>3. CASE asm' = asm
        BY <1>1, <1>3, <1>4, <2>1, <2>3
    <2>4. CASE Len(asm) >= PartLen /\ asm' = SubSeq(asm, 1, PartLen)
        <3>1. AsmInv'
            BY <1>1, <2>2, <2>4, CutFile DEF AsmInv, Blocks
        <3>2. PieceInv'
            BY <1>1, <2>1, <2>2 DEF PieceInv
        <3>3. QED
            BY <1>1, <2>1, <3>1, <3>2
    <2>5. QED
        BY <1>14, <2>3, <2>4 DEF Resume
<1>15. CASE AppendFile(p)
    <2>1. part' = part /\ resume' = resume /\ out' = out
        BY <1>15 DEF AppendFile
    <2>2. /\ kind = "join" /\ asm # NoFile /\ Len(asm) >= PartLen /\ Len(asm) < Len(Image)
          /\ asm' = Append(asm, Image[Len(asm) + 1])
        BY <1>15, Appended
    <2>3. AsmInv'
        BY <1>1, <2>2, GrownFile DEF AsmInv, Blocks
    <2>4. PieceInv'
        BY <1>1, <2>1, <2>2 DEF PieceInv
    <2>5. QED
        BY <1>1, <2>1, <2>3, <2>4
<1>16. CASE RemovePart(p)
    <2>1. at[p] \in Parts
        BY <1>1, <1>10, <1>16 DEF RemovePart, Locked, Stage, JoinStage, MergeStage, Parts
    <2>2. part' = [part EXCEPT ![at[p]] = "none"] /\ UNCHANGED <<resume, asm, out>>
        BY <1>16 DEF RemovePart
    <2>3. QED
        BY <1>1, <1>3, <1>5, <2>1, <2>2
<1>17. CASE OpenPending(p)
    <2>1. part' = part /\ resume' = resume /\ out' = out
        BY <1>17 DEF OpenPending
    <2>2. kind = "merge"
        BY <1>1, <1>10, <1>17 DEF OpenPending, Locked, Stage, JoinStage
    <2>3. CASE asm' = asm
        BY <1>1, <1>3, <1>4, <2>1, <2>3
    <2>4. CASE asm' = <<>>
        <3>1. IsPrefix(<<>>, Image)
            <4>1. <<>> \in Seq(Block) /\ Image \in Seq(Block) /\ Len(<<>>) = 0 /\ Len(Image) \in Nat
                BY ImageType
            <4>2. Len(<<>>) <= Len(Image) /\ \A i \in 1..Len(<<>>) : <<>>[i] = Image[i]
                BY <4>1
            <4>3. QED
                BY <4>1, <4>2, PrefixAt
        <3>2. AsmInv'
            BY <1>1, <2>2, <2>4, <3>1 DEF AsmInv
        <3>3. QED
            BY <1>1, <1>4, <2>1, <2>2, <3>2
    <2>5. QED
        BY <1>17, <2>3, <2>4 DEF OpenPending
<1>18. CASE AppendData(p)
    <2>1. part' = part /\ resume' = resume /\ out' = out
        BY <1>18 DEF AppendData
    <2>2. /\ kind = "merge" /\ asm # NoFile
          /\ asm' = asm \/ (Len(asm) = pos[p] /\ pos[p] < Len(Image) /\ asm' = Append(asm, Image[Len(asm) + 1]))
        BY <1>18, Compared
    <2>3. CASE asm' = asm
        BY <1>1, <1>3, <1>4, <2>1, <2>3
    <2>4. CASE Len(asm) < Len(Image) /\ asm' = Append(asm, Image[Len(asm) + 1])
        <3>1. AsmInv'
            BY <1>1, <2>2, <2>4, GrownFile DEF AsmInv
        <3>2. QED
            BY <1>1, <1>4, <2>1, <2>2, <3>1
    <2>5. QED
        BY <2>2, <2>3, <2>4
<1>19. CASE Verify(p)
    <2>1. part' = part /\ resume' = resume /\ out' = out /\ asm' \in {asm, NoFile}
        BY <1>19 DEF Verify
    <2>2. QED
        BY <1>1, <1>3, <1>4, <1>7, <2>1
<1>20. CASE Publish(p)
    <2>1. asm = Image
        BY <1>10, <1>20 DEF Publish, Locked, Stage
    <2>2. part' = part /\ resume' = resume /\ out' = Image /\ asm' \in {asm, NoFile}
        BY <1>20, <2>1 DEF Publish
    <2>3. QED
        BY <1>3, <1>4, <1>7, <2>2
<1>21. CASE Unlink(p)
    BY <1>1, <1>4, <1>7, <1>21 DEF Unlink
<1>22. CASE RemovePartialFiles(p)
    <2>1. out' = out
        BY <1>22 DEF RemovePartialFiles
    <2>2. CASE asm' = NoFile /\ UNCHANGED <<part, resume>>
        BY <1>1, <1>4, <1>7, <2>1, <2>2
    <2>3. CASE at[p] <= NParts /\ part' = [part EXCEPT ![at[p]] = "none"] /\ resume' = [resume EXCEPT ![at[p]] = 0] /\ asm' = asm
        <3>1. at[p] \in Parts
            BY <1>1, <2>3 DEF Parts
        <3>2. QED
            BY <1>1, <1>3, <1>5, <2>1, <2>3, <3>1
    <2>4. QED
        BY <1>22, <2>2, <2>3 DEF RemovePartialFiles
<1>23. QED
    BY <1>9, <1>11, <1>12, <1>13, <1>14, <1>15, <1>16, <1>17, <1>18, <1>19, <1>20, <1>21, <1>22 DEF Step

-----------------------------------------------------------------------------
(* Theorems *)

LEMMA InitIInv == Init => IInv
<1> SUFFICES ASSUME Init PROVE IInv
    OBVIOUS
<1>1. StageInv /\ IdleInv /\ RoomInv
    BY DEF Init, StageInv, IdleInv, RoomInv
<1>2. QED
    BY <1>1, InitTypeOK, InitFilesInv DEF IInv

LEMMA NextIInv == IInv /\ [Next]_vars => IInv'
BY NextTypeOK, NextFilesInv, NextStageInv, NextIdleInv, NextRoomInv DEF IInv

THEOREM Invariance == Spec => []IInv
BY InitIInv, NextIInv, PTL DEF Spec

\* The files have the types, and the download lock has one holder, who is
\* inside, in every state of any number of processes (split.go:86-90).
THEOREM TypeCorrect == Spec => []TypeOK
<1>1. IInv => TypeOK
    BY DEF IInv
<1>2. QED
    BY <1>1, Invariance, PTL

\* What is assembled never has a block twice, out of order or missing, and
\* only the complete image is installed (split.go:110-141,
\* gguf_merge.go:343-399).
THEOREM AssemblyIsImageTheorem == Spec => []AssemblyIsImage
<1>1. IInv => AssemblyIsImage
    BY DEF IInv, FilesInv, AssemblyIsImage
<1>2. QED
    BY <1>1, Invariance, PTL

\* The space a check granted is enough to the end (split.go:22-34,
\* gguf_merge.go:418-423).
THEOREM SpaceSufficesTheorem == Spec => []SpaceSuffices
<1>1. IInv => SpaceSuffices
    <2> SUFFICES ASSUME IInv, ~foreign, NEW p \in Procs, lock = p, pc[p] # "wiping"
                 PROVE  OnDisk <= room[p]
        BY DEF SpaceSuffices
    <2>1. OnDisk <= Total /\ OnDisk \in Nat
        BY FitsTotal, Granted DEF IInv
    <2>2. Total <= room[p] /\ room[p] \in Nat
        BY DEF IInv, RoomInv, TypeOK
    <2>3. QED
        BY <2>1, <2>2, ScratchType
<1>2. QED
    BY <1>1, Invariance, PTL

\* A step that does not wipe keeps what is verified.
LEMMA NextVerified ==
    ASSUME IInv, [Next]_vars, NEW k \in Parts, kind = "merge" \/ k = 1, Verified(k),
           \A p \in Procs : pc[p] # "wiping"
    PROVE  Verified(k)'
<1>1. /\ kind \in {"join", "merge"} /\ kind' = kind /\ Image' = Image
      /\ asm \in Seq(Block) \cup {NoFile} /\ part \in [Parts -> {"none", "good", "stale"}]
      /\ at \in [Procs -> 1..(NParts + 1)]
    BY Rigid DEF IInv, TypeOK, Block
<1>2. CASE UNCHANGED vars
    BY <1>1, <1>2 DEF vars, Verified, Blocks
<1>3. SUFFICES ASSUME NEW p \in Procs, Start(p) \/ Step(p) \/ DeletePartial(p) \/ Interrupted(p)
               PROVE  Verified(k)'
    BY <1>2 DEF Next
<1>4. ASSUME part'[k] = part[k] \/ part[k] # "good", asm' = asm, out' = out
      PROVE  Verified(k)'
    BY <1>1, <1>4 DEF Verified, Blocks
<1>5. ASSUME kind = "merge", part' = part
      PROVE  Verified(k)'
    BY <1>1, <1>5 DEF Verified
<1>6. ASSUME pc[p] \in Locked
      PROVE  lock = p /\ Stage(p)
    BY <1>6, Holder
<1>7. CASE Start(p) \/ Leave(p) \/ Locks(p) \/ Restart(p) \/ DeletePartial(p) \/ Record(p) \/ Interrupted(p)
    BY <1>4, <1>7 DEF Start, Leave, Locks, Restart, DeletePartial, Record, Interrupted, files
<1>8. CASE EnsurePart(p)
    <2>1. at[p] \in Parts /\ asm' = asm /\ out' = out
        BY <1>1, <1>6, <1>8 DEF EnsurePart, Locked, Stage, JoinStage, MergeStage, Parts
    <2>2. part' = part \/ (part[at[p]] # "good" /\ \E s : part' = [part EXCEPT ![at[p]] = s])
        BY <1>8 DEF EnsurePart
    <2>3. part'[k] = part[k] \/ part[k] # "good"
        BY <1>1, <2>1, <2>2
    <2>4. QED
        BY <1>4, <2>1, <2>3
<1>9. CASE RenameFirst(p)
    <2>1. kind = "join" /\ asm' = Blocks(1)
        BY <1>1, <1>6, <1>9 DEF RenameFirst, Locked, Stage, MergeStage
    <2>2. Blocks(1) \in Seq(Block)
        BY BlocksType DEF Parts
    <2>3. IsPrefix(Blocks(1), Blocks(1)) /\ Blocks(1) # NoFile
        BY <2>2, PrefixAt DEF Block
    <2>4. QED
        BY <1>1, <2>1, <2>3 DEF Verified, Blocks
<1>10. CASE Resume(p)
    <2>1. part' = part /\ out' = out
        BY <1>10 DEF Resume
    <2>2. kind = "join" /\ asm # NoFile
        BY <1>1, <1>6, <1>10 DEF Resume, Locked, Stage, JoinStage, MergeStage
    <2>3. CASE asm' = asm
        BY <1>4, <2>1, <2>3
    <2>4. CASE Len(asm) >= PartLen /\ asm' = SubSeq(asm, 1, PartLen)
        <3>1. IsPrefix(Blocks(1), asm) => IsPrefix(Blocks(1), asm')
            BY <2>2, <2>4, CutFile
        <3>2. asm' \in Seq(Block)
            BY <1>1, <2>2, <2>4, CutType
        <3>3. asm' # NoFile
            BY <3>2 DEF Block
        <3>4. QED
            BY <1>1, <2>1, <2>2, <3>1, <3>3 DEF Verified, Blocks
    <2>5. QED
        BY <1>10, <2>3, <2>4 DEF Resume
<1>11. CASE AppendFile(p)
    <2>1. part' = part /\ out' = out
        BY <1>11 DEF AppendFile
    <2>2. /\ kind = "join" /\ asm # NoFile /\ Len(asm) >= PartLen /\ Len(asm) < Len(Image) /\ asm \in Seq(Block)
          /\ asm' = Append(asm, Image[Len(asm) + 1]) /\ Image[Len(asm) + 1] \in Block
        BY <1>11, Appended
    <2>3. IsPrefix(Blocks(1), asm) => IsPrefix(Blocks(1), asm')
        BY <2>2, GrownFile
    <2>4. asm' \in Seq(Block)
        BY <2>2
    <2>5. asm' # NoFile
        BY <2>4 DEF Block
    <2>6. QED
        BY <1>1, <2>1, <2>2, <2>3, <2>5 DEF Verified, Blocks
<1>12. CASE RemovePart(p)
    <2>1. /\ kind = "join" /\ at[p] > 1 /\ part' = [part EXCEPT ![at[p]] = "none"]
          /\ asm' = asm /\ out' = out
        BY <1>1, <1>6, <1>12 DEF RemovePart, Locked, Stage, JoinStage, MergeStage
    <2>2. k # at[p] /\ part'[k] = part[k]
        BY <1>1, <2>1
    <2>3. QED
        BY <1>4, <2>1, <2>2
<1>13. CASE OpenPending(p)
    BY <1>1, <1>5, <1>6, <1>13 DEF OpenPending, Locked, Stage, JoinStage
<1>14. CASE AppendData(p)
    BY <1>1, <1>5, <1>6, <1>14 DEF AppendData, Locked, Stage, JoinStage
<1>15. CASE Verify(p)
    <2>1. part' = part /\ out' = out
        BY <1>15 DEF Verify
    <2>2. CASE asm' = asm
        BY <1>4, <2>1, <2>2
    <2>3. CASE asm # Image /\ kind = "join"
        <3>1. asm \in Seq(Block) /\ asm # NoFile /\ Len(asm) = Len(Image)
            BY <1>1, <1>6, <1>15, <2>3, ImageType DEF Verify, Locked, Stage, JoinStage, Joined
        <3>2. ~IsPrefix(Blocks(1), asm)
            BY <2>3, <3>1, PrefixWhole, ImageType DEF IInv, FilesInv
        <3>3. QED
            BY <1>1, <2>1, <3>2 DEF Verified
    <2>4. QED
        BY <1>1, <1>15, <2>2, <2>3 DEF Verify
<1>16. CASE Publish(p)
    <2>1. part' = part /\ out' = Image
        BY <1>6, <1>16 DEF Publish, Locked, Stage
    <2>2. QED
        BY <1>1, <1>5, <2>1 DEF Verified
<1>17. CASE Unlink(p)
    BY <1>1, <1>5, <1>6, <1>17 DEF Unlink, Locked, Stage, JoinStage
<1>18. CASE RemovePartialFiles(p)
    BY <1>18 DEF RemovePartialFiles
<1>19. QED
    BY <1>3, <1>7, <1>8, <1>9, <1>10, <1>11, <1>12, <1>13, <1>14, <1>15, <1>16, <1>17, <1>18 DEF Step

\* A verified first part of a join, and any verified shard of a merge, stays,
\* in its file, in the assembling file or in the model, until somebody deletes
\* the partial files (split.go:59-61, gguf_merge.go:299).
THEOREM VerifiedKeptTheorem == Spec => VerifiedKept
<1>1. IInv /\ [Next]_vars =>
         [\A k \in Parts :
            /\ kind = "merge" \/ k = 1
            /\ Verified(k)
            /\ \A p \in Procs : pc[p] # "wiping"
            => Verified(k)']_vars
    BY NextVerified
<1>2. QED
    BY <1>1, Invariance, PTL DEF Spec, VerifiedKept

=============================================================================
