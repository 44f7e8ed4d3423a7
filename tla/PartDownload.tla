---------------------------- MODULE PartDownload ----------------------------
(***************************************************************************)
(* Downloading one file with resume, retry and quarantine                  *)
(* (internal/models/manager.go, downloadFileAttempt), across crashes of    *)
(* the downloader.  The download lock excludes a second downloader.        *)
(*                                                                         *)
(* A file is a sequence of blocks: block k of the remote object is k, and  *)
(* Wrong stands for bytes the object does not have there.  The server may  *)
(* fail, cut a body short, deliver wrong bytes, or ignore Range.           *)
(***************************************************************************)
EXTENDS Integers, Sequences

CONSTANTS Size,          \* blocks of the remote object
          Chunk,         \* blocks one request asks for: downloadChunkSize
          MaxRetries,    \* downloadMaxRetries
          MaxLength,     \* bound: blocks a .part file grows to
          NoFile         \* what a path holds that has no file

ASSUME DownloadAssumption ==
    /\ {Size, Chunk, MaxLength} \subseteq Nat \ {0}
    /\ MaxRetries \in Nat
    /\ NoFile \notin Seq(0 .. Size)

Wrong == 0
Object == [k \in 1 .. Size |-> k]
NoRun == [pc |-> "idle"]
Smaller(a, b) == IF a < b THEN a ELSE b

VARIABLES world,  \* what the download meets; it never changes:
                  \*   pinned: the catalog has the hash of the object
                  \*   ranges: the server answers a range with that range
                  \*   honest: the server delivers the object's bytes
          partFile,  \* the .part file
          out,    \* the file in place, and the hash that was verified for it
          bad,    \* a quarantined .bad- file exists
          run     \* the running download

partVars == <<world, partFile, out, bad, run>>

Exists(file) == file # NoFile
LengthOf(file) == IF Exists(file) THEN Len(file) ELSE 0

\* expected: a hash is known; known, hash: HEAD gave the size, the hash;
\* restart: a mismatch may restart from byte 0.
Runs == {NoRun}
    \cup [pc : {"attempt"}, restart : BOOLEAN, expected : BOOLEAN]
    \cup [pc : {"request", "promote", "verify"}, restart : BOOLEAN, expected : BOOLEAN,
          known : BOOLEAN, hash : BOOLEAN, start : 0 .. MaxLength, first : BOOLEAN,
          retries : 0 .. MaxRetries]

PartTypeOK ==
    /\ world \in [pinned : BOOLEAN, ranges : BOOLEAN, honest : BOOLEAN]
    /\ Exists(partFile) => partFile \in Seq(0 .. Size) /\ Len(partFile) <= MaxLength
    /\ Exists(out.file) => out.file \in Seq(0 .. Size)
    /\ out.hash \in BOOLEAN /\ bad \in BOOLEAN
    /\ run \in Runs

PartInit ==
    /\ world \in [pinned : BOOLEAN, ranges : BOOLEAN, honest : BOOLEAN]
    /\ partFile = NoFile
    /\ out = [file |-> NoFile, hash |-> FALSE]
    /\ bad = FALSE
    /\ run = NoRun

-----------------------------------------------------------------------------
(* Starting *)

\* Download of a file that is not installed, with its lock taken.
BeginPart ==
    /\ run = NoRun
    /\ ~Exists(out.file)
    /\ run' = [pc |-> "attempt", restart |-> TRUE, expected |-> world.pinned]
    /\ UNCHANGED <<world, partFile, out, bad>>

\* Seeded fault: the .part file is always opened with O_TRUNC.
AttemptTruncates(known, hash) ==
    /\ run.pc = "attempt"
    /\ LET start == LengthOf(partFile)
           full == start > 0 /\ known /\ start >= Size
       IN  /\ run' = [pc |-> IF full THEN "promote" ELSE "request",
                      restart |-> run.restart, expected |-> run.expected,
                      known |-> known, hash |-> hash,
                      start |-> IF full THEN start ELSE 0, first |-> TRUE, retries |-> 0]
           /\ partFile' = IF full THEN partFile ELSE <<>>
    /\ UNCHANGED <<world, out, bad>>

\* downloadFileAttempt: stat the .part file, HEAD, and open it unless it holds
\* the whole object already.
Attempt(known, hash) ==
    /\ run.pc = "attempt"
    /\ LET start == LengthOf(partFile)
           full == start > 0 /\ known /\ start >= Size
       IN  /\ run' = [pc |-> IF full THEN "promote" ELSE "request",
                      restart |-> run.restart, expected |-> run.expected,
                      known |-> known, hash |-> hash,
                      start |-> start, first |-> TRUE, retries |-> 0]
           /\ partFile' = IF start = 0 THEN <<>> ELSE partFile
    /\ UNCHANGED <<world, out, bad>>

-----------------------------------------------------------------------------
(* Requests *)

Fails == run' = NoRun

\* A transient error, after "used" retries in a row that brought nothing: try
\* again from where the file ends, or give up.
Retries(used, start) ==
    IF used < MaxRetries
    THEN run' = [run EXCEPT !.retries = used + 1, !.start = start]
    ELSE Fails

\* The request itself fails.
NoResponse ==
    /\ run.pc = "request"
    /\ Retries(run.retries, run.start)
    /\ UNCHANGED <<world, partFile, out, bad>>

\* Any other status than 200, 206 and 416.
Refused ==
    /\ run.pc = "request"
    /\ Fails
    /\ UNCHANGED <<world, partFile, out, bad>>

\* 416: the object has nothing after start.
RangeNotSatisfiable ==
    /\ run.pc = "request"
    /\ run.start >= Size
    /\ run' = [run EXCEPT !.pc = "promote"]
    /\ UNCHANGED <<world, partFile, out, bad>>

\* Seeded fault: the rewind forgets to truncate the file.
RangeIgnoredKeepsFile ==
    /\ ~world.ranges
    /\ run.pc = "request"
    /\ run.first /\ run.start > 0
    /\ run' = [run EXCEPT !.start = 0]
    /\ UNCHANGED <<world, partFile, out, bad>>

\* 200 to the first ranged request: rewind and ask for the whole object.
RangeIgnored ==
    /\ ~world.ranges
    /\ run.pc = "request"
    /\ run.first /\ run.start > 0
    /\ partFile' = <<>>
    /\ run' = [run EXCEPT !.start = 0]
    /\ UNCHANGED <<world, out, bad>>

\* What a response carries: the range that was asked for, to the end when HEAD
\* told no size, or all of the object when the server ignores Range.
Last == IF run.known THEN Smaller(run.start + Chunk, Size) ELSE Size
Bodies ==
    LET range == IF run.start < Size THEN {SubSeq(Object, run.start + 1, Last)} ELSE {}
        whole == IF world.ranges \/ (run.first /\ run.start > 0) THEN {} ELSE {Object}
    IN  range \cup whole

\* The first n blocks of a body as they arrive.
Arrivals(body, n) ==
    LET got == SubSeq(body, 1, n)
    IN  IF world.honest \/ n = 0 THEN {got} ELSE {got, [got EXCEPT ![n] = Wrong]}

\* A response is copied to the end of the file.  The first one may bring the
\* hash HEAD did not.
Receives(got) ==
    /\ LengthOf(partFile) + Len(got) <= MaxLength
    /\ partFile' = partFile \o got
    /\ UNCHANGED <<world, out, bad>>

Expected == run.expected \/ (run.first /\ run.hash)

\* All of a body: the next chunk, or the end of the download.
Delivered ==
    /\ run.pc = "request"
    /\ \E body \in Bodies, header \in BOOLEAN :
       \E got \in Arrivals(body, Len(body)) :
          LET start == run.start + Len(got)
          IN  /\ Receives(got)
              /\ run' = [run EXCEPT
                    !.pc = IF ~run.known \/ start >= Size THEN "verify" ELSE "request",
                    !.start = start, !.first = FALSE,
                    !.expected = Expected \/ (run.first /\ header)]

\* The connection drops after n blocks; some progress refills the budget.
Dropped ==
    /\ run.pc = "request"
    /\ \E body \in Bodies, header \in BOOLEAN : \E n \in 0 .. Len(body) :
       \E got \in Arrivals(body, n) :
          LET used == IF n > 0 THEN 0 ELSE run.retries
          IN  /\ Receives(got)
              /\ IF used < MaxRetries
                 THEN run' = [run EXCEPT
                         !.retries = used + 1, !.start = run.start + n, !.first = FALSE,
                         !.expected = Expected \/ (run.first /\ header)]
                 ELSE Fails

-----------------------------------------------------------------------------
(* Finishing *)

\* The verified file takes its place.
Installs(hash) ==
    /\ out' = [file |-> partFile, hash |-> hash]
    /\ partFile' = NoFile
    /\ run' = NoRun
    /\ UNCHANGED <<world, bad>>

\* The hash does not match: set the file aside and start over, once.
Mismatch ==
    /\ UNCHANGED <<world, out>>
    /\ IF run.restart
       THEN /\ partFile' = NoFile
            /\ bad' = TRUE
            /\ run' = [pc |-> "attempt", restart |-> FALSE, expected |-> run.expected]
       ELSE Fails /\ UNCHANGED <<partFile, bad>>

\* Seeded fault: a complete .part file is promoted unverified.
PromoteUnverified ==
    /\ run.pc = "promote"
    /\ IF run.known /\ Len(partFile) = Size
       THEN Installs(run.expected \/ run.hash)
       ELSE Fails /\ UNCHANGED <<world, partFile, out, bad>>

\* promoteCompletePart: only a file of exactly the remote size.
Promote ==
    /\ run.pc = "promote"
    /\ IF run.known /\ Len(partFile) = Size
       THEN IF (run.expected \/ run.hash) /\ partFile # Object
            THEN Mismatch
            ELSE Installs(run.expected \/ run.hash)
       ELSE Fails /\ UNCHANGED <<world, partFile, out, bad>>

\* Seeded fault: the second attempt may restart again.
VerifyRestarts ==
    /\ run.pc = "verify"
    /\ IF run.expected /\ partFile # Object
       THEN /\ partFile' = NoFile /\ bad' = TRUE /\ UNCHANGED <<world, out>>
            /\ run' = [pc |-> "attempt", restart |-> TRUE, expected |-> run.expected]
       ELSE Installs(run.expected)

\* After the last response: check the hash, rename.
Verify ==
    /\ run.pc = "verify"
    /\ IF run.expected /\ partFile # Object THEN Mismatch ELSE Installs(run.expected)

\* The process dies or its context is cancelled; the .part file stays.
CrashPart ==
    /\ run # NoRun
    /\ Fails
    /\ UNCHANGED <<world, partFile, out, bad>>

-----------------------------------------------------------------------------
Finish == Promote \/ Verify

PartProgress ==
    \/ \E known, hash \in BOOLEAN : Attempt(known, hash)
    \/ NoResponse \/ Refused \/ RangeNotSatisfiable \/ RangeIgnored
    \/ Delivered \/ Dropped \/ Finish

PartNext == BeginPart \/ PartProgress \/ CrashPart

PartSpec == PartInit /\ [][PartNext]_partVars

\* A running download does something.
BusySpec == PartSpec /\ WF_partVars(PartProgress)

\* The user tries again and again, and now and then a HEAD answers, a response
\* arrives whole, and a file of known size is verified before the next crash.
RepeatSpec ==
    /\ BusySpec
    /\ WF_partVars(BeginPart)
    /\ SF_partVars(\E hash \in BOOLEAN : Attempt(TRUE, hash))
    /\ SF_partVars(Delivered)
    /\ SF_partVars(Finish /\ run.known)

-----------------------------------------------------------------------------
(* Properties *)

\* A file that was installed with a hash is the remote object, whatever the
\* server sent and wherever earlier downloads stopped.
HashIsOfTheObject ==
    Exists(out.file) /\ out.hash => out.file = Object

\* Whatever was dropped, ignored or restarted, a request asks for the byte
\* after the last one on disk ("a retry resumes after it").
ResumesAtEnd ==
    run.pc = "request" => run.start = LengthOf(partFile)

\* A download ends, when the server honours ranges: retries in a row are
\* bounded, and so are restarts, also when the bytes are always wrong.
DownloadEnds == world.ranges /\ run # NoRun ~> run = NoRun

\* Downloads that are interrupted again and again still finish: what one
\* brought the next one keeps.
ResumedToTheEnd == world.ranges /\ world.honest ~> Exists(out.file)

\* Partial data without a downloader is resumed by the next download
\* (status.go, DownloadInterrupted), which refuses a file larger than the
\* remote object: a server that honours ranges never makes one so large.
PartialResumable == world.ranges /\ run = NoRun => LengthOf(partFile) <= Size

\* Both: what is on disk can be gone on with, by the download that runs and by
\* the next one (manager.go:700-720, 847-880, 944-957).
Resumable == ResumesAtEnd /\ PartialResumable
=============================================================================
