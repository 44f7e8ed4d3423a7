----------------------------- MODULE ScratchStore -----------------------------
(***************************************************************************)
(* The scratchpad of a session (scratchtool/store.go): one file per key,   *)
(* used by the goroutines of one process, which may die and be followed by *)
(* another.  "Two processes sharing a session are not coordinated" (doc.go)*)
(* and are not modelled.                                                   *)
(*                                                                         *)
(* A value is the sequence of the bytes written, each the number of the    *)
(* call that wrote it.  Names that are no keys, the temporary files among  *)
(* them, are not listed and cannot be read: they are left out.             *)
(***************************************************************************)
EXTENDS Naturals, SequencesExt, FiniteSetsExt

CONSTANTS Writers,          \* goroutines that call tools
          Keys, NoValue,
          MaxKeys, MaxValueBytes, MaxTotalBytes,    \* Config
          MaxWrite, MaxCalls    \* bounds: bytes of a call, calls that write

ASSUME PadAssumption ==
    /\ NoValue \notin Seq(Nat) /\ "free" \notin Writers
    /\ {MaxKeys, MaxValueBytes, MaxTotalBytes} \subseteq Nat

VARIABLES file,     \* the files named after keys
          mu,       \* who holds the mutex
          at,       \* where each goroutine is in its call
          writes,   \* calls that write, so far
          pad       \* what the calls that were done have set, appended, deleted

padVars == <<file, mu, at, writes, pad>>

Free == "free"
Resting == [op |-> "idle"]

PadInit ==
    /\ file = [k \in Keys |-> NoValue] /\ pad = file
    /\ mu = Free /\ writes = 0
    /\ at = [c \in Writers |-> Resting]

Goes(c, where) == at' = [at EXCEPT ![c] = where]

\* listLocked, readLocked (a key that is missing appends to nothing).
Listed == {k \in Keys : file[k] # NoValue}
Sizes(ks) == Cardinality(UNION {{k} \X DOMAIN file[k] : k \in ks})    \* byte by byte
ReadLocked(k) == IF file[k] = NoValue THEN <<>> ELSE file[k]

\* set or append of n bytes, under a name that is a key (validateKey).
Call(c, op, k, n) ==
    /\ at[c] = Resting /\ writes < MaxCalls
    /\ writes' = writes + 1
    /\ Goes(c, [op |-> op, key |-> k, bytes |-> [i \in 1..n |-> writes']])
    /\ UNCHANGED <<file, mu, pad>>

\* The limits of setLocked, the value under key replaced.
Fits(key, value) ==
    /\ Len(value) <= MaxValueBytes
    /\ key \in Listed \/ Cardinality(Listed) < MaxKeys
    /\ Sizes(Listed \ {key}) + Len(value) <= MaxTotalBytes

NewValue(job) == (IF job.op = "append" THEN ReadLocked(job.key) ELSE <<>>) \o job.bytes

\* A variant of SetLocked: the value is read and counted before the mutex is there.
SetUnlocked(c) ==
    /\ at[c].op \in {"set", "append"}
    /\ IF Fits(at[c].key, NewValue(at[c]))
       THEN /\ mu' = c
            /\ Goes(c, [op |-> "write", key |-> at[c].key, value |-> NewValue(at[c]), job |-> at[c]])
       ELSE UNCHANGED mu /\ Goes(c, Resting)
    /\ UNCHANGED <<file, writes, pad>>

\* A call takes the mutex, reads what it needs and writes a temporary file, or
\* is refused.
SetLocked(c) ==
    /\ at[c].op \in {"set", "append"} /\ mu = Free
    /\ IF Fits(at[c].key, NewValue(at[c]))
       THEN /\ mu' = c
            /\ Goes(c, [op |-> "write", key |-> at[c].key, value |-> NewValue(at[c]), job |-> at[c]])
       ELSE UNCHANGED mu /\ Goes(c, Resting)
    /\ UNCHANGED <<file, writes, pad>>

\* The temporary file takes the key's name, or could not be written and goes.
Rename(c, written) ==
    /\ at[c].op = "write"
    /\ LET k == at[c].key
           job == at[c].job
           old == IF job.op = "append" /\ pad[k] # NoValue THEN pad[k] ELSE <<>>
       IN IF written
          THEN /\ file' = [file EXCEPT ![k] = at[c].value]
               /\ pad' = [pad EXCEPT ![k] = old \o job.bytes]
          ELSE UNCHANGED <<file, pad>>
    /\ mu' = Free /\ Goes(c, Resting)
    /\ UNCHANGED writes

\* deleteKey; a missing key is an error.
DeleteKey(c, k) ==
    /\ at[c] = Resting /\ mu = Free /\ k \in Listed
    /\ file' = [file EXCEPT ![k] = NoValue]
    /\ pad' = [pad EXCEPT ![k] = NoValue]
    /\ UNCHANGED <<mu, at, writes>>

\* The process dies; the next one opens the directory as it is (New).
Dies ==
    /\ \E c \in Writers : at[c] # Resting
    /\ at' = [c \in Writers |-> Resting] /\ mu' = Free
    /\ UNCHANGED <<file, writes, pad>>

PadNext ==
    \/ \E c \in Writers :
          \/ \E op \in {"set", "append"}, k \in Keys, n \in 0..MaxWrite : Call(c, op, k, n)
          \/ SetLocked(c)
          \/ \E written \in BOOLEAN : Rename(c, written)
          \/ \E k \in Keys : DeleteKey(c, k)
    \/ Dies

PadSpec == PadInit /\ [][PadNext]_padVars

-----------------------------------------------------------------------------
(* What a scratchpad promises *)

\* Between calls, after any of them and after a crash in the middle of one, a
\* key holds exactly what the calls that were done have put there, in their
\* order: nothing torn, no append lost to another.  And the limits hold of
\* what is there, which no call looks at alone (setLocked counts first and
\* writes later).
PadKept ==
    /\ file = pad
    /\ Cardinality(Listed) <= MaxKeys
    /\ \A k \in Listed : Len(file[k]) <= MaxValueBytes
    /\ Sizes(Listed) <= MaxTotalBytes
=============================================================================
