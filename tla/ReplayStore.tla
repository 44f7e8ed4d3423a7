----------------------------- MODULE ReplayStore -----------------------------
(***************************************************************************)
(* The exact blocks that tool calls were sampled as (dsml/replay.go), so   *)
(* that a later prompt repeats them byte for byte.  The store is bounded;  *)
(* its entries [id, exact] are kept as a sequence, oldest first.           *)
(*                                                                         *)
(* A block is [text, opened, closed]: whether it begins as a block of      *)
(* calls of some syntax, and whether the end of one is in it.              *)
(***************************************************************************)
EXTENDS Naturals, SequencesExt, FiniteSetsExt

NoBlock == [text |-> "", opened |-> FALSE, closed |-> FALSE]
NoID == ""

\* NewReplayStore
Bound(maxIDs) == IF maxIDs <= 0 THEN 100000 ELSE maxIDs

Known(store, id) == \E i \in DOMAIN store : store[i].id = id
Place(store, id) == CHOOSE i \in DOMAIN store : store[i].id = id

\* What Remember takes; anything else is refused, or there is no id to it.
Counts(call) == call.id # NoID /\ call.exact.opened /\ call.exact.closed

\* Remember: an id that is known moves to the back, with the new block; for one
\* that is not the oldest make room.
Remember(store, call, maxIDs) ==
    LET all == Append(store, call) IN
    CASE ~Counts(call) -> store
      [] Counts(call) /\ Known(store, call.id) ->
            Append(RemoveAt(store, Place(store, call.id)), call)
      [] Counts(call) /\ ~Known(store, call.id) ->
            IF Len(all) > Bound(maxIDs) THEN Tail(all) ELSE all

\* Lookup
Lookup(store, id) == IF Known(store, id) THEN store[Place(store, id)].exact ELSE NoBlock

\* LookupBlock: the block that all the ids have.
LookupBlock(store, ids) ==
    LET blocks == {Lookup(store, ids[i]) : i \in DOMAIN ids} IN
    IF Cardinality(blocks) = 1 THEN Lookup(store, ids[1]) ELSE NoBlock

-----------------------------------------------------------------------------
\* The store after each of some calls of Remember.
StoreAfter(calls, maxIDs) ==
    LET after[k \in 0..Len(calls)] ==
            IF k = 0 THEN <<>> ELSE Remember(after[k - 1], calls[k], maxIDs)
    IN  after

\* The last call for an id, the ids that were given a block after a call, and
\* whether that leaves room for the block of the id.
Latest(calls, id) == Max({0} \cup {k \in DOMAIN calls : Counts(calls[k]) /\ calls[k].id = id})
Since(calls, k) == {calls[j].id : j \in {j \in DOMAIN calls : Counts(calls[j]) /\ j > k}}
Lives(calls, id, maxIDs) ==
    Latest(calls, id) > 0 /\ Cardinality(Since(calls, Latest(calls, id))) < Bound(maxIDs)

\* What a history is rendered with is the last block that its ids were given,
\* all of them the same one, as long as fewer than maxIDs others were given one
\* since: a block is never mixed up, and never lost before its turn.
ReplaysTheLast(calls, ids, maxIDs) ==
    LET blocks == {calls[Latest(calls, ids[i])].exact :
                      i \in {i \in DOMAIN ids : Lives(calls, ids[i], maxIDs)}}
    IN  LookupBlock(StoreAfter(calls, maxIDs)[Len(calls)], ids) =
            IF (\A i \in DOMAIN ids : Lives(calls, ids[i], maxIDs)) /\ Cardinality(blocks) = 1
            THEN CHOOSE b \in blocks : TRUE ELSE NoBlock

-----------------------------------------------------------------------------
(* Calls of Remember, and of LookupBlock after them *)

Block(text) == [text |-> text, opened |-> TRUE, closed |-> TRUE]
Blocks == {Block("x"), Block("y"), [Block("x") EXCEPT !.closed = FALSE], NoBlock}
Asked(ids, blocks, n) ==
    [calls : UNION {[1..k -> [id : ids, exact : blocks]] : k \in 0..n},
     ids : {<<>>, <<NoID>>, <<"1">>, <<"1", "2">>, <<"1", NoID>>, <<"3", "2", "3">>},
     maxIDs : {0, 2, 3}]
Replays == Asked({NoID, "1", "2"}, Blocks, 2) \cup Asked({"1", "2", "3"}, {Block("x"), Block("y")}, 4)
=============================================================================
