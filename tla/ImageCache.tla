------------------------------ MODULE ImageCache ------------------------------
(***************************************************************************)
(* Image embeddings: the LRU cache of ImageEncoder (vision.go), prompts    *)
(* that take embeddings out of it (buildChatPrompt in tools.go), and the   *)
(* handles that own the native buffers (ds4api/vision.go).                 *)
(*                                                                         *)
(* What is done under ImageEncoder.mu is one step, and so is every native  *)
(* call.  An image is the number of bytes its embedding takes; 0 is one    *)
(* whose size the engine cannot tell.  A handle is its native buffer, or 0 *)
(* when it was freed or moved from.                                        *)
(***************************************************************************)
EXTENDS Naturals, FiniteSetsExt, SequencesExt

CONSTANTS Callers,       \* goroutines that build prompts
          Images,        \* images, a set of sizes
          Entries,       \* values SetLimits sets maxEntries to
          Budgets,       \* values SetLimits sets maxBytes to
          PromptImages   \* bound: images of a prompt

\* A negative limit does what 0 does.
ASSUME ImageAssumption == Images \cup Entries \cup Budgets \subseteq Nat

VARIABLES heap,      \* native buffers that are allocated
          order,     \* the cache, most recently used first: [key, emb]
          limits,    \* maxEntries and maxBytes
          prompt,    \* the prompt that each caller builds
          garbage    \* buffers of unreachable handles, not cleaned up yet

imageVars == <<heap, order, limits, prompt, garbage>>

Idle == [op |-> "idle", img |-> 0, max |-> 0, emb |-> 0, clone |-> 0,
         embs |-> <<>>, spans |-> <<>>]

ImageInit ==
    /\ heap = {} /\ order = <<>> /\ garbage = {}
    /\ limits \in [entries : Entries, bytes : Budgets]
    /\ prompt = [c \in Callers |-> Idle]

\* What malloc returns next: the first of n free buffers.
Fresh(n) == Min({b \in 1..(Max({0} \cup heap) + 1) : \A i \in 0..(n - 1) : b + i \notin heap})
Bytes(o) == Cardinality(UNION {{e.emb} \X (1..e.key) : e \in ToSet(o)})    \* byte by byte
Sets(c, j) == prompt' = [prompt EXCEPT ![c] = j]
Held(j) == (ToSet(j.embs) \cup ToSet(j.spans) \cup {j.emb, j.clone}) \ {0}

\* evictLocked: the most recently used entries that leave room for what comes.
Kept(o, lim, n, bytes) ==
    LET Fits(k) == k + n <= lim.entries /\ Bytes(SubSeq(o, 1, k)) + bytes <= lim.bytes
    IN  SubSeq(o, 1, Max({0} \cup {k \in 1..Len(o) : Fits(k)}))
Embs(o) == {o[i].emb : i \in DOMAIN o}

Cached(img) == \E i \in DOMAIN order : order[i].key = img

-----------------------------------------------------------------------------
(* SetLimits *)

SetLimits ==
    \E lim \in [entries : Entries, bytes : Budgets] :
        /\ limits' = lim
        /\ order' = Kept(order, lim, 0, 0)
        /\ heap' = heap \ (Embs(order) \ Embs(order'))
        /\ UNCHANGED <<prompt, garbage>>

-----------------------------------------------------------------------------
(* Encode *)

\* The lookup: a hit is cloned under the lock; a miss takes note of the budget.
Encode(c, img) ==
    /\ prompt[c].op \in {"idle", "built"}
    /\ Len(prompt[c].embs) + Len(prompt[c].spans) < PromptImages
    /\ IF Cached(img)
       THEN LET i == CHOOSE k \in DOMAIN order : order[k].key = img IN
            /\ order' = <<order[i]>> \o RemoveAt(order, i)
            /\ heap' = heap \cup {Fresh(1)}
            /\ Sets(c, [prompt[c] EXCEPT !.op = "built", !.embs = Append(@, Fresh(1))])
       ELSE /\ Sets(c, [prompt[c] EXCEPT !.op = "encode", !.img = img, !.max = limits.bytes])
            /\ UNCHANGED <<heap, order>>
    /\ UNCHANGED <<limits, garbage>>

\* VisionEncodeMemory, and what is not cacheable goes straight to the caller.
VisionEncode(c) ==
    /\ prompt[c].op = "encode"
    /\ heap' = heap \cup {Fresh(1)}
    /\ Sets(c, IF prompt[c].img = 0 \/ prompt[c].img > prompt[c].max
               THEN [prompt[c] EXCEPT !.op = "built", !.img = 0, !.max = 0,
                                   !.embs = Append(@, Fresh(1))]
               ELSE [prompt[c] EXCEPT !.op = "fresh", !.emb = Fresh(1)])
    /\ UNCHANGED <<order, limits, garbage>>

Clone(c) ==
    /\ prompt[c].op = "fresh"
    /\ heap' = heap \cup {Fresh(1)}
    /\ Sets(c, [prompt[c] EXCEPT !.op = "insert", !.clone = Fresh(1)])
    /\ UNCHANGED <<order, limits, garbage>>

Encoded(c) == Sets(c, [prompt[c] EXCEPT !.op = "built", !.img = 0, !.max = 0, !.emb = 0,
                                     !.clone = 0, !.embs = Append(@, prompt[c].clone)])

\* A variant of Insert: the budget that was noted before encoding decides.
InsertByOldBudget(c) ==
    /\ prompt[c].op = "insert"
    /\ IF Cached(prompt[c].img) \/ limits.entries = 0 \/ prompt[c].img > prompt[c].max
       THEN heap' = heap \ {prompt[c].emb} /\ UNCHANGED order
       ELSE LET kept == Kept(order, limits, 1, prompt[c].img) IN
            /\ order' = <<[key |-> prompt[c].img, emb |-> prompt[c].emb]>> \o kept
            /\ heap' = heap \ (Embs(order) \ Embs(kept))
    /\ Encoded(c)
    /\ UNCHANGED <<limits, garbage>>

\* The first embedding of an image stays; one that is too large by now, or that
\* the cache may not hold, is freed; for any other there is room made.
Insert(c) ==
    /\ prompt[c].op = "insert"
    /\ IF Cached(prompt[c].img) \/ limits.entries = 0 \/ prompt[c].img > limits.bytes
       THEN heap' = heap \ {prompt[c].emb} /\ UNCHANGED order
       ELSE LET kept == Kept(order, limits, 1, prompt[c].img) IN
            /\ order' = <<[key |-> prompt[c].img, emb |-> prompt[c].emb]>> \o kept
            /\ heap' = heap \ (Embs(order) \ Embs(kept))
    /\ Encoded(c)
    /\ UNCHANGED <<limits, garbage>>

-----------------------------------------------------------------------------
(* The prompt *)

\* Buffers that libds4 has put in the place of others: for a DeepSeek model the
\* ones it has come to are new, for others they are the same.
Replaced(old) ==
    {[i \in DOMAIN old |-> IF i \in new THEN Fresh(Len(old)) + i - 1 ELSE old[i]] :
        new \in SUBSET DOMAIN old}

\* ChatAppendMultimodalMessage moves the embeddings of a message into spans.
AppendMessage(c) ==
    /\ prompt[c].op = "built" /\ prompt[c].embs # <<>>
    /\ \E got \in Replaced(prompt[c].embs) :
          /\ heap' = (heap \ ToSet(prompt[c].embs)) \cup ToSet(got)
          /\ Sets(c, [prompt[c] EXCEPT !.embs = <<>>, !.spans = @ \o got])
    /\ UNCHANGED <<order, limits, garbage>>

\* A variant of AppendFails: the handles keep the buffers they had.
AppendFailsKeeps(c) ==
    /\ prompt[c].op = "built" /\ prompt[c].embs # <<>>
    /\ \E got \in Replaced(prompt[c].embs) :
          /\ heap' = (heap \ ToSet(prompt[c].embs)) \cup ToSet(got)
          /\ Sets(c, [prompt[c] EXCEPT !.op = "failed"])
    /\ UNCHANGED <<order, limits, garbage>>

\* It fails midway, hands back what it has by now, and the handles adopt that.
AppendFails(c) ==
    /\ prompt[c].op = "built" /\ prompt[c].embs # <<>>
    /\ \E got \in Replaced(prompt[c].embs) :
          /\ heap' = (heap \ ToSet(prompt[c].embs)) \cup ToSet(got)
          /\ Sets(c, [prompt[c] EXCEPT !.op = "failed", !.embs = got])
    /\ UNCHANGED <<order, limits, garbage>>

\* A call that leaves the embeddings alone fails: the engine is closed, memory
\* is short, the image cannot be decoded.  Encode frees its own.
CallFails(c) ==
    /\ prompt[c].op \in {"encode", "fresh", "built"}
    /\ heap' = heap \ {prompt[c].emb}
    /\ Sets(c, [prompt[c] EXCEPT !.op = "failed", !.img = 0, !.max = 0, !.emb = 0])
    /\ UNCHANGED <<order, limits, garbage>>

\* The prompt is synchronised and freed, or freed on the way out of an error.
FreePrompt(c) ==
    /\ prompt[c].op \in {"failed", "built"}
    /\ prompt[c].op = "built" => prompt[c].embs = <<>>
    /\ heap' = heap \ Held(prompt[c])
    /\ Sets(c, Idle)
    /\ UNCHANGED <<order, limits, garbage>>

\* Or it is forgotten, and the runtime's cleanup frees its embeddings.  Bound:
\* one prompt waits for that at a time.
DropPrompt(c) ==
    /\ prompt[c].op = "built" /\ prompt[c].embs = <<>>
    /\ garbage = {}
    /\ garbage' = garbage \cup Held(prompt[c])
    /\ Sets(c, Idle)
    /\ UNCHANGED <<heap, order, limits>>

Cleanup ==
    \E b \in garbage :
        /\ garbage' = garbage \ {b}
        /\ heap' = heap \ {b}
        /\ UNCHANGED <<order, limits, prompt>>

ImageNext ==
    \/ SetLimits \/ Cleanup
    \/ \E c \in Callers :
          \/ \E img \in Images : Encode(c, img)
          \/ VisionEncode(c) \/ Clone(c) \/ Insert(c)
          \/ AppendMessage(c) \/ AppendFails(c) \/ CallFails(c)
          \/ FreePrompt(c) \/ DropPrompt(c)

ImageSpec == ImageInit /\ [][ImageNext]_imageVars

-----------------------------------------------------------------------------
(* Properties *)

\* Every buffer has one owner, an entry of the cache, a handle of one prompt or
\* a handle that waits for its cleanup; and whatever they hold is allocated.  So
\* nothing is cloned or synchronised after it was freed, freed twice, or lost.
Apart(j) ==
    /\ IsInjective(j.embs) /\ IsInjective(j.spans)
    /\ ToSet(j.embs) \cap ToSet(j.spans) = {}
    /\ {j.emb, j.clone} \cap (ToSet(j.embs) \cup ToSet(j.spans)) = {}
    /\ j.emb = j.clone => j.emb = 0

Others(c) == UNION {Held(prompt[d]) : d \in Callers \ {c}}

Owned ==
    /\ heap = Embs(order) \cup garbage \cup UNION {Held(prompt[c]) : c \in Callers}
    /\ \A i, k \in DOMAIN order : order[i].emb = order[k].emb => i = k
    /\ Embs(order) \cap garbage = {}
    /\ \A c \in Callers :
          /\ Apart(prompt[c])
          /\ Held(prompt[c]) \cap (Embs(order) \cup garbage \cup Others(c)) = {}

\* The cache keeps to limits that change while images are being encoded, and
\* has an image once.
WithinLimits ==
    /\ Len(order) <= limits.entries /\ Bytes(order) <= limits.bytes
    /\ \A i, j \in DOMAIN order : order[i].key = order[j].key => i = j

\* Both, of every state (vision.go:120-177, ds4api/vision.go:271-291).
ImagesAccountedFor == Owned /\ WithinLimits
=============================================================================
