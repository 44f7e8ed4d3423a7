------------------------------- MODULE MCHost -------------------------------
(* One instance for the components around the engine whose questions are of  *)
(* safety: installing the library (LibraryInstall), the answers that depend  *)
(* on their input alone (ReleaseAssets, ProcessHolders, GGUFMerge,           *)
(* DownloadPlan, PromptOrder, PromptPrefix, CallArguments, ReplayStore,      *)
(* WorkspaceFiles, WorkspaceSearch), the embeddings of images (ImageCache),  *)
(* callbacks (SessionHooks), what a session holds (SessionCheckpoint) and    *)
(* the scratchpad (ScratchStore).  Each behaviour is one of them; the        *)
(* variables of the others stay as they begin.                               *)
EXTENDS Naturals, Sequences, TLC, LibraryInstall, SessionHooks, ImageCache,
        SessionCheckpoint, ScratchStore

R == INSTANCE ReleaseAssets
H == INSTANCE ProcessHolders
G == INSTANCE GGUFMerge
P == INSTANCE PromptOrder
A == INSTANCE CallArguments
W == INSTANCE WorkspaceFiles
Q == INSTANCE WorkspaceSearch
Y == INSTANCE ReplayStore
F == INSTANCE PromptPrefix

\* Two models of one encoder, one that is joined, and one of shards; the figures of
\* the catalog are rounded up, down or right.
Models ==
    "v1" :> [kind |-> "plain", size |-> 2, listed |-> 2, scratch |-> 0, encoder |-> "enc"] @@
    "v2" :> [kind |-> "plain", size |-> 1, listed |-> 2, scratch |-> 0, encoder |-> "enc"] @@
    "enc" :> [kind |-> "plain", size |-> 2, listed |-> 1, scratch |-> 0, encoder |-> ""] @@
    "join" :> [kind |-> "join", size |-> 2, listed |-> 3, scratch |-> 1, encoder |-> ""] @@
    "merge" :> [kind |-> "merge", size |-> 2, listed |-> 2, scratch |-> 2, encoder |-> ""]
D == INSTANCE DownloadPlan WITH Catalog <- Models
ASSUME ModelsAreACatalog == D!CatalogIs

VARIABLES part,     \* which of the components: never changes
          input     \* the question of an "answer", and what it is asked of

\* What a session is synced with: text, two images around it, another image in
\* the place of one, and spans that overlap.
Image(start, count, id) == [start |-> start, count |-> count, image |-> id]
SessionPrompts ==
    { [tokens |-> <<"t", "t", "u">>, spans |-> <<>>],
      [tokens |-> <<"t", "i", "i", "u">>, spans |-> <<Image(1, 2, "a")>>],
      [tokens |-> <<"t", "i", "i", "u">>, spans |-> <<Image(1, 2, "b")>>],
      [tokens |-> <<"i", "t", "i", "i", "u">>, spans |-> <<Image(0, 1, "a"), Image(2, 2, "b")>>],
      [tokens |-> <<"i", "i", "t">>, spans |-> <<Image(0, 2, "a"), Image(1, 1, "b")>>] }

host == <<vars, part, input, imageVars, hookVars, sessionVars, padVars>>

\* Processes and goroutines run the same code; versions, functions and sessions
\* are only compared.  The components never meet: they share model values, a set
\* for who acts (Procs, Callers, Sessions) and one for what is kept (Versions, Fns).
Symmetry == Permutations(Procs) \cup Permutations(Versions)

Nothing == [f |-> "none"]

\* Two processes, whose PID lsof may garble, with up to two files open in the
\* directory of the models or elsewhere; model "a" and its run lock.
OpenFiles == [dir : {"models", "else"}, name : {"a", "lock"}]
Worlds(pid) == [pid : {pid}, name : {"x"}, unreadable : BOOLEAN,
                files : UNION {[1..n -> OpenFiles] : n \in 0..2}]

Asked ==
    \/ \E r \in R!Requests : \E release \in R!Releases("v1", r) :
          input = [f |-> "asset", r |-> r, release |-> release]
    \/ \E w \in Worlds(1), x \in Worlds(2), pid \in 0..3 :
          input = [f |-> "holders", holder |-> [m \in {"a"} |-> pid], world |-> <<w, x>>]
    \/ \E a, b \in {1, 2, 4}, names \in {<<"a", "b">>, <<"c", "d">>} :
       \E s, t \in UNION {[1..n -> 1..5] : n \in 0..2} : \E total \in {Len(s) + Len(t), 5} :
          input = [f |-> "shards", shards |-> << G!Shard(1, 2, total, a, <<"a", "b">>, s),
                                                 G!Shard(2, 2, total, b, names, t) >>]
    \/ \E q \in P!Histories(3) : input = [f |-> "prompt", q |-> q]
    \/ \E c \in A!Calls(4) : input = [f |-> "call", c |-> c]
    \/ \E e \in W!Edits(5) : input = [f |-> "edit", e |-> e]
    \/ \E r \in W!Reads(3) : input = [f |-> "read", r |-> r]
    \/ \E s \in Q!Searches : input = [f |-> "search", s |-> s]
    \/ \E x \in Y!Replays : input = [f |-> "replay", x |-> x]
    \/ \E w \in F!Writings : input = [f |-> "written", w |-> w]
    \/ \E t \in F!Files : input = [f |-> "prefix", t |-> t]
    \/ \E l \in D!Orders(2) : input = [f |-> "list", l |-> l]

ImagesIdle == ImageInit /\ limits = CHOOSE lim \in [entries : Entries, bytes : Budgets] : TRUE

HooksIdle == HookInit /\ supported

HostInit ==
    /\ Init /\ CheckpointInit /\ PadInit
    /\ \/ part = "answer" /\ Asked /\ ImagesIdle /\ HooksIdle
       \/ part \in {"install", "session", "pad"} /\ input = Nothing /\ ImagesIdle /\ HooksIdle
       \/ part = "images" /\ ImageInit /\ input = Nothing /\ HooksIdle
       \/ part = "hooks" /\ HookInit /\ input = Nothing /\ ImagesIdle

HostNext ==
    /\ UNCHANGED <<part, input>>
    /\ \/ part = "install" /\ Next /\ UNCHANGED <<imageVars, hookVars, sessionVars, padVars>>
       \/ part = "images" /\ ImageNext /\ UNCHANGED <<vars, hookVars, sessionVars, padVars>>
       \/ part = "hooks" /\ HookNext /\ UNCHANGED <<vars, imageVars, sessionVars, padVars>>
       \/ part = "session" /\ CheckpointNext /\ UNCHANGED <<vars, imageVars, hookVars, padVars>>
       \/ part = "pad" /\ PadNext /\ UNCHANGED <<vars, imageVars, hookVars, sessionVars>>

HostSpec == HostInit /\ [][HostNext]_host

\* What is computed is what it should be: see their modules.
MeetsReference ==
    CASE input.f = "asset"   -> R!TakesTheMarked("v1", input.r, input.release)
      [] input.f = "holders" -> H!HoldersFound("models", input.holder, input.world)
      [] input.f = "shards"  -> G!MergeReadsBack(input.shards)
      [] input.f = "prompt"  -> P!HistoryKept(input.q)
      [] input.f = "call"    -> A!ArgumentsKept(input.c.syntax, input.c.schema, input.c.args)
      [] input.f = "edit"    -> W!EditsTheMatch(input.e.data, input.e.old, <<"c">>)
      [] input.f = "read"    -> W!ReadsOn(input.r.file, input.r.calls, 5)
      [] input.f = "search"  -> Q!SearchAccounts(input.s.tree, 1, input.s.q)
      [] input.f = "replay"  -> Y!ReplaysTheLast(input.x.calls, input.x.ids, input.x.maxIDs)
      [] input.f = "written" -> F!PrefixReadBack(input.w.turns, input.w.blank, input.w.eol, input.w.end, input.w.bom)
      [] input.f = "prefix"  -> F!NothingPassedOver(input.t)
      [] input.f = "list"    -> D!ListIsFetched(input.l.asked, input.l.disk, input.l.force, input.l.net)
      [] OTHER -> TRUE
=============================================================================
