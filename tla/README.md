# Verification of ds4go

TLA+ models of [ds4go](../src/README.md), the Go binding and runtime of the
libds4 inference library, with the TLC runs that check them and the TLAPS
proofs of their main invariants.  `PROJECT.json` lists every run, the seeded
fault that shows each property can fail, and the source lines each definition
translates.

## 1. The system

ds4go is a Go module around a C library that is loaded at run time.  Its parts,
the state they keep and what is hard about them:

| Part | Sources | State | Hard part |
|---|---|---|---|
| Native binding | `ds4api/engine.go`, `session.go`, `lock.go`, `openguard.go` | engines, sessions, the process-wide mutex `libCallMu`, the guard's release | objects of C memory closed by the program and by the garbage collector, one mutex for a library that is not thread safe |
| Session state | `ds4api/session.go`, `vision.go` | tokens, checkpoint, spans of images | interrupted syncs, cuts that lose the checkpoint |
| Callbacks | `ds4api/callbacks.go` | tables of registered Go functions, the process-wide abort function | a function unregistered while native code may still call it |
| Images | `vision.go`, `ds4api/vision.go` | an LRU cache, handles of native buffers | ownership that moves, limits that change under an encoding |
| Generation and tool loop | `generation.go`, `toolloop.go` | the transcript, pending tokens, budgets | cancellation, speculative blocks, recovery |
| DSML | `dsml/*.go`, parts of `tools.go` | the stream decoder's buffers, the replay store | tags split over chunks, three grammars, text that looks like a tag |
| Chat prompts | `tools.go`, `dsml/encode.go`, `prompt_prefix.go` | none: functions of a history | parallel results in any order, images, dialects |
| Lock files | `internal/models/lock*.go`, `process.go`, `runlock.go` | lock files and the PIDs in them | crashes, unlinking, inodes |
| Model manager | `internal/models/manager.go`, `leftovers.go`, `status.go` | model files, default link, configuration | several processes, crash between two renames |
| Downloads | `manager.go`, `split.go`, `gguf_merge.go` | `.part` files, an assembling file, a journal | resume, retry, truncated answers, full disk |
| Installer | `internal/install` | library, checksum sidecar, metadata | three files and no lock, processes that die |
| Language-server client | `lsp` | open documents, diagnostics and their versions | late notifications, reopened documents |
| Workspace tools | `workspacetool` | background shell jobs; positions of reads | kill racing exit, Close racing a start |
| Scratch store | `scratchtool` | a key-value directory | limits under concurrent writers, torn writes |
| Loader, catalog, command line, web tool, examples | `ds4api/loader.go`, `cmd`, `webtool`, … | none to speak of | formatting and I/O |

Interactions.  The root package installs `engineRunLockGuard` as the binding's
open guard, so opening an engine takes a lock file (`runlock.go`); the model
manager asks `GetLockHolder` about that lock before it deletes a model, and takes
the state lock and the download locks itself; the installer asks for the same
holders before it warns.  A tool loop renders a history into a prompt, syncs a
session with it, samples tokens, feeds each to the stream decoder, and hands the
calls it parses to tools; the exact text of a call goes into the replay store
and from there into the next prompt.  Sessions keep their engine reachable.

## 2. The modules

| Module | Models | Proofs | Checked by |
|---|---|---|---|
| `Mutex` | what a lock promises: a holder, one at a time | | (refined by `FileLock`) |
| `FileLock` | lock files and their three uses | `OwnershipProofs` | `MCOwnership` |
| `EngineLifecycle` | engines, sessions, `libCallMu`, the open guard, runtime cleanups | `OwnershipProofs` | `MCOwnership` |
| `LspDiagnostics` | document versions, buffered diagnostics, the wait for them | `SubprocessProofs` | `MCSubprocesses`, `MCLspDiagnostics` |
| `PartDownload` | the transfer of one file | `DownloadProofs` | `MCOwnership` |
| `ModelManager` | Set, Download, Delete, DeletePartial, RemoveLeftovers | `DownloadProofs` | `MCModelManager` |
| `SplitDownload` | a model published in pieces: join, merge, resume | `SplitDownloadProofs` | `MCProgress` |
| `ToolTurn` | one run of the tool loop over the generator | `RuntimeProofs` | `MCProgress` |
| `Markup`, `StreamDecoder` | tags in a text; the decoder of chunks | `StreamProofs` | `MCProgress`, `MCStreamDecoder` |
| `ToolMarkup`, `StreamParity`, `StreamTexts` | the parser of the whole, the decoder compared with it, texts to try them on | | `MCProgress`, `MCStreamDecoder` |
| `ShellJobs` | bash, bash_status, bash_stop, timeouts, abort, Close | `SubprocessProofs` | `MCSubprocesses` |
| `LibraryInstall` | install, pin, update and uninstall, and what the loader accepts | `LibraryInstallProofs` | `MCHost` |
| `ImageCache` | the cache of embeddings and the ownership of their buffers | `RuntimeProofs` | `MCHost` |
| `SessionHooks` | every registration of a callback | `RuntimeProofs` | `MCHost` |
| `SessionCheckpoint` | tokens, checkpoint and images of a session | `RuntimeProofs` | `MCHost` |
| `ScratchStore` | set, append, delete | `RuntimeProofs` | `MCHost` |
| `PromptOrder` | history to prompt | | `MCHost`, `MCPromptOrder` |
| `CallArguments` over `ToolText` | arguments of a call, written and read back; how a text within a tag is escaped | `AnswerProofs` (the texts) | `MCHost` |
| `PromptPrefix` | the file of preloaded turns | | `MCHost` |
| `ReplayStore` | exact blocks of calls | `AnswerProofs` | `MCHost` |
| `WorkspaceFiles` | edit, read, more | `AnswerProofs` | `MCHost` |
| `WorkspaceSearch` | search | | `MCHost` |
| `GGUFMerge` | which shards merge, and where their tensors land | `AnswerProofs` | `MCHost` |
| `DownloadPlan` | a list of models: encoders, space, one after another | `AnswerProofs` | `MCHost` |
| `ReleaseAssets`, `ProcessHolders` | which asset is taken; who has the library and models open | | `MCHost` |

`MCOwnership`, `MCHost`, `MCProgress` and `MCSubprocesses` extend several components and put them
into one instance; that is why the modules of these components name their
definitions apart (`ImageInit`, `HookNext`, `PadSpec`), and why one module,
`RuntimeProofs`, can prove things about all that runs for a session.  A variable that never changes (`part`, `what`) says which of them a
behaviour is of; the variables of the others rest.  They are not a parallel
composition: nothing the components share is lost by that, because they share
nothing but the calls described in the section above.

Definitions commented *Seeded fault* or *A variant of* are not part of any
specification.  Each is a way the definition that follows it could have been
written wrong, and is there to show that a property notices.

The modules from `PromptOrder` down have no state.  They state a function of the
code as an operator, and what it is for as another one that does not follow the
code; `MeetsReference` in `MCHost` compares the two over sets of inputs.

### FileLock

Go names a lock by its path, the kernel locks an inode.  The module keeps the
path (`dir`), the inodes, their owners and texts, and the one descriptor of each
process apart.  `Open`, `Flock` (or `FlockBusy`, for TryLock), `Truncate`,
`WritePid` and `Sync` are the system calls of `lockFile`; `Ask` and the `Probe`
actions those of `checkLock` and `GetLockHolder`; `Exit` is a crash, after which
the kernel drops the lock.  The rigid variable `kind` says which use this is:
the *state* lock (blocking, never unlinked), the *run* lock (`runlock.go` closes
it, then unlinks it) or a *download* lock (`RemoveLeftovers` unlinks it while it
holds it).  `ImplementsMutex` maps the state lock to `Mutex`, with the owner of
the inode under the path as the holder.

### EngineLifecycle

Every goroutine is at most in one job; a job is the interval between the step
that enters libds4 and the one that returns, and `mu` is `libCallMu`.  `Guard`
and `OpenReturns` are `OpenEngine` (the native open runs outside `libCallMu`, as
in the code), `NewSession` and `CreateReturns` are `NewSession`, `EngineCall`,
`SessionCall` and `LogitsCall` stand for the methods, by which checks they make
under the mutex, `CloseStarts`, `CloseEnters`, `FreeSession`, `FreeEngine` and
`ReleaseLease` are both `Close` functions and both cleanup functions.  `Drop`
loses a reference, `Collect` queues the cleanup of what is unreachable and
`CleanupRuns` runs it; `Reachable` follows the references the objects hold
(session to engine, and what an armed cleanup's argument keeps alive).
A disciplined program, which `Disciplines` chooses, closes an engine after its
sessions; it restricts the program, not the library.

### LspDiagnostics

The client keeps a version per document and a diagnostics buffer per URI.  `Open`,
`Update` and `Close` each are two or three steps, because the code locks
`docStore`, then `diagBuffer`, then writes to the server, and holds nothing in
between.  `WaitStarts`, and per iteration one of `Matches`, `Silent`, `Settled`,
`TimesOut` and `LooksAgain`, are the wait loop; the clock is a choice.  A text is a
number and stands for the diagnostics of that text.

### PartDownload and SplitDownload

In `PartDownload` a file is a sequence of blocks; `Wrong` is a block with other
bytes.  The rigid record `world` says whether the catalog pins a hash, the server
honours ranges and its bytes are right.  `Attempt` opens the `.part` file,
`Delivered`, `Dropped`, `NoResponse`, `Refused`, `RangeIgnored` and
`RangeNotSatisfiable` are the outcomes of one request, `Verify` and `Promote` end
the transfer, `Mismatch` is the quarantine with its single restart.

`SplitDownload` has several such files, moves each block by block, and models
what comes of them.  `kind` is "join" (`downloadSplit`: `RenameFirst` makes the
first part the assembling file, `Resume` cuts what a crash left half appended,
`AppendFile` and `RemovePart` take the next one) or "merge" (`mergeGGUF`:
`OpenPending` checks what an interrupted merge left and `AppendData` goes on from
there).  `Required` and `OnDisk` are the space check and what it is about; `room`
is what the check granted.  `foreign` starts with files that this code did not
leave.

### ModelManager

`file` and `part` are the installed models and the partial downloads; `link` and
`config` are the two copies of the default.  Each operation is one step per
effect, under the locks of the code: the download lock first and `LockState`
second for Download, Delete and DeletePartial, the other way round in
RemoveLeftovers.  Every step may be the last (`Stops`: a crash, or a call of the
file system that fails and whose error is returned).  `torn` is a history
variable: "write" after a crash or failure between two writes that belong
together, and "link" after a Delete that could not remove the link (`ClearLink`
may fail, as its error is dropped), until link and configuration are set together
again.  `links` chooses between hard and symbolic links; `Detected` is
`detectDefaultAlias`, which can only read the latter.
The transfer is three steps here and `PartDownload` there.  The state lock is a
mutex, which `FileLock` shows it to be.  A download lock is a file: `OpenLock` opens
what has its name now, `Flock` or `FlockBusy` locks what was opened, and `Unlink`
takes the name away while RemoveLeftovers holds it, so that whoever has the file
open (`fd`) has one of `Unnamed` from then on.

### ToolTurn

A token is what the stream decoder makes of it: text, the opening of a tool
block, its end, `</think>`, or the end of the sentence.  `Round` is the top of
the loop (prompt and sync; `SyncFails` when that fails), `Generate` and
`Continue` compute what may still be drawn, `SampleOne` and `SampleBlock` are the
two samplers, `OnToken` is the callback, which records the token and may cancel the
context, `BlockToken` goes through a speculative block and `BlockStop`, `Flipped`
and `Rewound` take its tail back.  `Recover` injects `</think>`; `TurnEnds` and
`TurnFails` are the returns of `Continue`, `Parse` and `Execute` the rest of the
round.  `Cancel` is the caller and may come at any step.  What a token is drawn
as is a choice, so the model of libds4 writes anything.

### StreamDecoder

A text is a sequence of pieces of tags, so that a chunk can end inside one.
`Write` takes any number of pieces, `Process` is one iteration of the decoder's
loop (`Handled` is the switch over its states, one operator per state and named
as in the code), `Close` and `Flush` end the text.  `Markup` has what decoder and
parser share: where a tag, an attribute or a tool block is in a text.  `ToolMarkup` is
the parser of the whole text and the repair of one that was cut off, and
`StreamParity` states what the two have to do with each other.  `StreamTexts` writes
the texts: sentences of a few words for DSML, GLM and Qwen, with and without
reasoning, wrapper and end of sentence.

### ShellJobs

A critical section of `w.mu` or `job.mu` is one step, and so is a signal.
`Start` and `Register` are bash, `Refreshed`, `Aborted` and `Status` its answers
and bash_status; `KillShellGroup`, `Terminate`, `EndsInGrace`, `Kill` and `Waited`
are the polite and the hard kill, for a tool and for the timeout (`Expire`);
`CloseTakes`, `CloseNext` and `CloseEnds` are Close.  `Reap` and `SetDone` are the
goroutine that waits for the shell.  A shell's `nature` says whether it obeys
SIGTERM, traps it, or survives everything.

### LibraryInstall

`lib`, `sidecar` and `meta` are the three files; a file being written is torn.
`LookInstall`, `Resolve`, `LookPin` and `Confirmed` are the checks of `Run` and
`runPin`, `Fetch` the download, `Replace` the rename of `--force` and
`CreateExclusive` with `Fill` the other way in; `HashLibrary`, `ClearSidecar`,
`WriteSidecar` and `WriteMetadata` follow.  `RemoveFile` goes through the files of an
uninstall.  Every process may die before any step.  `disturbed` says of the command
started last that it overlapped with another one or that a write of it failed; what
earlier commands left, also by dying, is no excuse.

### ImageCache, SessionHooks, SessionCheckpoint, ScratchStore

- `ImageCache`: `Encode` and `Insert` are the two halves of `ImageEncoder.Encode`,
  with the encoding outside the lock between them; `AppendMessage` and
  `AppendFails` the transfer of ownership of a multimodal message.  A handle is
  the buffer it owns; `heap` is the buffers libds4 has not freed.
- `SessionHooks`: an id is what libds4 keeps of a function, `table` what the code
  finds behind it.  Calls in which libds4 calls back have a beginning and an end;
  every other call is one step.
- `SessionCheckpoint`: `tokens`, `valid` and `images` are the session's, `told`,
  `spans` and `sure` what its program may rely on.  Whether libds4 can cut without
  losing the checkpoint is a choice.
- `ScratchStore`: `file` is the directory, `pad` what the calls that were done have
  put there.  `NewValue` reads and checks under the lock, `Rename` replaces.

## 3. What the runs check

| Run | Question | Instance |
|---|---|---|
| `ownership` | All three uses of lock files: do flocks and PIDs stay in order though two of them unlink the file (`OwnersHold`, `PidNamesHolder`), is the state lock a mutex (`ImplementsMutex`), does everybody waiting get it (`WaiterServed`), through crashes at every system call?  An engine and its sessions, whatever the program does: is the lease released once and after the engine, is nothing freed twice, does a checked call meet an open engine, does a leaked engine close in the end?  And does a disciplined program's session never meet a closed engine, the collector's frees included?  The transfer of a file, with every server and crash: is a hashed file the object, does a request continue the file, can what is left be resumed, does a download end, do repeated ones finish? | 2 processes, 3 inodes, the 3 kinds; 2 goroutines and the cleaner, 1 engine, 2 sessions; object of 3 blocks, chunks of 2, 2 retries |
| `subprocesses` | Two callers and one document: are diagnostics matched by version of the text asked about?  One caller and a server without versions: does a wait that settles have a publication, and does the buffer converge?  Shells under every way to stop them: is each in somebody's hand and signalled once, does each stop return, and each shell that can end, end? | 3 texts and 1 Open; 4 texts and 2 Opens; 2 agents, 1 job each |
| `model_manager` | Every interleaving, crash and failed write: is there one default, does Delete clear one it can know of, does a default survive downloads, is a transfer disturbed only under a lock file without a name, does every operation end? | 2 processes, 2 models, hard and symbolic links |
| `host` | Do the installer, the cache of images, callbacks, sessions and the scratchpad keep what they promise through crashes, failures and interleavings, and are the stateless parts right on every small input? | below |
| `progress` | Do pieced downloads, tool turns and the decoding of a stream end, and end right, wherever they are interrupted, cut or resumed? | 3 parts of 2 blocks; 4 tokens in 2 rounds; sentences of a few words |
| `run_lock_exclusive` | Can two processes hold the run lock?  **Yes.** | 3 processes, 4 inodes |
| `session_after_engine` | Does an undisciplined program reach libds4 with a freed engine?  **Yes.** | 2 goroutines, 1 engine, 1 session |
| `lsp_concurrent` | Do two concurrent Updates reach the server out of order?  **Yes.** | 2 editors, 3 texts |
| `stream_implicit` | Is there a text whose events are not the parser's message?  **Yes.** | as in `progress` |
| `download_lock` | Is a running transfer ever disturbed?  **Yes.** | 2 processes, 1 model, 3 lock files |
| `hook_done` | Is the OnDone of GenerateArgmax out of libds4's reach?  **Yes.** | 1 session, 1 function |
| `tool_dialect` | Is there a history whose calls are rendered in another model's dialect?  **Yes.** | histories of one message, also after a call |

What the properties of the last two passing runs say:

- `DoneIsLoadable`: a command that succeeds, and overlapped with no other, leaves
  a library that validates and loads and metadata that describe it, or after an
  uninstall nothing, whatever commands that died left before it.
  `ReplacedAtomically` and `UnaskedKeeps` hold for overlapping commands as well.
- `ImagesAccountedFor`: every native buffer has one owner until it is freed, and
  the cache keeps to the limits that hold now.
- `HooksAccounted`: libds4 reaches the function that is meant (but for OnDone, see
  below), and the tables keep nothing that no one can reach.
- `CheckpointOfTheText`: a session that can go on holds the tokens and images it is
  taken to hold.  `PadKept`: a scratchpad holds exactly what was put there, within
  its limits.
- `MeetsReference`: the stateless parts.  The asset taken is the one the list
  marks (and the other way round); every process that has a file open is found;
  a merged GGUF reads back as its shards; every part of a history is in the
  prompt once, in its order, each result at its call; arguments come back with
  their types, null as an empty string, and no text of theirs closes its own tag; an edit replaces what was meant, `more` goes on where `read`
  stopped, and a search finds what is there or says what it skipped; the replay
  store answers the last block of an id; a prefix file reads back what was
  written and nothing in it is passed over; a list of models that is found to fit
  is fetched, where what the check counts is enough (`CountsEnough`).
- `AssemblyIsImage`, `VerifiedKept`, `SpaceSuffices`, `DownloadsEnd`: the file being
  put together is a prefix of the model at every moment, what was verified is not
  fetched again, what the space check granted is enough, and repeated downloads
  end.
- `SessionIsText`, `DrawnInMode`, `WithinBudget`, `RunReturns`: after a turn every token
  of the text went to the session, once and in order, and no other did, each drawn in
  the mode the text before it asks for; one whose Eval failed completed the turn or
  asked for the recovery; budgets hold; a run returns whatever the model writes.
- `StreamIsFaithful`: however the text is cut, the events say what the parser says
  of the whole; a caller may stop where the decoder says the block is closed; a
  repaired text holds no call that the whole would not; and what goes out as content
  is the text itself from the end of the reasoning on, nothing lost and nothing doubled,
  up to the end of the sentence or a block that was read as calls (`ContentIsText`).

The seven disagreements, each with the line it contradicts in `PROJECT.json`:

- *Run lock.*  The release closes the file and then removes it by name.  A
  process that opened it before the removal locks an inode that has no name any
  more; a third one creates a new file and locks that.  Both run.
- *Session after engine.*  `Engine.Close` does not wait for sessions, and
  `Session.Close` frees the native session whether or not the engine is open;
  the native free dereferences the engine.
- *Concurrent updates.*  The version is taken under the store's lock and the
  notification sent afterwards, so versions can arrive in the wrong order and
  the server ends with the older text.
- *Implicit block.*  A call without a wrapper, at the end of a text that lacks the
  end of the sentence, is a call for `ParseCompletion` and content for the stream.
  The texts that `Continue` hands over end with it, unless a limit cut them off.
- *Download lock.*  Opening a lock file and locking it are two steps, and
  RemoveLeftovers unlinks the file that it holds.  Who has opened it before locks a
  file without a name; the next process makes another and locks that, and Delete,
  or a cleanup, removes the part file of a transfer that runs.  `UndisturbedByName`
  is what holds: no transfer is disturbed unless somebody holds such a file.
- *OnDone.*  `ds4_engine_generate_argmax` has one user data for the functions of
  tokens and of done.  It is given the id of OnToken, under which the table of done
  functions has nothing, so OnDone is never called.
- *Dialect.*  A V4.1 history whose calls have no exact block in the replay store is
  rendered in the DSML of V4.

Behaviours that were met on the way and that no run claims anything about:

- `GetLockHolder` may answer the PID of a dead process between the next holder's
  `flock` and its truncation, and a TryLock may be refused because of a prober.
- With a second caller, an edit resets the publish counter and a wait takes the
  reset for a publication (`SettledWasPublished` is therefore checked for one
  caller at a time); and after Close and Open a late publication of the old
  version 1 matches the new one (the run that matches has one Open).
- A server that ignores ranges on a retry has its whole answer appended.  The
  hash catches it, unless the process ends first: then the `.part` file is longer
  than the object and `promoteCompletePart` refuses it for ever.  With such a
  server that also drops every connection the file grows without end.
  `Resumable` and `DownloadEnds` are stated for servers that honour
  ranges.
- A download that is killed between installing the file and recording it leaves
  no default, and the next Download of the model returns early.
- After a crash between link and configuration only the link names the default,
  and a hard link, which `swapLinkAtomic` prefers, tells no name: Delete of that
  model leaves it.  `DeleteClearsKnownDefault` says "known" for that.  Delete also
  leaves a link that it could not remove: it drops that error (`manager.go:510`) and
  succeeds, and the configuration is cleared (`torn` is "link").
- The comment of `copyFile` says that "the existing dst is truncated"
  (`install.go:530-531`).  It goes through `writeFile`, which replaces the file by a
  rename and says why (`install.go:1114-1119`); `ReplacedAtomically` is what
  `writeFile` does, for pins as for installs.
- A token is told to the caller before its Eval.  When that Eval, or the rewind of the
  rest of the block, fails after the token has completed the turn, the loop takes the
  error for the stop it asked for (`toolloop.go:72`): the round goes on, and the
  session lacks the token (`lost` in `ToolTurn`).  The next sync compares tokens, so
  it costs an evaluation; nothing in the code says so.
- A text of a thinking model with two `</think>`: the decoder leaves the reasoning at
  the first (`stream.go:283`), the parser takes the last (`decode.go:124`).  What the
  decoder has sent as content, calls among it, is reasoning in the message, although
  `stream.go:181-184` says that Close returns what ParseCompletion would, and
  `stream.go:45-49` that no event is sent for a block that is rejected.  `Closings` of `StreamTexts`
  writes such texts, and `StreamIsFaithful` says of them (`EndsElsewhere`) only that the
  parser's reasoning begins with the stream's.  For the same reason the repair of a text
  that was cut off before its second `</think>` can hold a call that the whole would not.
- A whole read that is refused when its lines have got their numbers has cleared what
  `more` would continue (`read.go:173`, `186-194`); no other call that fails does.
- `null` as an argument is written as an empty string by all three grammars
  (`encode.go:197`, `glm.go:149`, `qwen.go:140`), as json.Unmarshal takes it for one, where
  `encode.go:178-179` promises its compact JSON.
- `FindDirHolders` takes a directory whose path begins with the name of another for
  something inside it (`install.go:1800`); the model has one directory.
- `ds4_engine_open` runs outside `libCallMu`, while the comment in `lock.go` speaks
  of every call.  `SetAbortFunc` by two goroutines can leave libds4 with an id
  that is no longer registered (`engine.go:411`); the model has one.
- Two forced installs that died leave metadata that match the library and a
  sidecar that does not: `Run` then says "already installed" of a library the
  loader refuses (`AlreadyIsLoadable`, `install.go:218`).
- `RewindSynced(0)` returns nil although the checkpoint stays lost, and a span of an
  image that straddles the cut is only an error when a rebuild is needed
  (`session.go:607`).
- `edit` takes a match that overlaps itself for a unique one (`edit.go:66`), where
  the tool says "replace exactly one old text match".
- A JSON value of Qwen that quotes the closing tag is escaped and not unescaped
  (`qwen.go:149`); `null` passes for an integer or a number, and for a string in all
  grammars (see above).
- The check of the space for several models counts the catalog's rounded figures and
  leaves out the scratch space of a join (`manager.go:363-369`), and counts a model that
  is listed twice twice.  The check of each model asks for the size the server names.
  A list that was found to fit can therefore be refused halfway, after a model that
  is rounded down or before one that is joined (`CountsEnough`), though `manager.go:324`
  says "a full disk fails up front rather than hours in"; and where the server names no
  size, a rounded figure can let the reserve be used up (`AsksEnough`).
- A scratchpad's temporary files stay when a process dies; the shell's group is
  signalled after the job's lock is released (`shell.go:332`), which is harmless as
  long as the PID of a group that was reaped is not used again.

## 4. Bounds

- *FileLock.*  Two processes and three inodes leave every process its own and one
  free, for all three kinds with liveness.  The races of unlinking take an owner,
  one process that has opened the old inode and one that creates a new one: the
  run that shows them has three processes and four inodes.  Processes may try
  again for ever.
- *EngineLifecycle.*  Each object is opened once, so the instance stops when all
  are closed (hence `CHECK_DEADLOCK FALSE`).  Two sessions and two goroutines let
  a close, a call and a cleanup of the same object and of different objects
  overlap; two engines share nothing but the mutex.
- *LspDiagnostics.*  `MaxTexts` and `MaxOpens` bound the edits, after which the
  system rests (`CHECK_DEADLOCK FALSE`).  `MaxPublishes` bounds publications per
  change.  Three texts are enough for one text in flight each way and one at
  hand.  A document that is not open is closed only when the pipe is empty, so
  that the pipe stays bounded.
- *ShellJobs.*  `MaxJobs` 1: two agents and a timeout can be at the one shell, each
  as a tool, an aborted run or Close.  Shells share nothing but the table, which
  Close takes as a whole.
- *PartDownload.*  Three blocks in chunks of two give a whole and a short last
  chunk; `MaxRetries` 2 a first, a middle and a last retry.  `MaxLength` 6, twice
  the object, bounds the file only with a server that ignores ranges.  An
  installed file is final, so the instance stops (`CHECK_DEADLOCK FALSE`).
- *SplitDownload.*  Three parts of two blocks: a first, a middle and a last part,
  each of which can be half there.  Two processes under one lock.
- *ModelManager.*  Two processes, each of which starts operation after
  operation, and two models that can both be the default.  `May` says which
  operations a process is used for: both download and delete, and what is done
  under the state lock alone is shared out between them, as they run the same code.
  `Kinds` are the leftovers looked at: part files in the run with liveness, lock
  files as well in the one that shows a disturbed transfer.  `Unnamed` has two
  files, which is one for each process.  Nothing is counted and nothing stops.
- *ToolTurn.*  `MaxTokens` 4 with speculative blocks of up to `Draft` 3: a block can
  lie before, over and behind the end of a budget.  `Rooms` {1, 3, 6}: no room, less
  than the budget, more than the budget with its injection.  `MaxRounds` 2: a round
  that goes on and one that must not.
- *StreamDecoder.*  Sentences of up to three words of each grammar, a word being text,
  a whole call, a tag or a part of one, after reasoning that closes or does not, cut
  at every piece; `Margin` 3 is how much of a tag is held back, in pieces.
- *LibraryInstall.*  Two processes, two versions, any number of commands.
- *ImageCache.*  Images of size 0 (unknown), 1 and 2, a cache of 0 or 2 entries and
  budgets 1 and 3: an image that fits no budget, one that evicts, and no cache.
- *SessionHooks.*  `MaxIds` 3 registrations: a function, its replacement, and one of
  a call in between.  *SessionCheckpoint.*  Prompts of up to five tokens with up to
  two images, apart, exchanged and overlapping.
- *ScratchStore.*  Three keys under a limit of two, values of up to two bytes and a
  total of three: each limit binds alone.  `MaxCalls` 3.
- The inputs of the stateless parts are in `Asked` of `MCHost`: histories of up to
  three messages of eleven kinds, also after a call; calls of one argument with a value
  of up to four pieces and of three arguments; edits of texts of up to five pieces;
  reads of files of up to three lines, raw or not, by up to three calls; searches of trees with a
  link into them; lists of up to two
  models, whose catalog figures are rounded up, down or right.

The combined runs stop because their parts do (`CHECK_DEADLOCK FALSE`).  Symmetry
is used in runs without liveness only, over processes, versions, inodes and
callers.  The components of `MCHost` and of `MCOwnership` share sets of model values, of `MCHost` one for who
acts (processes, callers, sessions) and one for what is kept (versions,
functions): a behaviour is of one component, so the permutations stay sound.

## 5. Fairness

- A call that has started runs on, and libds4 returns: weak fairness of each
  goroutine's or process's own steps.
- A lock that is free again and again is got by who waits for it: strong fairness
  of `Flock`, `LockState` and `CloseEnters`.  flock wakes its waiters in turn, and
  a Go mutex hands over to a starving waiter.
- The collector runs now and then, and so do the cleanups it queues
  (`Collect`, `CleanupRuns`).
- The language server reads what it is sent and publishes; the client's reader
  runs.  Both may stop at `ServerStops`, which is not fair.
- `RepeatSpec`: somebody downloads again after a failure, and among infinitely
  many tries a HEAD is answered, a body arrives whole, and a verification is not
  hit by a crash.  `DownloadEnds` needs the weak part only.
- SplitDownload: what was started goes on, and somebody starts again (`Step`,
  `Start`).  The property lets off behaviours that are interrupted for ever.
- ToolTurn: the run takes its steps (`Step`); what it draws is not fair in any way.
- ShellJobs: each goroutine takes its steps, and the one that watches a shell
  notices its end.  That a shell which traps SIGTERM ends by itself is not assumed.
- Crashes, failures and starts of operations (`Start` above apart) are never fair.

## 6. What is proved

All theorems hold for any constants that meet the named ASSUMEs, that is for any
number of processes, goroutines, objects, models and blocks.

- `OwnershipProofs`, lock files.  The invariant is type correctness with the descriptor
  discipline, `OwnersHold`, `PidNamesHolder`, and, for the state lock, that every
  open descriptor is on the inode the path names; that is what unlinking breaks.
  `AtMostOneHolder` and the refinement of `Mutex` follow for the state lock.
- `OwnershipProofs`, engines.  The invariant says for every object where its native
  side, `sync.Once`, cleanup and lease are relative to each other (`PhaseInv`,
  `LeaseInv`), which job may be on it (`JobInv`, `OneJob`), that what is in use is
  reachable (`ReachInv`, `BusyInv`), and, for disciplined programs, that the engine of
  an open session is open (`DisciplineInv`).  From it come `LeaseCoversEngine`,
  `FreedOnce`, `EngineCallsLive` and `DisciplinedCallsLive`.
- `SubprocessProofs`, the language server.  What is in the pipes, at the server and in the buffer was
  sent, and, with one Open, every version stands for one text.  `MatchIsOfTheText`
  follows; the hypothesis `MaxOpens <= 1` is needed, see section 3.  For a caller
  that is alone (`Alone`), however often it opens the document, the publish counter
  stays where its wait began until something is published (`Watched`), and
  `SettledWasPublished` follows, which the run checks as `SettledWasPublishedAlone`.
- `SubprocessProofs`, shells: `ShellsKept`, the safety half of `JobsEnd`.  A shell that can
  be stopped is being registered or its timeout is not over (`Attended`); what is
  listed or in an agent's hand was started (`OnlyStarted`); whoever comes to the end of a
  stop has stopped the shell (`StopsItsShell`).  That a group is signalled once needs that
  whoever is about to send the signal has noted it in the job (`SignalIsNoted`).
  `AgentsAssumption`: `MaxJobs` is a number and no agent is a timeout.
- `DownloadProofs`, one file.  The position of a request is the length of the file, and
  a file is there once bytes were asked for.  `HashIsOfTheObject` needs nothing
  else, because `Verify` and `Promote` look at the whole file; `Resumable` needs that a
  range ends where the object ends, for the server and for what it sends.
- `DownloadProofs`, the manager.  The invariant follows a section step by step (`Section`):
  what link, configuration and file are before each write, and that whoever has
  the state lock is in a section or returns from one (`OwnerInside`).  A step
  outside sections keeps all of it (`OutsideStep`), a step inside only has its own
  section to keep (`InsideStep`).  `DefaultIsTheLink`, `DeleteClearsKnownDefault`,
  `DownloadLeavesDefault` and `OnlySetOverrides` follow.  `UndisturbedByName` needs one thing
  more (`Exclusive`): no two processes hold the same lock file, with a name or without.
- `LibraryInstallProofs`.  A command is at steps of its own and what it records is a
  hash (`JobInv`); an undisturbed command is the only one (`AloneInv`), and has
  achieved what its step says (`Stage`): the library is placed, then the sidecar, then
  the metadata name its hash.  `DoneIsLoadable` is what `Stage` says at the end, from
  any directory an earlier command can have left.  `ReplacedAtomically` and
  `UnaskedKeeps` follow from the types: only four actions write the library, with any
  number of processes overlapping.

- `SplitDownloadProofs`.  The invariant is about the files (`FilesInv`: what no other
  program left is a prefix of the image, and what names a first part as assembling
  has consumed it), about whoever has the lock (`StageInv`: what each step has
  established, down to the position in the file being copied), about those that wait
  (`IdleInv`), and about space (`RoomInv`: what was granted covers the image and the
  scratch of the merge).  `AssemblyIsImage` and `VerifiedKept` follow from the first
  two.  `SpaceSuffices` counts blocks of files as a set of pairs, so that the lemmas
  of the library on cardinality apply.
- `RuntimeProofs`, one section per component:
  - *Turn.*  A token that libds4 has not is marked as lost (`Evaluated`), and the
    invariant says where one can be (`Masked`).  `SessionIsText` alone is not inductive: while a speculative block is gone
    through, the session is the text and the rest of the block (`Aligned`).  That a
    block never passes a budget needs what may still be drawn (`Fitting`); that a tail
    taken back does not take text with it needs that no proper prefix of a text is
    complete (`Unfinished`); `DrawnInMode` needs that the tokens of a block still left
    were drawn as the text now asks for (`Modal`), which is where a change of mode
    within a block must rewind.  `TurnBounds` is the hypothesis: a budget, block and
    number of rounds that make sense.
  - *Callbacks.*  Every id in a table was given out and has one owner: a session's hook
    (`SessionIds`), the call that runs (`CallIds`), or the abort function (`AbortIds`);
    no two of them are the same (`Owners`).  `HooksAccounted` is what this says of the
    tables.  `HookBounds`: the absence of a function is not a function.
  - *Session state.*  The spans that are left begin in the text (`Within`), and unless a
    sync was interrupted their images are noted, also where a cut went through one
    (`Noted`); `Promised` says what each result promises.  `PromptsAssumption`.
  - *Scratchpad.*  Whoever writes has the mutex, and what it has read and counted is
    still there (`WriterHolds`); from that the limits (`WithinConfig`).
    `PadAssumption`.
  - *Images.*  Ownership is one statement about all owners (`Owned`: the heap is
    the cache's, the callers' and the collector's buffers, which are pairwise apart),
    and holds only because an encoding that has ended has its embedding and then the
    clone in hand (`InHand`).  `WithinLimits` is inductive because `Insert` looks at the
    limits again.  `ImageAssumption`: sizes and limits are numbers; a negative limit
    does what 0 does.

- `StreamProofs`: `ContentIsText`, for any texts over any strings, cut anywhere into chunks
  and ended anywhere, in the syntaxes of DSML, GLM and Qwen, and for any `Margin`.  That
  statement is about the closed decoder only.  The invariant (`StreamIInv`) keeps, beside
  the decoder's struct, where in the text it is: what is left in the buffer is the
  text from some place *c* on, and what has gone out as content is the text from the end
  of the reasoning up to *c*, or, while a block is read, up to the place where that block
  began (`rawBlockStart`).  That second case is what makes a block that fails half way
  come out whole: the place is remembered, and everything from it on is replayed.
  There is one lemma per state of the decoder, each of which says how far the handler of
  that state moves the two places.
- `AnswerProofs`: stateless parts, for all their inputs.
  - `MergeReadsBackTheorem`: any number of shards of any length, as long as `Readable`
    and `Plannable` accept them.  The lengths of the pieces laid one after another climb
    (`SumsClimb`), so the data of a tensor lie where `Layout` says.
  - `ReadsOnTheorem`: any file, limit and sequence of calls of read and more, failing ones
    included, the one that clears among them; by induction over the calls, with what a session has shown so far
    (`Reading`) as its invariant.
  - `EditsTheMatchTheorem`: any text, old and new.
  - `ReplaysTheLastTheorem`: any calls of Remember, refused ones included, any ids and
    any bound.  The invariant over the calls (`FromCalls`) names for each entry of the
    store the call it came from: the last one of its id, in the order of the calls; and an
    id that is not in the store, which then is full, was last given a block before all
    that are.  So what counts an id out is how many others were given one since (`Lives`),
    and that is the number of entries behind it (`IdsBehind`).
  - `TextKeptTheorem`: any text, that is any sequence over any set of pieces, with the five
    pieces of a closing tag, plain and escaped, among them.  The places of the text in the
    escaped text (`Spelled`) are what relates the two.  A run of pieces such as end an
    escaped tag is written as it is, and what is written so was there (`InnerIsSpelled`,
    `InnerWasThere`); so the escaped text has an escaped tag exactly where a piece was
    written as two (`EscapedWhereTwofold`), which is where one level is taken back, and
    it has no tag (`NoEndWithin`).
  - `ListIsFetchedTheorem`: any catalog (`CatalogIs`: no published file is empty, and
    only what is joined or merged needs scratch, which the catalog of the runs meets by
    an ASSUME of `MCHost`), any list of names, known or not, with any of them twice, any
    disk, any choice of downloads that fail and of models the server names no size of.  Two inductions: over the names that are
    asked for (`PlanSoFar`, with the place of each in the list), and over the downloads
    (`ListSoFar`, with the sum of what the models so far lacked).  That a list which fits
    is not refused half way rests on that sum: what was free at first less the sum so far
    is still free, and what the next model asks for is its own part of the whole sum
    (`RoomForTheRest`).  That needs a check that counts no less than what each model leaves
    and later asks for, which is what `CountsEnough` says.

  The induction theorems of the library take an operator as a parameter, which the
  provers cannot instantiate.  What takes their place here is `Induction`, stated with a
  *set* of numbers and proved from `LeastNat` (a set of numbers that has an element has a
  least one, which is a theorem on finite sets), and `Recursion`, that a recursive function
  over an interval exists and meets its equation.  So what recursive *functions* and the
  flattening of sequences compute for every input is proved; RECURSIVE operators are out
  of reach.

Models were changed where a proof could not be had, or found them wrong:

- `ToolTurn`'s `Verdict` was a CASE whose guards overlapped (a cause noted earlier, and a
  text that is complete by now); it is the IF and ELSE of the code now.
- `EditsTheMatch` was false for a marker in the part of the old text behind the marker:
  `findEditSpan` takes such a tail for one that is not there, and says so, even where the
  file has the marker in it.  The bounded inputs had no marker in the file; they have now.
- That the decoder loses and doubles nothing was never said of the decoder alone, only of
  its agreement with the parser, which excepts rejected blocks in part.  `ContentIsText` was
  found as what the invariant comes to, and is now part of what `StreamIsFaithful` checks.
- `JobsEnd` said only that stops return and shells end, which fairness grants to a stop that
  forgets its shell as long as the timeout comes.  It now begins with what the safety proof
  found: `StopsItsShell` and `SignaledOnce`.
- `MeetsReference` said of the texts of a call only what its arguments come to.  That an
  escaped text cannot close its tag, and comes back alone, was found to be the statement
  the proof is about (`TextKept`), and is now checked with it.  `ReplayStore` states its
  bound as the code does (`Bound`, of any integer), and what counts as a block once
  (`Counts`).
- Sums of sizes and filtered sequences in `SessionCheckpoint`, `ScratchStore`,
  `SplitDownload` and `ImageCache` are stated as sets of bytes, prefixes and single moves;
  `Before` of `GGUFMerge`, the sessions of `ReadsOn` and the loops of `DownloadPlan` are
  recursive functions, and its catalog is a constant; where the encoders of a list are is
  said by their places (`EncodersSlotIn`: right after their models), which the filtered
  list that was compared before did not tell; and the recursive operators of the parser and of search are in modules of their own.

Only model-checked: everything under fairness (`WaiterServed`, `LeakedEngineFreed`,
`BufferConvergesAlone`, the other half of `JobsEnd`, `DownloadEnds`, `ResumedToTheEnd`, `OperationsEnd`,
`DownloadsEnd`, `RunReturns`), which the proof system cannot reach; the rest of
`StreamIsFaithful`, that is the agreement with the parser, and search, because the parser and
the search are RECURSIVE operators, which the prover cannot expand; the other stateless
parts of `MeetsReference` (prompts, the elements and types of arguments, prefix files,
assets, holders), each a fold or a comparison with a definition that reads the input
another way; the parser of arguments is RECURSIVE besides.

## 7. What is not modelled

Whole parts, because they keep no state of their own or are I/O:

- the loader and the struct layouts (a one-time load), the catalog and paths
  (constant tables), ROCm detection (it reads the system), the web tool (HTTP and
  HTML), the command line (flags, prompts, drawing), the examples;
- stderr capture: the redirection of a descriptor, where all that matters happens
  in the kernel and in libds4;
- token vectors: one owner each, with single calls to free and copy.

Of modelled parts:

- *Download.*  The write errors of the local disk in `PartDownload` (`SplitDownload`
  has them) and the progress display.
- *Model manager.*  Reports that only read (`DownloadStatus`, `DownloadDryRun`,
  `Leftovers` of kinds other than partial downloads), and the quarantine files once
  written.  A server that answers a range with an empty success, for ever.
- *Language server.*  Hover, symbols and completion: they forward a request and
  keep nothing.
- *Native session.*  Snapshots, payloads, layer slices, steering and logits: the
  mock, which is all the repository says of libds4, does not tell what they do to
  a checkpoint.  A callback that calls back into the binding waits for itself.
- *Generation.*  Generation without a tool loop, and the options that pass
  through.
- *DSML.*  Entity escapes and canonical JSON inside a value, near-miss markers,
  fragments of arguments before they are complete.
- *Installer.*  HTTP, archives, wording.
- *Workspace files.*  Paths and their confinement, list, write, view_image, the
  confirmation.  *Shell jobs.*  Children of a shell and the output file.
- *Scratch store.*  Two processes that share a session (its documentation excludes
  them), the head and tail of a get.

## 8. Plan

What could be added, in this order:

1. Proofs: the other stateless parts of `MeetsReference`.
2. `SessionHooks` with `EngineLifecycle`: a hook that is released while the cleanup
   of its session is queued.
3. Canonical JSON and entity escapes below `CallArguments`.
