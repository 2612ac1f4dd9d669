# FlashGate MCP: specifications, model checking and proofs

FlashGate is a Model Context Protocol server written in Go. It speaks JSON-RPC,
one message per line, on standard input and output, and gives its client tools
that read and change files below one configured root. Around it the repository
holds the tools that measure it (`internal/benchmark`) and that release it
(`cmd/releaseaudit`). This directory holds TLA+ modules translated from that
code, the TLC configurations that check them on small instances, and proofs
that TLAPS checks for every instance.

`PROJECT.json` lists the components, the runs, a mutant of the code for each
property (the property must fail on it), the source lines each definition
models, the hazards the properties are aimed at, and the theorems.

## 1. Inventory

### The server (`src/cmd/server`, `src/internal`)

| Component | State | Operations | Interacts with |
|---|---|---|---|
| stdio transport (`mcp/transport/transport.go`) | buffered reader and writer, the line being collected | `ReadMessage`, `discardLine`, `WriteMessage`, `WriteMessageUnlimited` | called by the request loop; the client is at the other end |
| request boundary (`mcp/server/request_validation.go`, `mcp/revision`, `mcp/router`, `mcp/initialize`, `mcp/tools/tools_call.go`) | none: the policy and the registry are fixed at startup | `validateRequestMessageWithLimits`, `Inspect`, `DispatchRevision`, the handlers' own checks | request loop → router → handler → tool |
| request loop (`mcp/server/server.go`) | context, the message in hand, its response | `Run`, `handleRequest` (recovers panics), `writeResponse`, `writeError` | reads and writes through the transport, calls the router |
| tool adapters (`mcp/tools`) | none | decode arguments, call the file system, wrap results, classify errors (`tool_error.go`) | handler → tool → `internal/fs` |
| file operations (`internal/fs`) | the directory tree; nothing in memory between calls | `Write`, `Mkdir`, `Delete`, `Copy`, `Move`, `Read`, `List`, `Stat` | ask the path guard first, then make system calls one by one |
| path guard (`security/path.go`) | the resolved root, the policy | `ResolveExisting`, `ResolveForCreate`, `AllowListEntry` | consulted by every file operation |
| startup (`cmd/server`, `internal/config`) | configuration from the environment | parse arguments, load and validate, build tools and router, run, choose the exit status | builds all of the above; its parent sees the status |
| diagnostics, version | none | format a log line, report build data | - |

### The benchmark (`src/internal/benchmark`, `src/cmd/benchmark`)

| Component | State | Operations | Interacts with |
|---|---|---|---|
| runner (`runner.go`) | the scenario and request it is at, the answers, the samples, a temporary corpus | start a server, write and read requests, close its input, wait for it against a timer and a context, kill it, judge the samples | a real server process over two pipes |
| result file (`output.go`) | two directories held open, a temporary file | open and identify the directories, write, look again, rename, unpublish, clean up | the file system, which others change |

### The release tools (`src/cmd/releaseaudit`)

| Component | State | Operations | Interacts with |
|---|---|---|---|
| publication (`publication*.go`) | the journal of an approval, the evidence, the release it is bound to | gate, verify the evidence, create or continue a draft, transfer assets, publish, read back; one intent per request | the release page on its host; the workflow that runs it |
| normalization (`publication_normalization.go`) | the journal, the approved snapshot of the page | add the checksum asset, delete assets one by one, reconcile | the same page, after a publication |
| candidate promotion (`candidate.go`) | the root's lock, a candidate directory, the alias `current` with its temporary and backup files | lock, look, stage, rename, read back, exchange the alias, tidy up or roll back | other promotions and generations on the root |
| evidence generation (`supplychain.go`) | an output directory | verify the candidate, stage, rename | promotions, which make its input |
| staged rename (`stage_rename.go`) | a stage, bound by identity | rename with retries, look before each, clean up | used by the two above |
| audit checks (`source.go`, `security*.go`, `main.go`) | none | validate archives and documents | - |
| developer tools, `scripts/`, workflows | none | one-pass checks, generators and their orchestration | - |

### What is hard here, and what makes each part right

* *Transport.* The limit is tested byte by byte, before the newline is looked
  at; `discardLine` then looks for *the next* newline. The buffer must be
  bounded, no line lost or joined with another, the end of the stream seen.
* *Request boundary.* Four packages each check a part of a message; which of
  several errors wins decides which id the reply carries. Only a well-formed
  message without id is silent; a tool must be reached only through every check;
  the two protocol revisions must not leak into each other.
* *Request loop.* Requests are pipelined, responses can be too large, tools can
  fail or panic after they have acted, the output can break, the context can be
  cancelled at any moment. Answers must come once, in order, under the right id,
  and none may be missing for a tool that acted.
* *File operations.* Each is a sequence of system calls in a tree that other
  processes change: what was looked at is not what is opened, renamed or
  removed later. A call may be repeated by its client, fail half-way, or be cut
  off by the end of the process. Alone it must act as if it were atomic; raced
  it must never destroy what it has not been told to.
* *Path guard.* No path outside the root, hidden names refused, links resolved.
* *Startup.* Which of many checks fails first decides category and status, and
  nothing may be served before all of them have passed.
* *Publication and normalization.* A request may take effect although no answer
  comes; the run may crash at any point, be re-run, be dispatched a second time;
  other people edit the page. Each approved request must be sent at most once
  and only from the page that was just read, and what the journals say must
  suffice for a human to settle what a stopped run left behind.
* *Promotion and generation.* Several names are replaced one after the other; a
  rename that is retried may already have happened; a rollback must remove only
  what its own run created; two commands share a root, a generation without a lock.
* *Benchmark.* The exit of the child, the failed close, a five-second timer and
  a thirty-second context race: a sample must count in none of the bad orders,
  and no server may be left behind. The result must never overwrite the
  protected baseline although others exchange directories.

The hazards are listed in `PROJECT.json`, each at its line, with the properties
that watch it.

## 2. The modules

```
Transport --implements--> LineTransport      Requests --> RequestPipeline --> MCRequests
                                \            /          /
                                 \          /   Startup --> ToolCalls
                                 McpServer  --implements--> RpcService
                                     |
                                 MCMcpServer

Disk --> FsContract --> FileOps --> MCFileOps

ReleaseHost --> OneShotRun --+--> Publication   --> MCPublication
                             |        \
                             |         implements--> OneShotLedger
                             |        /
                             +--> Normalization --> MCNormalization

StageRename --> Promotion --> MCPromotion

Startup --> MeasuredProcess --+
                              +--> Benchmark --> MCBenchmark
            ResultFile -------+
```

Proofs: `IntakeProofs` (Transport and RequestPipeline), `McpServerProofs`, `OneShotProofs` with
`PublicationProofs` and `NormalizationProofs`, `PromotionProofs`, `BenchmarkProofs`,
`FileOpsProofs`.
Each module holds its mutants next to what they mutate, as `Name_Mutation`.

### The server

**LineTransport** models a `ReadMessage` call as one step per line. A line is its
length, newline included, because that is what the code compares with the limit.
`fate` says what became of each line: returned (`message`), refused
(`rejected`), or lost (`swallowed`). The last happens when the byte that exceeds
the limit is the newline itself: `discardLine` has then not seen a newline yet
and consumes the following line (`discarding`).

**Transport** is the same code byte by byte: `line` counts the bytes buffered,
`off` those consumed of the current line, `pc` says whether the call is in its
loop or in `discardLine`. The client writes bytes one at a time and may close at
any of them. `Lines == INSTANCE LineTransport WITH ...` is the refinement
mapping.

**Requests** is the request boundary as operators: a message is a record that
keeps what the checks tell apart (is it JSON, an object, version "2.0"; its id;
its method; shape, size and read members of its parameters). `Validate`,
`Inspect`, `Route`, `HandlerCheck` and `Dispatch` follow the code check by
check, in its order. **ToolCalls** is what the eight tools make of a call: the schema each
advertises, the strict decoding of its arguments into its Go fields, and the call on the
file system that follows. Values are classes (an empty, blank or other string, a
boolean, an integer below, within or above the server's limit, a whole number that Go
does not read as an int64, null, anything else). A member may be spelled in another letter
case and may be repeated, because `encoding/json` takes both: of each the object keeps
the value that counts, its spelling, and the occurrences before it.
**RequestPipeline** sends every message through all of them, call and arguments included.

**McpServer** is `Server.Run`, with LineTransport for reading and Requests for the
checks. Its actions are the stretches of code between two points at which
something outside can be seen or can intervene:

| Action | Code |
|---|---|
| `CheckContext` | `ctx.Err()` at the top of the loop |
| `ReadRequest`, `ReadTooLarge`, `ReadEnd`, `ReadFails` | `ReadMessage` and the four ways its result is treated |
| `ValidateRequest` | validation, the error reply, the silent `continue` |
| `HandleWithoutTool`, `ExecuteTool` | `handleRequest`, with its deferred recover |
| `ReplaceOversized`, `WriteReply`, `WriteFails` | `writeResponse`, `writeError`, the transport's write and flush |
| `ClientSend`, `ClientClose`, `Cancel` | the environment |

What a tool does to the files, and how it ends, is left open. **RpcService** is the
abstract specification: lines are settled one after the other, each by one
answer of the kind its message allows, or silently; `settled` is derived from
the place in the loop (`Settled`).

**Disk** is the directory tree as system calls see it: inodes linked at paths,
a free inode being used again at once so that a replaced file can have the
identity of the old one; of contents only sizes. It is external: `internal/fs`
shows which calls it makes and which answers it tells apart.

**FsContract** states what a tool call promises if nobody interferes: when it is
`Permitted`, its `Effect` on the view of the tree, the `Footprint` it may take something
away from, and the `Product`, where it may make something appear. **FileOps** is the code,
one system call per step: `pc` names the next one, `seen` holds what the call has learnt.
The path guard's verdict is the first step or two. Another process (`Others`) creates,
removes, writes and renames between any two steps of a call, and writes, copies and
recursive removals may fail half-way (`Break`).

### The release page

**ReleaseHost** (external, except for the provider calls of `publication_github.go`)
is the release page: the releases that carry the plan's tag, each with its flags
and assets; requests that were sent and may take effect later than anyone waits
for; other people. A page is read in several calls (`look` holds what has been
read so far), and `disturbed` remembers that somebody changed it meanwhile.

**OneShotRun** is what the two operations share: workflow runs carry an approval
(`dispatched`, `started`, `attempt`), pass a gate, create their journal
exclusively, and then repeat: write the intent, send the request once, go on only
on a clear answer. A run may crash anywhere, the workflow may be re-run, the
command invoked again in the same run.

**Publication** and **Normalization** add their own steps: what is fetched and
verified, which page is expected at which intent (`ExpectNames`, `LookDone`), the
request of each intent (`IntentRequest`), the verified end.

**OneShotLedger** is the abstract specification: per approval a number of intents
written and, per intent, of requests sent; a request follows its own intent, at
most once, and never an older one.

### The candidate root

**StageRename** gives a directory an identity and, per file, whether its bytes are
the planned ones. A rename may succeed, fail, fail after it took place, or be
refused; `PreState` and `OwnedTarget` are the two looks by identity; `Retry` looks
at everything again. Others exchange stages and targets (`ForeignDirectory`);
`stale` and `dirty` remember that they did so after the last look at the identity
and at the content.

**Promotion** adds candidate-promote and supply-chain-generate, call by call: the
lock, the alias with its temporary file and backup, and the deferred end, which
tidies up or restores alias and candidate in the order of the code, the lock
going *before* the candidate. Every call may fail, every run may be killed; a lock
nobody holds may be cleared by hand.

### The measured server

**Startup** is the start of the server as operators: arguments, environment and root
as classes of values, the checks in their order, the category and the status.
**MeasuredProcess** is that server as its parent sees it: it boots, answers in
order, ends at the end of its input, and may hang, crash or lie instead; the
parent kills it, or the expired context does.

**ResultFile** is `writeResultFile`, one call per step, against others who exchange
the output directory, the baseline directory or the target's entry between any
two. **Benchmark** is the runner on top of both: scenario after scenario, then the
judgement and the result. In place of the benchmark any client may start the
same server, in any environment and on any root.

## 3. The runs

| Run | Shows |
|---|---|
| `transport` | Three lines of up to four bytes, a limit of two. The buffer never holds more than the limit and one byte (`BufferBounded`); every read, whatever way the bytes arrive, is one step of the line-wise reader (`ImplementsLines`); every complete line is consumed (`LinesConsumed`). |
| `requests` | All abstract messages with two ids and the eight tools, with the production policy and with both revisions enabled; for a call every arguments object of at most two members and those of three that the tools have, with members in another letter case and repeated ones. A reply echoes the id exactly when it could be read, and only well-formed notifications get none (`RepliesRight`); a tool runs only if every one of the four packages accepts the message, an envelope grants nothing, the revisions do not mix, no call is made for arguments that the advertised schema does not admit as they are read, and one is made for all that it admits but for a blank path, repeated members and a `maxBytes` that is no int64, writing only for tools that write and overwriting only when told to (`OnlyThroughEveryCheck`). |
| `server` | Three lines, from five messages at the limit and a call above it, pipelined, with cancellation, read and write failures and oversized responses. The inductive invariant (`IndInv`); each line answered once, in order, under its id, if it is owed an answer (`AnsweredOnce`); a tool at most once per accepted call, and what it did is answered before anything else is handled (`ToolsAccounted`); at most one message after cancellation, nothing unanswered at a clean end (`EndsCleanly`); the refinement (`ImplementsService`); a client that reads what it is sent has each line dealt with, unless `Run` returns or waits in a discard (`LinesDealtWith`). |
| `server_lockstep` | *Violation* of `OverlongRejected`, see below. |
| `fs_quiet` | Every pair of calls on every tree over five paths, with and without faults: a call acts at once, as the contract says, or reports a fault (`ActsAtOnce`); repeating it changes nothing (`RepeatHarmless`). |
| `fs_race` | One call against two changes of another process. What nobody named or touched survives, and nothing appears but what the call names, parents of a failed `Mkdir` included (`ChangesOnlyNamed`); typed errors mean that nothing happened, listings are true (`ReportsTrue`); limits hold for files not changed after they were looked at and for entries that others leave alone (`LimitsRespected`); each step destroys at most what the call was told to: nothing without overwrite, no contents by a plain delete, at most the target by a move (`DestroysAtMost`); every call returns (`CallsFinish`). |
| `fs_self_copy` | *Violation* of `CopyKeepsSource`, see below. |
| `publication` | Two assets, two approvals, one of them dispatched twice, with crashes, re-runs, late and lost answers and a foreign change anywhere. Each request follows its own durable intent, once (`ImplementsLedger`, from `IndInv`); undisturbed, the journals explain everything on the page (`JournalExplainsPage`); nothing is sent and nothing is reported but from a page that was read back, unless others changed it between the calls of that readback or since (`ActsOnWhatItRead`); every run ends although the host need not answer (`RunsEnd`). |
| `normalization` | Three assets, one of them retained, three approvals. The same ledger; undisturbed, the page is always a state that reconciliation recognises (`PageRecognisable`); what is deleted is what the approval named, under its identifiers (`DeletesWhatWasApproved`); `RunsEnd`. |
| `promotion` | Two commands on one root. What a run reported, or verified as present, stays complete (`VerifiedRetained`); whoever follows the alias gets a complete candidate or what restores the one that was promised, after one failure (`AliasSafe`); after one failure the alias is as it was found and no lock, stage or candidate is left, but for a directory retained on purpose because it could not be bound or accounted for (`FailureUndone`); nothing half-made appears and strangers are left alone (`OnlyWholeOnlyOwn`); `RunsEnd`. |
| `promotion_same` | *Violation* of `VerifiedRetained`, see below. |
| `benchmark` | Three scenarios. Samples are whole, clean runs of the profile asked for (`SamplesTrue`); every server is waited for, none runs without its corpus (`ServersGone`); the status tells a supervisor the truth (`StatusTells`); the baseline stays untouched, the target's name never leads to half a result; unless others exchange it, a status other than 1 means that this run's result is there, and 1 that nothing changed or that a call failed after the rename and the result is complete or removed (`ResultSafe`); benchmark and orphaned servers end (`EveryoneEnds`). |

### Bounds, and why they are enough

* Lines: lengths 1 to 4 around a limit of 2 contain a line at the limit, one byte
  above it and further above it; three lines let a refused line swallow the next
  and be followed by another. The unterminated rest takes both sides of the limit.
* Messages: one for each way through the loop (a tool call, a notification, a
  request without a tool, one the handlers refuse, one validation refuses).
  `requests` covers all messages without the loop.
* Trees: the root, two directories or files and one entry below each give every
  relation two paths can have (same, above, below, beside, below a file, missing
  parent). Sizes 1 and 2 lie on both sides of the limits. Two calls suffice for a
  repetition; nothing else is kept between calls.
* Interference with the tree: two changes let a checked entry be removed and
  another put in its place, with the same inode. A change between two calls is
  just another initial tree, so changes only happen while a call is under way.
* Releases: two assets give a first, a last and an "already there" transfer; of the
  three of a normalization one is retained and two are deleted, so that there is a
  deletion between two others' readbacks. Two approvals, the first dispatched
  twice, let a second run meet the journal of the first, and a second operation
  continue its draft. One foreign change reaches every readback. `MaxId` leaves room
  for what these runs can create.
* Promotion: two processes with one run each, with different candidates and one
  common output, let a promotion meet a promotion (the lock, the alias), a
  generation its source being made, and two generations race. A killed process is
  the first of a crash and restart, the other one the second; with a single run
  each, backups of *earlier* runs of the same process (`kept`) stay empty. Two tries give one
  retry. Two failures or kills and one exchange let a failure happen in the
  handling of another; `AliasSafe` and `FailureUndone` speak of one.
* Benchmark: three scenarios cover both profiles, with and without a tool call;
  two failures let one happen while another is handled. Environments are classes:
  one value per answer of the parsers.
* `MaxLines`, `MaxCalls`, `MaxForeign`, `MaxFaults`, `MaxSize`, `MaxId`, `MaxRuns` and
  `MaxDispatch` are bounds of the models, not of the code; all limits named `Max...Bytes`
  and `Max...Entries`, and `MaxTries`, are the code's.

Runs whose system really stops (the client has closed, `Run` has returned, the
last run has ended) say `CHECK_DEADLOCK FALSE`; the FileOps runs check for
deadlock, with a last `Done` step for the end of the bounded run.

### Fairness

* `WF(Reader)`, `WF(Unaided)`, `WF(Work)`: the one goroutine that executes the server's
  code goes on while it can; there are no locks and no other goroutine it could
  wait for. It can wait for its client: for bytes (then no reading action is enabled), and
  in the flush of a reply, for as long as the client does not read. `WriteReply` is
  therefore in no fair action, and nothing is assumed of the client or the caller of
  `Run`. `LinesDealtWith` and `OverlongRejected` are about a client that reads:
  `ClientReads` says that `Run` never stays in a flush for ever, and is their
  premise. `LinesDealtWith` also excepts a reader that waits in `discardLine`
  for bytes the client does not send.
* `WF(RunStep)`: a workflow run goes on; every wait for the host has a timeout
  (`publication_github.go`), so that giving up is always one of its steps. The
  host owes no answer, requests in flight need never take effect, and nobody has to dispatch
  anything.
* `WF(Step(p))`: a command on the candidate root goes on. It waits for no
  lock (it fails if there is one) and its retries are bounded.
* `WF(Runner)`, `WF(Timers)`, `WF(Server)`: the runner goes on, time passes, and a server
  that does not hang goes on. A hanging server owes nothing: the timers end it.
* Faults, kills and other people are in no fair action: a fault that had to
  happen would make every promise come true by ending the program.

### Where code and documentation differ

* **A message exactly one byte too long** (`server_lockstep`). `docs/security.md:218`
  says that messages above the cap are rejected with `id:null`. If the newline is
  the byte above the cap, `discardLine` (transport.go:96-103) waits for another
  newline: a client that waits for the rejection before it sends more waits for
  ever, and a client that does not loses its next message without an answer.
* **A file copied onto itself** (`fs_self_copy`). `copy_path` with overwrite and equal
  source and target opens the target with `O_TRUNC` while it is the source, copies
  nothing and reports success. `move_path` refuses the same case (move.go:25).
* **Two promotions of one candidate** (`promotion_same`). `docs/artifact-verification.md:193`
  says that preexisting verified identities are retained, and `candidate.go:550` that
  the lock is released last. After a failure the lock goes first
  (`candidate.go:590`) and the new candidate is removed after it
  (`candidate.go:604`): in between another promotion can take the lock, verify the
  candidate as existing, point the alias at it and report success, and
  then lose it to the rollback of the first. With different candidates this cannot
  happen (`promotion`, and the theorem `RetainedWhenApart`).

Observed on the way, and part of the models as the code has it:

* `delete_path` of "." removes the configured root itself (the contract permits
  it, as the code does), after which every later call fails.
* The tools accept members in any letter case (`{"Path": "x"}`) and repeated members, because
  `encoding/json` does, although their schemas and `docs/tools.md:20` refuse unknown
  properties. `read_file` refuses a `maxBytes` of `1.0`, `1e2` or above int64, which its
  schema admits (`integer`, no maximum); `docs/tools.md:81` says larger values are capped.
* `read_file` and `copy_path` can exceed their size limits if a file grows between
  `Stat` and the reading.
* A recursive `delete_path` counts its entries first (delete.go:22): what others add
  between the count and the removal is deleted too, beyond `MaxDeleteEntries`
  (`docs/security.md:215`). `DeleteWithinLimit` does not count such entries.
* If the benchmark's last look at its directories fails, even by a failing `os.Stat`, the
  result just renamed to its place is removed (output.go:139-141): the run ends with status
  1, and the result it replaced is gone as well.
* A rename of the alias that takes place and yet reports a failure (candidate.go:714-722)
  is believed: after the first rename the rollback removes the backup, the only place of
  the old alias; after the second the alias stays and names a candidate that is rolled
  back. The model has it (`Misreport`), counted as two failures.
* A promotion that cannot bind its stage (candidate.go:645) leaves the directory behind,
  and says so.
* Between the `Lstat` inside Go's `os.Rename` and `rename(2)` another process can put an
  empty directory at the target, which a moved directory then replaces
  (`RenameLooks`, `MoveRename`).
* A promotion whose lock cannot be removed at the end has already removed the
  alias's backup; if restoring then fails too, the message speaks of a retained backup
  that is no longer there. Two failures can leave the alias missing, torn, or naming a
  candidate that was rolled back: hence `faults <= 1` in `AliasSafe`.
* The loser of a race between two generations of one output keeps its stage: the
  target is not its own, so it touches nothing.

## 4. What is proved

All theorems hold for every value of the constants the modules' assumptions admit.
`PROJECT.json` lists them with the properties they state.

| Module | Theorems | Property |
|---|---|---|
| `IntakeProofs` | `BufferCorrect`, `LineWise` | `BufferBounded`; `ImplementsLines`, the refinement of LineTransport |
| | `RepliesCorrect`, `ChecksHoldTogether` | `RepliesRight`, `OnlyThroughEveryCheck` |
| `McpServerProofs` | `Invariance` and `TypeCorrect`, `OrderCorrect`, `AnswersCorrect`, `IdsCorrect`, `ToolsCorrect`, `EffectsCorrect`, `CancelCorrect`, `DrainCorrect` from it | `IndInv` and its parts |
| | `ClientCorrect`, `ToolUseCorrect`, `EndCorrect` | `AnsweredOnce`, `ToolsAccounted`, `EndsCleanly` |
| | `ServiceImplemented` | `ImplementsService`, the refinement of RpcService |
| `FileOpsProofs` | `FilesTyped`, `FilesChangeOnlyNamed`, `FilesDestroyAtMost` | `TypeOK`, `ChangesOnlyNamed`, `DestroysAtMost` |
| | `FilesReportTrue`, `FilesRespectLimits` | `ReportsTrue`, `LimitsRespected` |
| | `FilesActAtOnce`, `FilesRepeatHarmless` | `ActsAtOnce`, `RepeatHarmless` |
| `PublicationProofs` | `Invariance`, `PublicationOneShot` | `IndInv`; `ImplementsLedger` |
| | `PublicationExplained` | `JournalExplainsPage` |
| | `PublicationActsAsRead` | `ActsOnWhatItRead` |
| `NormalizationProofs` | `Invariance`, `NormalizationOneShot` | `IndInv`; `ImplementsLedger` |
| | `NormalizationRecognisable` | `PageRecognisable` |
| | `NormalizationDeletesApproved` | `DeletesWhatWasApproved` |
| `PromotionProofs` | `WholeAndOwn` | `OnlyWholeOnlyOwn` |
| | `PromotionTyped` | `TypeOK` |
| | `RetainedWhenApart`, `AliasSafeWhenApart`, `UndoneWhenApart` | `VerifiedRetained`, `AliasSafe`, `FailureUndone`, assuming that no two processes promote to one target |
| `BenchmarkProofs` | `ServersAccounted`, `StatusTrue`, `SamplesCorrect`, `ResultCorrect` | `ServersGone`, `StatusTells`, `SamplesTrue`, `ResultSafe` |
| | `BenchmarkTyped` | `TypeOK` |

*The intake.* `InLine` and `InCall` say of the byte loop how much of the line in hand has
been consumed and held; the refinement maps each byte to a step or a stutter of the
line-wise reader. `PipelineInv` keeps what validation and dispatch have established
until the call is made; how far each tool's decoding and its schema agree is one lemma per
tool (`Checked`), member by member, for any spelling and repetition.

*The request loop.* None of its properties is inductive alone. That answers are in order
needs to know that the line in hand lies behind every answered one
(`OutputSound`); that a new answer is owed and carries the right id needs to know
which line the reply in hand is for (`ReplyInHand`), and this differs in three
cases: the line just consumed, the one before it if that was refused and its
successor was swallowed, or the unterminated rest. `LineInHand` ties `pc` to the
fate of the last line, so that, for instance, `discarding` implies that this line
ended exactly on the limit (`FateSound`). `RunsBeforeHand` keeps the tool runs
behind the line being handled. `IndInv` is the conjunction; there is one
lemma per action, with one step per conjunct the action can disturb.
`CancelStopsIntake` and `EndedMeansDrained` have small inductive invariants of
their own, relative to `IndInv`. The refinement `ServiceImplemented` adds one more,
`KindInHand`: the reply being written is an answer the service allows for its line, and
an internal error is allowed too while the reply can still be replaced by one. Then each
step of the client is `Ask` or `Hangup`, a notification is `Ignore`, a written reply is
`Answer` or `RefuseTail`, and every other step leaves what a client can see alone.

*File operations.* The proofs are for any finite set of paths that contains the
directories above each of them (`DiskAssumption`), any limits, any set of calls, any
initial trees and any number of changes by others; the paths only have to leave room for
what a move takes along (`HasRoom`: otherwise the model would drop entries that the file
system keeps). Lemmas about prefixes and about each system call on the disk
(`CreateKeeps`, `UnlinkKeeps`, `StoreKeeps`, `RenameKeeps`) say which lookups a change
leaves alone (`SameAt`). From these, `WorkEffect` reduces the 31 steps of the server to
five effects (made, truncated, wrote, removed, renamed) or none, and `OthersEffect` the
other process to "changes the paths it touches". The inductive invariant is `SafeInv`:
`ControlInv` (which call is at which system call, with what in hand), `DiskInv` (the disk
is a tree, one path per inode), `ChangedInv` and `UnchangedInv` (until the first system
call that changes something the tree is as it was, except for what others touched),
`SurviveInv`, `OpenedInv` (the file open for writing is the call's own or one it may
overwrite: without it a write could reach a file through an inode used again) and
`MoveInv` (what the second look at a target has shown is still so unless somebody touched
it since). Four more invariants stand on it: `AppearInv` (whatever is there now, was not
there before and nobody else touched is at a path the call makes, the directories of a
`Mkdir` being made from the top, so that the leaf comes last), `ListInv` (names collected
and entries remaining are together those that are there), `LimitInv` (the size looked at
is that of the inode that is read), `WalkInv` (what is at stake and no longer ahead of the
walk has been counted, and nothing is removed before all of it is; of what others add
later it says nothing).

*Acting at once.* `AtOnceInv` says what a call knows that has run without a fault and
without interference so far. `Knows` says so per operation: at each of its system calls,
which of the contract's conditions have been found true and which of its effects are on the
disk already. For the operations that change one entry this is a fixed list of places; where
a loop is, it is about the rest of the work: parents still to be made are the missing
ones, in order, and those above them are there (`Parents`, `Ready`); what a walk has counted lies below
nothing it has still to visit (`Orderly`, `Passed`), so that the count at its end is the
contract's; a recursive deletion has taken away nothing but entries below the path (`KnowsWalk`).
`Outcome` is what that comes to: success exactly if the contract permits the call, and then
the tree is the contract's (`Left`: a file copied onto itself is left empty, see
section 3), otherwise the old one. There is one lemma per system call (`GoesBy...`).
A repetition is harmless because the contract's effect, applied again where it is permitted,
changes nothing (`TwiceAsOnce`): `AgainInv` keeps that a repeated call begins with a tree that
the same call has left.

*The one-shot promise.* `IndInv == TypeOK /\ HistorySound /\ PlaceInRun` in both
operations. `HistorySound` says how the workflow's history and the ledger hang
together: nothing is written or sent by a run that has not begun, no request without
an intent, and the first run of an approval has its journal open once it has
written. `PlaceInRun` ties the
place in the protocol to the ledger: past its gate a run is the only one of its
approval, and before `send` its intent is the last one written and has not been
acted upon. From any such state each step is `Announce`, `Send` or a stutter of
`OneShotLedger`. `OneShotProofs` proves what the host, a readback and a
run's common steps keep, once for both.

*What the page shows.* Both properties speak of the host's page, which changes whenever a
request lands, long after its run may have died; so their invariants bind the
page, the wire and the place in the run together. `Explained` (publication): whatever is on the
page or still on the wire was announced (`PageAnnounced`, `WireAnnounced`); a live
request is the one the run waits for, so that a clear answer means it landed
(`LiveIsWaitedFor`, `OkMeansLanded`); every intent followed by a later one took effect,
and so did the one before the run's stage (`PastTookEffect`, `StageFollows`); an upload
is exact because the evidence was whole at the gate (`EvidenceWhole`). `InOrder`
(normalization): the page holds the originals less the first *k* deletions, under their
identifiers, and at most one checksum asset, exact if *k* > 0 (`PageSound`); on the wire
are only uploads of the checksum and deletions whose predecessors are already gone
(`WirePlanned`), because a run that is about to delete has read so (`DeletesInOrder`).
Deletions that are gone stay gone, which keeps a late one harmless. Neither is inductive
without `IndInv`, on which both stand, and both hold until somebody else changes the page.

*What a run acts on.* `ActsOnWhatItRead` and `DeletesWhatWasApproved` also hold when others do
change the page, as long as that does not happen between a readback and what rests on it
(`disturbed`). In both, `ReadInv` says that identifiers belong to one release each
(`IdsOwned`, so that what is read by identifier is one release); that at most one
request is waited for, and only at `wait` (`OneWaited`): any other that lands disturbs, so a
request abandoned by an earlier run cannot change the page unnoticed; and that what a
readback has compared so far is so on the page (`AsRead`), call by call, until the request
is sent. A deletion compares less than it relies on: after its first readback it checks
names and, but for the checksum, planned identifiers. That this leaves no page but the
approved one less the deletions so far needs the snapshot to be a full page
(`SnapshotApproved`), hence to have one asset of each name (`OneOfEachName`, by counting).

*Promotion.* `CoreInv` says that a run that is about to rename or remove a stage
has its own there, or somebody exchanged it since, and that what it is about to
rename was verified, or damaged since. `Fits` says what any one step of a run may do
to the directories and to what is relied on; there is one lemma per group of
actions. `WholeAndOwn` follows from the two. For `RetainedWhenApart` the invariant
`RetInv` adds that a target a promotion has created is relied on by nobody while the run
goes on, and that from its own verification to its end the target is intact
unless something failed. The assumption `Apart` enters where *another* run's rollback
meets that target. `TypeInv` adds to the types that a run that is to rename once more
has attempts left.

The alias is harder, because what must be true of it depends on where the run that holds
the lock stands. `PlacesInv` first says what a place tells of a run's past (nothing has
failed before its end; the alias is untouched before the swap; a stage that was promoted is
gone) and that whoever is between its lock and its release holds the lock, hence is alone. On
that stands `AliasInv`, for at most one failure: the alias names an intact candidate
or nothing; if nothing although something was promised, a run in charge knows what it was or a
backup nobody will touch again holds it (`Backed`); and of each run in charge, where the
alias is (`AliasPlace`), that what it found is still intact (`OrigSafe`), and that a target it
created is neither what it found nor yet the alias (`NewTarget`), so that a later rollback
takes nobody's alias away (`RollingInv`). "At most one failure" is used where a run is
killed with the alias away: nothing has failed before, so it was not putting it back, and
its backup is complete (`KilledBacks`). `UndoneWhenApart` adds `UndoInv`: as long as nobody
interferes, a promotion's stage or target is its own and whole wherever it may have to be
taken away (`Whereabouts`), and a run that has failed has used up the one failure
(`Knows`), so that every step of its undoing succeeds. All of this is for any number of runs of
each process, so with backups that earlier runs left behind, which the TLC runs have not.

*Benchmark.* Five invariants, each on top of the first: `CoreInv` (where the
runner is, and what may be left of the server), `StatusInv` (what an honest
process has done, given its arguments, environment and root), `MeasureInv` (answers belong to the
requests so far, samples to the scenarios so far), `OutputInv` (what is
bound, written and renamed), and `LengthsInv`, which bounds answers and samples also where
`MeasureInv` does not speak of them: while a scenario is given up, and after the last one.

Only model-checked: all liveness (fairness and `ENABLED` are outside what TLAPS supports).

## 5. What is not modelled, and why

* Symbolic links, permissions, volumes and reparse points: the tree has one
  volume and no links. The path guard appears with its verdict on clean relative
  paths; its lexical checks, hidden names and link resolution are functions of one
  path and a policy, tested as such.
* A read error inside `discardLine`; the contents of messages, results and files;
  wording, logging, time. What a result consists of, output schemas and annotations in the tool adapters.
* Why the benchmark does not accept an answer: envelope, initialize result and counters
  are one refusal (`Decoded`), as all three end the scenario.
* A change of the release page between two calls of one readback: it can happen in the model,
  but a run cannot notice it and `ActsOnWhatItRead` asks nothing of the request that follows.
* `preflight` and `inventory` of the release tools, which only read; byte formats,
  redirects and headers of the provider.
* `candidate-record` and `candidate-manifest`, which write one file each, and the
  contents of the supply-chain documents.
* The numbers a benchmark measures, process metrics and serialization budgets: they
  need a model of time and of sizes.
* Audit checks, developer tools, scripts, workflows: single passes over data, with
  no state between checks.

## 6. What could follow

1. **Path guard**: `resolveLexical`, `resolveExistingParent` and the list policy on a tree
   with links, against the reference definition "the resolved path lies inside the
   resolved root"; then links in `Disk`, so that the guard's verdict can become stale.
