# A verification project for Xllama

TLA+ modules, TLC configurations and TLAPS proofs for the Go server in `src/`
(a fork of Ollama).  Everything is translated from the source; `PROJECT.json`
maps each definition to the lines it stands for.

## 1. The system

| Component (✓ modelled, (✓) in part) | State it keeps | Operations | What makes it hard | What makes it correct |
|---|---|---|---|---|
| (✓) **Model scheduler** `server/sched.go`, `server/model_stop.go` | `loaded` (key → runnerRef), `activeLoading`, four channels of capacity `OLLAMA_MAX_QUEUE`; per runner a reference count, keep-alive, timer and mutex | `getRunner`, the loops `processPending` and `processCompleted`, `load`, eviction, timers, stop/expire/stop-all, shutdown | two loops, one goroutine per load, per timer callback, per finished request; two levels of mutexes; events that carry stale information; sends to bounded channels under a mutex | one reply per request; a runner is unloaded only when nobody uses it; no subprocess is lost; at most `maxRunners` models; queued requests are answered; idle runners go away |
| ✓ **Blob download** `server/download.go` | parts on disk, a shared `blobDownload` with a reference count | `Prepare`, `downloadChunk`, `run`, `Wait`, `acquire`/`release` | parallel parts, stalls and retries, resume after a crash, several waiters | the file renamed into place holds every byte; all waiters are told |
| Blob upload `server/upload.go` | parts, the next-URL chain, a shared upload | `Prepare`, `Run`, `uploadPart`, `Wait` | URLs handed from part to part, retries, cross-repository mount | every part is sent once and the commit comes last |
| Model caches `server/model_list_cache.go`, `model_show_cache.go` | snapshots with a freshness time | read, refresh, invalidate | a refresh that began before an invalidation | no stale answer outlives an invalidation |
| Runner process `llm/llama_server.go`, `status.go` | the child process, its status | `startProcess`, `Load`, `WaitUntilRunning`, `Ping`, `Close` | process exit racing health polls; one restart with another configuration | exactly one live child; a dead one is noticed |
| Local blob cache, registry client `server/internal/...` | blobs and links on disk | `Put`, `Chunked`, `Link`, `Unlink`, `Pull` | partial writes, parallel chunks | a committed blob has its digest |
| (✓) **Model store** `server/images.go`, `create.go`, `manifest/` | a manifest file per name, a blob file per digest, shared; no lock | pull, create, copy, delete, removal of unused layers, prune at start-up | every request works on the files in its own goroutine; a layer is looked for in one pass and removed in another; a pull that dies leaves layers unverified | a listed model has all its layers, verified; what nobody uses goes; pulling again repairs |
| KV caches `kvcache/` | cells with position and sequence set | `StartForward`, `CopyPrefix`, `Remove`, sliding windows | shared prefixes, shifts, slots reused | a sequence sees exactly its own positions |
| (✓) **MLX runner** `x/mlxrunner/cache.go`, `cache_trie.go`, `cache/`, `pipeline.go` | a trie of token sequences, one path of it backed by the live caches of the layers, snapshots on other nodes, a byte counter | match, switch paths (page out, rewind, page in), advance, split, snapshot, evict, close | layers of different kinds can be rewound to different offsets; nodes are split, merged, extended in place and evicted under a session | a restored state was computed from the very tokens it is used for; all layers agree on one offset; the counter is exact |
| Streaming parsers `thinking/`, `tools/`, `model/parsers` | a buffer and a mode | feed a chunk, flush | tags split across chunks | the output does not depend on the cuts |
| Transfer `x/transfer`, HTTP routes, GPU discovery, CLI, conversion, templates, neural network code, agent tools | – | – | mostly sequential, numeric, presentational or native | not modelled, see `PROJECT.json` |

How they interact.  A route handler calls `scheduleRunner`, which calls
`getRunner` and waits on the request's two reply channels.  The scheduler starts
a *runner process* for a model of the *model store*, after asking *GPU
discovery* for free memory; the runner owns a *KV cache*.  Pulling fills the
model store through *download* and the *blob cache*; pushing uses *upload*.
Every change of the store invalidates the *model caches*.  The output of a
runner passes through the *streaming parsers*.

## 2. The modules

In order of importance:

| Module | Models | Instances, proofs |
|---|---|---|
| `RunnerLease` | what the scheduler promises to the handlers of requests: the abstract specification that `Scheduler` implements | `SchedulerGuarantees_proofs` |
| `Scheduler` | the whole life of requests and runners | `MCScheduler`; `Scheduler_proofs` (types, replies, limits), `SchedulerRefs_proofs` (reference counts), `SchedulerGuarantees_proofs` (room for events, refinement) |
| `BlobFetch` | what a download promises: the abstract specification that `BlobDownload` implements and on which `ModelStore` is built | `BlobDownload_proofs` |
| `BlobDownload` | one blob, its parts, the callers that share the download, stalls, retries, crash and resume | `MCBlobDownload`; `BlobDownload_proofs` (one download at a time, refinement, what its part files say is never taken back), `BlobDownloadData_proofs` (the part files and the data file, the whole blob), `BlobDownloadCounters_proofs` (its reference count and cancellation, its progress counter, the types) |
| `ModelStore` | manifests and shared layers under concurrent pull, delete, copy, create, and the prune at start-up | `MCModelStore`; `ModelStore_proofs` |
| `PrefixCache` | the trie and snapshots of the MLX runner | `MCPrefixCache`; `PrefixCache_proofs` (all its properties) |

How they fit.  `BlobDownload` is the detailed view of one step of `ModelStore`:
`PullHit` is `BlobFetch!Hit` and `PullLand` is `BlobFetch!Land`, so a pull in the
store relies on exactly what the refinement shows (the file appears in one step,
stays, and success is told only when it is there) and on nothing about its
content.  Both may land a file for which nobody waits any more.
`Scheduler` and `PrefixCache` share no state with these: the scheduler sees a runner as `proc`, and the prefix cache is inside one runner.

Considered and left out, with the reason in section 8: the upload, the caches of
the model list and of show answers, the runner process, the KV caches of the
in-process engine, the experimental registry client, the streaming parsers, and
the scheduler's memory arithmetic.

## 3. Module `Scheduler`

### State

| TLA+ | Code |
|---|---|
| `req`, `rst`, `seen`, `ctxDone`, `schedAttempts`, `oomRetryAttempted` | `LlmRequest` and where its handler is; `seen` is the local `runner` of `getRunner`, later the runner received on `successCh` |
| `replies` | messages ever sent on `successCh` and `errCh` of the request |
| `rstate`, `refCount`, `sessionDuration`, `expireTimer`, `refMu` | the fields of `runnerRef`; `rstate` combines `loading` and "unload() has run" (`model` and `Options` are nil; `llama` stays set) |
| `callbacks`, `resends` | goroutines: timer callbacks that fired and wait for `refMu`; `go func(){ sleep; expiredCh <- runner }` |
| `proc` | the runner's subprocess |
| `loaded`, `activeLoading`, the four channels | the fields of `Scheduler`; `unloadedCh` carries no data, so only its length |
| `ppc`, `pending`, `runnerToExpire`, `visit`, `waitFor`, `requireFull` | program counter and locals of `processPending` and of the functions it calls |
| `cpc`, `crunner`, `finished` | the same for `processCompleted` |
| `apc`, `todo`, `schedDone` | management calls, and the scheduler's context |
| `stale` | history: an unloaded runner has been handed out (see finding 2) |

A runner is named by the request whose load created it; no request creates two.

### Actions

Two critical sections of one goroutine are always two actions, and so are a
check and the use of what it found.  `loadedMu` is never held across a blocking
operation, so its sections are atomic.  A `refMu` is held while a model loads,
while VRAM recovers and by a goroutine blocked on a full `expiredCh`; it is
therefore a variable that says who holds it, and every action on a runner waits
until it is free.

* Request: `GetRunner`, `CheckReload`, `UseRunner`, `Enqueue`, `CtxDone`,
  `WatchFinished`.
* `processPending`: `Receive`, `IgnoreUnloaded`, `Evaluate`,
  `PendingCheckReload`, `PendingUseRunner`, `RefreshGPUs`, `UpdateFreeSpace`,
  the outcomes of `load` (`LoadNoServer`, `LoadPredictedTooBig`,
  `LoadStartServer`, `LoadRequiredFull`, `LoadFailed`, `LoadSucceeded`),
  `FindSnapshot`, `FindScan`, `ExpireToMakeRoom`, `UnloadObserved`,
  `EvictSnapshot`, `EvictNext`, `EvictObserved`, `PendingLoopExit`.
* Per runner: `WaitUntilRunningOk/Failed`, `TimerFires`, `TimerCallback`,
  `ResendExpired`, `UnblockSender`.
* `processCompleted`: `ReceiveFinished`, `FinishRequest`, `ReceiveExpired`,
  `ExpiredInUse`, `ExpiredIdle`, `VRAMRecovered`, `SendUnloaded`,
  `CompletedLoopExit`.
* Management: `ApiLookup`/`ApiRuntimeOOM`, `ApiVisit`, `ApiReturn` for
  `expireRunner`, `StopModelHandler` and `expireRunnersForRuntimeOOM`;
  `ShutdownCancel` and `UnloadAllRunners` for the signal handler and
  `/api/stop/all`; `RunnerCrash` for a child that dies by itself.

### The promise: `RunnerLease`

`ImplementsLease` is `RunnerLease` under a refinement mapping: a request is
*awaited*, *leased*, *returned* or *refused* as `rst` says, its lease is `seen`, a
runner is open while its state is `"loading"` or `"running"` and closed once it is
`"unloaded"`, and `broken` is `stale`.  Queues, retries, evictions, timers,
events and mutexes are below the promise and stutter; `UseRunner` and
`PendingUseRunner` and the end of a load are `Grant`, the publication of a runner is
`Open`, `ExpiredIdle` is `Close`.

### Abstractions

Memory sizes, GPU lists and predictions appear only as the branch they select:
whether a load fits, is predicted not to fit, runs out of memory or fails is a
choice, restricted where the code restricts it (`LoadRequiredFull` needs a GPU
and `requireFull`; an out-of-memory failure is retried once).  `Ping` may time
out, so `needsReload` may always answer yes; it must do so when the runner was
unloaded, its options differ or its process is dead.  `opts` stands for all that
`needsReload` compares: adapters, projectors, context shift and runner options,
after it has made equal what was chosen automatically.  So requests that differ
only in a `num_gpu` below 0, or, for an MLX model, in runner options, are
requests with the same `opts`.  The order of a Go map
iteration is any order.  A `panic` of the scheduler goroutine ends the process;
the model stops that goroutine and shows the state in which it happened.
Reading runner fields for `/api/ps` changes nothing and is left out.

## 4. Modules `BlobFetch`, `BlobDownload`, `ModelStore`, `PrefixCache`

### `BlobDownload` – `server/download.go`

The unit of data is the unit of progress.  A `blobDownload` is named by the call
that created it.

| TLA+ | Code |
|---|---|
| `partFile`, `data`, `blob` | the disk: part files `<digest>-partial-N`, the data file `<digest>-partial`, the blob under its final name |
| `manager` | the entry of the digest in `blobDownloadManager` |
| `dl` | the fields of `blobDownload`: `parts`, `total`, `completed`, `references`, `cancelFunc`, `err`; where its creator and its `run` are (`phase`, `at`); the goroutine of each part (`work`) |
| `call` | each call of `downloadBlob`: where it is, its download, what it was told |
| `dl.abandoned`, `call.late`, `broken` | history: the last waiter has left; a call joined after that; part files were torn or pruned by a fault, so that they no longer describe a whole blob |
| `lost` | history: units that a part file had on record when a prune took the data file and left that part file |
| `faults` | counts crashes and writes to a full disk against `MaxFaults` |

* `downloadBlob`, `Wait`, `acquire`, `release`: `Stat`, `LoadOrStore`, `Acquire`,
  `WaitDone`, `WaitCtxDone`, `Cancel`, `Panic` (a release that finds `CancelFunc`
  still nil).
* `Prepare`: `ReadPart`, `ReadDone` (resume), `HeadOk`, `NewPart`, `PrepareDone`
  (split a new blob), `ReadOrHeadFails`, `NewPartFails`.
* `run`: `RunStart`, `RunOpen`, `RunDirect`, `RunFetched`, `RunRemove`, `RunRename`,
  `RunClose`; `RunFails` for an error of opening, truncating, closing, removing or
  renaming a file, and for a direct URL that does not come.
* `downloadChunk`, per part: `ChunkReceive` moves one unit to the file;
  an attempt ends as `ChunkDone`, `ChunkCut` (unexpected EOF, kept and counted),
  `ChunkStalled` (kept, not counted), `ChunkCanceled` (kept), `ChunkError`
  (rolled back and counted), `ChunkNoSpace`, `ChunkPartNoSpace`.
* `Crash`: the server starts again; part files being written are torn, and
  `PruneLayers` may remove what has not been touched for an hour.  It goes by the
  time of each file: any of the part files may go, with or without the data file,
  which is older than the part files written after it.

What the model made visible, beside the properties:

* A call that joins a download whose `Prepare` then fails waits on a channel that
  is never closed; when its client gives up, `release` calls a nil `CancelFunc`
  and the server panics.  The same panic meets a release that comes before `run`
  has set `CancelFunc`.
* The entry of a download that its last waiter has cancelled stays in the manager
  until `run` returns.  A call that joins in between is told "context canceled"
  although its own client is there.
* Part files are removed by their position before the rename.  A crash in the
  middle, or a prune of some of them only, leaves a set of parts that can never
  be completed or that yields a blob of another length; the verification of the
  pull finds the latter.  A torn part file makes every later `Prepare` fail.
* A prune can take the data file and leave a part file that was written later.  The
  next download resumes from it, `Truncate` makes a hole where that file has units on
  record, and the blob is renamed into place with it.  `BlobWhole` and
  `PartFilesTruthful` except those units (`lost`); here too it is the verification
  of the pull that finds them.
* A part that is never heard of does not stall: detection begins with the first
  byte.  On a full disk the unit that could not be written stays in the progress
  counter; `ProgressExact` is therefore about downloads without an error.
* A redirect-less answer (status 200 without `Location`) ends the download with
  an error; it is one of the cases of `RunFails`.

### `ModelStore` – `server/images.go`, `server/create.go`, `manifest/`

Each step is one call of the file system: there is no lock on these files.  A
verification reads the file that it has opened; the removal after a mismatch comes
minutes later, goes by name, and is a step of its own.

| TLA+ | Code |
|---|---|
| `manifests` | the manifest file of a name: the digests it lists, `Absent`, or `Corrupt` when it does not decode |
| `blobs` | the blob file of a digest: `Absent`, `good`, or `bad` when its content is not that of the digest |
| `job` | the goroutine of a request: operation, names, the layers it is about to list, what it has left to find, download, verify, look for in manifests and remove |
| `contested`, `unchecked`, `alone`, `tidy` | history: digests one request was removing, as unused or after a mismatch, while another had found or verified them; digests whose bad file somebody relied on; requests that ran by themselves; all requests so far came one by one and succeeded |

* Removing unused layers (`deleteUnusedLayers`, `Manifest.RemoveLayers`,
  `Layer.Remove`): `Glob`, `Scan` of one manifest after the other, `ScanFails`,
  `Remove` of one layer after the other, `RemoveDone`.
* Writing a manifest: `Truncate`, `Write`, `WriteFails`.
* `PullModel`: `PullBegin`, `PullManifest`, per layer `PullHit` or `PullMiss` and
  `PullLand`, then `PullFetched`, per layer `PullVerify`, `PullVerifyFails` (no file)
  or `PullMismatch` and `PullRemoveBad`, then `PullVerified`; `PullStops` at any
  point.  A download may still land after all who waited for it have stopped.
* `DeleteHandler`: `DeleteBegin`, `DeleteUnlink`, `DeleteFails`.
* `CopyModel`: `CopyBegin` (opens the source), `CopyCreate` (truncates the
  destination), `Copy`.
* `CreateHandler` from a model of the store: `CreateBegin`, `CreateFrom`,
  `CreateBase`, `CreateBased`, `CreateDrop` (`removeLayer`), `CreateLayer`,
  `CreateConfig`, `CreateStuck`, `CreateStops`.
* `Crash`, with the prune of `Serve` when it starts again.

What the model made visible:

* Between the search for a layer in the manifests and its removal, a pull can find
  its file, take it for cached and list it.
* A bad download is removed by name, long after it was read.  When two pulls share
  one and the second removes it and fails first, a third may by then have downloaded,
  verified and listed a good file: the first pull removes that one.
* These two, recorded in `contested`, and the use of a download before its
  verification, recorded in `unchecked`, are the only ways in which a listed model
  loses a layer (`NoLayerLost`).
* A cache hit is not verified.  A pull that was interrupted after its download and
  before its verification leaves a layer that nobody ever verifies; and a download
  that was started after the blob had come can replace a good file by a bad one.
* Copying over a model leaves the layers of the old one until a prune at start-up;
  `NoGarbage` excepts it.  Delete unlinks whatever manifest is there by then, but
  removes the layers of the one it had read.
* A manifest is truncated before it is written.  A crash in between leaves one that
  does not decode, and the start-up prune is skipped until it is pulled again.
* `create` goes on after an error of `parseFromModel`; its goroutine then blocks for
  ever on a channel that nobody reads.  So does any request whose client goes away
  while it sends a progress report.

### `PrefixCache` – `x/mlxrunner`

Keys and values are modelled by what they were computed from: the cell of a
position is the sequence of tokens up to it.  So "the right state" is an
equation between sequences, and no tensor appears.

| TLA+ | Code |
|---|---|
| `kinds` | the kind of each layer's cache: `KVCache`, `RotatingKVCache`, `RecurrentCache` |
| `cache` | `kvCache`: `trie` (a node is named by the tokens up to its end), `activePath`, the live `caches`, `pagedOutBytes` |
| `session` | `cacheSession` and the pipeline: prompt, output, position, pending snapshots |
| `misfiled` | history: a session was closed with fewer stored tokens than cached ones |

* `Begin` is `begin`: `findBestMatch`, `switchToPath` (page out the old leaf,
  rewind or free, page in along the new path), requests for snapshots.
* `Prefill` evaluates a batch up to the next snapshot and takes it
  (`snapshot`, `advancePath`, `splitNode`, `appendTokens`, `attachSnapshots`);
  `Seed` the last token of the prompt; `Decode` a generated one.
* `DraftCut`: drafted tokens are accepted and cached, and the client goes away
  before all are put out.
* `Close` files what was generated under the trie; `Evict` is one round of
  `enforceEvictionPolicy`.  Its order (oldest, deepest, largest) is left open: any
  eligible node may go.

What the model made visible: accepted drafts are committed to the caches before
they are put out (`mtp.go:594`).  If the client goes away in between, `close`
slices past the stored tokens: it takes whatever is in the array behind them, or
panics.  `SnapshotsTrue` and `LiveTrue` are stated up to the first such request
(`misfiled`).  Apart from that, speculation commits what as many decode steps
would.

## 5. What the runs check

### Scheduler

Constants common to these runs: `RefMod` is one more than the number of requests, the
smallest for which a correct counter does not wrap; model keys are numbers
because `ByDurationAndName` orders by name.

| Run | Question | Bounds |
|---|---|---|
| `SchedulerCore` | references, replies, subprocesses and blocked senders over load, failed load, reuse, reload, eviction and cancellation | 3 requests, 2 models, 1 runner: the third request evicts a runner while the second one is using, leaving or re-using it |
| `SchedulerApi` | the same with keep-alive timers and a management call or crash at any moment; every idle runner still has a timer or an event on its way | 2 requests, 2 models, 2 runners, keep-alive 0 or 1, one call |
| `SchedulerEvict` | victim choice, evict-all after out-of-memory, return to a server that did not fit | 3 requests, each with its own model, one of them without GPU, room for 2 |
| `SchedulerFull` | channels of capacity 1: refused requests, blocked senders, different options, a management call, shutdown, stop-all or crash at any moment; is `RunnerLease` implemented | 2 requests, 2 models, 2 options, 1 runner, one call |
| `SchedulerLive` | queued requests are answered, idle runners unloaded, both loops return after shutdown | 2 requests, 2 models, 1 runner, finite keep-alive, fairness, no symmetry |
| `SchedulerQueueLimit`, `SchedulerCheckUse`, `SchedulerStopAll` | the three findings below | the smallest instance that shows each |

Why the bounds are enough.  Every action and every disjunct fires in some
passing run.  A hazard needs at most three parties: the request that owns a
runner, the one that wants it or its place, and the one whose event arrives
late.  `MaxQueue` is 1 where the channels are themselves the question; in
`SchedulerCore` it is the smallest for which theorem `EnoughRoom` says that no
sender of an expired event ever blocks.
No counter needs a bound of its own: a finished event arms a timer once, so
`callbacks` is bounded by the requests, and each of `resends` answers one event
received.

Deadlock is checked, with a stuttering step `Finished` where the system may
rest, in `Core`, `Api` and `Evict`.  It is not in `Full`, where the loop really
stops (finding 1), and not in the temporal run, which states what must happen
instead.

### Properties of the scheduler

* `RefCountAccurate` – the unsigned counter of each runner equals the requests
  that use it.  A finished event names only a model key, so this also says that
  the event finds the runner its request was given.
* `NoUnloadInUseUnlessStale` – the runner of a served request has not been
  unloaded (up to finding 2).
* `OneReply`, `NoLostProcess`, `NoDoubleLoad`, `LoadedBound`, `NoPanic`,
  `CompletedNeverStuck`, `NoIdleLeak` – stated beside their definitions.
* `ImplementsLease` – what a handler may rely on whatever goes on in the scheduler.
  That a lease has the model and the options of its request is not in a guard of
  the step that grants it: both were compared in an earlier critical section.
* `QueuedAnswered`, `IdleUnloaded`, `LoopsExit` – liveness.
* `TypeOK` – its interesting part is `refCount`, a `uint`.  A request that was
  handed an unloaded runner (finding 2) ends as a finished event for its model's
  key, and so takes a reference off whatever runner is loaded under that key by
  then: `SchedulerCore` reaches states where the counter of an idle runner is
  decremented.  The wrap-around of `DropRef` is what the code does there; with a
  plain subtraction the run reports -1.

### Download, store and prefix cache

| Run | Question | Bounds |
|---|---|---|
| `BlobDownload` | is what is resumed on disk, is the blob whole, is the progress exact, is only an abandoned download cancelled, and is `BlobFetch` implemented | 2 calls (symmetric), a blob of 3 units in parts of 2 and 1, 2 tries per part, one crash or full disk |
| `BlobDownloadLive` | is every call answered | the same with 1 try, fairness, no symmetry |
| `ModelStore` | does a listed model keep its layers, verified; is nothing left behind; does pulling again repair | 2 names, a layer and a config that both use, 3 requests of which 2 run at a time (symmetric), one crash, full disk or bad download; the second name comes into being by copy and create |
| `PrefixCache` | does every restored, split, merged, paged-out or evicted state belong to the tokens it is used for; does a restore point stay until it is evicted; does a request start from the snapshots there are | 2 tokens (symmetric), prompts up to 3, 4 with the answer, a window of 2, a model of plain layers, one with a sliding window, one with a recurrent layer; room for 3 or 4 cells on paged-out nodes; any number of requests |

Why the bounds are enough.  *Download*: the hazards are between two callers (one
creates, one joins; one leaves, one stays) and between two parts; the second part
is shorter than the first, so the cut of the last part shows; two tries allow one
retry and one that exhausts them.  A third caller repeats the role of the second.
*Store*: a hazard needs a request that removes and one that counts on what it
removes; the third request comes after both and finds what they left.
*Prefix cache*: with a window of 2 and 4 tokens a window moves while it is in
use; 3 tokens of prompt leave room for a branch in the middle of an edge, for a
snapshot before the end and for the one before the last tokens; `MaxPagedOut` is
small enough that eviction removes leaves and merges nodes under a session.  The
number of requests is not bounded at all: the state space is finite.

Properties of the download:

* `OneDownload` – the entry of the manager and the work on the files go together,
  whatever fails.  `CanceledOnlyIfAbandoned` – "context canceled" is told only
  to a call that joined a download all others had left.
* `PartFilesTruthful` – what a part file calls completed is in the data file, unless
  part files were pruned or torn alone, or a prune took the data file and left that
  part file (`lost`).  `ProgressKept` – and is never taken back.  `BlobWhole` – every
  unit of a blob under its final name was written, but for those in `lost`, also
  after crashes and prunes of part files; its length is right unless part files had
  been damaged.
* `ProgressExact` – the shared counter equals what parts and attempts hold, through
  any retries and resumptions, and the total in the end.
* `ImplementsFetch` – the refinement of `BlobFetch`.  `EveryCallAnswered` – liveness,
  excepting the call that joined a failed `Prepare`.

Properties of the store: `LayersPresent` and `LayersVerified` (a listed layer is
there and verified unless it was `contested`, by a removal of unused layers or of a
mismatch, or `unchecked`), `NoGarbage`,
`PullRepairs` (an action property: a pull that nothing else runs together with
writes its manifest only when all layers are there).

Properties of the prefix cache: `SnapshotsTrue` and `LiveTrue` (every cell was
computed from the tokens it is filed under, and none that is needed is lost),
`InStep` (all layers at one offset, the pipeline's), `PathBacked` (the active path
is a path of the trie that the caches reach), `SiblingsDiffer` (a prefix that is
there is found), `CounterExact`.  Two action properties say that the cache is of use:
`RestorePointsKept` (a node the pipeline asked for, with a snapshot in every layer,
outlasts the splits, extensions, page-outs and merges of later requests; only eviction
takes one, the node it evicts) and `SnapshotsServe` (`begin` comes at least to the longest
node with a snapshot in every layer that the prompt goes beyond, although it gives up the
live state of layers that cannot be rewound and stops where one cannot be restored).

Each module has one `TypeOK`.  Every property is paired with a mutant, a
definition such as `TakeRefMissing`, `LastReferenceEarly`, `SpareOwnOnly` or
`SplitShared` placed before the one it mutates: with the mutant in its place the
run reports a violation.

Deadlock is checked in all four, with a stuttering step (`Quiet`, `Stutter`) in
the states where everybody has been answered.  `PrefixCache` needs none: a
request can always be taken further.

### Fairness

`Fairness` of `Scheduler` is what the Go runtime and the environment give.  Each
loop and each goroutine that can take a step takes one eventually (weak fairness).  `select`
chooses at random among ready cases, so `processCompleted` does not pass over a
ready channel for ever (strong fairness of its two receives).  A timer fires; a
load ends one way or the other; a request that is being served ends.  Nothing is
assumed of new requests, of clients that give up before an answer and of
management calls.

`FairSpec` of `BlobDownload` is weak fairness of `Progress` as a whole: as long as
some goroutine can go on or some request of a part can be answered, something
happens.  That is all the Go runtime and a network with timeouts give, and less
than fairness of each goroutine.  It suffices because nothing can go on for ever:
attempts are counted, and one that stalls has brought at least one unit.  Nobody is
assumed to give up and no fault is assumed to happen or not to.

### Findings

1. *Queue limit* (`SchedulerQueueLimit`).  `processCompleted` alone receives
   from `expiredCh` and sends to it (`sched.go:390`).  With the channel full it
   waits for itself.  Theorem `EnoughRoom` says from how many requests on this
   can happen.
2. *Check, then use* (`SchedulerCheckUse`).  `refMu` is released between
   `needsReload` and `useLoadedRunner` (`sched.go:190`, `244`); an expiration in
   between closes the server, and the closed runner is handed out.  The later
   properties are stated up to this event (`stale`), so that they show what else
   holds.
3. *Stop-all during a load* (`SchedulerStopAll`).  `unloadAllRunners` clears
   `activeLoading` while `load` is using it; the failed load then calls `Close`
   on nil.

Three further behaviours are visible in the model but have no run of their own: an
expired event that is already on its way unloads a runner whose timer has been
armed again in the meantime, cutting its keep-alive short; a request with an
infinite `keep_alive` that re-uses the victim of an eviction keeps
`processPending` waiting for ever (which is why `SchedulerLive` uses finite
values); and a load may start its server after shutdown has closed the others.

## 6. What is proved

### Scheduler

What follows holds for every set of requests, models, management calls,
channel capacity and limit that satisfies `ConstantAssumption` (finite sets, a
capacity and a limit of at least one, a counter that can count all requests).

| Theorem | States |
|---|---|
| `TypeCorrect` | `Spec => []TypeOK` |
| `AnsweredOnce` | `Spec => []OneReply` |
| `NeverAboveLimit` | `Spec => []LoadedBound` |
| `SafeguardIdle` | `Spec => []NoDoubleLoad` |
| `CountIsUsers` | `Spec => []RefCountAccurate` |
| `ServedByLoaded` | `Spec => []NoUnloadInUseUnlessStale` |
| `EveryProcessKnown` | `Spec => []NoLostProcess` |
| `NeverPanics` | `Spec => []NoPanic`, if `ApiKinds` has neither `"stopall"` nor `"shutdown"` |
| `IdleRunnerDue` | `Spec => []NoIdleLeak` |
| `EnoughRoom` | `Spec => []CompletedNeverStuck`, if `Apis` is finite and `MaxQueue >= Cardinality(Reqs) - 1 + MaxRunners * (1 + Cardinality(Apis))` |
| `SchedulerImplementsLease` | `Spec => ImplementsLease` |

The first four are in `Scheduler_proofs`, the last two in
`SchedulerGuarantees_proofs`, the others in `SchedulerRefs_proofs`; each module
extends the one before it.  The hypothesis of `NeverPanics` is what
finding 3 is about: run `SchedulerStopAll` shows the panic when it is dropped.

The argument.  `TypeOK` is not inductive: `Evaluate` indexes `loaded` with the
model of `pending`, `ExpireToMakeRoom` sends `runnerToExpire`, and both could be
nil.  `TypeInv` adds `OnePlace` (a queued request is once in `pendingReqCh`, or
with `processPending`, or with the goroutine that waits for its load, and in one
of them only), `FinishedEvents` (finished events are of requests that ended),
`Chosen` (a runner was looked up before it is used) and `WaitPositive`.  One
lemma per goroutine shows that its steps keep `TypeOK`; `NoMove` and `MoveOne`
cover `OnePlace` for the steps that leave requests where they are and that move
one.  `OneReply` then needs nothing more: whoever answers a request finds it
queued, in its own place.  `LoadedBound` and `NoDoubleLoad` follow from
`RoomForLoad`: from `Evaluate` until the runner is published the key is free and
there is room, because only `processPending` extends the map and
`processCompleted` only shrinks it.

The reference counts need `RefInv`.  `Published`: the loaded map and the states of
the runners agree, so a runner in service is the one loaded under its key.
`LookedUp`: what a handler or `processPending` looked up belongs to the key of its
request.  `EndedOnce`: a request that has ended is in `finishedReqCh` once, or
with `processCompleted`.  Until an unloaded runner is handed out, `UsersServed`
(a request in use of a runner is served by the loaded runner of its key, and
`processCompleted` drops the reference of that one) and `Counted` are kept too:
`ExpiredIdle`, the only action that takes a runner out of service, finds its
count at zero, hence without users; `LoadSucceeded` finds the key free.
`StepKinds` sorts the steps by what they do to references, so each of these
invariants has five cases.  `CountIsUsers` also shows that no count wraps, since
`RefMod` exceeds the number of requests; and `ServedByLoaded` shows that the gap of
finding 2 is the only way to unload a runner in use.

`Active` says that a server in `activeLoading` is that of the request which
`processPending` serves, and that until it is published its key is free; with it a
live process is always reachable (`NoLostProcess`), since `LoadSucceeded` moves it from
`activeLoading` to the map, and `ExpiredIdle` and `LoadFailed` close what they take
out.  For `NoPanic`, `Attempts` says that a request is received once, which shuts the
branch with the nil runner, and `Sure` that a load has its server until it is over,
which holds as long as nobody but `processPending` clears `activeLoading`.

`NoIdleLeak` needs three more facts.  `Addressed`: timers, callbacks, resends,
mutexes, expired events and the lists of runners to visit are only of runners that were
published.  `Fresh`: the request of a runner in service has been answered, or its
mutex is held for the load.  `Recovering`: while `processCompleted` waits for VRAM, its
runner is unloaded and stays so, so that giving its mutex back loses nothing.  Then
each step is checked for what it does to an idle runner (`Due`): who stops its
timer takes a reference, which `Counted` makes visible, or sends it (`SendIdle`,
`ExpireNowIdle`); who takes the event out of `expiredCh` holds it until it resends or
unloads it.

`EnoughRoom` is about finding 1, from the other side.  `Underway` is the set of all
that is, or may yet become, an expired event: the events in the channel, armed
timers, callbacks, resends, goroutines that hold a mutex to send, the event that
`processCompleted` is at, and the unloads it has told of and `processPending` has not
seen.  `Causes` is the set of what can have set one of these off: a request that has
ended, the unload that `processPending` has asked for and waits for, a runner that a
management call has visited.  The invariant is that `Underway` is never larger than
`Causes` (`Bounded`), although events are put into the channel again and again: a
resend takes the place of the event it resends, a callback that of its timer, and
an unload that of the event that led to it.  The sets are compared by what a step
adds to or takes from each (`Balanced`, with `Gains`, `Drops`, `Moves`), so that
every step has one lemma and no sum is ever written down.  `Asking` says that
`processPending` waits only for what it has asked for, and `CausesBound` counts the
causes: the runners visited by a call are those that were loaded when it looked, at most
`MaxRunners`.  Whoever is about to send is itself `Underway`, so the channel has
room for it.

The hypothesis is met in `SchedulerCore`, with equality.  For one
runner and no management call it cannot be weakened: `SchedulerQueueLimit`, which
lacks one place in the channel, ends in the deadlock.  `Reqs` is the set of all requests of
a behaviour.  So, without management calls, the server can come to
the deadlock only after at least `MaxQueue + 2 - MaxRunners` requests; the default
`OLLAMA_MAX_QUEUE` is 512.

`SchedulerImplementsLease` puts the invariants together.  `LeaseKept` covers the steps
that change nothing a handler sees; each other step is one of `RunnerLease`.  A
`Grant` is of the model of the request by `LookedUp`, and of its options
by `OptionsAgree`: between the comparison and the grant nobody writes the options
of either, whatever became of the runner.  `Open` needs that the open runners are the loaded
ones (`OpenAreLoaded`), so that `RoomForLoad` bounds them and keeps their models apart.
`Close` is `ExpiredIdle`, which finds the count at zero; by `Counted`
nobody then has the runner, unless an unloaded one has been handed out.
A refusal and a grant find the request awaited by the same argument as for `OneReply`.

### Download

What follows holds for any finite set of callers, any lengths, part sizes, retries
and faults that satisfy `DownloadAssumption`, and with room for the part files of
any blob (`PartsFit`: the bound `MaxParts` cuts nothing off).  `DownloadAssumption`
also says that the marks `None` and `Torn` are no parts, callers, errors or
sequences; TLC checks both on the instances of the runs.

| Theorem | Module | States |
|---|---|---|
| `OneDownloadAlways` | `BlobDownload_proofs` | `Spec => []OneDownload` |
| `DownloadImplementsFetch` | `BlobDownload_proofs` | `Spec => ImplementsFetch` |
| `ProgressKeptAlways` | `BlobDownload_proofs` | `Spec => ProgressKept` |
| `PartFilesTruthfulAlways` | `BlobDownloadData_proofs` | `Spec => []PartFilesTruthful` |
| `BlobWholeAlways` | `BlobDownloadData_proofs` | `Spec => []BlobWhole` |
| `ReferencesCounted` | `BlobDownloadCounters_proofs` | `Spec => []CountExact`: `references` is the number of calls that wait |
| `CanceledOnlyIfAbandonedAlways` | `BlobDownloadCounters_proofs` | `Spec => []CanceledOnlyIfAbandoned` |
| `ProgressExactAlways` | `BlobDownloadCounters_proofs` | `Spec => []ProgressExact` |
| `DownloadTypeOK` | `BlobDownloadCounters_proofs` | `Spec => []TypeOK` |

Each module extends the one before it, and so does each invariant.

`IInv` is what the refinement needs.  `Shape`: what indexes what.  `OneDownload`
itself.  `CallsHaveDownloads`: a call that waits has a download, and while one is
prepared its creator is in `Prepare`.  `NotToldYet`: a call in flight has
been told nothing, so it can still be told once.  `DataThere`: once `run` has
opened the data file it is there until the rename.  `BlobThere`: success is told, or about to
be, only when there is a blob.  `FetchStep` then maps each step: `RunRename` is
`Land`, a `Stat` that hits is `Hit`, `WaitDone` without error is `Ok`, everything
that ends calls otherwise (an error, a cancellation, a panic, a restart) is `Fail`
of a set of callers, and all else stutters.

`RefsInv` adds `CountExact`; `CancelMeansAbandoned` (a called `CancelFunc`, or the
error `canceled` in any form, means that the last waiter has left);
`WaitersLate` (who waits for an abandoned download joined late); and `ErrorKept`.
The count is a cardinality, and the steps are sorted by what they do to the set of
waiters: `AcquireRefs` adds one, `LeaveRefs` takes one away, `GoOn` covers all steps
in which nobody waiting takes part, `RestartRefs` empties it.  A cancellation is told
only through an `err` that `ChunkCanceled` or `RunFails` set; a part that is
cancelled because another has failed finds the error of that one kept (`ErrorKept`).

`PartsInv`: part files are kept under their own numbers (`NamedByNumber`); a
call that has not created its download has no parts (`Fresh`); and of a download
that is under way (`Tracked`), no two parts share a file (`Distinct`), because
`Prepare` reads or writes the files in order (`ReadInOrder`, `SplitInOrder`), and
the file of each part says no more than the part in memory (`Behind`).  An attempt only adds to its part,
which `OneFills` and `PartReplaced` turn into the step; everything else leaves the
pair alone.

`DataInv` is about what is written.  `BlobWhole` is meant to hold even when
part files were pruned or torn (`broken`) and a download then resumed from what was
left, and this is what makes the invariant long.  Two ways out are to be excluded:
such a download may believe in fewer parts than the blob has, or in other positions
than the files have.  `Gapless(d)` separates them.  If the parts are numbered as they are
positioned, they are the first parts of the blob, end to end (`FilesSound`, `Laid`,
`Splitting`), the data file is cut to their length (`Sized`, `Opened`), and every file
preceded by all the others tells the truth (`FilesTrue` with `Prefix` and `Covered`):
each unit it has on record is `Accounted`, in the data file or in `lost`.
Then the blob may be shorter than it should be, but has no hole other than those
in `lost`.  Until the rename nothing on record becomes unaccounted: the data only grow
(`DataGrows`), and a restart that takes the data file puts into `lost` what the
part files that stay have on record.  If they are not, a file
below the number of parts is missing, and stays missing (`Missing`), so `RunRemove`,
which removes by position, fails before the rename.  `FilesWhole` says that without
damage the files are always those of a whole blob, but for the moments in which they are
being made or removed (`SomePartsOnly`); `Fetching` and `Removing` carry the facts through
the goroutines of the parts to the end.  Without damage the length is then one that
the registry gave, and `PartFilesTruthful` holds; `ChunkData` and `ChunkEndData` cover
the steps of `downloadChunk`, which differ only in the part, its file, its goroutine and
the error they leave.

`CountersInv` is about the progress counter, a sum over the parts and their attempts.
`SumOver` is a recursive function chosen by its equations, so the first lemmas show that
there is such a function for every sequence (`SomeRuns`), and only one (`RunsAgree`), each
from the least number for which it fails.  From then on a sum is found by giving its
running sums (`SumIs`): what `Append` and a change at one position do to it follows
without induction (`SumAppend`, `SumExcept`).  `Tallied` says what the counter is in each
phase.  After the first error it may be more than was received, by the unit that
`ChunkNoSpace` counted in vain, but never less: this is why it does not go below 0 when
an attempt is rolled back.  `RunFetched` finds every attempt done, so that the counter
is the sum of the sizes, which is the total.

### Store

For any sets of names, digests and requests, any registry, any number of requests
at a time and of faults that satisfy `StoreAssumption`, which also says that the
marks for a missing and for an unreadable manifest are not sets of digests.

| Theorem | States |
|---|---|
| `StoreTypes` | `Spec => []TypeOK` |
| `NoLayerLost` | `Spec => []LayersPresent` |
| `ListedVerified` | `Spec => []LayersVerified` |
| `NothingLeftBehind` | `Spec => []NoGarbage` |
| `PullingAgainRepairs` | `Spec => PullRepairs` |

A digest is *backed* if its file is there and good, or if it is `contested` or
`unchecked`.  `IInv` says that what a manifest lists is backed (`Listed`), that what a
request counts on, without what it has still to verify, is backed (`Relied`), that what
a removal is about to remove is in no manifest that it has read, and a file that was
found bad in none at all, up to the recorded exceptions (`Swept`), that the fields of a request fit together
(`Sound`), and that the present contest is recorded.  The argument is that of
`HeldContested` and `UnlinkedKeeps`: for a layer to vanish from a manifest it must be
in the `del` of a request that has read that manifest without it, or that has found
its file bad, when by `Listed` no manifest did list it; then it came into
the manifest afterwards, by a request that counted on it while it was being
removed, which is what `contested` records.  `Carry`, `OneActs` and `OneMoves` cover the
steps by what they change; `CopiedBacked` is the copy, which takes what is in its
source at that moment, or was when the source was unlinked.

The last two are about requests that nothing else runs beside, and need `AInv` on top
of `IInv`.  While a request is `alone`, what it counts on stays as it found it
(`Kept`).  While the store is `tidy`, every digest of the manifest that the request
replaces is in its `old` or will be listed again (`Tended`), and every blob is
listed in a manifest or accounted for by the request (`Accounted`): it is among what
it will list, or among what it will look for once its manifest is written.  A request
that ends accounts for nothing, so then every blob is listed.  `Moves` is what a step
that changes no file has to show, `AloneActs` lifts it to the invariant.  `Left` says that
in a tidy store no request has stopped waiting for a download, so that none lands
unaccounted for (`PullLandAwaited`, `PullLandUnawaited`).

### Prefix cache

For any tokens, any models (non-empty sequences of layers of the three kinds), any
window, intervals and lengths that satisfy `CacheAssumption`, which also says that the mark
for a missing snapshot is not a snapshot.  Of the room for paged-out nodes only its type
matters: eviction may take any eligible node at any of its rounds.

| Theorem | States |
|---|---|
| `CacheTypeOK` | `Spec => []TypeOK` |
| `SiblingsDifferAlways` | `Spec => []SiblingsDiffer` |
| `SnapshotsTrueAlways` | `Spec => []SnapshotsTrue` |
| `LiveTrueAlways` | `Spec => []LiveTrue` |
| `LayersInStep` | `Spec => []InStep` |
| `ActivePathBacked` | `Spec => []PathBacked` |
| `PagedOutBytesExact` | `Spec => []CounterExact` |
| `RestorePointsStay` | `Spec => RestorePointsKept` |
| `SnapshotsServeBegin` | `Spec => SnapshotsServe` |

The argument.  `IInv` says that there are a node `f` at which the active path ends
(`EndsAt`) and an offset `k` of all layers (`AllAt`), with `f` no longer than `k` and a prefix
of the tokens of the session (`InSession`); and that the cache is `Good`.  None of the
invariants is inductive alone, because each operation relies on what another leaves:

* `MeetClosed`: two nodes of the trie part at a node.  A node is named by its tokens, so
  this is what makes the set of names a trie; `SiblingsDiffer` follows from it.
* `SnapsFit`: a snapshot ends where its node ends, and starts where the node does or,
  in a layer that does not keep all cells, at the root.  `Split`, `Merge` and `Restore` rely
  on it.
* `SnapsTogether`: layers that do not keep all cells have their snapshots at the same
  nodes.  Otherwise a recurrent layer could be restored to an offset that a rotating one
  cannot be rewound to.
* `KeysBacked`: every node but the root has a snapshot in each layer that keeps all cells,
  unless the live caches alone have reached its end.  Hence paging in never stops short
  in such a layer.
* `SnapsTrue` and `LiveOf` say what the cells are, for all that a layer keeps (`Kept`, one cell
  more than the `Needed` of a full window: the one that a rewind uncovers).
  Both are dropped once a session is closed with less output than was cached; everything
  else is kept even then.
* `Counted`: the counter is the number of cells in the trie, labelled by node and layer.

`BestMatchIs`, `SplitIs`, `EvictedIs`, `AdvanceIs`, `SnapshotTaken`, `PagedOutIs` and
`AlignIs` say what each operation makes of a good cache, first for the set of
nodes (`ShapeSplit`, `ShapeRemoved`, `ShapeGrown`), then for one snapshot
(`SplitSnap`, `MergedSnap`, `FreshSnap`), then for the cache.  `PagedInIs` follows the walk of
`switchToPath` along the new path: `Paging` says that up to the present node each layer
has come as far as its snapshots go, has not passed the match, and can still be rewound to
an offset that all layers reach (`Rewindable`); `PageStep` is one node of it and
`PageInNodeIs` the layers at that node.  These walks are recursive functions, and so is
a cache that takes tokens one by one (`FedIs`); that such a function exists follows from
the least number for which it does not (`StepsExist`).  `SwitchIs` puts paging out, paging in
and aligning together.  The lemmas of the actions (`BeginStep`, `PrefillStep`, `SeedStep`,
`GeneratesStep` for `Decode` and `DraftCut`, `CloseStep`, `EvictStep`) then have only to follow the session.

The two action properties come from the same lemmas.  Each operation's lemma also says
that the restore points (`Points`) stay: of a split edge the lower half keeps the mark and a
snapshot in every layer; the child into which a node is merged keeps both; only a leaf that no
user asked for loses its snapshots to be extended in place; and snapshots that are
attached anew are there in every layer.  So each step lemma
concludes `NoPointLost` beside `IInv'`, and `EvictStep` `OnePointEvicted`.
`BeginServes` needs of `Paging` that each layer has come at least to every node passed at which it
has a snapshot, and that the layers are then aligned to the one that came least far.

### Only model-checked

Every invariant, every action property and every refinement that a run checks is stated
by a theorem, `NoPanic` and `CompletedNeverStuck` under the hypotheses above, without
which findings 3 and 1 refute them.  What TLC alone shows is liveness:
`QueuedAnswered`, `IdleUnloaded` and `LoopsExit` of `Scheduler`, `EveryCallAnswered`
of `BlobDownload`.  They rest on fairness, and so on `ENABLED`, which TLAPS
cannot reason about.

## 7. Running it

    tlc -config SchedulerCore.cfg MCScheduler.tla      # and the other Scheduler*.cfg
    tlc -config BlobDownload.cfg MCBlobDownload.tla    # and BlobDownloadLive.cfg
    tlc -config ModelStore.cfg MCModelStore.tla
    tlc -config PrefixCache.cfg MCPrefixCache.tla

    tlapm Scheduler_proofs.tla
    tlapm SchedulerRefs_proofs.tla
    tlapm SchedulerGuarantees_proofs.tla
    tlapm BlobDownload_proofs.tla
    tlapm BlobDownloadData_proofs.tla
    tlapm BlobDownloadCounters_proofs.tla
    tlapm ModelStore_proofs.tla
    tlapm PrefixCache_proofs.tla

## 8. Not modelled

Most of the repository is not behaviour over time: of some 123,000 lines of
implementation, the greater part is neural-network definitions, model conversion,
tokenizers, bindings of native engines, the command line with its launchers and
TUI, and vendored or generated code.  Nothing in TLA+ says more about those than
the code does, so the lines the modules map are a small part of the whole.  What
has behaviour and is still left out:

* *Blob upload*: its parts and their sharing mirror the download; what makes it
  correct (which URL continues which upload) is decided by the registry, which is
  not in the repository.
* *Model caches* (`model_list_cache.go`, `model_show_cache.go`): readers that change no
  state of the store.  Reading them shows two windows in which an answer is older
  than it should be: the show cache takes the digest first and parses the manifest
  again later, so new content may be filed under the old digest; a refresh of the
  list may overwrite a newer entry until the next listing.
* *Runner process* (`llm/`): the scheduler sees it as `proc`, which may end at any time.
* *KV caches* (`kvcache/`): only `StartForward` and `Put` are reached in this repository;
  `CopyPrefix`, `CanResume` and `Remove` have no caller outside tests, so the runner that
  would sequence them is not there to be modelled.
* *Local blob cache and registry client* (`server/internal`): reached only with the
  experimental `client2` switched on; it repeats store and download with another layout.
* *Streaming parsers*: sequential automata over the text of tags, one per model family.
* *Transfer* (`x/transfer`): parallel transfer of tensor layers, without resumption or
  sharing; the store models the ordinary pull only.
* Of the *scheduler*: memory arithmetic (placement, batch size, VRAM thresholds).
* Of the *download*: loss of written data in a power failure, and the content of a unit.
* Of the *store*: create from uploaded files, the pull inside a create, push.
* Of the *MLX runner*: tensors, sampling, the speculative copies of caches, the HTTP
  front end.
