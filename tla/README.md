# Celeg: specifications, model checking and proofs

Celeg is an inference server for language models: a C++ library with a CPU, a
CUDA and a Metal backend, a C API, and an HTTP server with the OpenAI chat
interface. This directory holds TLA+ models of the parts that schedule and
deliver work, the TLC runs that check them on small instances, and the proofs
that TLAPS checks for every value of the constants. `PROJECT.json` lists the
components, the runs, what line each definition stands for, the hazards and the
theorems.

Run a check with `tlc -config X.cfg M` and the proofs with `tlapm M.tla`.

## 1. Inventory

Paths are relative to the repository; `core/` stands for `src/`.

| Component | State it keeps | Operations | What makes it correct |
|---|---|---|---|
| Inference service (`core/celeg/serve/inference_service.hpp`) | the requests: status, tokens produced and read | submit, poll, status, cancel, release; step, start, stop | tokens are read once and in order, an accepted cancel is final, only finished requests are forgotten, every accepted request ends |
| CPU engine (`core/backend/cpu/concurrent.cpp`, `detail/`) | request map, sessions, prefix cache, counters, the step's budget and batch | submit, poll, cancel, release, start, stop; admission, prefill and decode batches | a session outlives the model call that uses it, limits hold, every request is counted once, a request samples only after its prompt |
| CUDA engine (`core/backend/cuda/runtime/`) | registry, lanes, page tables, prefix cache, packed executor | the same service, plus page allocation under two policies | pages are owned once, a full pool does not stop the engine for ever |
| Metal service (`core/serve/metal_inference_service.cpp`) | request map, snapshots, prefix cache | the same service, one token of one request a step | the same promises, round-robin |
| Paged block pool, prefix caches, radix index (`core/runtime/concurrency/policy.cpp`, `core/runtime/cache/`, `core/backend/cpu/memory/`) | reference counts, free list, entries, LRU order | allocate, retain, release; acquire, insert, evict | references add up, no page is freed while a request or an entry uses it |
| Generation dispatcher (`core/serve/generation_dispatcher.cpp`) | watchers, running flag, thread | start, stop, watch, unwatch, cancel; step, snapshot, poll, deliver | every token reaches its watcher once, nothing is called after cancel, every watched request completes |
| HTTP server (`apps/serve/`) | one state per response | submit, watch, abort | a response is not touched after its client left |
| Engine worker (`core/runtime/concurrency/worker.cpp`) | thread, stop flag, pending flag | start, stop, notify, loop | no step runs after stop, no work is forgotten |
| CPU thread pool (`core/backend/cpu/runtime/thread_pool.cpp`) | generation, range, next chunk, pending workers | parallel_for, worker loop, destructor | every index once, the call returns after the last chunk |
| Host expert cache and expert I/O manager (`core/runtime/cache/host_expert_cache.cpp`) | slots with references, heat; a queue of tasks | acquire, release, submit, shutdown | a leased slot keeps its expert, one load per expert, shutdown ends |
| Model downloader (`core/checkpoint/`) | blobs, partial files, snapshots, refs | download, resume, resolve | published files are whole; what is accepted has the files the acceptance vouches for |
| Models, formats, tokenizers, kernels, vision, quantization | immutable after load | parsing and arithmetic | outside what TLC and TLAPS are good at |

How they interact: the HTTP thread submits to a service, then registers a
watcher with the dispatcher. The dispatcher's thread steps the service, polls
the watched ids without its lock and calls the watchers under it; a watcher
defers to the HTTP thread. When the client goes away the HTTP thread cancels
through the dispatcher, which leaves a no-op watcher behind so that the request
is still polled to its end and released. An engine takes its lock to plan and to
apply a batch and releases it for the model call. The CPU model call fans out on
the thread pool; the CUDA engine allocates pages from the pool, sharing some with
the prefix cache; experts come from the host cache.

The hard behaviour is therefore: client operations that fall inside an unlocked
model call; state read under one lock and used under another (the dispatcher's
snapshot, the engine's plan); failures of one batch, one clone, one load;
limits shared by several phases of a step; fairness of the scheduler to
low-priority and partially prefilled requests; threads that stop while others
wait. `PROJECT.json` lists the hazards one by one, each at its line, with the
properties that cover it or why none does yet.

## 2. Plan

Done:

1. `RequestService`: the abstract specification of a service, and two
   implementations that are checked and proved to refine it: `CpuEngine` and
   `CudaEngine`.
2. `CpuEngine` (+ `MCCpuEngine`), and `CpuWorker` (+ `MCCpuWorker`), which puts the
   engine under the thread that steps it; `CpuEngineProofs` is about both.
3. `PagedKv` (+ `PagedKvProofs`): the page pool and the prefix cache, as functions
   on their state; `CudaEngine` (+ `MCCudaEngine`, `CudaEngineProofs`) composes them
   with lanes and the two scheduler policies.
4. `GenerationDispatcher` (+ `MCGenerationDispatcher`,
   `GenerationDispatcherProofs`): the dispatcher on top of `RequestService`.
5. `CpuThreadPool` (+ `MCCpuThreadPool`, `CpuThreadPoolProofs`) and
   `HostExpertCache` (+ `MCHostExpertCache`, `HostExpertCacheProofs`): small
   concurrent components with every safety property proved.
6. `ExpertIoManager` (+ `ExpertIoManagerProofs`): the threads that read experts.
7. `ModelDownloader` (+ `MCModelDownloader`, `ModelDownloaderProofs`): the only
   component with a state that outlives the process.

Next, in this order:

8. The fetch of a layer's experts on top of `HostExpertCache` and
   `ExpertIoManager` (`backend/cuda/model/residency.cu`), for the failure of one
   read of several.
9. The Metal service as a third implementation of `RequestService`, and the worker
   under the CUDA engine, where `start` may overlap `stop`.

## 3. What is modelled

### RequestService

One record per request: `status` (Live stands for Queued, Prefill and Decoding,
which a client cannot act on differently), `produced`, `taken` and `cancelled`.
`Submit`, `PollTakes`, `CancelAccepted`, `CancelRefused` and `Release` are the
operations of `IRequestService`; `Move` is what one step of a scheduler may do to
one request: append a token (and finish it), fail it, or, once its cancel was
accepted, only retire it. `SchedulerMoves` moves several at once. A token is its
position in the output, so a lost, repeated or reordered token shows as a wrong
count. The two engines promise different things of a request whose cancel was
accepted and whose model call then throws: the CPU engine retires it as Cancelled,
the CUDA engine lets it end Failed. `CancelLoses` is that difference; the dispatcher
is checked against the weaker promise.

### CpuEngine

`status`, `offset`, `generated`, `polled`, `cancelReq` and `session` are the
fields of `CpuConcurrentRequest`; `cached` is the set of prompts of the prefix
cache; `metrics` the four counters of requests; `pc`, `budget` and `batch` the
local state of the thread that holds `execution_mutex`. Each action is one
critical section of `mutex`:

| Code | Action |
|---|---|
| `submit`, `poll`, `cancel`, `release`, `start`/`stop` | `Submit`, `Poll`, `Cancel`, `Release`, `StartStop` |
| `step_once`: first and second admission | `StepBegin`, `StepEnd` with `Admission` |
| `run_decode_batch`: plan, apply, catch | `PlanDecode`/`SkipDecode`, `DecodeSucceeds`, `BatchFails` |
| `run_prefill_batch`: plan (three ways), apply, catch | `PlanPrefill`/`SkipPrefill`, `PrefillSucceeds`, `BatchFails` |

Between a plan and its outcome the batch is in flight and every client action is
enabled. What the model call computes is not modelled: it may throw, and any
subset of a decode batch may draw a stop token. Admission is nondeterministic
only in which clones throw: the order, the free slots and the prefix match are
the code's. The cache may keep any part of its entries within its limits, since
which entry is evicted depends on sizes the model does not have. The prompts are
sequences of tokens because the longest match decides the phase a request enters.

### CpuWorker

`EngineWorker` around the engine: `loop` is where its thread is in the loop (`Top`,
`Gate` for the test of `running_`, `Step` for the actions of `CpuEngine`, `Returned`,
`Wakes`), `pending` its flag, `stopping` the end. A call of `submit` or `start` ends in
two critical sections: the engine's, and later the worker's, where it sets the flag
(`Notify`, counted by `owed` in between). `Returned` clears the flag without looking at
it after a step that found nothing to do, so a notification may be lost, and only the
timeout of the wait finds the request: the mutant without the timeout violates
`AcceptedEnds`. The destructor is `Close`, `Stop`, `Join`. `poll` is left out of this
module: it changes nothing the worker or the engine's step looks at.

### PagedKv and CudaEngine

`PagedKv` has no variables. A state `kv` is the reference counts of the pages and the
entries of the prefix cache in the order of their use; `Allocate`, `RetainPages`,
`ReleasePages` are the pool's operations (`ReleaseTables` gives back several page tables
at once, as when entries are evicted: a page loses one reference for each place it has
in them, `Times`), `Obtain` the allocation that evicts first,
`Acquire` and `Insert` the two operations of the cache with their copy on write
(`CopyLast`). Each returns the next state and whether it succeeded, as both classes
are called by one thread at a time. The free list is the set of pages without
references and the radix tree is what it finds, the longest prefix (`Longest`). Which
pages are handed out and which entries stay is said by places (`Nth`, `Picked`), so that
it can be reasoned about without recursion.

`CudaEngine` keeps for each request its status, `offset`, `generated`, `polled`,
`cancelReq` and its page table; `pc` and `work` are the local state of the step. A
lane is taken by an active request and by nobody else, so lanes are counted. `InOrder`
is the order in which `BatchPlanner` goes through the requests of a phase.

| Code | Action |
|---|---|
| `submit`, `poll`, `cancel`, `release` | `Submit`, `Poll`, `Cancel`, `Release` |
| `admit_requests`, one turn of its loop; its end | `AdmitNext` (`AdmitCancelled`, `Admit`, `LaneFails`, `NoPages`), `AdmitNobody` |
| prefill: plan; outcome of one request | `PlanPrefill`; `PrefillOutcome` (`PrefillCancelled`, `PrefillLeftOut`, `PrefillSucceeds`, `Fails`) |
| decode: plan with page growth; outcome of one request | `PlanDecode`; `DecodeOutcome` (`DecodeCancelled`, `Accept`, `Fails`) |

Whether the packed path or the fallback path applies an outcome is left open, which
is why `PrefillLeftOut` and `PrefillCancelled` are both possible. `Wedged` describes the
two states the engine cannot leave by itself: `Blocked`, a head of the queue that needs
more pages than there are (or all of them, and one more for the copy of a page that its
own match keeps from being evicted), and `Starved`, where every request on a lane wants
a page and only they hold pages. Both are reached in the run: `MaxUtilization` evicts
cached prefixes but never a request, and `submit` compares a request with `max_context`,
not with the pages there are. They are hazards, not findings, as no doc or test
of the repository promises more. Left out: the refusal of `submit` while the engine
stops, spans of Prefix-LM, forced prefixes, and decoding without paged memory.

### GenerationDispatcher

`main` is where `main()` is (start, serve, stop); `client` what the HTTP thread
has done for each request; `watchers` the map; `pc`, `todo` and `event` the local
state of the dispatcher's thread. The service is `RequestService`, stepped one
request at a time during the thread's call of `step()`. `Cancel` is one action
although the code holds the map's lock over two calls of the service: the only
steps that could fall in between are polls and scheduler moves, which commute.

### CpuThreadPool

`pc` says where each thread is: the workers between `waiting` (about to test the
predicate), `asleep`, the loop `claim`/`run` and `finish`; the caller between `idle`
and the steps of `parallel_for` or of the destructor. `shared` is `task_`, `end_`
and `grain_`, `mine` each thread's copy of them, `next` and `pending` the two
counters. A thread that waits on a condition variable is a state of its own that
only a notification or a spurious wake-up leaves, so a lost wake-up is a behaviour
of the model. `Claim` is one `fetch_add`; the claims of the caller and of the
workers are the same action. A task is the number of its call, `ran` counts how
often each index was run. Tasks do not throw.

| Code | Action |
|---|---|
| `parallel_for`: serial path; publication; notification; wait | `RunSerially`, `Publish`, `NotifyWork`, `Await` |
| the loop over `fetch_add` | `Claim`, `RunChunk` |
| `worker_loop`: wait and copy; done | `Wait`, `Finish` |
| the destructor | `Stop`, `NotifyStop`, `Join` |

### HostExpertCache

An element of `Calls` is one call of `acquire` and the lease it returns; `Want` is
what it asks for. `acquire` is cut where the lock is released: `Hit`, `Coalesce`,
`Miss` and `Refuse` are its first critical section, `LoadReads` the read without the
lock, `LoadSucceeds` and `LoadFails` the two ends of the load, `WaitSucceeds` and
`WaitFails` what follows the shared future; `ReleaseSlot` is the lease's release.
`payload` is the memory itself: it holds nothing from the miss on and the expert
once the read is done, so a lease over memory that is being overwritten is visible.
The state `raced` is the exception "race condition detected". Which unreferenced
slot is the victim depends on heat and age, which are floating-point: any may be.

### ExpertIoManager

`task` follows each call of `submit` (new, blocked on a full queue, retrying after a
wake-up, queued) and then its promise; `worker` each thread. The mutex is held for a
whole action, except that a worker which has found its predicate false is `dozing`,
still with the mutex, until it sleeps: `~ExpertIoManager` sets `shutdown_` and
notifies without the mutex, and its two steps may fall in between. They do so at
the price of a worker that sleeps for ever: without its condition `MutexFree`,
`JoinsUnlessDozing` fails. No comment or test of the repository promises otherwise,
so this is stated here and in the property, and listed as a hazard. Sessions are
gone when the destructor runs, so no `submit` is under way; tasks of a session that
gave up may still be queued, and must be run. There is at least one worker, as
`HostExpertCache` sees to: without one, nothing would ever be read.

### ModelDownloader

The disk (`partial`, `blob`, `link`, `ref`) outlives the process (`pc`, `named`, `force`,
`cur`, `target`, `attempt`, `answer`): `Crash` puts the process `down` at any place and `Run`
starts it again on the disk as it is. A file is a sequence of chunks, so that a wrong
offset, a part received twice or a text from an error answer shows as wrong contents.

| Code | Action |
|---|---|
| `download_model`: the loop over files, `resume_path_for` | `Run`, `UseCached`, `ChoosePartial` |
| `http_download_file`: one attempt | `Ask`, `AskInVain`, `Receive`, `Cut`, `BodyEnds`, `GiveUp` |
| rename; `create_link_or_copy` (two file operations); the ref (truncated, then written) | `Rename`; `Unlink`, `Link`; `WriteRef` |
| `resolve_hf_model` | `Found`, `Resolved` |

Partial files of other programs are prefixes of the blob of any length, at the start.
Each run is given the revision by name or as the commit's hash (`named`), and only a run
by name writes the ref. A server may honour a range, reject it or ignore it and send the
whole file, which the callback appends behind the part that is there.

What a snapshot that is accepted vouches for. `resolve_hf_model` looks for the weights (their
index, or their only file), `config.json` and `tokenizer.json`, and by a name for the ref
as well. The ref is written after the last file, so by name every file is there
(`VouchedFor(TRUE)`). By a hash it is only the order of the listing, in which the files
are linked, that speaks for those before the last one looked for; those after it are
missing when a run was killed in between. In ordinary repositories these are
`tokenizer_config.json` and `vocab.json`, and the tokenizer's loader does without the
former silently (`tokenizer_json_loader.cpp:59`): such a download is taken for complete.
`ResolvedIsLinked` says exactly this much, the run's listing ends in such a file, and the
hazard is listed; no doc, comment or test promises more.

Two history variables name what the properties except, and nothing else is excepted.
`broken`: a run was killed between the removal of a link and its replacement while the
ref or later links of an earlier run existed, and no run has reached the last file since.
`spliced`: the files of which an ignored range was cut after a part of the second copy had been
appended (see the findings). Not modelled: two processes at a time, a run with
`--file`, which writes the ref after the files named (such a run is accepted by name
without the others), links across file systems (copies), the WinHTTP transport, a blob
shared by two commits.

## 4. Runs

| Run | Question | Bounds |
|---|---|---|
| `cpu_engine_safety` | sessions pinned, active bound, metrics balance, phase, budget, and the refinement `ImplementsService` | 3 requests of 1 to 2 tokens, prompts `<1,2,1>`, `<1>`, `<1,2,1>`, 2 slots, budget 3, decode batches of 1, prefill of 2, one cache entry, decode first; 529,114 states |
| `cpu_worker` | every accepted request ends although its wake-up may be lost; the destructor returns | 2 requests, one embedded, prefill first, budget 2, 2 callers between the two mutexes, start and stop and destruction at any time; 119,827 states |
| `cuda_safety` | page account, copy on write, reserved pages enough for every batch, and the refinement `ImplementsService` | `GuaranteedNoEvict`, 4 requests (one embedded), 2 lanes, 4 pages of 2 tokens, 2 cached prefixes, chunks of 2, budget 3; 1,000,857 states |
| `cuda_liveness` | pages obtained one by one are there before they are written to; every accepted request ends, or the engine is wedged in one of two ways for ever | `MaxUtilization`, 3 requests, 2 lanes, 4 pages of 2 tokens, one cached prefix; 267,395 states |
| `dispatcher` | no token lost or repeated, no callback after cancel or unwatch, only an abort can make poll throw; clients that stay get their last event, requests of clients that left are released | 2 clients, both may abort, one may unwatch, the step may throw; 12,597 states |
| `dispatcher_death` (violation) | a watched request completes | 2 clients, one may abort |
| `dispatcher_stop` (violation) | after `stop()` the scheduler is stopped | as above |
| `thread_pool` | every index once, nobody left behind in a call, no lost wake-up of the workers, the caller or the destructor | 2 workers, calls with ranges 0..2 by 2, 1 by 1, 1..2 by a grain of 0, empty, 0..1 by 1; 13,490 states |
| `expert_cache` | leases keep their bytes, references add up, one load per expert, counters agree, every call ends | 5 calls for 3 experts over 2 slots, any load may fail; 123,021 states |
| `expert_io` | tasks are handed over once and run, blocked submits are let in, the destructor joins | 4 tasks, 2 workers, a queue of 2; 10,060 states |
| `downloader` | published blobs are whole, an accepted snapshot has the files it vouches for, repeating the download ends in a model that resolves | 3 files of 3, 1 and 1 chunks, of which the second is looked for and the last is not, 1 partial file of another program, 2 attempts, 2 faults; by name and by hash; ranges honoured or ignored, error answers without a body; 2,726,578 states |
| `downloader_errors` (violation) | published blobs are whole | as above, with answers 503 and 416 that carry a text |

The bounds are the smallest at which the interesting cases happen. In the CPU engine
three requests compete for two slots while one waits; the third prompt equals the first,
so a completed prefill makes an exact match, and extends the second, a partial one;
a budget of 3 covers a decode token and a chunk of 2 of a long prompt, and is too
small for everything at once; the priorities make the last request overtake. The
same prompts in the CUDA engine, with pages of two tokens, make cached prefixes end in
the middle of a page and at its end, and four pages are too few for two long requests and
two cached prefixes, so entries are evicted and admissions refused. In `cuda_liveness`
requests outgrow their first page, and the third needs all four pages and starts like a
cached prompt: both wedges occur. The pool's two workers let one be late by a whole call
while the other finishes it. The cache's calls share experts (a load with waiters), and
three experts over two slots force an eviction while leases are held. Four tasks over a
queue of two leave two submits blocked at once, so that one woken up can find its place
taken. A file of three chunks can be cut, resumed and cut again; two attempts and two
faults reach giving up, a crash after a failed attempt, and two crashes. The limits
(`MaxRequests`, the lengths in `Prompt`, `MaxNew`, `Callers`, `MaxFaults`) bound every
counter, so there are no state constraints. Deadlock is checked in the engines and the
downloader, where some step is always possible; the worker, the dispatcher, the pool, the
cache's calls and the I/O manager really stop.

The type invariants are proved (section 5); only that of the I/O manager is in a run
as well. `CpuWorker` has none: its run asks about liveness.

Fairness. `CpuWorker!WorkerFairSpec` assumes that the worker's thread runs, that model
calls return and the timeout of the wait expires, that a thread that has unlocked the
engine gets to the worker's mutex, and that a destructor, once begun, goes on; nothing is
assumed of clients, and nobody has to destroy the engine. `CudaEngine!FairSpec` assumes
that the thread that steps the engine (the dispatcher's loop, an endless one) takes a step
again and again. `GenerationDispatcher!FairSpec` assumes the dispatcher's thread runs, and
strong fairness of the moves of each request, which is what `CpuWorker!AcceptedEnds`
establishes of the CPU engine: a service stepped again and again serves every request
(for the CUDA engine only while it is not wedged). `CpuThreadPool!FairSpec` assumes that
threads run and tasks return, not that a sleeper wakes up by itself nor that the pool
is destroyed. `HostExpertCache!FairSpec` assumes that a read returns or throws and
that a thread whose future is ready goes on; nobody has to release a lease.
`ExpertIoManager!FairSpec` assumes the workers run, a submit that was woken up gets
the mutex, and the destructor, once begun, goes on. `ModelDownloader!FairSpec` assumes
that a run that failed is repeated and that a running process goes on; faults are bounded,
which is the usual reading of "the server answers in the end".

### Findings

* `dispatcher_death`: the ids of a round are polled without the lock. When a
  client aborts a request that has just ended, `cancel` releases it, the poll of
  the same id throws `std::out_of_range`, `run()` catches it and gives up, and no
  other client ever gets an event again. `OnlyAbortsThrow` shows that this is the
  only way a poll throws.
* `dispatcher_stop`: `stop()` takes the cleared `running_` for "already stopped",
  so after such a death the scheduler is not stopped and the thread never joined.
* `downloader_errors`: the libcurl callback appends the body of every answer to the
  partial file before the status is known (the WinHTTP transport looks at the status
  first). The text of a 503 becomes part of the file, the next attempt resumes after it,
  and the check of the size accepts the result. A 200 that ignores the range does the same
  damage by the same cause: what it appends is removed only when the answer comes to its end
  (`hf_http.cpp:435`), so when the connection breaks first, the next attempt goes on
  after it. In the `downloader` run, too, `BlobsAreWhole` without its exception
  for `spliced` is violated.

### Limits of single runs

* `dispatcher`: `StepMayThrow` is `TRUE`, so the second conjunct of `OnlyAbortsThrow`
  (without a step that throws the dispatcher dies of aborts only) is vacuous in
  this run; only `OnlyAbortsTheorem` covers it. A watcher's callback that throws
  (`generation_dispatcher.cpp:82`) also ends the loop and is not modelled.
* `cpu_worker`: two requests cannot show that an endless stream of requests with
  a higher priority or an embedding starves another, which the order in
  `cpu/concurrent.cpp` allows. `AcceptedEnds` speaks of finitely many requests.
* `BatchHasPages` is checked under both policies: `cuda_safety` has the pages that
  `GuaranteedNoEvict` reserves, `cuda_liveness` those that `MaxUtilization` obtains
  while it decodes.

## 5. Theorems

Every safety property of every passing run is proved for every value of the constants
that the module's `ASSUME` allows, and so is the safety of the two refinements of
`RequestService`. `WholeTheorem` of `ModelDownloader` is the one theorem with a
hypothesis besides (below). The assumptions say what constructors and callers ensure, each at the
line it is taken from; the runs evaluate them.

### CpuEngineProofs

It proves, for every number of requests, every prompt, limit,
priority and cache size allowed by `EngineAssumption` (what the constructor and
`submit` refuse):

* `TypeTheorem`: `Spec => []TypeOK`.
* `PinnedTheorem`: `Spec => []SessionsPinned`.
* `PhaseTheorem`: `Spec => []PhaseMatchesPrompt`.
* `BudgetTheorem`: `Spec => []BudgetCovers`.
* `ActiveTheorem` and `MetricsTheorem`: `Spec => []ActiveBound`, `Spec => []MetricsBalance`.
* `ServiceTheorem`: `Spec => ImplementsService`, the refinement of `RequestService`.
* `WorkerTheorem`: `WorkerSpec => Spec`, so all of the above holds under the worker;
  `DestroyedTheorem`: when the destructor has returned, the thread has ended, no batch is
  in flight and no `notify` is to come.

The inductive invariant is `Inv == Phased /\ Bookkept /\ Driven /\ Spendable`.
`SessionsPinned` alone is not inductive: that a client cannot retire a request of
the batch rests on the batch's requests being in the phase it was planned for
(`BatchInPhase`), on active requests holding a session (`ActiveHolds`), and on
both admissions of a step falling where no batch is in flight (`Driven`). The
phase needs that nothing was generated before a request left the queue
(`NothingYet`), and that a prefix match is never longer than the prompt
(`MatchedIsPartial`). The budget needs the one combinatorial fact of the module:
cutting a set to its first k leaves at most k (`FirstIsBounded`, by the injection
of a request to its rank), so that `take * |plan|` never exceeds what is left.
Each lemma `...KeepsPhased` handles one group of actions; `StepKeepsInv` puts
them together and `InvAlways` is the temporal step.

`Balanced` is the two facts about numbers. Both follow the sets of active and of
queued requests: an admission moves at most as many as there are free slots, and splits
what leaves the queue into admitted and failed; an outcome takes from the active exactly
the requests it counts. That a batch names a request once, and only active ones
(`BatchInPhase`), is why nothing is counted twice.

For the refinement, `View` is the service that clients see. Each client operation is the
operation of that name, and a step of the scheduler moves several requests at once:
`Advances`, `Ends` and `Stays` say what happens to one of them, and `SchedulerStep` is that
a step in which each request does one of the three is a step of the service. It needs
`Wishes`: a queued request has no wish to be cancelled, since `cancel` retires it on the
spot; otherwise an admission that fails would let a request end Failed whose cancel was
accepted, which the service of the CPU engine does not allow.

For the worker, `Attended` says that the engine is between two steps unless the thread is
in `Step`, and that then nothing is in flight: the thread looks at `stopping` only there.

### PagedKvProofs and CudaEngineProofs

For every number of pages, tokens of a page, cached prefixes, requests, lanes, chunk and
budget, every prompt and priority, with and without embeddings, and under both policies
(`KvAssumption`, `CudaAssumption`): `TypeTheorem`, `AccountTheorem` (`PagesAccount`),
`WritesAloneTheorem`, `BatchTheorem` (`BatchHasPages`) and `ServiceTheorem`
(`ImplementsService`), every safety property of `cuda_safety`.

`PagedKvProofs` has lemmas only, one for each operation of the pool and the cache.
`Sound(kv, holders)` says that the count of each page is what its holders outside the
cache are, plus the entries it is in, and each lemma `...Sound` that the operation takes
a sound state to a sound one, with the holders changed by exactly what it handed out or
took back. Pages it hands out are in no table and in no entry (`Lawful`). The two
operations that share pages say more: after `Acquire` (`Leased`) and `Insert` (`SharesWhole`),
a page that ends inside the shared prefix has been replaced by a copy on one side or the
other. The combinatorics is in `Ranks` (elements of an ordered finite set and their
places) and in the counts of families of tables (`FamilyTimes`, `EntriesSplit`).

`CudaEngineProofs` instantiates the holders with the page tables of the requests
(`CountOf`). Neither `WritesAlone` nor `PagesAccount` is inductive: a page is handed out
because its count is zero, and only the account says that nobody holds it then; giving a
table back keeps the account only if no page is twice in it. `Kept` has the account,
that tables have no page twice and that only active requests have pages, and, in place
of counts that are one, `Apart`: a page an active request has yet to write to is in no
entry and in no other table. `KeptInsert` is the step where `Apart` could break, as a
prompt's pages become an entry while its request goes on to write: it holds because the
prompt is inserted when `offset` is its length, so that a last page that is not full is
copied. `IInv` adds to `Kept` the size of each page table (`Sized`) and that the batch's
requests stay in its phase (`BatchStays`), from which each of them has a page for the
tokens of its step; for decoding, `PlanDecode` adds the pages, and the numbers it deals
out are proved to be different ones. One lemma `...Keeps` stands for each action or
group of actions. The runs `cuda_safety` and `cuda_liveness` were used to check `IInv`
before it was proved. The refinement follows the CPU engine's, with `CancelLoses` true:
a failure of the model call may end a request whose cancel was accepted.

### ExpertIoManagerProofs

For every set of tasks, at least one worker and every depth of the queue
(`ManagerAssumption`): `TypeTheorem`, `HandedTheorem` (`HandedOnce`) and `AwakeTheorem`
(`NoTaskWaitsAlone`). `Inv` says that the queue holds the queued tasks and each once
(`QueueHolds`), that each running task has one worker (`WorkersHold`), and that a worker
leaves only after the destructor has begun (`Closing`). A worker sleeps or dozes only
when it found the queue empty, and a push wakes one of those asleep; the case that makes the
invariant worth having is the last worker to fall asleep, which is `dozing`, with the mutex,
until nothing can be pushed that it does not see.

### ModelDownloaderProofs

For every listing, every size of file, every number of partial files, attempts and
crashes (`DownloadAssumption`):

* `OrderTheorem`: `Spec => []LinkedInOrder`. The files that have a link in the snapshot
  are the first ones of the listing, except for the file whose link is being replaced,
  and after a run killed in that window (`broken`).
* `LinkedTheorem`: `Spec => []ResolvedIsLinked`, without hypotheses about the listing or
  what is looked for. By name it rests on `RefVouches` (where the ref is, all
  links are, but for the one being replaced), by hash on `LinkedInOrder`.
* `WholeTheorem`: `Spec => []BlobsAreWhole`, under the hypothesis `~ErrorPages`: answers
  that are not the file have no body. It cannot be left out: `downloader_errors` is the
  counterexample. Nor can the exception for `spliced` in the property (see the findings).

There are two inductive invariants. `Disk` follows existence: what is at hand in each
step, how far the run has linked, and what the ref speaks for. `Contents` follows bytes:
every partial file is a beginning of its blob, also after a crash at any byte, but for
one that a second copy is being appended to (`PartialsBegin`); and the rest of any other answer
continues exactly where the file ends (`Continues`), so that a file of the right length
is the file. Of an ignored range it keeps that the part before the offset is a
beginning, so that a transfer cut before its first byte leaves a beginning again.

### GenerationDispatcherProofs

For every set of requests, every limit and every set of clients that may abort or unwatch
(`DispatcherAssumption`): `NothingLostTheorem`, `SilentTheorem`, `FinishedTheorem`,
`OnlyAbortsTheorem` and `DispatcherTypeTheorem`, that is, every safety property of the run.

The inductive invariant `Inv` adds to the properties what the map, the service and
the thread's local state know of each other. A client's watcher is in the map exactly
while the client watches and the service knows the request, and a no-op watcher stands for
an aborted one (`Watched`): hence a snapshot holds known ids unless their client left. An
id in `todo` or in the event at hand was watched when the snapshot was made, so nothing
was taken for a request before its `watch` (`Untouched`). When the event at hand is the
last one, the service has nothing more to give for that request (`Rounds`), which makes
`FinishedIsComplete` follow from `NothingLost`. While `main()` serves, a thread that is up has
not been told to stop (`Alive`). The lemmas `...Changes` say what each operation of the
service does to the other requests; `...Keeps` are one for each group of actions.

### CpuThreadPoolProofs

For every finite set of workers and every sequence of calls (`PoolAssumption`):
`NeverTerminatesTheorem`, `NoStragglersTheorem`, `RanOnceTheorem` and
`PoolTypeTheorem`, that is, every safety property of the run.

None of them is inductive. The first three facts rest on
`Steady == Shape /\ Control /\ Current /\ Counted`: the count of pending workers is
the cardinality of `Owing`, the workers that work on the published loop or have not
yet seen its generation (`Counted`). While a worker owes, the count is not zero
(`SomebodyOwes`), so the caller is still in the call; when it is zero nobody is busy
(`NobodyIsBusy`), which is why the next call may overwrite the task. `RanOnce` rests
on `Covered` on top of that: chunks held lie below `next` and inside the loop
(`Bounds`), no two of them overlap (`Apart`), and an index of the call was run once if
it lies below `next` and nobody holds it, and not at all otherwise (`Accounted`). The
caller only waits when `next` has passed the end, and only returns when nobody owes:
then nobody holds anything, and every index has been run.

### HostExpertCacheProofs

For every set of calls, slots and experts (`CacheAssumption`): `RefsTheorem`,
`LeaseTheorem`, `NeverRacesTheorem`, `LoadedOnceTheorem`, `ReadOrEvictedTheorem` and
`CacheTypeTheorem`, again every safety property of the run.

The inductive invariant is `Steady == Shape /\ Consistent /\ RefsAccount`.
`RefsAccount` is needed by all the others: a slot may be a victim when its count is
zero, and only because the count is the number of its users does this mean that no
call loads into it, waits for it or leases it (`FreeIsUnused`). `Consistent` says that
a loading slot and the call that loads it point at each other (`Loads`), that until
the load a call waits for has failed the slot is as the call left it (`Waits`), that
a slot which is open holds its expert's bytes (`Filled`), and that no expert is in two
slots (`Unique`). The converse matters too: a call that stops using a slot finds the
count above zero (`UsedIsCounted`), so the clamps at zero in the code never act.
`ReadOrEvicted` adds the cardinalities of the resident and the arriving experts.

### Model-checked only

Liveness under fairness is out of the prover's reach, and so is `ENABLED`. These stay with
TLC on the bounds of section 4: `AcceptedEnds` and `DestructorReturns` (the worker),
`EndsUnlessWedged`, `WatchedEnds` and `AbortedIsReleased` (the dispatcher), `CallReturns` and
`PoolEnds` (the pool), `CallsEnd` (the cache), `BlockedAreServed`, `AcceptedAreRun` and
`JoinsUnlessDozing` (the I/O manager), `Completes` (the downloader), and that no
component deadlocks. The theorems hold of `Spec`, hence of each fair specification as well,
which only adds conjuncts. Nothing is proved by induction over data; sequences are
reasoned about place by place.

## 6. What is not modelled

Components marked `not_modelled` in `PROJECT.json`, with the reason there: the bulk of the
code by lines is parsing, arithmetic and kernels (formats, tokenizers, layers, CUDA and
AVX2 kernels, sampling, vision, quantization), sequential code without a protocol.
Of the modelled components: timing metrics, NUMA placement, the texts of errors, the finish
reason, JSON and HTTP, and what a model computes.
