# A TLA+ verification project for custom-ai

custom-ai deploys a private question-answering stack: OpenWebUI as front end, a
small OpenAI-compatible proxy, RAGFlow for retrieval and vLLM for inference. The
repository holds the deployment scripts (`bundle/`), the proxy (`infra/`) and
full forks of the three programs (`repos/`). This directory models the parts
with the most protocol state, checks them with TLC on small instances and proves
the most important invariants with TLAPS for every size.

Most of the repository's 680,000 lines are GPU kernels, model definitions,
document parsers, request handlers over a database and front-end code. They keep
no protocol state and are not modelled. What is modelled is where the programs
coordinate: vLLM's KV cache, scheduler, encoder cache and data-parallel engines,
RAGFlow's document tasks, and what OpenWebUI's processes share through Redis.

## 1. Inventory

| component | state | operations | what is hard | what makes it correct |
|---|---|---|---|---|
| vLLM free block queue (`v1/core/kv_cache_utils.py`) | prev/next pointers in the blocks, two fake ends, a counter | `popleft`, `popleft_n`, `remove`, `append`, `append_n` | loops that relink step by step; popping everything | the list is the queue it stands for, and a fake end is never handed out |
| vLLM block pool and KV cache manager (`block_pool.py`, `kv_cache_manager.py`, `single_type_kv_cache_manager.py`) | reference counts, block hashes, prefix map, block tables | `get_computed_blocks`, `allocate_slots`, `cache_blocks`, `free`, `evict_blocks`, `reset_prefix_cache` | blocks shared between requests and between "free" and "cached"; eviction at reuse | no leak, no double use, no stale hash, no gap in a cached prefix |
| vLLM scheduler and engine loop (`sched/`, `engine/core.py`) | request status and counters, running and waiting queues, batches in flight | add, abort, `schedule`, preemption, `update_from_output`, forced reset | outputs that arrive after their request was preempted, aborted or resumed; budget and limits; liveness under preemption | a token counted as computed has its KV data; outputs land where they were sampled for; queues match status; everyone finishes |
| vLLM encoder cache (`encoder_cache_manager.py`, parts of `scheduler.py` and of the worker) | references and freeable entries, slot counters; the worker's tensors | `check_and_update_cache`, `can_allocate`, `allocate`, `free`, planning of encoder inputs, execution | entries promised, touched and evicted before the request is admitted; the worker learns of evictions later | slots are conserved, the worker never misses an image, no prompt starves |
| vLLM data-parallel engines (`engine/coordinator.py`, `DPEngineCoreProc`, `DPAsyncMPClient`) | wave numbers and running flags of engines, coordinator and clients | send a request, start wave, step together, finish wave | messages on independent channels that cross the end of a wave | nobody waits in a collective call alone; every request is served |
| RAGFlow task pipeline (`task_executor.py`, `task_service.py`, `redis_conn.py`, `document_app.py`) | Redis stream with unacknowledged messages, task rows, cancel flags, inserted chunks | parse, re-parse, cancel, collect, handle, acknowledge, derive progress | executor crash and redelivery; cancellation swallowed in `set_progress`; rows deleted under a running executor | no task is lost, every document ends, rows and index agree |
| OpenWebUI tasks (`tasks.py`) | local and Redis task registry | create, stop, clean up | read-then-delete across awaits, pub/sub, processes that die | a running task can be listed and stopped |
| OpenWebUI Redis lock (`socket/utils.py`, `socket/main.py`) | one key with expiry | acquire with retries, renew, release | renewal and release after expiry | one cleaner at a time |
| RAGFlow sandbox pool (`sandbox/executor_manager/core/container.py`) | queue of container names | allocate, release, recreate | failing recreation | the pool does not shrink |
| proxy (`infra/ragflow-openai-proxy/app.py`) | none | forward a request, stream the answer | a blocking call in an async handler | one answer per request |
| deployment bundle (`bundle/scripts`) | images, compose services on the host | load, upgrade, destroy | partial upgrades | - |

The programs interact by HTTP from front to back (OpenWebUI, proxy, RAGFlow,
vLLM). Inside vLLM the scheduler calls the KV cache manager, which owns the block
pool, which owns the free queue, and the encoder cache manager; all of these run
in one thread, `EngineCoreProc.run_busy_loop`, so concurrency there is between
batches in flight, client requests and the scheduler's own decisions. Engines of
a data-parallel deployment, their coordinator and the API servers exchange
messages over ZMQ sockets. RAGFlow's web server, task executors and progress loop
share a database, a Redis stream and the document store. OpenWebUI's processes
share Redis.

`PROJECT.json` lists the hazards, each at its line, with the properties that
would catch it.

## 2. The modules

```
BlockQueue                 a queue of distinct blocks
  ^ implemented by
FreeKVCacheBlockQueue      linked list                <- FreeKVCacheBlockQueueProofs, MCFreeKVCacheBlockQueue
KVCacheManager             pool, prefix map, tables   <- KVCacheManagerProofs
  ^ KVSpec implemented by
Scheduler EXTENDS KVCacheManager                      <- SchedulerProofs <- SchedulerOutputProofs, MCScheduler
EncoderCacheManager        images, scheduler, worker  <- EncoderCacheProofs, MCEncoderCache
DataParallelWaves          clients, coordinator, engines <- DataParallelWavesProofs, MCDataParallelWaves
DocumentTasks              RAGFlow's parsing of a document <- DocumentTasksProofs, MCDocumentTasks
Processes                  processes that die and are started again
  BackgroundTasks EXTENDS Processes    task registry
  UsageCleanup EXTENDS Processes       Redis lock and its one cleaner
    OpenWebUI EXTENDS both             their composition <- OpenWebUIProofs, MCOpenWebUI
```

A definition whose comment calls it a faulty variant is not used by any
specification. It is a plausible mistake in the definition after it, kept to
show that a property notices.

### FreeKVCacheBlockQueue and BlockQueue

`prev` and `next` are the two pointer attributes of every block and of the two
fakes. `popleft`, `remove` and `append` are straight-line code and one action
each. `popleft_n` and `append_n` are a start action, one action per iteration
and an end action, with `curr`, `todo`, `arg` and `ret` as the method's locals,
so half-relinked lists are states of the model. `order` is a history variable:
the queue as its callers think of it. The guards on the blocks passed to
`append`/`append_n` (not in the list, no duplicates) are what `BlockPool` keeps:
see `FreeIsUnreferenced` below.

`BlockQueue` says what the class promises: blocks are taken from the front, taken
out, or put at the end. `MCFreeKVCacheBlockQueue` reads the visible queue off the
pointers and states that the list implements it (`ImplementsQueue`).

### KVCacheManager

One action per call, because calls are atomic with respect to each other. The
free queue is a sequence here, as justified by the module above. `cached` keeps
the blocks of a hash in insertion order, which is what `BlockHashToBlockMap`
does with its block-or-dict values. Token counts are turned into block counts by
the callers: `allocate_slots(r, hits, num_blocks, num_full)` is the call for a
total of `num_blocks` blocks of which `num_full` are full and final.

`block_hashes[r]` is the hash chain of the tokens the request will finally have.
A hash stands for the whole prefix up to the end of its block
(`HashChainAssumption`): `hash_block_tokens` feeds the parent's hash into every
block's hash, and collisions are ignored.

`KVNext` is the most general caller: it admits a request that holds no blocks,
with hits, grows one that holds some, commits full blocks, frees, evicts (with a
connector) and resets, in any order. This makes `KVSpec` an abstract
specification for the scheduler to be checked against.

### Scheduler

`schedule()` and `update_from_output()` take one action per loop iteration; `pc`
says where the engine's thread is.

| action | code |
|---|---|
| `add_request`, `finish_requests`, `reset_prefix_cache_if_unused`, `reset_begin/preempt/end` | client calls between steps; aborts also while an output is awaited (`_process_aborts_queue`) |
| `schedule_begin`, `running_skip`, `running_pick`, `running_allocate`, `running_preempt`, `running_done` | the loop over running requests with its inner loop of allocation and preemption |
| `waiting_admit` | the loop over waiting requests |
| `schedule_end` | the end of `schedule`, `_update_after_schedule` and its async override, handing the batch to the executor, and the decision of `step_with_batch_queue` to return or to wait |
| `await_begin`, `update_begin` | waiting for the oldest batch, taking its output |
| `update_nothing`, `update_discard`, `update_token`, `_free_request`, `update_end` | the loop of `update_from_output` |

External, modelled from how the scheduler uses it: the model runner. It writes
the KV data of the scheduled tokens into the slots of the block table, in the
order in which batches are submitted, and samples one token for every request
whose prefill the batch completes. `kv_data` is a ghost that remembers, for every
slot, which prefix its content belongs to; a batch in flight remembers for which
position each token was sampled. Both are needed only by properties.

Constants select the configuration: `Policy`, `Async`, `BatchQueueSize` (the
executor's `max_concurrent_batches`: 1, or the number of pipeline stages, or 2
for async scheduling), chunked prefill, thresholds and limits.
`SchedulerAssumption` holds what the code insists on at startup, and what it
insists on of a request: `min_tokens` is at most `max_tokens` (`SamplingParams`),
and the API server cuts `max_tokens` to what the context leaves (`get_max_tokens`).
The second is not checked for callers of the library: `check_stop` tests
`min_tokens` before the length limits, so a request whose `min_tokens` goes beyond
the context would reach `max_model_len` and not end.

### EncoderCacheManager

`manager` is a record with the fields of the class; its methods (`touch`,
`can_allocate` with `evict`, `allocate`, `free_encoder_input`, `free`) are
operators from manager to manager, because `_try_schedule_encoder_inputs` calls
them several times within one iteration of `schedule()`. That loop over a
request's images is a `Fold`: a function from the position in the loop to what it
has made so far. `Slots` counts the embeddings of a set of entries as cells, so that
no sum is needed. The actions are the iterations of `schedule()`'s two
loops (`schedule_running`, `schedule_waiting`), its start and end, requests that
arrive and finish, `execute_model` of the worker and `reset_encoder_cache`. The
worker's own cache changes only when it executes a batch: first it drops the
hashes that the batch names as freed, then it stores what the batch encodes.

The KV cache appears only by its answers: a prefix hit of whole blocks (any), and
success or failure of `allocate_slots` (failures bounded). Module Scheduler has
the rest of `schedule()`. Whether EAGLE and chunked multimodal input are on is
chosen in `Init`.

### DataParallelWaves

`add_request_async`, `poll`, `forward_first_req` and `update_client` are the
client; the last three are one task, `run_engine_stats_update_task`, whose poll and
continuation are separate because other coroutines run in between. `new_request`,
`wave_complete`, `start_wave` and `publish` are the coordinator's messages.
`add_request` and `start_dp_wave` are an engine's input queue, which it reads only
between steps; `begin_step` and `end_step` are the collective step: it ends when
all engines have begun it, and every `SyncPeriod`-th one decides by an all-reduce
whether to go on. Every arrow between processes is a sequence of messages.

The constant `PromptClient` says whether a client forwards a notification before
the wave it is about ends. The code does not guarantee this: see the finding.

### DocumentTasks

One document. The web API's requests (`run_*`, `queue_*`, `begin2parse`,
`cancel_*`) take one step per access to database, document store or Redis, and so
does every coroutine of an executor:

| action | code |
|---|---|
| `collect`, `get_task*`, `collect_has_canceled`, `collect_refused` | taking a message; counting the attempt in the row, which is committed; the test for cancellation; the `ack` of a message that is not handled. `collect` awaits nothing, so one coroutine of a process is in it at a time |
| `start_canceled`, `build_chunks`, `build_chunks_fails`, `no_chunks` | `do_handle_task` up to the chunks: a page range may yield none, and parsing may raise, or record a failure and return nothing |
| `maybe_insert_*`, `insert_mothers`, `insert_es*`, `insert_canceled`, `record_chunk_ids` | `_maybe_insert_es` and `insert_es`: the parents of the chunks, then batch after batch with its cancellation test and its chunk ids. It runs a second time for the table of contents |
| `indexing_done`, `finish`, `handler_raises`, `finally`, `handle_task_fails`, `ack` | the end of `do_handle_task` with its `finally` block, and of `handle_task` |

The progress loop reads (`sync_read`) and later writes (`sync_write`). An executor
may die between any two steps, and reads its unacknowledged messages first when it
is started again. Progress values are the ones the code tells apart: missing row,
failed, zero, something, done. A chunk is a page and a batch number, because its
id is a hash of its content: parsing a page again yields the same ids; batch 0 is
the table of contents. Parents of chunks are in no row, so `doc_store` leaves them
out; only the steps and cancellation tests of their insertion are there.

### Processes, BackgroundTasks, UsageCleanup, OpenWebUI

`BackgroundTasks` has one action per piece of code between two awaits: a task is
entered in the local dictionary and then saved to Redis; it ends, and its cleanup
runs two Redis transactions; a stop is published to the processes that have
subscribed and read by each of them in its own time. The start of a process only
creates the task that subscribes, so `subscribe` is an action of its own. `lost`
remembers the two races the code has (below), so that the properties can say that
nothing else goes wrong; `stopped` are the tasks for which a stop reached their
process. Chats and collaborative documents register with one Redis, as they do
unless `WEBSOCKET_REDIS_URL` is set to another one than `REDIS_URL`.

`UsageCleanup` counts time in units of which the lock lives for `LockTimeout`; a
retry waits for half of that to all of it, a cleaner sleeps for `TimeoutDuration`
and longer if its event loop is busy. `since` counts the units since a cleaner set
the lock, and `stalled` remembers that one let `LockTimeout` of them pass.
`lock_value` is whose lock id the key holds; a process has a new id after a restart.
Time is discrete: what takes less than a unit may happen before or after its end.

`OpenWebUI` composes them: when a process dies its tasks, its listener and its
cleaner die together. Since the two parts share nothing but the lives of the
processes, `focus` lets one of them move per behaviour.

## 3. What is checked

| run | instance | properties | distinct states |
|---|---|---|---|
| `free_queue` | 5 blocks, any operations | `IInv`, `FakesNeverPopped`, `ImplementsQueue` | 9,786 |
| `scheduler_pipeline` | 2 requests, 2 batches in flight, no chunking, fairness | `KVInv`, `KVSpec`, `EveryRequestFinishes`, `OutputInOrder` | 12,974 |
| `scheduler_async` | 3 requests, AsyncScheduler, chunked prefill | `TypeOK`, `ComputedTokensHaveKV`, `NeverAheadOfTokens`, `PlaceholdersMatchOutputs`, `OutputsWithinLimits`, `FCFSOrder`, `PrefixClosed`, `OutputInOrder`, `AppendOnly` | 452,426 |
| `scheduler_priority` | 2 requests, AsyncScheduler under PRIORITY, long low-priority prompt, a forced reset | `QueuesMatchStatus`, `ScheduleAsserts`, `ResetSucceeds` | 72,094 |
| `encoder_cache` | 2 requests with 5 image places and 3 images, 2 batches in flight, 1 failed allocation, 1 reset, with and without EAGLE and chunked input, fairness | `EncoderTypeOK`, `SlotsAccounted`, `PinnedIsNeeded`, `CachesAgree`, `NoCacheMiss`, `PromptsGetComputed` | 538,270 |
| `dp_waves` | 1 client, 2 engines, 2 requests, `SyncPeriod` 2, prompt client, fairness | `WavesTypeOK`, `NobodyStranded`, `WavesAgree`, `CoordinatorKnows`, `EveryRequestServed` | 56,379 |
| `document_tasks` | 1 page whose chunks have parents, with and without a table of contents, 2 requests (parse, parse again or cancel), 2 attempts per task, 1 executor with 2 coroutines that dies whenever it handles a task and once otherwise, fairness | `TasksTypeOK`, `NoLostTask`, `IndexedUnlessCanceled`, `EveryDocumentEnds` | 358,014 |
| `openwebui` | 2 processes, 1 crash, 2 tasks of one chat, 3 attempts for a lock of 4 units, renewed after 1, fairness | `OpenWebUITypeOK`, `RunningTasksAreListed`, `OneCleaner`, `GivesUpForTheLiving`, `StoppedTasksEnd`, `DoneTasksAreForgotten` | 455,886 |

Four more runs expect a violation; see the findings.

**What the properties say.** `ComputedTokensHaveKV` is the contract of a prefix
cache: whatever the scheduler counts as computed is really there, for this
request's tokens, once the batches submitted so far have run. It fails if a
block is freed while in use or stays in the prefix map across its reuse.
`NeverAheadOfTokens` adds that nothing is computed or cached for a token that is
neither known nor about to be sampled, and `OutputsWithinLimits` that no step is
spent on a token beyond `max_tokens` or `max_model_len`. `OutputInOrder` says that
a token is appended at the position it was sampled for. `QueuesMatchStatus`
includes that only running requests hold blocks. `PrefixClosed` justifies the
early stop in `find_longest_cache_hit`; it depends on blocks being freed last one
first. `KVSpec`, as a property of the scheduler, transfers the theorem about the
KV cache to the scheduler.

`CachesAgree` relates the manager's books to the worker's tensors through the
batches in flight; `NoCacheMiss` is the worker's assertion "Encoder cache miss".
`NobodyStranded` says that the engines run together or pause together once the
messages have arrived, which is what a mixture-of-experts forward pass needs.
`TasksTypeOK` adds to the types that no task is handled more than `RetryLimit`
times. The count itself has no bound: an executor that dies after it has counted a
refused attempt and before it acknowledges the message counts it again.
`NoLostTask` says where a task's message is at any moment, `IndexedUnlessCanceled`
that rows and index agree although a re-parse deletes rows and chunks under
executors of the earlier run: the row of a task that is done names all chunks of its
page range or, with a table of contents, that one alone, and they are all indexed.

`RunningTasksAreListed`, `DoneTasksAreForgotten`, `StoppedTasksEnd` and `OneCleaner`
name the exceptions the code has: a set deleted after it was found empty, a cleanup
that overtakes the save, a stop before the process of the task has subscribed, a
cleaner that lets the lock's lifetime pass. They do not show that these cannot
happen, since they do; they say that nothing else goes wrong.

`OutputInOrder` is checked without forced resets, with which it is false
(`async_reset_hang`).

**Bounds.** Scheduler: three usable blocks for requests that need up to three each
make every second request a candidate for preemption and every reuse an eviction;
two requests with a common prompt make sharing and prefix hits happen, the third
shares nothing. Prompts of three tokens in blocks of two leave a block half full
at the end of the prefill; a token budget of three splits prefills, one of six
(not chunked) does not. Two outputs after the first reach both length limits.
PRIORITY uses one-token blocks, a prompt of six and a threshold of two, because
its interesting case needs a victim that is scheduled before the request that
evicts it. Each request is added once.

Encoder cache: images of two, two and three embeddings in a cache for four; r1 has
two adjacent images, the second with text between its embeddings, r2 repeats an
image and has one that fits beside no other. So requests share an image, repeat
one, evict each other's, and need one after the other. An instance with three
requests (3.9 million states, safety only) and one with two failures (1.2 million)
give the same results.

Data parallel: two requests suffice for a wave to end while the second is under
way and for a third wave number. Two clients, three engines or three requests
give the same results. `SyncPeriod` 2 instead of 32 keeps steps with and without
an all-reduce.

Document tasks: two runs of one page make the tasks of an old and a new run work
on the same chunks. A document may kill its executor each time it is handled, which
the retry limit bounds (2 instead of the code's 3); an executor that handles nothing,
and so may be about to acknowledge a refused message, dies once. Blank pages, several
batches and a parse request after a cancellation are in reach of the theorems only,
apart from `reuse_after_cancel`, which has two pages and three requests.

OpenWebUI: both processes may start, one may die once and start again; two tasks
of one chat share the item's set. With a lifetime of four units and delays of two to
four the two retries of a process can last exactly as long as a lock.

**Fairness.** `EveryRequestFinishes` assumes weak fairness of `EngineStep`, all
of the engine thread's own steps together: `run_busy_loop` never stops while
there are requests or batches, and the executor's futures complete. Nothing is
assumed of clients; aborts are allowed but not needed.
`PromptsGetComputed` assumes the same of the engine loop, with "a step is
enabled" written out (`CanSchedule`), of the worker, and that no request decodes
for ever, which `max_tokens` ends.
`EveryRequestServed` assumes that every process goes on and every message is
read. For an engine's input queue this is strong fairness: it is read only
between steps, but before every step. A request that is computed again and again
finishes (`EveryRequestFinishes`).
`EveryDocumentEnds` assumes weak fairness of three things: that requests are served
to their end, that the progress loop goes on, and that an executor, started again by
its launcher if need be, takes some step as long as there is one (no coroutine of it
is favoured). It assumes nothing of crashes: a document may kill its executor in
every attempt, and the retry count must end this.
`StoppedTasksEnd` and `DoneTasksAreForgotten` assume that the event loop of a
process that is up goes on, that Redis answers, and that a coroutine ends once it
is cancelled. Nothing is assumed of the subscription.

Deadlock is not checked in the four specifications in which everything may end
(all requests served, all tasks done, no more crashes within the bound).

### Findings

Four runs expect a violation; in each the code does not do what its comments,
docs or tests say.

* `async_reset_hang`: `reset_prefix_cache(reset_running_requests=True)` under
  `AsyncScheduler` marks every running request to have its next token discarded
  ("to avoid a redundant repetitive output token"), also a request that has no
  output in flight. A token nobody repeated is lost and its placeholder stays;
  near `max_tokens` the request is then skipped in every step and never finishes.
* `priority_preemption`: under PRIORITY, a victim that was scheduled earlier in
  the same step has already entered its full blocks into the prefix cache. They
  are never computed, but found when the request is resumed.
* `stranded_engine`: a client stamps the notification of a first request with the
  wave current when it forwards it. If the wave has ended in between, the
  coordinator excludes from the next START_DP_WAVE an engine that holds no request,
  and the others wait for it. `dp_waves` shows that this is the only gap:
  with prompt forwarding everything holds.
* `reuse_after_cancel`: a canceled task deletes all chunks of its document, but
  rows of page ranges that were done keep their chunk ids. The next parse request
  takes these for reusable and reports the pages as done.

Seen on the way, without a run of their own:

* With three or more batches in flight (pipeline parallelism of three), a request
  preempted while its output is in flight can be resumed and sampled again at the
  same position before that output arrives, and both tokens are appended:
  `OutputInOrder` fails with `BatchQueueSize` 3.
* With EAGLE the drafter reads one position beyond the batch. An image that begins
  there may not be encoded, and the drafter's "Encoder cache miss" assertion fails:
  `NoCacheMiss`, stated for that position, fails in six steps. With two adjacent
  images that do not fit together the scheduler can go on giving a request zero
  tokens, because the cut is one position earlier, where the first image is still
  needed: `PromptsGetComputed` fails if stated for EAGLE too, and a waiting
  request keeps its reference (the exception in `PinnedIsNeeded`).
* A process of OpenWebUI that gave up the lock never tries again; tasks of a dead
  process stay in Redis; the listener ends with its first connection error; a stop
  published between the start of a process and its subscription is lost, and nobody
  repeats it. If `WEBSOCKET_REDIS_URL` is not `REDIS_URL`, the debounced saves of
  documents register in a Redis to which no listener has subscribed. The code promises
  nothing else, so there is nothing to state.
* `WEBSOCKET_REDIS_LOCK_TIMEOUT` may be set to less than the three seconds a cleaner
  sleeps (`env.py` does not check it). Then the lock expires in every round,
  `stalled` is always set, and nothing is claimed.
* With `toc_extraction` the second `insert_es`, for the table of contents, replaces the
  chunk ids in the task's row by its own (`task_executor.py:862-865`, `1097-1102`). A
  later parse request that does not reuse the row, and relies on it for what to delete,
  deletes the table of contents and leaves the chunks.
* What the insertion of parent chunks returns is ignored (`task_executor.py:841-843`).
  `ESConnection.insert` returns no error if every attempt times out
  (`es_conn.py:184-207`); the model takes "no error" for "inserted".
* `_sync_progress` writes what it derived from rows it read before; a cancel
  request in between is overwritten and, usually, repaired by the next round.

## 4. What is proved

`FreeKVCacheBlockQueueProofs`, for a pool of any size (`NumBlocksAssumption`):

* `ListWellFormed`: `Spec => []IInv`. The pointers alone do not give an
  inductive invariant: which blocks are linked, and in which order, is not a
  first-order property of `next`. The history variable `order` supplies it.
  `Chained`, `HeadEnd` and `TailEnd` relate pointers and `order`, weakened by the
  number of blocks a running `popleft_n` has unlinked; `PopLoop` and `AppendLoop`
  are the loop invariants; `OutsideIsTaken` is what lets blocks come back. One
  lemma per action.
* `FakesSafe`: `Spec => []FakesNeverPopped`, from `IInv`: the class's assertions
  hold and `popleft_n` returns the front of the queue.
* `LinkedListIsAQueue`: `Spec => Queue!Spec`, the linked list implements
  `BlockQueue`. The mapping `Visible` reads the queue off `order`, without the
  blocks a running `popleft_n` has claimed or a running `append_n` has not counted
  yet; `IInv` ties `order` to the pointers. One lemma per action: each is one step
  of the queue, or invisible. `ImplementsQueue` of the run says the same with a
  mapping that walks the pointers, which would need induction over the walk.

`KVCacheManagerProofs`, for any finite set of requests, any pool and any hash
chains that satisfy `ConstAssumption` and `HashChainAssumption`:

* `KVCacheCorrect`: `KVSpec => []KVInv`. `KVInv` is inductive as a conjunction
  of five parts that need each other: freeing is right because reference counts
  count holders, which needs tables without repetitions, which needs hits to be
  distinct blocks, which needs the map to agree with the hashes and the hashes of
  a chain to differ. `allocate_slots` is proved once (`AllocKVInv`) from facts
  about its arguments that `AdmitHits` and `GrowHits` establish for the two kinds
  of call; `EnoughToTake` shows that the capacity check, which counts hits that
  are eviction candidates, leaves enough blocks to take. The lemmas about `Keep`
  (a filter defined without recursion) and about concatenating and splitting
  sequences come first. The theorem includes evictions by a connector, which no
  run makes.

* `TablesAppendOnly`: `KVSpec => AppendOnly`, an action property: a request that
  keeps its blocks keeps them in place, and a block in use keeps its hash.
* `CachedPrefixesClosed`: `KVSpec => []PrefixClosed` if `~ConnectorEvicts`.
  `PrefixClosed` is not inductive: an eviction takes the front of the free queue,
  and only the order of the queue keeps the block for the longer prefix in front of
  the block for the shorter one. `EvictionOrder` says so: a cached block in the
  queue has a cached parent that is in use or further back. This is why `free`
  puts blocks back last one first. A connector may disown any block, in the middle
  of a prefix too, so without the assumption the property is false.

`SchedulerProofs`, for any requests, blocks and limits that satisfy
`SchedulerAssumption`, both policies, chunked or not, synchronous or asynchronous,
with any number of batches in flight and forced resets. The inductive invariant
`SchedInv` has seven parts: `KVInv`; `Shapes`, the types; `Lists`, in which queue a
request of which status is, also in the middle of `update_from_output`; `Loop`, that
the loop over `running` has only unscheduled requests ahead of it; `Counts`, which
bounds the tokens computed and scheduled by those known or in flight and ties them
to the length of the block table; `Batches`, and `Flights`, which bounds the outputs
in flight by the placeholders. They need each other: `allocate_slots` stays within
its interface because of `Counts`, which needs placeholders that never go below
zero (`Flights`), which needs every request to be scheduled at most once per step
(`Loop`), which needs the queues to be right (`Lists`).

* `SchedulerUsesKV`: `Spec => KVSpec`: every step of the scheduler is a call of the
  KV cache's interface or none. `KVInv` carries over, and by `TablesGrowUnderScheduler`
  and `PrefixesClosedUnderScheduler` so do `AppendOnly` and `PrefixClosed`.
* `SchedulerTypesHold`, `QueuesAreRight` (`QueuesMatchStatus`), `ComputesKnownTokens`
  (`NeverAheadOfTokens`) and `ForcedResetSucceeds` (`ResetSucceeds`), from `SchedInv`.

`SchedulerOutputProofs` proves what needs more than `SchedInv`, each by an invariant
of its own that is inductive relative to it:

* `ScheduleAssertsHold`: `Spec => []ScheduleAsserts`. `Budget` counts the scheduled
  tokens as cells of a table, so that a sum becomes a cardinality and needs no
  induction over the batch.
* `FirstComeFirstServed`: `Spec => []FCFSOrder`. `InLine` says that whoever is ahead in
  `running` followed by `waiting` arrived earlier; every step but an arrival lets
  nobody get ahead of anybody.
* `PlaceholdersAreExact`: `Spec => []PlaceholdersMatchOutputs` if `MaxForcedResets = 0`.
  A forced reset sets the count to zero with an output in flight, which is the
  starting point of `async_reset_hang`.
* `LimitsHold` (`OutputsWithinLimits`) and `TokensInOrder` (`OutputInOrder`) for the
  synchronous engine, and for two batches in flight without forced resets: the
  configurations of `step`, of asynchronous scheduling and of two pipeline stages.
  `Delivery` says for which position each output in flight is, and that a request
  preempted with an output in flight is not scheduled again before it has it: the
  step that preempts admits nobody, and after it the queue of two is full. With three
  batches this is false (see the findings).
* `ComputedTokensAreStored`: `Spec => []ComputedTokensHaveKV` if `Policy = "fcfs"` and
  `~ConnectorEvicts`. `DataInv` says that every slot of a cached block, and of a
  running request's computed tokens, holds its data or is going to be written by
  the batch being put together; this is what is true while blocks are published
  before they are filled. It is preserved because under FCFS a victim of preemption
  is not scheduled yet (`Cursor`) and because a prefix hit is itself a closed prefix
  (`EvictionOrder`). Under PRIORITY the victim may be scheduled already, and the
  property is false: `priority_preemption`.

`EncoderCacheProofs`, for any requests, items, embedding masks, block size, budgets
and batches in flight that satisfy `EncoderAssumption`, with and without EAGLE and
chunked multimodal input, any failures of `allocate_slots` and any resets. All five
theorems come from `Spec => []EncInv`:

* `SlotsAreAccounted` (`SlotsAccounted`): the books balance (`Sound`). One lemma per
  method of the manager says that it keeps them balanced, then one per loop that
  calls it. `allocate` needs space when it runs, but only `can_allocate` checks for
  it, and between the two lie other items of the request and `allocate_slots`, which
  may preempt. `Promise` is the loop invariant that carries the space from one to
  the other: what the request was promised and has not taken yet still fits.
* `EncoderTypesHold` (`EncoderTypeOK`): with `Sound` the two counters are never
  negative; the rest is `Shapes` and `Lists`.
* `OnlyNeededIsPinned` (`PinnedIsNeeded`): `References` says in every state that
  whoever refers to an entry runs (or waits, with EAGLE) and has tokens of it left,
  unless this step schedules it. It needs `Lists`, because a preempted request is
  freed before it waits again.
* `CachesStayInStep` (`CachesAgree`): `InStep` says, in the middle of a step too, that
  the manager's entries are what the worker will have stored once it has executed
  the batches in flight, less what was evicted since the last one, plus what this
  one encodes. `Step` makes the last two empty between steps.
* `NoEncoderCacheMiss` (`NoCacheMiss`): `Served` says that every batch in flight
  finds what it reads when its turn comes. For the batch being put together this
  rests on `Pinned`: what a part of it reads is in the cache and its request refers
  to it, so no later request of the step evicts it; and on `Step`, because a victim
  of preemption is never one that is already scheduled. `InStep` turns what is in
  the cache into what the worker will have.

`Moved` says what one iteration of `schedule()` may do to the books, with the
victims of preemption and the entries allocated as parameters; it is proved once for
`_try_schedule_encoder_inputs` and once for each outcome of `allocate_slots`, and the
parts of `EncInv` follow from it. The theorem about `NoCacheMiss` is about the target
model. EAGLE's drafter reads one position further, and there the assertion can fail
(see the findings).

`DataParallelWavesProofs`, for any number of engines, clients and requests and any
`SyncPeriod` (`WavesAssumption`):

* `WaveTypesHold` and `EnginesAgree` (`WavesAgree`): no message is ahead of the
  engines, and engines in a collective are in the same wave. They hold whatever the
  clients do.
* `EnginesRunTogether` (`NobodyStranded`) and `CoordinatorIsRight`
  (`CoordinatorKnows`) if `PromptClient`. Both speak of states without messages on
  their way, so the invariant must say what every message is good for: `Behind`, as
  long as the coordinator is a wave behind, the `wave_complete` that moves it is on its
  way; `Resting`, when it takes the engines for paused, whatever made one active has
  a message to it on its way; `Started`, when it has started the wave, an engine is
  active or has a message that makes it so. For the engine a START_DP_WAVE excludes
  this rests on `Messengers`, and there on `PromptClient`: `stranded_engine` shows
  that the assumption cannot be dropped.

`DocumentTasksProofs`, for any executors, pages, batches (none included), pages with
parents and requests, and executors that die at any step (`TasksAssumption`):

* `DocumentTypesHold` (`TasksTypeOK`), `TasksAreNotLost` (`NoLostTask`) and
  `RowsAreIndexed` (`IndexedUnlessCanceled`), from `DocInv`: the one message of a task
  is in one place (`OneMessage`); what an executor has not acknowledged it works on or
  will replay (`Holding`); a row fits the stage of its handler, and an attempt that is
  under way was counted within the limit (`Stages`); the rows of a table are of one run
  (`Tables`); and what is in the index at each stage of a handler and of a parse request
  (`Index`). The last has to follow both insertions: all chunks of the page range are
  in the index from the end of the first one on, while the row comes to name the table
  of contents only. It lets a parse request delete and reuse chunks under executors of
  the earlier run.

`OpenWebUIProofs`, for any set of processes, tasks and items, any number of crashes
`max_retries` of at least two, any lifetime of the lock and any sleep of a cleaner
(`ProcessesAssumption`, `TasksAssumption`, `CleanupAssumption`):

* `TypesHold`: `Spec => []OpenWebUITypeOK`.
* `RegistryComplete`: `Spec => []RunningTasksAreListed`. It needs `Lives`: a task
  that is not created yet has no coroutine and no cleanup, a cleanup begins only
  after the coroutine is done, and a task is nowhere or in a process that is up, so
  a restarted process does not find old tasks alive.
* `AtMostOneCleaner`: `Spec => []OneCleaner`. `Leases` adds how much time is left:
  the age of a cleaner's lock and its remaining life make up its lifetime, which is
  what keeps the lock through a tick as long as the cleaner is not late.
* `GivesUpOnlyIfContested`: `Spec => []GivesUpForTheLiving`. `Patience` says that an
  uncontested lock has aged by the time the process has waited; after two delays
  of at least half of its lifetime nothing is left of it.

Only model-checked:

* Liveness, because fairness is out of the prover's reach: `EveryRequestFinishes`,
  `EveryRequestServed`, `PromptsGetComputed`, `EveryDocumentEnds`, `StoppedTasksEnd`,
  `DoneTasksAreForgotten`.
* `ImplementsQueue` in the form that walks the pointers (see `LinkedListIsAQueue`).

Every invariant of every passing run is a theorem.

Where an argument about sequences needs induction, the proofs take the least
position at which the claim fails (`LeastNatural`, from the well-foundedness of the
natural numbers). `SetInduction` is the form for the loops of the encoder cache: the
positions at which a loop invariant holds are a set that contains zero and, with each
position, the next. Where an argument needs a sum, the proofs count the elements of
a set.

## 5. What is left out, and why

* One KV-cache group with full attention. Hybrid, sliding-window, Mamba and
  cross-attention managers keep several tables per request and skip blocks.
  The coordinator passes every call through when there is one group.
* Speculative decoding (`spec_token_ids`, lookahead tokens), LoRA limits, pooling,
  streaming input sessions, structured output, `pause_scheduler` and asynchronous
  KV loading: each adds an early `continue` or an adjustment of counts in the
  loops of `schedule()` that the model does not have.
* Of KV connectors only the effect of `evict_blocks` on the KV cache is there.
* `finish_requests` takes one request at a time; the code takes a list.
* Tokens have no values. Whether a token ends a request is a free choice.
* Two requests never have the same priority and arrival time.
* Encoder cache: FCFS only, no `EncoderDecoderCacheManager` (Whisper), no external
  encoder caches.
* Data parallel: elastic scaling, load balancing and its statistics, the offline
  mode without coordinator, dying processes.
* Document tasks: one document and one API request at a time; the SDK's endpoints,
  dataflow, RAPTOR, GraphRAG and memory tasks; changes of the chunking
  configuration; chunk counters; the content of parent chunks; the progress messages
  of the thread that makes the table of contents. A batch whose insertion fails counts
  as not inserted, and a table of contents has the same id in every attempt. A
  database error inside `collect` leaves the message unacknowledged with an executor
  that lives, until it is restarted; one inside `set_progress` is logged and the
  progress lost. Both are left out.
* OpenWebUI: the mode without Redis, loss of the Redis connection (the listener ends
  with it), contents of the session and usage pools.
* Statistics, events, logging, metrics.
* The components marked `not_modelled` in `PROJECT.json`. The sandbox pool is
  planned; GPU code, parsers, routers and the front end are numerical or
  sequential data processing; the deployment scripts are I/O on the host.

## 6. Plan

Done: all modules above, their runs, and the theorems of section 4.

Next, in this order:

1. RAGFlow sandbox container pool: conservation of container names.
2. Scheduler: KV connector with delayed freeing, pause; encoder cache under
   PRIORITY, composed with the scheduler's KV blocks.
3. Theorems: `ImplementsQueue` in the form that walks the pointers, from `IInv` and a
   walk that is a function of the number of hops.

## 7. Running it

    tlc -config SchedulerAsync.cfg MCScheduler
    tlapm KVCacheManagerProofs.tla
