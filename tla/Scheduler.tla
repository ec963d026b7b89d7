------------------------------ MODULE Scheduler ------------------------------
(***************************************************************************)
(* The continuous-batching scheduler of vllm/v1/core/sched (Scheduler and  *)
(* AsyncScheduler), driven by EngineCore.step / step_with_batch_queue of   *)
(* vllm/v1/engine/core.py, over the KV cache of module KVCacheManager.     *)
(*                                                                         *)
(* One thread runs all of this.  Client calls (add, abort, reset) come in  *)
(* between engine steps, aborts also while a model output is awaited, and  *)
(* up to BatchQueueSize batches execute while the next one is scheduled.   *)
(* schedule() and update_from_output() take one step per loop iteration;   *)
(* pc says where the engine's thread is:                                   *)
(*   idle       between engine steps                                       *)
(*   running    head of the loop over the RUNNING requests                 *)
(*   allocate   in its inner loop: allocate, or preempt and retry          *)
(*   waiting    head of the loop over the WAITING requests                 *)
(*   await      blocked on the oldest batch                                *)
(*   update     in the loop of update_from_output                          *)
(*   stopped    in that loop, about to free the request that stopped       *)
(*   resetting  in reset_prefix_cache(reset_running_requests=True)         *)
(***************************************************************************)
EXTENDS KVCacheManager

CONSTANTS
  BlockSize,
  PromptLen,                  \* num_prompt_tokens of every request
  MaxTokens,                  \* sampling_params.max_tokens of every request
  MinTokens,                  \* sampling_params.min_tokens of every request
  MaxModelLen,                \* max_model_len
  MaxNumScheduledTokens,      \* max_num_scheduled_tokens, the token budget
  MaxNumRunningReqs,          \* max_num_running_reqs
  LongPrefillTokenThreshold,  \* long_prefill_token_threshold, 0 = none
  EnableChunkedPrefill,       \* enable_chunked_prefill
  Policy,                     \* "fcfs" or "priority"
  PriorityKey,                \* place of a request in the order of
                              \* (priority, arrival_time); no two arrive
                              \* at the same instant
  Async,                      \* AsyncScheduler rather than Scheduler
  BatchQueueSize,             \* max_concurrent_batches of the executor
  MaxForcedResets             \* bound: how often clients call
                              \* reset_prefix_cache with
                              \* reset_running_requests=True

cdiv(a, b) == (a + b - 1) \div b

ASSUME SchedulerAssumption ==
  /\ BlockSize \in Nat \ {0} /\ MaxNumScheduledTokens \in Nat \ {0}
  /\ MaxNumRunningReqs \in Nat \ {0} /\ LongPrefillTokenThreshold \in Nat
  /\ MaxModelLen \in Nat \ {0} /\ BatchQueueSize \in Nat \ {0}
  /\ PromptLen \in [Reqs -> Nat \ {0}] /\ MaxTokens \in [Reqs -> Nat \ {0}]
  /\ MinTokens \in [Reqs -> Nat]
  /\ \A r \in Reqs : PromptLen[r] < MaxModelLen /\ MinTokens[r] <= MaxTokens[r]
  (* get_max_tokens: max_tokens, and min_tokens with it, leaves room for   *)
  (* the prompt.                                                           *)
  /\ \A r \in Reqs : PromptLen[r] + MinTokens[r] <= MaxModelLen
  /\ MaxModelLen <= MaxReqBlocks * BlockSize
  /\ Policy \in {"fcfs", "priority"}
  /\ PriorityKey \in [Reqs -> Nat]
  /\ \A r, q \in Reqs : PriorityKey[r] = PriorityKey[q] => r = q
  /\ {EnableChunkedPrefill, Async} \subseteq BOOLEAN
  /\ MaxForcedResets \in Nat
  /\ ~Async \/ BatchQueueSize = 2      \* MultiprocExecutor, pp_size = 1
  (* What SchedulerConfig.verify_max_model_len and                         *)
  (* check_enough_kv_cache_memory insist on at startup.                    *)
  /\ EnableChunkedPrefill \/ MaxNumScheduledTokens >= MaxModelLen
  /\ MaxNumScheduledTokens >= MaxNumRunningReqs
  /\ cdiv(MaxModelLen, BlockSize) <= NumBlocks - 1

VARIABLES
  status,                   \* Request.status, and "new" before add_request
  num_computed_tokens,
  num_output_tokens,
  num_output_placeholders,
  discard_latest_async_tokens,
  running,
  waiting,
  finished_req_ids,
  pc,
  token_budget,
  req_index,
  cur,                      \* request and num_new_tokens of the inner loop
  preempted_reqs,
  scheduled,                \* num_scheduled_tokens, in insertion order
  batch_queue,              \* oldest first; outputs still to come
  output,                   \* what is left of the output being processed
  stopped_running_reqs,
  stopped_preempted_reqs,
  kv_data,                  \* ghost: the prefix whose token a KV slot holds
  arrival,                  \* history: requests in the order they were added
  forced_resets             \* history: forced resets so far

request_vars == <<status, num_computed_tokens, num_output_tokens,
                  num_output_placeholders, discard_latest_async_tokens>>
queue_vars   == <<running, waiting, finished_req_ids>>
local_vars   == <<token_budget, req_index, cur, preempted_reqs, scheduled>>
output_vars  == <<output, stopped_running_reqs, stopped_preempted_reqs>>
ghost_vars   == <<kv_data, arrival, forced_resets>>
vars == <<kvars, request_vars, queue_vars, pc, local_vars, batch_queue,
          output_vars, ghost_vars>>

NoReq == [req |-> "none", n |-> 0]

Init ==
  /\ KVInit
  /\ status = [r \in Reqs |-> "new"]
  /\ num_computed_tokens = [r \in Reqs |-> 0]
  /\ num_output_tokens = [r \in Reqs |-> 0]
  /\ num_output_placeholders = [r \in Reqs |-> 0]
  /\ discard_latest_async_tokens = [r \in Reqs |-> FALSE]
  /\ running = <<>> /\ waiting = <<>> /\ finished_req_ids = {}
  /\ pc = "idle" /\ token_budget = 0 /\ req_index = 1 /\ cur = NoReq
  /\ preempted_reqs = {} /\ scheduled = <<>>
  /\ batch_queue = <<>> /\ output = <<>>
  /\ stopped_running_reqs = {} /\ stopped_preempted_reqs = {}
  /\ kv_data = [b \in Blocks |-> [o \in 0 .. BlockSize - 1 |-> NoHash]]
  /\ arrival = <<>> /\ forced_resets = 0

-----------------------------------------------------------------------------
Least(S) == CHOOSE x \in S : \A y \in S : x <= y
num_tokens(r) == PromptLen[r] + num_output_tokens[r]
Unfinished(r) == status[r] \in {"WAITING", "RUNNING", "PREEMPTED"}

(* Every numeric limit that schedule() puts on a request's new tokens.     *)
Capped(n, limits) ==
  Least({n, token_budget} \cup limits
        \cup (IF LongPrefillTokenThreshold > 0 THEN {LongPrefillTokenThreshold} ELSE {}))

(* The waiting queue: a deque, or a heap on PriorityKey, kept sorted here. *)
Before(r, q) == PriorityKey[r] < PriorityKey[q]
HeapInsert(s, r) ==
  LET earlier == {q \in Reqs : Before(q, r)}
  IN  Keep(s, earlier) \o <<r>> \o Keep(s, Reqs \ earlier)
add_to_queue(s, r) == IF Policy = "fcfs" THEN Append(s, r) ELSE HeapInsert(s, r)

(* Faulty variants: a preempted request is queued behind the others, or    *)
(* not queued at all.                                                      *)
PrependAtEnd(s, r) == Append(s, r)
PrependNothing(s, r) == s
prepend_request(s, r) == IF Policy = "fcfs" THEN <<r>> \o s ELSE HeapInsert(s, r)

(* remove_all on the running list, remove_requests on the waiting queue.   *)
remove_all(s, S) == Keep(s, Reqs \ S)
remove_requests(s, S) == Keep(s, Reqs \ S)

(* Request.num_computed_tokens is turned into the block counts that        *)
(* KVCacheManager.allocate_slots works with.  Faulty variants: rounding    *)
(* down what is needed, caching tokens that are still to come.             *)
NeededRoundedDown(computed, n) == (computed + n) \div BlockSize
BlocksNeeded(computed, n) == cdiv(computed + n, BlockSize)
CacheAhead(r, computed, n) == (computed + n) \div BlockSize
BlocksToCache(r, computed, n) == Least({computed + n, num_tokens(r)}) \div BlockSize

-----------------------------------------------------------------------------
(* Client calls.                                                           *)
add_request(r) ==
  /\ pc = "idle" /\ status[r] = "new"
  /\ status' = [status EXCEPT ![r] = "WAITING"]
  /\ waiting' = add_to_queue(waiting, r)
  /\ arrival' = Append(arrival, r)
  /\ UNCHANGED <<kvars, num_computed_tokens, num_output_tokens, num_output_placeholders,
                 discard_latest_async_tokens, running, finished_req_ids, pc, local_vars,
                 batch_queue, output_vars, kv_data, forced_resets>>

(* abort_requests: from the input queue between steps, or from the aborts  *)
(* queue once the awaited output is there.                                 *)
finish_requests(r) ==
  /\ pc \in {"idle", "await"} /\ Unfinished(r)
  /\ running' = remove_all(running, {r})
  /\ waiting' = remove_requests(waiting, {r})
  /\ status' = [status EXCEPT ![r] = "FINISHED"]
  /\ finished_req_ids' = finished_req_ids \cup {r}
  /\ free(r)
  /\ UNCHANGED <<num_computed_tokens, num_output_tokens, num_output_placeholders,
                 discard_latest_async_tokens, pc, local_vars, batch_queue,
                 output_vars, ghost_vars>>

(* _preempt_request, after the request was popped from running.  Faulty    *)
(* variant: its blocks stay allocated.                                     *)
PreemptWithoutFree(r) ==
  /\ UNCHANGED kvars
  /\ status' = [status EXCEPT ![r] = "PREEMPTED"]
  /\ num_computed_tokens' = [num_computed_tokens EXCEPT ![r] = 0]
  /\ waiting' = prepend_request(waiting, r)

_preempt_request(r) ==
  /\ free(r)
  /\ status' = [status EXCEPT ![r] = "PREEMPTED"]
  /\ num_computed_tokens' = [num_computed_tokens EXCEPT ![r] = 0]
  /\ waiting' = prepend_request(waiting, r)

(* reset_prefix_cache without reset_running_requests: no more than a try.  *)
reset_prefix_cache_if_unused ==
  /\ pc = "idle" /\ reset_prefix_cache
  /\ UNCHANGED <<request_vars, queue_vars, pc, local_vars, batch_queue,
                 output_vars, ghost_vars>>

reset_begin ==
  /\ pc = "idle" /\ forced_resets < MaxForcedResets
  /\ forced_resets' = forced_resets + 1
  /\ pc' = "resetting"
  /\ UNCHANGED <<kvars, request_vars, queue_vars, local_vars, batch_queue,
                 output_vars, kv_data, arrival>>

reset_preempt ==
  LET r == running[Len(running)] IN
  /\ pc = "resetting" /\ running # <<>>
  /\ running' = SubSeq(running, 1, Len(running) - 1)
  /\ _preempt_request(r)
  /\ num_output_placeholders' = [num_output_placeholders EXCEPT ![r] = 0]
  /\ discard_latest_async_tokens' = [discard_latest_async_tokens EXCEPT ![r] = TRUE]
  /\ UNCHANGED <<num_output_tokens, finished_req_ids, pc, local_vars, batch_queue,
                 output_vars, ghost_vars>>

reset_end ==
  /\ pc = "resetting" /\ running = <<>>
  /\ reset_prefix_cache
  /\ pc' = "idle"
  /\ UNCHANGED <<request_vars, queue_vars, local_vars, batch_queue,
                 output_vars, ghost_vars>>

-----------------------------------------------------------------------------
(* schedule().                                                             *)
has_requests == running # <<>> \/ waiting # <<>> \/ finished_req_ids # {}

schedule_begin ==
  /\ pc = "idle" /\ has_requests
  /\ pc' = "running"
  /\ token_budget' = MaxNumScheduledTokens /\ req_index' = 1
  /\ preempted_reqs' = {} /\ scheduled' = <<>>
  /\ UNCHANGED <<kvars, request_vars, queue_vars, cur, batch_queue,
                 output_vars, ghost_vars>>

MoreRunning == req_index <= Len(running) /\ token_budget > 0

(* The outputs in flight are sure to reach max_tokens.  Faulty variants:   *)
(* one token too late, and also when no output is in flight.               *)
ReachesMaxTokensLate(r) ==
  /\ num_output_placeholders[r] > 0
  /\ num_computed_tokens[r] + 1 - num_output_placeholders[r] >= PromptLen[r] + MaxTokens[r]
ReachesMaxTokensAlone(r) ==
  num_computed_tokens[r] + 2 - num_output_placeholders[r] >= PromptLen[r] + MaxTokens[r]
ReachesMaxTokens(r) ==
  /\ num_output_placeholders[r] > 0
  /\ num_computed_tokens[r] + 2 - num_output_placeholders[r] >= PromptLen[r] + MaxTokens[r]

(* The tokens of a running request to compute next.  Faulty variant: one   *)
(* too many.                                                               *)
NewTokensOffByOne(r) ==
  Capped(num_tokens(r) + num_output_placeholders[r] + 1 - num_computed_tokens[r],
         {MaxModelLen - 1 - num_computed_tokens[r]})
NumNewRunning(r) ==
  Capped(num_tokens(r) + num_output_placeholders[r] - num_computed_tokens[r],
         {MaxModelLen - 1 - num_computed_tokens[r]})

running_skip ==
  LET r == running[req_index] IN
  /\ pc = "running" /\ MoreRunning
  /\ ReachesMaxTokens(r) \/ NumNewRunning(r) = 0
  /\ req_index' = req_index + 1
  /\ UNCHANGED <<kvars, request_vars, queue_vars, pc, token_budget, cur, preempted_reqs,
                 scheduled, batch_queue, output_vars, ghost_vars>>

running_pick ==
  LET r == running[req_index] IN
  /\ pc = "running" /\ MoreRunning
  /\ ~ReachesMaxTokens(r) /\ NumNewRunning(r) # 0
  /\ cur' = [req |-> r, n |-> NumNewRunning(r)]
  /\ pc' = "allocate"
  /\ UNCHANGED <<kvars, request_vars, queue_vars, token_budget, req_index, preempted_reqs,
                 scheduled, batch_queue, output_vars, ghost_vars>>

running_allocate ==
  LET r == cur.req
      c == num_computed_tokens[r]
  IN
  /\ pc = "allocate"
  /\ allocate_slots(r, <<>>, BlocksNeeded(c, cur.n), BlocksToCache(r, c, cur.n))
  /\ scheduled' = Append(scheduled, cur)
  /\ token_budget' = token_budget - cur.n
  /\ req_index' = req_index + 1
  /\ cur' = NoReq /\ pc' = "running"
  /\ UNCHANGED <<request_vars, queue_vars, preempted_reqs, batch_queue,
                 output_vars, ghost_vars>>

(* The lowest-priority running request: under FCFS the last one, under     *)
(* PRIORITY one that may already be scheduled in this very step.           *)
Victim ==
  IF Policy = "fcfs" THEN running[Len(running)]
  ELSE CHOOSE r \in Elems(running) : \A q \in Elems(running) : ~Before(r, q)
ScheduledNow(r) == {e \in Elems(scheduled) : e.req = r}

(* What un-scheduling the victim gives back.  Faulty variant: nothing.     *)
NothingBack(back) == 0
TokensBack(back) == IF back = {} THEN 0 ELSE (CHOOSE e \in back : TRUE).n

running_preempt ==
  LET v    == Victim
      back == ScheduledNow(v)
  IN
  /\ pc = "allocate"
  /\ ~CanAllocate(cur.req, <<>>, BlocksNeeded(num_computed_tokens[cur.req], cur.n))
  /\ running' = remove_all(running, {v})
  /\ scheduled' = Keep(scheduled, Elems(scheduled) \ back)
  /\ token_budget' = token_budget + TokensBack(back)
  /\ req_index' = req_index - Cardinality(back)
  /\ _preempt_request(v)
  /\ preempted_reqs' = preempted_reqs \cup {v}
  /\ IF v = cur.req THEN pc' = "waiting" /\ cur' = NoReq ELSE UNCHANGED <<pc, cur>>
  /\ UNCHANGED <<num_output_tokens, num_output_placeholders, discard_latest_async_tokens,
                 finished_req_ids, batch_queue, output_vars, ghost_vars>>

running_done ==
  /\ pc = "running" /\ ~MoreRunning
  /\ pc' = "waiting"
  /\ UNCHANGED <<kvars, request_vars, queue_vars, local_vars, batch_queue,
                 output_vars, ghost_vars>>

(* The loop over the waiting requests runs only if nothing was preempted.  *)
MoreWaiting ==
  /\ preempted_reqs = {} /\ waiting # <<>> /\ token_budget > 0
  /\ Len(running) # MaxNumRunningReqs

NextHits == get_computed_blocks(waiting[1], (num_tokens(waiting[1]) - 1) \div BlockSize)
Remaining(r, computed) == num_tokens(r) - computed
AfterThreshold(n) ==
  IF 0 < LongPrefillTokenThreshold /\ LongPrefillTokenThreshold < n
  THEN LongPrefillTokenThreshold ELSE n

CanAdmit ==
  LET r == waiting[1]
      c == Len(NextHits) * BlockSize
      n == Capped(Remaining(r, c), {})
  IN
  /\ MoreWaiting
  /\ EnableChunkedPrefill \/ AfterThreshold(Remaining(r, c)) <= token_budget
  /\ CanAllocate(r, NextHits, BlocksNeeded(c, n))

waiting_admit ==
  LET r == waiting[1]
      c == Len(NextHits) * BlockSize
      n == Capped(Remaining(r, c), {})
  IN
  /\ pc = "waiting" /\ CanAdmit
  /\ allocate_slots(r, NextHits, BlocksNeeded(c, n), BlocksToCache(r, c, n))
  /\ waiting' = Tail(waiting)
  /\ running' = Append(running, r)
  /\ status' = [status EXCEPT ![r] = "RUNNING"]
  /\ num_computed_tokens' = [num_computed_tokens EXCEPT ![r] = c]
  /\ scheduled' = Append(scheduled, [req |-> r, n |-> n])
  /\ token_budget' = token_budget - n
  /\ UNCHANGED <<num_output_tokens, num_output_placeholders, discard_latest_async_tokens,
                 finished_req_ids, pc, req_index, cur, preempted_reqs, batch_queue,
                 output_vars, ghost_vars>>

(* The model runner computes the scheduled tokens' KV data into the        *)
(* request's blocks and samples a token, unless the batch leaves the       *)
(* request in the middle of its prefill.  Batches execute in order.        *)
NumScheduled(r) ==
  IF ScheduledNow(r) = {} THEN 0 ELSE (CHOOSE e \in ScheduledNow(r) : TRUE).n

(* Faulty variant: the prefill counts as done one token early.             *)
PrefillDoneEarly(r) ==
  num_computed_tokens[r] + NumScheduled(r) + 1 < num_tokens(r) + num_output_placeholders[r]
is_prefill_chunk(r) ==
  num_computed_tokens[r] + NumScheduled(r) < num_tokens(r) + num_output_placeholders[r]
SampledPosition(r) ==
  IF is_prefill_chunk(r) THEN 0 ELSE num_computed_tokens[r] + NumScheduled(r) + 1
Batch == [i \in 1 .. Len(scheduled) |->
            [req |-> scheduled[i].req, pos |-> SampledPosition(scheduled[i].req)]]

Writers(b, o) ==
  {w \in {e.req : e \in Elems(scheduled)} \X (1 .. MaxReqBlocks) :
     LET p == (w[2] - 1) * BlockSize + o IN
     /\ w[2] <= Len(req_to_blocks[w[1]]) /\ req_to_blocks[w[1]][w[2]] = b
     /\ p >= num_computed_tokens[w[1]]
     /\ p < num_computed_tokens[w[1]] + NumScheduled(w[1])}
execute_model ==
  kv_data' = [b \in Blocks |-> [o \in 0 .. BlockSize - 1 |->
    IF Writers(b, o) = {} THEN kv_data[b][o]
    ELSE LET w == CHOOSE w \in Writers(b, o) : TRUE IN block_hashes[w[1]][w[2]]]]

(* AsyncScheduler._update_after_schedule.  Faulty variants: a placeholder  *)
(* for every scheduled request, and none at all.                           *)
PlaceholderForAll(r) ==
  num_output_placeholders[r] + IF Async /\ ScheduledNow(r) # {} THEN 1 ELSE 0
NoPlaceholder(r) == num_output_placeholders[r]
PlaceholdersAfterSchedule(r) ==
  num_output_placeholders[r]
  + IF Async /\ ScheduledNow(r) # {} /\ ~is_prefill_chunk(r) THEN 1 ELSE 0

(* step_with_batch_queue: with room left in the batch queue the engine may *)
(* return to schedule another batch, unless the oldest one is done; else   *)
(* it waits for the oldest one.  step() always waits.                      *)
AfterSchedule ==
  IF scheduled # <<>> /\ Len(batch_queue) + 1 < BatchQueueSize
  THEN {"idle", "await"} ELSE {"await"}

(* The end of schedule() with _update_after_schedule.                      *)
schedule_end ==
  /\ pc = "waiting" /\ ~CanAdmit
  /\ execute_model
  /\ num_computed_tokens' = [r \in Reqs |-> num_computed_tokens[r] + NumScheduled(r)]
  /\ num_output_placeholders' = [r \in Reqs |-> PlaceholdersAfterSchedule(r)]
  /\ finished_req_ids' = {}
  /\ batch_queue' = Append(batch_queue, Batch)
  /\ pc' \in AfterSchedule
  /\ token_budget' = 0 /\ req_index' = 1 /\ preempted_reqs' = {} /\ scheduled' = <<>>
  /\ UNCHANGED <<kvars, status, num_output_tokens, discard_latest_async_tokens,
                 running, waiting, cur, output_vars, arrival, forced_resets>>

await_begin ==
  /\ pc = "idle" /\ ~has_requests /\ batch_queue # <<>>
  /\ pc' = "await"
  /\ UNCHANGED <<kvars, request_vars, queue_vars, local_vars, batch_queue,
                 output_vars, ghost_vars>>

-----------------------------------------------------------------------------
(* update_from_output().                                                   *)
update_begin ==
  /\ pc = "await"
  /\ output' = Head(batch_queue) /\ batch_queue' = Tail(batch_queue)
  /\ pc' = "update"
  /\ UNCHANGED <<kvars, request_vars, queue_vars, local_vars, stopped_running_reqs,
                 stopped_preempted_reqs, ghost_vars>>

(* Nothing to do for a request that is gone, or whose prefill goes on.     *)
update_nothing ==
  /\ pc = "update" /\ output # <<>>
  /\ ~Unfinished(Head(output).req) \/ Head(output).pos = 0
  /\ output' = Tail(output)
  /\ UNCHANGED <<kvars, request_vars, queue_vars, pc, local_vars, batch_queue,
                 stopped_running_reqs, stopped_preempted_reqs, ghost_vars>>

(* AsyncScheduler drops one token of a request that was force-preempted.   *)
update_discard ==
  LET r == Head(output).req IN
  /\ pc = "update" /\ output # <<>> /\ Unfinished(r) /\ Head(output).pos # 0
  /\ Async /\ discard_latest_async_tokens[r]
  /\ discard_latest_async_tokens' = [discard_latest_async_tokens EXCEPT ![r] = FALSE]
  /\ output' = Tail(output)
  /\ UNCHANGED <<kvars, status, num_computed_tokens, num_output_tokens,
                 num_output_placeholders, queue_vars, pc, local_vars, batch_queue,
                 stopped_running_reqs, stopped_preempted_reqs, ghost_vars>>

(* check_stop: an EOS or stop token, or one of the two length limits, but  *)
(* nothing before min_tokens.                                              *)
check_stop(r, eos, outputs) ==
  /\ outputs >= MinTokens[r]
  /\ eos \/ PromptLen[r] + outputs >= MaxModelLen \/ outputs >= MaxTokens[r]

(* AsyncScheduler._update_request_with_output: one placeholder is settled, *)
(* and the blocks of a request still running are cached up to its last     *)
(* token that is known.                                                    *)
PlaceholdersAfterOutput(r) == num_output_placeholders[r] - IF Async THEN 1 ELSE 0
cache_known_tokens(r) ==
  LET full == (num_computed_tokens[r] - PlaceholdersAfterOutput(r)) \div BlockSize
  IN  IF Async /\ status[r] = "RUNNING" /\ EnableCaching /\ full > num_cached_block[r]
      THEN cache_blocks(r, full) ELSE UNCHANGED kvars

update_token(eos) ==
  LET r    == Head(output).req
      n    == num_output_tokens[r] + 1
      stop == check_stop(r, eos, n)
      live == status[r] = "RUNNING"
  IN
  /\ pc = "update" /\ output # <<>> /\ Unfinished(r) /\ Head(output).pos # 0
  /\ ~(Async /\ discard_latest_async_tokens[r])
  /\ num_output_tokens' = [num_output_tokens EXCEPT ![r] = n]
  /\ num_output_placeholders' = [num_output_placeholders EXCEPT ![r] = PlaceholdersAfterOutput(r)]
  /\ cache_known_tokens(r)
  /\ output' = Tail(output)
  /\ IF stop
     THEN /\ status' = [status EXCEPT ![r] = "FINISHED"]
          /\ cur' = [req |-> r, n |-> 0] /\ pc' = "stopped"
          /\ stopped_running_reqs' = stopped_running_reqs \cup (IF live THEN {r} ELSE {})
          /\ stopped_preempted_reqs' = stopped_preempted_reqs \cup (IF live THEN {} ELSE {r})
     ELSE UNCHANGED <<status, cur, pc, stopped_running_reqs, stopped_preempted_reqs>>
  /\ UNCHANGED <<num_computed_tokens, discard_latest_async_tokens, queue_vars,
                 token_budget, req_index, preempted_reqs, scheduled, batch_queue, ghost_vars>>

_free_request ==
  /\ pc = "stopped"
  /\ free(cur.req)
  /\ finished_req_ids' = finished_req_ids \cup {cur.req}
  /\ cur' = NoReq /\ pc' = "update"
  /\ UNCHANGED <<request_vars, running, waiting, token_budget, req_index, preempted_reqs,
                 scheduled, batch_queue, output_vars, ghost_vars>>

update_end ==
  /\ pc = "update" /\ output = <<>>
  /\ running' = remove_all(running, stopped_running_reqs)
  /\ waiting' = remove_requests(waiting, stopped_preempted_reqs)
  /\ stopped_running_reqs' = {} /\ stopped_preempted_reqs' = {}
  /\ pc' = "idle"
  /\ UNCHANGED <<kvars, request_vars, finished_req_ids, local_vars, batch_queue, output,
                 ghost_vars>>

-----------------------------------------------------------------------------
ClientStep ==
  \/ \E r \in Reqs : add_request(r)
  \/ \E r \in Reqs : finish_requests(r)
  \/ reset_prefix_cache_if_unused
  \/ reset_begin

EngineStep ==
  \/ reset_preempt \/ reset_end
  \/ schedule_begin \/ running_skip \/ running_pick \/ running_allocate
  \/ running_preempt \/ running_done \/ waiting_admit \/ schedule_end
  \/ await_begin \/ update_begin \/ update_nothing \/ update_discard
  \/ \E eos \in BOOLEAN : update_token(eos)
  \/ _free_request \/ update_end

Next == ClientStep \/ EngineStep

Spec == Init /\ [][Next]_vars
(* run_busy_loop never stops while there is work, and the executor's       *)
(* futures complete.                                                       *)
FairSpec == Spec /\ WF_vars(EngineStep)

-----------------------------------------------------------------------------
(* Types and the ranges the code relies on.                                *)
TypeOK ==
  /\ status \in [Reqs -> {"new", "WAITING", "RUNNING", "PREEMPTED", "FINISHED"}]
  /\ num_computed_tokens \in [Reqs -> 0 .. MaxModelLen]
  /\ num_output_tokens \in [Reqs -> 0 .. MaxModelLen]
  /\ num_output_placeholders \in [Reqs -> Nat]
  /\ discard_latest_async_tokens \in [Reqs -> BOOLEAN]
  /\ Elems(running) \cup Elems(waiting) \cup finished_req_ids \subseteq Reqs
  /\ pc \in {"idle", "running", "allocate", "waiting", "await", "update", "stopped",
             "resetting"}
  /\ req_index \in 1 .. Cardinality(Reqs) + 1
  /\ Len(batch_queue) <= BatchQueueSize
  /\ \A b \in Elems(batch_queue) \cup {output} :
       Elems(b) \subseteq [req : Reqs, pos : 0 .. MaxModelLen]

Scheduling == pc \in {"running", "allocate", "waiting"}

(* A request is in the queue that its status says, once, and only running  *)
(* requests hold blocks, so that nothing is left allocated when all of     *)
(* them are done.  A request that stops while it is preempted is the case  *)
(* that update_from_output treats separately.                              *)
QueuesMatchStatus ==
  pc \notin {"update", "stopped"} =>
    /\ Distinct(running \o waiting)
    /\ Elems(running) = {r \in Reqs : status[r] = "RUNNING"}
    /\ Elems(waiting) = {r \in Reqs : status[r] \in {"WAITING", "PREEMPTED"}}
    /\ \A r \in Reqs : status[r] # "RUNNING" => req_to_blocks[r] = <<>>

(* The assertions of schedule(): the token budget, the limit on running    *)
(* requests, and that no request is scheduled twice in a step.             *)
TokensScheduled == Cardinality({p \in (1 .. Len(scheduled)) \X (1 .. MaxNumScheduledTokens) :
                                  p[2] <= scheduled[p[1]].n})
ScheduleAsserts ==
  /\ Len(running) <= MaxNumRunningReqs
  /\ Scheduling =>
       /\ token_budget >= 0
       /\ TokensScheduled + token_budget = MaxNumScheduledTokens
       /\ \A i, j \in 1 .. Len(scheduled) :
            /\ scheduled[i].n > 0 /\ scheduled[i].req \in Elems(running)
            /\ scheduled[i].req = scheduled[j].req => i = j

(* Every token that the scheduler counts as computed has its KV data in    *)
(* the request's blocks, for exactly the request's prefix, as soon as the  *)
(* batches handed to the executor are done: cached blocks really are       *)
(* computed, nobody overwrites a block that another request reads, and no  *)
(* preemption or abort leaves a hole.                                      *)
ComputedTokensHaveKV ==
  ~Scheduling =>
    \A r \in Reqs : status[r] = "RUNNING" =>
      \A p \in 0 .. num_computed_tokens[r] - 1 :
        LET i == p \div BlockSize + 1 IN
        /\ i <= Len(req_to_blocks[r])
        /\ kv_data[req_to_blocks[r][i]][p % BlockSize] = block_hashes[r][i]

(* Nothing is computed or cached for a token that is neither known nor     *)
(* about to be sampled: a running request waits for the output in flight,  *)
(* and the prefix cache holds final tokens only.                           *)
NeverAheadOfTokens ==
  \A r \in Reqs : status[r] = "RUNNING" =>
    /\ num_computed_tokens[r] <= num_tokens(r) + num_output_placeholders[r]
    /\ num_cached_block[r] * BlockSize <= num_tokens(r)

(* The outputs still to come for a request, oldest first.                  *)
InFlight(r) ==
  {p \in (0 .. Len(batch_queue)) \X (1 .. Cardinality(Reqs)) :
     LET b == IF p[1] = 0 THEN output ELSE batch_queue[p[1]]
     IN  p[2] <= Len(b) /\ b[p[2]].req = r /\ b[p[2]].pos # 0}

(* num_output_placeholders counts exactly the outputs still to come, also  *)
(* across a preemption.                                                    *)
PlaceholdersMatchOutputs ==
  Async => \A r \in Reqs : Unfinished(r) =>
             num_output_placeholders[r] = Cardinality(InFlight(r))

(* No step is spent on a token beyond max_tokens or max_model_len: the     *)
(* tokens a request has and those in flight stay within both limits.       *)
OutputsWithinLimits ==
  \A r \in Reqs : Unfinished(r) =>
    LET n == num_output_tokens[r] + Cardinality(InFlight(r))
    IN  n <= MaxTokens[r] /\ PromptLen[r] + n <= MaxModelLen

(* Every token is appended at the position it was sampled for: none is     *)
(* lost, doubled or out of order, whatever is preempted, resumed or        *)
(* aborted while batches are in flight.  Forced resets are another matter: *)
(* they discard the next token whether or not one was in flight, which is  *)
(* what AsyncResetHang.cfg is about.                                       *)
OutputInOrder ==
  [][\A r \in Reqs : num_output_tokens'[r] # num_output_tokens[r] =>
       /\ Head(output).req = r
       /\ Head(output).pos = PromptLen[r] + num_output_tokens'[r]]_vars

(* Under FCFS the running and then the waiting requests are always in the  *)
(* order of arrival: preemption never lets a later request overtake.       *)
FCFSOrder ==
  Policy = "fcfs" /\ pc \notin {"update", "stopped"} =>
    LET Live == {r \in Reqs : Unfinished(r)}
    IN  running \o waiting = Keep(arrival, Live)

(* reset_prefix_cache(reset_running_requests=True) frees every block, so   *)
(* it never ends in its RuntimeError.                                      *)
ResetSucceeds == pc = "resetting" /\ running = <<>> => CanReset

(* Every request that is added is finished at some point: preemption does  *)
(* not go on for ever, and nobody waits for everybody.                     *)
EveryRequestFinishes ==
  \A r \in Reqs : status[r] = "WAITING" ~> status[r] = "FINISHED"
=============================================================================
