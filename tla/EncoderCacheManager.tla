------------------------- MODULE EncoderCacheManager -------------------------
(***************************************************************************)
(* The cache of multimodal encoder outputs (vllm/v1/core/                  *)
(* encoder_cache_manager.py), driven by the scheduler that plans encoder   *)
(* inputs (sched/scheduler.py), and the worker that stores and reads the   *)
(* outputs (v1/worker/gpu_model_runner.py).  The manager keeps only the    *)
(* books; the worker learns of evictions from the batches it executes,     *)
(* possibly with other batches in flight.                                  *)
(*                                                                         *)
(* FCFS policy, no encoder-decoder model, no external encoder cache.  The  *)
(* KV cache is abstracted to what it answers: a prefix hit of whole blocks *)
(* and success or failure of allocate_slots, failures bounded by           *)
(* MaxFailures.  Positions are counted through the prompt, where the       *)
(* encoder inputs are.  The token budget of a step is whatever text-only   *)
(* requests leave of it, at least one token.                               *)
(***************************************************************************)
EXTENDS Integers, FiniteSets, SequencesExt

CONSTANTS
  Reqs,
  mm_features,              \* request -> its multimodal items, by offset
  NoMask,                   \* is_embed is None: every position is an embedding
  NumTokens,                \* request -> length of its prompt
  CacheSize,                \* encoder_cache_size, in embeddings
  MaxEncoderInputTokens,    \* compute budget of a step, in embeddings
  MaxNumScheduledTokens,
  BlockSize,
  BatchQueueSize,
  MaxFailures,              \* bound on failures of allocate_slots
  MaxResets                 \* bound on calls of reset_encoder_cache

Features == UNION {ToSet(mm_features[r]) : r \in Reqs}
Hashes == {f.mm_hash : f \in Features}

(* PlaceholderRange.get_num_embeds. *)
get_num_embeds(f) == IF f.is_embed = NoMask THEN f.length ELSE Cardinality(f.is_embed)
Embeds(h) == get_num_embeds(CHOOSE f \in Features : f.mm_hash = h)

(* Equal hashes stand for equal data.  compute_mm_encoder_budget raises    *)
(* both budgets to the largest item.                                       *)
ASSUME EncoderAssumption ==
  /\ IsFiniteSet(Reqs) /\ mm_features \in [Reqs -> Seq(Features)]
  /\ \A f \in Features : /\ {f.offset, f.length} \subseteq Nat
                         /\ f.is_embed = NoMask \/ f.is_embed \subseteq 0 .. f.length - 1
  /\ \A f, g \in Features : f.mm_hash = g.mm_hash => get_num_embeds(f) = get_num_embeds(g)
  /\ \A f \in Features : get_num_embeds(f) <= CacheSize /\ get_num_embeds(f) <= MaxEncoderInputTokens
  /\ \A r \in Reqs : \A i \in 1 .. Len(mm_features[r]) - 1 :
       mm_features[r][i].offset + mm_features[r][i].length <= mm_features[r][i + 1].offset
  /\ NumTokens \in [Reqs -> Nat] /\ {MaxEncoderInputTokens, MaxFailures} \subseteq Nat
  /\ {CacheSize, MaxNumScheduledTokens, BlockSize, BatchQueueSize} \subseteq Nat \ {0}

VARIABLES
  manager,                  \* the fields of EncoderCacheManager
  arrived, waiting, running, num_computed_tokens,
  (* local variables of Scheduler.schedule *)
  pc, req_index, token_budget, encoder_compute_budget, preempted,
  scheduler_output,         \* tokens and encoder inputs scheduled so far
  batch_queue,              \* scheduler outputs sent to the worker, not executed
  encoder_cache,            \* of the worker: hashes it has outputs for
  use_eagle, disable_chunked_mm_input,
  failures, resets

request_vars == <<arrived, waiting, running, num_computed_tokens>>
step_vars == <<pc, req_index, token_budget, encoder_compute_budget, preempted, scheduler_output>>
worker_vars == <<batch_queue, encoder_cache>>
config_vars == <<use_eagle, disable_chunked_mm_input>>
vars == <<manager, request_vars, step_vars, worker_vars, config_vars, failures, resets>>

(* A loop over s: at[i] is what it has made of base after i iterations.    *)
Fold(Op(_, _), base, s) ==
  LET at[i \in 0 .. Len(s)] == IF i = 0 THEN base ELSE Op(at[i - 1], s[i])
  IN  at[Len(s)]

-----------------------------------------------------------------------------
(* The manager.  cached maps a hash to the requests that refer to it.      *)

EmptyManager ==
  [cached |-> << >>, freeable |-> << >>, freed |-> {},
   num_free_slots |-> CacheSize, num_freeable_slots |-> CacheSize]

(* One cell for every embedding of the entries hs.                         *)
Cells(hs) == {c \in hs \X (1 .. CacheSize) : c[2] <= Embeds(c[1])}
Slots(hs) == Cardinality(Cells(hs))

(* The part of check_and_update_cache behind a hit: the request refers to  *)
(* the entry, which is no longer freeable.  Faulty variant: it does not.   *)
TouchNothing(m, r, f) == m

touch(m, r, f) ==
  LET h == f.mm_hash
      m1 == IF m.cached[h] # {} THEN m
            ELSE [m EXCEPT !.freeable = RemoveFirst(@, h),
                           !.num_freeable_slots = @ - get_num_embeds(f)]
  IN [m1 EXCEPT !.cached[h] = @ \cup {r}]

HasSpace(m, need) == need <= m.num_free_slots \/ need <= m.num_freeable_slots

(* Faulty variant: what the request was promised before is forgotten.      *)
CanAllocateAlone(m, f, budget, num_embeds_to_schedule) ==
  get_num_embeds(f) <= budget /\ HasSpace(m, get_num_embeds(f))

can_allocate(m, f, budget, num_embeds_to_schedule) ==
  get_num_embeds(f) <= budget /\ HasSpace(m, get_num_embeds(f) + num_embeds_to_schedule)

(* The eviction at the end of can_allocate: oldest freeable entries first, *)
(* until the space is enough.  Faulty variant: the worker is not told.     *)
NumEvicted(m, need) ==
  Min({k \in 0 .. Len(m.freeable) :
         \/ need <= m.num_free_slots + Slots(ToSet(SubSeq(m.freeable, 1, k)))
         \/ k = Len(m.freeable)})

Evicted(m, k) ==
  LET gone == ToSet(SubSeq(m.freeable, 1, k))
  IN [m EXCEPT !.cached = Restrict(@, DOMAIN @ \ gone),
               !.freeable = SubSeq(@, k + 1, Len(@)),
               !.freed = @ \cup gone,
               !.num_free_slots = @ + Slots(gone)]

EvictUnannounced(m, need) == [Evicted(m, NumEvicted(m, need)) EXCEPT !.freed = m.freed]

evict(m, need) == Evicted(m, NumEvicted(m, need))

allocate(m, r, f) ==
  LET h == f.mm_hash
      refs == IF h \in DOMAIN m.cached THEN m.cached[h] ELSE {}
  IN [m EXCEPT !.cached = [x \in DOMAIN @ \cup {h} |-> IF x = h THEN refs \cup {r} ELSE @[x]],
               !.num_free_slots = @ - get_num_embeds(f),
               !.num_freeable_slots = @ - get_num_embeds(f)]

(* The entry loses the reference of r, and is freeable without any.        *)
Unreferenced(m, r, f) ==
  LET h == f.mm_hash
      m1 == [m EXCEPT !.cached[h] = @ \ {r}]
  IN IF m1.cached[h] # {} THEN m1
     ELSE [m1 EXCEPT !.freeable = Append(@, h),
                     !.num_freeable_slots = @ + get_num_embeds(f)]

(* Faulty variant: also if it had none.                                    *)
FreeAgain(m, r, f) ==
  IF f.mm_hash \notin DOMAIN m.cached THEN m ELSE Unreferenced(m, r, f)

free_encoder_input(m, r, f) ==
  IF f.mm_hash \notin DOMAIN m.cached \/ m.cached[f.mm_hash] = {} THEN m
  ELSE Unreferenced(m, r, f)

(* Drop the references of r to these items of its.                         *)
FreeInputs(m, r, items) ==
  Fold(LAMBDA x, f : IF f \in items THEN free_encoder_input(x, r, f) ELSE x, m, mm_features[r])

(* All its references.  Faulty variant: none.                              *)
FreeNothing(m, r) == m

free(m, r) == FreeInputs(m, r, ToSet(mm_features[r]))

-----------------------------------------------------------------------------
(* Scheduler._try_schedule_encoder_inputs.                                 *)

shift_computed_tokens == IF use_eagle THEN 1 ELSE 0

(* Embeddings before position i of a masked item: embeds_cumsum[i - 1].    *)
EmbedsBefore(f, i) == Cardinality({p \in f.is_embed : p < i})

(* get_embeds_indices_in_range, end minus start.  For a masked item and    *)
(* end = 0 the code reads embeds_cumsum[-1], the total.                    *)
NumEmbedsInRange(f, start, end) ==
  IF f.is_embed = NoMask THEN end - start
  ELSE (IF end = 0 THEN get_num_embeds(f) ELSE EmbedsBefore(f, end)) - EmbedsBefore(f, start)

(* Embeddings of the item among n tokens from position c on.               *)
CurrEmbeds(f, c, n) ==
  NumEmbedsInRange(f, Max({0, c - f.offset}), Min({f.length, c + n - f.offset}))

RollsBack(f, c, n) ==
  disable_chunked_mm_input /\ c < f.offset /\ c + n < f.offset + f.length

(* What is left to schedule if the item does not fit.  Faulty variant:     *)
(* nothing, even in front of the item.                                     *)
NoTokens(f, c) == 0

TokensBefore(f, c) == Max({0, f.offset - (c + shift_computed_tokens)})

(* One iteration of the loop over the items; s holds the loop's variables. *)
EncoderInput(r, c, s, f) ==
  LET fits == evict(s.m, get_num_embeds(f) + s.embeds)
  IN IF s.break                                  THEN s
     ELSE IF f.offset >= c + s.n + shift_computed_tokens
                                                 THEN [s EXCEPT !.break = TRUE]
     ELSE IF f.offset + f.length <= c            THEN s
     ELSE IF f.mm_hash \in s.hashes              THEN s
     ELSE IF f.mm_hash \in DOMAIN s.m.cached     THEN [s EXCEPT !.m = touch(@, r, f)]
     ELSE IF RollsBack(f, c, s.n)                THEN [s EXCEPT !.break = TRUE, !.n = f.offset - c]
     ELSE IF ~can_allocate(s.m, f, s.budget, s.embeds)
                                                 THEN [s EXCEPT !.break = TRUE, !.n = TokensBefore(f, c)]
     ELSE IF CurrEmbeds(f, c, s.n) = 0           THEN [s EXCEPT !.m = fits]
     ELSE [s EXCEPT !.m = fits, !.inputs = Append(@, f), !.hashes = @ \cup {f.mm_hash},
                    !.embeds = @ + get_num_embeds(f), !.budget = @ - get_num_embeds(f)]

_try_schedule_encoder_inputs(r, c, n) ==
  Fold(LAMBDA s, f : EncoderInput(r, c, s, f),
       [m |-> manager, n |-> n, budget |-> encoder_compute_budget, embeds |-> 0,
        inputs |-> << >>, hashes |-> {}, break |-> n = 0],
       mm_features[r])

-----------------------------------------------------------------------------
(* Scheduler.schedule, one action per request it looks at.                 *)

NothingScheduled == [parts |-> << >>, inputs |-> {}]

Init ==
  /\ manager = EmptyManager
  /\ arrived = {} /\ waiting = << >> /\ running = << >>
  /\ num_computed_tokens = [r \in Reqs |-> 0]
  /\ pc = "idle" /\ req_index = 1 /\ token_budget = 0 /\ encoder_compute_budget = 0
  /\ preempted = FALSE /\ scheduler_output = NothingScheduled
  /\ batch_queue = << >> /\ encoder_cache = {}
  /\ use_eagle \in BOOLEAN /\ disable_chunked_mm_input \in BOOLEAN
  /\ failures = 0 /\ resets = 0

add_request(r) ==
  /\ pc = "idle" /\ r \notin arrived
  /\ arrived' = arrived \cup {r}
  /\ waiting' = Append(waiting, r)
  /\ UNCHANGED <<manager, running, num_computed_tokens, step_vars, worker_vars, config_vars,
                 failures, resets>>

schedule_start ==
  /\ pc = "idle" /\ Len(batch_queue) < BatchQueueSize
  /\ running \o waiting # << >>
  /\ pc' = "running" /\ req_index' = 1
  /\ token_budget' \in 1 .. MaxNumScheduledTokens
  /\ encoder_compute_budget' = MaxEncoderInputTokens
  /\ UNCHANGED <<manager, request_vars, preempted, scheduler_output, worker_vars, config_vars,
                 failures, resets>>

(* The request enters the step: its tokens and encoder inputs are          *)
(* scheduled and the inputs get space.  m is the manager after the         *)
(* preemptions, t the result of _try_schedule_encoder_inputs.              *)
ScheduleRequest(r, c, t, m) ==
  /\ manager' = Fold(LAMBDA x, f : allocate(x, r, f), m, t.inputs)
  /\ token_budget' = token_budget - t.n
  /\ encoder_compute_budget' = t.budget
  /\ scheduler_output' =
       [parts |-> Append(scheduler_output.parts, [req |-> r, start |-> c, num |-> t.n]),
        inputs |-> scheduler_output.inputs \cup t.hashes]

RunningLoop == pc = "running" /\ req_index <= Len(running) /\ token_budget > 0

(* Behind the prompt a request decodes one token at a time; it stays at    *)
(* position NumTokens, behind all its items.                               *)
NumNew(r, c) == Min({Max({1, NumTokens[r] - c}), token_budget})

(* k times allocate_slots fails and the last running request is preempted. *)
_preempt_request(k) ==
  LET victims == SubSeq(running, Len(running) - k + 1, Len(running))
  IN /\ failures + k <= MaxFailures
     /\ failures' = failures + k
     /\ preempted' = (preempted \/ k > 0)
     /\ running' = SubSeq(running, 1, Len(running) - k)
     /\ waiting' = victims \o waiting
     /\ num_computed_tokens' =
          [r \in Reqs |-> IF r \in ToSet(victims) THEN 0 ELSE num_computed_tokens[r]]

(* Their references to encoder outputs are dropped, last request first.    *)
Preempted(m, k) ==
  Fold(free, m, Reverse(SubSeq(running, Len(running) - k + 1, Len(running))))

schedule_running ==
  /\ RunningLoop
  /\ LET r == running[req_index]
         c == num_computed_tokens[r]
         t == _try_schedule_encoder_inputs(r, c, NumNew(r, c))
     IN \/ /\ t.n = 0
           /\ manager' = t.m
           /\ req_index' = req_index + 1
           /\ UNCHANGED <<request_vars, pc, token_budget, encoder_compute_budget, preempted,
                          scheduler_output, failures>>
        \/ /\ t.n > 0
           /\ \E k \in 0 .. Len(running) - req_index :
                _preempt_request(k) /\ ScheduleRequest(r, c, t, Preempted(t.m, k))
           /\ req_index' = req_index + 1
           /\ UNCHANGED <<pc, arrived>>
        \/ /\ t.n > 0
           /\ LET k == Len(running) - req_index + 1
              IN _preempt_request(k) /\ manager' = Preempted(t.m, k)
           /\ pc' = "end"
           /\ UNCHANGED <<arrived, req_index, token_budget, encoder_compute_budget,
                          scheduler_output>>
  /\ UNCHANGED <<worker_vars, config_vars, resets>>

running_done ==
  /\ pc = "running" /\ ~RunningLoop
  /\ pc' = IF preempted THEN "end" ELSE "waiting"
  /\ UNCHANGED <<manager, request_vars, req_index, token_budget, encoder_compute_budget,
                 preempted, scheduler_output, worker_vars, config_vars, failures, resets>>

WaitingLoop == pc = "waiting" /\ waiting # << >> /\ token_budget > 0

(* What get_computed_blocks may find: whole blocks, never the last token.  *)
PrefixHits(r) == {c \in 0 .. NumTokens[r] - 1 : c % BlockSize = 0}

schedule_waiting ==
  /\ WaitingLoop
  /\ LET r == Head(waiting)
     IN \E c \in PrefixHits(r) :
          LET t == _try_schedule_encoder_inputs(r, c, NumNew(r, c))
          IN \/ /\ t.n = 0
                /\ manager' = t.m
                /\ pc' = "end"
                /\ UNCHANGED <<request_vars, token_budget, encoder_compute_budget,
                               scheduler_output, failures>>
             \/ /\ t.n > 0
                /\ failures < MaxFailures
                /\ failures' = failures + 1
                /\ manager' = free(t.m, r)
                /\ pc' = "end"
                /\ UNCHANGED <<request_vars, token_budget, encoder_compute_budget,
                               scheduler_output>>
             \/ /\ t.n > 0
                /\ ScheduleRequest(r, c, t, t.m)
                /\ waiting' = Tail(waiting) /\ running' = Append(running, r)
                /\ num_computed_tokens' = [num_computed_tokens EXCEPT ![r] = c]
                /\ UNCHANGED <<arrived, pc, failures>>
  /\ UNCHANGED <<req_index, preempted, worker_vars, config_vars, resets>>

(* _free_encoder_inputs: items whose last token is now computed.           *)
_free_encoder_inputs(m, part) ==
  FreeInputs(m, part.req, {f \in ToSet(mm_features[part.req]) :
                             f.offset + f.length <= part.start + part.num})

(* Where the step takes request r, if it is part of it.                    *)
Reached(r) ==
  {part.start + part.num : part \in {p \in ToSet(scheduler_output.parts) : p.req = r}}

(* The output is built with the hashes evicted since the last one, then    *)
(* _update_after_schedule advances the requests, and the batch is queued   *)
(* for the worker, also if it holds no tokens.                             *)
schedule_end ==
  /\ pc = "end" \/ (pc = "waiting" /\ ~WaitingLoop)
  /\ batch_queue' = Append(batch_queue, [parts |-> scheduler_output.parts,
                                         inputs |-> scheduler_output.inputs,
                                         freed |-> manager.freed])
  /\ manager' = Fold(_free_encoder_inputs, [manager EXCEPT !.freed = {}],
                     scheduler_output.parts)
  /\ num_computed_tokens' =
       [r \in Reqs |-> IF Reached(r) = {} THEN num_computed_tokens[r]
                       ELSE Min(Reached(r) \cup {NumTokens[r]})]
  /\ pc' = "idle" /\ req_index' = 1 /\ token_budget' = 0 /\ encoder_compute_budget' = 0
  /\ preempted' = FALSE /\ scheduler_output' = NothingScheduled
  /\ UNCHANGED <<arrived, waiting, running, encoder_cache, config_vars, failures, resets>>

(* A request stops, or a client aborts it: _free_request.                  *)
finish(r) ==
  /\ pc = "idle" /\ r \in ToSet(running \o waiting)
  /\ running' = RemoveFirst(running, r) /\ waiting' = RemoveFirst(waiting, r)
  /\ manager' = free(manager, r)
  /\ UNCHANGED <<arrived, num_computed_tokens, step_vars, worker_vars, config_vars, failures,
                 resets>>

-----------------------------------------------------------------------------
(* The worker.                                                             *)

(* _update_states drops what was evicted, _execute_mm_encoder stores what  *)
(* was scheduled.                                                          *)
Executed(cache, batch) == (cache \ batch.freed) \cup batch.inputs

execute_model ==
  /\ batch_queue # << >>
  /\ encoder_cache' = Executed(encoder_cache, Head(batch_queue))
  /\ batch_queue' = Tail(batch_queue)
  /\ UNCHANGED <<manager, request_vars, step_vars, config_vars, failures, resets>>

(* EngineCore.reset_encoder_cache, also with requests in progress.  The    *)
(* engine is blocked until the worker has cleared its cache, which it does *)
(* after the batches it was sent before.                                   *)
reset_encoder_cache ==
  /\ pc = "idle" /\ batch_queue = << >> /\ resets < MaxResets
  /\ resets' = resets + 1
  /\ manager' = EmptyManager
  /\ encoder_cache' = {}
  /\ UNCHANGED <<request_vars, step_vars, batch_queue, config_vars, failures>>

Schedule == schedule_start \/ schedule_running \/ running_done \/ schedule_waiting \/ schedule_end

Next ==
  \/ \E r \in Reqs : add_request(r) \/ finish(r)
  \/ Schedule \/ execute_model \/ reset_encoder_cache

Spec == Init /\ [][Next]_vars

(* Whether a step of schedule is enabled: the engine loop goes on while it *)
(* has requests and room for a batch, and a step once begun is finished.   *)
CanSchedule ==
  pc # "idle" \/ (Len(batch_queue) < BatchQueueSize /\ running \o waiting # << >>)

Decoding(r) == r \in ToSet(running) /\ num_computed_tokens[r] = NumTokens[r]

(* Weak fairness of the engine loop, with ENABLED written out, and of the  *)
(* worker, which executes what it is sent.  A request that decodes reaches *)
(* max_tokens some day and stops.                                          *)
FairSpec ==
  /\ Spec
  /\ []<>~CanSchedule \/ []<><<Schedule>>_vars
  /\ WF_vars(execute_model)
  /\ \A r \in Reqs : []<>~Decoding(r)

-----------------------------------------------------------------------------
(* Every variable has its type; the counters of the manager never go below *)
(* zero, which is what the assertions of allocate test.                    *)
EncoderTypeOK ==
  /\ DOMAIN manager.cached \subseteq Hashes
  /\ \A h \in DOMAIN manager.cached : manager.cached[h] \subseteq arrived
  /\ ToSet(manager.freeable) \cup manager.freed \subseteq Hashes
  /\ manager.num_free_slots \in 0 .. CacheSize
  /\ manager.num_freeable_slots \in 0 .. CacheSize
  /\ ToSet(running \o waiting) \subseteq arrived /\ IsInjective(running \o waiting)
  /\ \A r \in Reqs : num_computed_tokens[r] \in 0 .. NumTokens[r]
  /\ token_budget \in 0 .. MaxNumScheduledTokens
  /\ encoder_compute_budget \in 0 .. MaxEncoderInputTokens
  /\ encoder_cache \subseteq Hashes

(* The books of the manager balance after every touch, eviction,           *)
(* allocation and release: the free slots are those no entry occupies, the *)
(* freeable ones those plus the entries no request refers to.              *)
Balanced(m) ==
  /\ m.num_free_slots = CacheSize - Slots(DOMAIN m.cached)
  /\ m.num_freeable_slots = m.num_free_slots + Slots(ToSet(m.freeable))
  /\ ToSet(m.freeable) = {h \in DOMAIN m.cached : m.cached[h] = {}}
  /\ IsInjective(m.freeable)
SlotsAccounted == Balanced(manager)

(* Between two steps an entry is pinned only by a request that still has   *)
(* tokens of that item to compute and is running: a request that the       *)
(* scheduler gave up on in the waiting queue keeps no reference.  With     *)
(* EAGLE it may: the item in front of the one that does not fit was        *)
(* touched, and the break for zero tokens does not release it.             *)
PinnedIsNeeded ==
  pc = "idle" =>
    \A h \in DOMAIN manager.cached : \A r \in manager.cached[h] :
      /\ r \in ToSet(running) \/ (use_eagle /\ r \in ToSet(waiting))
      /\ \E f \in ToSet(mm_features[r]) :
           f.mm_hash = h /\ num_computed_tokens[r] < f.offset + f.length

(* What the worker has stored when it has executed everything it was sent  *)
(* is what the manager counts as cached: nothing is missing, and nothing   *)
(* evicted keeps its memory.                                               *)
CachesAgree ==
  pc = "idle" => Fold(Executed, encoder_cache, batch_queue) = DOMAIN manager.cached

(* Hashes of the items whose embeddings _gather_mm_embeddings reads.       *)
Gathered(part) ==
  {f.mm_hash : f \in {g \in ToSet(mm_features[part.req]) :
     /\ g.offset < part.start + part.num
     /\ g.offset + g.length > part.start
     /\ CurrEmbeds(g, part.start, part.num) > 0}}

(* The assertion "Encoder cache miss" of the target model's forward pass   *)
(* never fails, whatever was evicted, preempted, aborted or reset while    *)
(* the batch was in flight.                                                *)
NoCacheMiss ==
  batch_queue # << >> =>
    LET batch == Head(batch_queue)
    IN \A i \in 1 .. Len(batch.parts) :
         Gathered(batch.parts[i]) \subseteq Executed(encoder_cache, batch)

(* Without EAGLE every request gets its prompt computed: requests that     *)
(* share the cache do not starve each other, and a request whose items do  *)
(* not fit together gets them one after the other.                         *)
PromptsGetComputed ==
  use_eagle \/ \A r \in Reqs :
    r \in arrived ~> (num_computed_tokens[r] = NumTokens[r] \/ r \notin ToSet(running \o waiting))
=============================================================================
