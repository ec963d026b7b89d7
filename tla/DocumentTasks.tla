---------------------------- MODULE DocumentTasks ----------------------------
(***************************************************************************)
(* How RAGFlow parses a document (repos/ragflow): the web API splits it    *)
(* into one task per page range (document_app.run, task_service.           *)
(* queue_tasks), task rows live in the database, messages in a Redis       *)
(* stream with a consumer group, and task executors (rag/svr/              *)
(* task_executor.py) parse a page range, insert its chunks into the        *)
(* document store and acknowledge the message.  A loop of the web server   *)
(* derives the document's state from its task rows.                        *)
(*                                                                         *)
(* One document; its API requests come one at a time, and everything else  *)
(* interleaves: executors, the coroutines inside one, the progress loop    *)
(* and the request.  An executor may die between any two steps; it is      *)
(* started again under the same consumer name.                             *)
(*                                                                         *)
(* A chunk id is a hash of the chunk's text and the document, so a page    *)
(* range yields the same ids in every run: a chunk is <<page, batch>>, a   *)
(* batch being what one docStore insert takes, and batch 0 the table of    *)
(* contents that toc_extraction adds.  Progress is 0, "some" for all of    *)
(* (0, 1), 1, or -1.  Messages are taken in any order: there is one stream *)
(* per priority, and nothing relies on the order within one.               *)
(***************************************************************************)
EXTENDS Integers, FiniteSets

CONSTANTS
  Executors,           \* consumer names
  MaxConcurrentTasks,  \* MAX_CONCURRENT_TASKS, coroutines per executor
  Pages,               \* page ranges of the document
  Batches,             \* batches of chunks that each yields, 0 for a blank one
  Mothers,             \* page ranges whose chunks have mothers
  RetryLimit,          \* 3 in get_task
  MaxRuns,             \* bound: parse requests
  MaxRequests,         \* bound: parse and cancel requests
  MaxDeaths            \* bound: deaths of executors that handle no task

ASSUME TasksAssumption ==
  /\ MaxConcurrentTasks \in Nat \ {0} /\ RetryLimit \in Nat \ {0}
  /\ Batches \in [Pages -> Nat] /\ Mothers \subseteq Pages
  /\ MaxRuns \in Nat /\ MaxRequests \in Nat /\ MaxDeaths \in Nat

(* Task ids: get_uuid() gives every run's tasks new ones.                  *)
Tasks == (1 .. MaxRuns) \X Pages
Page(t) == t[2]
ChunksOf(p, n) == {<<p, b>> : b \in 1 .. n}
PageChunks(p)  == ChunksOf(p, Batches[p])
TocOf(p)       == {<<p, 0>>}
Chunks         == UNION {PageChunks(p) \cup TocOf(p) : p \in Pages}

Gone   == -2     \* the progress of a row that does not exist
Failed == -1
Zero   == 0
Some   == 1
Done   == 2

NewRow == [progress |-> Zero, chunk_ids |-> {}, retry_count |-> 0]
NoRow  == [NewRow EXCEPT !.progress = Gone]

VARIABLES
  rows,          \* table Task
  doc,           \* table Document: run and progress
  doc_store,     \* chunks of the document in the index
  canceled,      \* tasks with a "<id>-cancel" key in Redis
  stream,        \* messages not yet delivered
  pending,       \* delivered and not acknowledged, per consumer
  replay,        \* what UNACKED_ITERATOR still has to yield
  up,            \* the executor processes that run
  deaths,        \* history: deaths of executors that handle no task
  work,          \* where the coroutine that handles a task is
  api,           \* where the request is, and its local variables
  queue_failed,  \* history: there are rows whose message Redis did not take
  runs,          \* history: parse requests so far
  cancels,       \* history: cancel requests so far
  sync           \* what _sync_progress is about to write, or Nothing

process_vars  == <<replay, up, deaths>>
executor_vars == <<pending, process_vars, work>>
api_vars      == <<api, queue_failed, runs, cancels>>
vars == <<rows, doc, doc_store, canceled, stream, executor_vars, api_vars, sync>>

Idle    == [at |-> "none", k |-> 0]
NoTable == [t \in Tasks |-> NoRow]
NoCall  == [at |-> "none", prev |-> NoTable, todo |-> {}]
Nothing == [run |-> "none", progress |-> Zero]

Init ==
  /\ rows = NoTable /\ doc = [run |-> "UNSTART", progress |-> Zero]
  /\ doc_store = {} /\ canceled = {} /\ stream = {}
  /\ pending = [e \in Executors |-> {}] /\ replay = [e \in Executors |-> {}]
  /\ up = [e \in Executors |-> TRUE] /\ deaths = 0
  /\ work = [e \in Executors |-> [t \in Tasks |-> Idle]]
  /\ api = NoCall /\ queue_failed = FALSE /\ runs = 0 /\ cancels = 0
  /\ sync = Nothing

-----------------------------------------------------------------------------
(* The database.                                                           *)
Exists(table, t) == table[t].progress # Gone
Unfinished(table, t) == table[t].progress \in {Zero, Some}

(* TaskService.update_progress: a row that is gone is no error to the      *)
(* caller, -1 is final, and progress only grows.                           *)
update_progress(t, p) ==
  IF /\ rows[t].progress \notin {Gone, Failed}
     /\ p = Failed \/ p > rows[t].progress
  THEN [rows EXCEPT ![t].progress = p] ELSE rows

(* set_progress turns the progress of a canceled task into -1; the         *)
(* exception it then raises ends in its own handler.                       *)
set_progress(t, p) == rows' = update_progress(t, IF t \in canceled THEN Failed ELSE p)
progress_message(t) == rows' = IF t \in canceled THEN update_progress(t, Failed) ELSE rows

update_chunk_ids(table, t, ids) ==
  IF Exists(table, t) THEN [table EXCEPT ![t].chunk_ids = ids] ELSE table

-----------------------------------------------------------------------------
(* document_app.run and queue_tasks, one step per access to the database,  *)
(* the document store or Redis.                                            *)
run_begin(delete) ==
  /\ api.at = "none" /\ runs < MaxRuns /\ runs + cancels < MaxRequests
  /\ runs' = runs + 1
  /\ doc' = [run |-> "RUNNING", progress |-> Zero]
  /\ api' = [api EXCEPT !.at = IF delete THEN "delete_rows" ELSE "get_tasks"]
  /\ UNCHANGED <<rows, doc_store, canceled, stream, executor_vars, queue_failed, cancels, sync>>

run_delete_rows ==
  /\ api.at = "delete_rows"
  /\ rows' = NoTable /\ queue_failed' = FALSE
  /\ api' = [api EXCEPT !.at = "delete_chunks"]
  /\ UNCHANGED <<doc, doc_store, canceled, stream, executor_vars, runs, cancels, sync>>

run_delete_chunks ==
  /\ api.at = "delete_chunks"
  /\ doc_store' = {}
  /\ api' = [api EXCEPT !.at = "get_tasks"]
  /\ UNCHANGED <<rows, doc, canceled, stream, executor_vars, queue_failed, runs,
                 cancels, sync>>

(* reuse_prev_task_chunks: the previous task of the page range, if it can  *)
(* be reused; the chunking configuration is the same in every run.  Faulty *)
(* variant of what is deleted: the chunks of reused tasks go as well.      *)
Reusable(p) ==
  {t \in Tasks : Page(t) = p /\ api.prev[t].progress = Done /\ api.prev[t].chunk_ids # {}}
task_row(p) ==
  IF Reusable(p) = {} THEN NewRow
  ELSE [NewRow EXCEPT !.progress = Done,
                      !.chunk_ids = api.prev[CHOOSE t \in Reusable(p) : TRUE].chunk_ids]
AllChunkIds == UNION {api.prev[t].chunk_ids : t \in Tasks}
pre_chunk_ids ==
  UNION {api.prev[t].chunk_ids : t \in {u \in Tasks : u \notin Reusable(Page(u))}}

queue_get_tasks ==
  /\ api.at = "get_tasks"
  /\ api' = [api EXCEPT !.at = "filter_delete", !.prev = rows]
  /\ UNCHANGED <<rows, doc, doc_store, canceled, stream, executor_vars, queue_failed,
                 runs, cancels, sync>>

queue_filter_delete ==
  /\ api.at = "filter_delete"
  /\ rows' = NoTable /\ queue_failed' = FALSE
  /\ api' = [api EXCEPT !.at = "delete_pre_chunks"]
  /\ UNCHANGED <<doc, doc_store, canceled, stream, executor_vars, runs, cancels, sync>>

queue_delete_pre_chunks ==
  /\ api.at = "delete_pre_chunks"
  /\ doc_store' = doc_store \ pre_chunk_ids
  /\ api' = [api EXCEPT !.at = "bulk_insert"]
  /\ UNCHANGED <<rows, doc, canceled, stream, executor_vars, queue_failed, runs,
                 cancels, sync>>

queue_bulk_insert ==
  /\ api.at = "bulk_insert"
  /\ rows' = [t \in Tasks |-> IF t[1] = runs THEN task_row(Page(t)) ELSE rows[t]]
  /\ api' = [at |-> "begin2parse", prev |-> NoTable,
             todo |-> {t \in Tasks : t[1] = runs /\ Reusable(Page(t)) = {}}]
  /\ UNCHANGED <<doc, doc_store, canceled, stream, executor_vars, queue_failed, runs,
                 cancels, sync>>

begin2parse ==
  /\ api.at = "begin2parse"
  /\ doc' = [run |-> "RUNNING", progress |-> Some]
  /\ api' = [api EXCEPT !.at = "queue_product"]
  /\ UNCHANGED <<rows, doc_store, canceled, stream, executor_vars, queue_failed, runs,
                 cancels, sync>>

queue_product(t) ==
  /\ api.at = "queue_product" /\ t \in api.todo
  /\ stream' = stream \cup {t}
  /\ api' = [api EXCEPT !.todo = @ \ {t}]
  /\ UNCHANGED <<rows, doc, doc_store, canceled, executor_vars, queue_failed, runs,
                 cancels, sync>>

(* The assertion that Redis took the message fails: the client gets an     *)
(* error, and the rows of this and of the later messages stay.             *)
queue_product_fails ==
  /\ api.at = "queue_product" /\ api.todo # {}
  /\ queue_failed' = TRUE /\ api' = NoCall
  /\ UNCHANGED <<rows, doc, doc_store, canceled, stream, executor_vars, runs, cancels, sync>>

run_end ==
  /\ api.at = "queue_product" /\ api.todo = {}
  /\ api' = NoCall
  /\ UNCHANGED <<rows, doc, doc_store, canceled, stream, executor_vars, queue_failed, runs,
                 cancels, sync>>

cancel_all_task_of ==
  /\ api.at = "none" /\ doc.run = "RUNNING" /\ runs + cancels < MaxRequests
  /\ canceled' = canceled \cup {t \in Tasks : Exists(rows, t)}
  /\ cancels' = cancels + 1
  /\ api' = [api EXCEPT !.at = "cancel"]
  /\ UNCHANGED <<rows, doc, doc_store, stream, executor_vars, queue_failed, runs, sync>>

cancel_update ==
  /\ api.at = "cancel"
  /\ doc' = [run |-> "CANCEL", progress |-> Zero]
  /\ api' = NoCall
  /\ UNCHANGED <<rows, doc_store, canceled, stream, executor_vars, queue_failed, runs,
                 cancels, sync>>

-----------------------------------------------------------------------------
(* collect(): after a start the messages left unacknowledged, then new     *)
(* ones.  It awaits nothing, so one coroutine of an executor is at it at a *)
(* time.  A message leaves pending when it is acknowledged.                *)
Collecting  == {"received", "collected", "refused"}
Working(e)  == {t \in Tasks : work[e][t].at # "none"}
Handling(e) == {t \in Working(e) : work[e][t].at \notin Collecting}

At(e, t, at) == up[e] /\ work[e][t].at = at
Goto(e, t, at, k) == work' = [work EXCEPT ![e][t] = [at |-> at, k |-> k]]

Message(e, t) ==
  /\ up[e] /\ Cardinality(Working(e)) < MaxConcurrentTasks
  /\ Working(e) = Handling(e)
  /\ t \in IF replay[e] # {} THEN replay[e] ELSE stream

Taken(e, t) ==
  /\ stream' = stream \ {t}
  /\ replay' = [replay EXCEPT ![e] = @ \ {t}]

Acked(e, t) == pending' = [pending EXCEPT ![e] = @ \ {t}]
NotAcked(e, t) == pending' = [pending EXCEPT ![e] = @ \cup {t}]

collect(e, t) ==
  /\ Message(e, t)
  /\ Taken(e, t) /\ NotAcked(e, t)
  /\ Goto(e, t, "received", 0)
  /\ UNCHANGED <<rows, doc, doc_store, canceled, up, deaths, api_vars, sync>>

(* TaskService.get_task.  Faulty variants: one attempt too many, and       *)
(* attempts that are not counted.                                          *)
OneMoreRetry(t) == rows[t].retry_count <= RetryLimit
RetriesLeft(t) == rows[t].retry_count < RetryLimit

ReceivedUncounted(t, p) == [rows EXCEPT ![t].progress = p]
Received(t, p) == [rows EXCEPT ![t].progress = p, ![t].retry_count = @ + 1]

get_task_unknown(e, t) ==
  /\ At(e, t, "received") /\ ~Exists(rows, t)
  /\ Goto(e, t, "refused", 0)
  /\ UNCHANGED <<rows, doc, doc_store, canceled, stream, pending, process_vars, api_vars, sync>>

get_task_abandoned(e, t) ==
  /\ At(e, t, "received") /\ Exists(rows, t) /\ ~RetriesLeft(t)
  /\ rows' = Received(t, Failed)
  /\ Goto(e, t, "refused", 0)
  /\ UNCHANGED <<doc, doc_store, canceled, stream, pending, process_vars, api_vars, sync>>

get_task(e, t) ==
  /\ At(e, t, "received") /\ Exists(rows, t) /\ RetriesLeft(t)
  /\ rows' = Received(t, Some)
  /\ Goto(e, t, "collected", 0)
  /\ UNCHANGED <<doc, doc_store, canceled, stream, pending, process_vars, api_vars, sync>>

collect_has_canceled(e, t) ==
  /\ At(e, t, "collected")
  /\ Goto(e, t, IF t \in canceled THEN "refused" ELSE "begun", 0)
  /\ UNCHANGED <<rows, doc, doc_store, canceled, stream, pending, process_vars, api_vars, sync>>

collect_refused(e, t) ==
  /\ At(e, t, "refused")
  /\ Acked(e, t)
  /\ Goto(e, t, "none", 0)
  /\ UNCHANGED <<rows, doc, doc_store, canceled, stream, process_vars, api_vars, sync>>

-----------------------------------------------------------------------------
(* do_handle_task, one step per access from one coroutine.                 *)
start_canceled(e, t) ==
  /\ At(e, t, "begun") /\ t \in canceled
  /\ set_progress(t, Failed)
  /\ Goto(e, t, "ack", 0)
  /\ UNCHANGED <<doc, doc_store, canceled, stream, pending, process_vars, api_vars, sync>>

build_chunks(e, t) ==
  /\ At(e, t, "begun")
  /\ set_progress(t, Some)
  /\ IF Batches[Page(t)] = 0 THEN Goto(e, t, "empty", 0) ELSE Goto(e, t, "maybe", 1)
  /\ UNCHANGED <<doc, doc_store, canceled, stream, pending, process_vars, api_vars, sync>>

(* Parsing or embedding raises, and handle_task records the failure; or    *)
(* build_chunks records one and returns nothing, as for a file too large.  *)
build_chunks_fails(e, t) ==
  /\ At(e, t, "begun")
  /\ set_progress(t, Failed)
  /\ \E at \in {"ack", "empty"} : Goto(e, t, at, 0)
  /\ UNCHANGED <<doc, doc_store, canceled, stream, pending, process_vars, api_vars, sync>>

no_chunks(e, t) ==
  /\ At(e, t, "empty")
  /\ set_progress(t, Done)
  /\ Goto(e, t, "ack", 0)
  /\ UNCHANGED <<doc, doc_store, canceled, stream, pending, process_vars, api_vars, sync>>

(* _maybe_insert_es, for the chunks (k = 1) and for the table of contents  *)
(* (k = 0): a canceled task passes as if it had inserted.                  *)
maybe_insert_canceled(e, t) ==
  /\ At(e, t, "maybe") /\ t \in canceled
  /\ Goto(e, t, IF work[e][t].k = 0 THEN "closing" ELSE "indexed", 0)
  /\ UNCHANGED <<rows, doc, doc_store, canceled, stream, pending, process_vars, api_vars, sync>>

maybe_insert_es(e, t) ==
  /\ At(e, t, "maybe") /\ t \notin canceled
  /\ Goto(e, t, IF Page(t) \in Mothers THEN "mothers" ELSE "insert", work[e][t].k)
  /\ UNCHANGED <<rows, doc, doc_store, canceled, stream, pending, process_vars, api_vars, sync>>

(* insert_es: the mothers first, parents of chunks that no row names and   *)
(* that doc_store leaves out; what that insert returns is not looked at.   *)
insert_mothers(e, t) ==
  /\ At(e, t, "mothers") /\ t \notin canceled
  /\ Goto(e, t, "insert", work[e][t].k)
  /\ UNCHANGED <<rows, doc, doc_store, canceled, stream, pending, process_vars, api_vars, sync>>

insert_es(e, t) ==
  /\ At(e, t, "insert")
  /\ doc_store' = doc_store \cup {<<Page(t), work[e][t].k>>}
  /\ Goto(e, t, "record", work[e][t].k)
  /\ UNCHANGED <<rows, doc, canceled, stream, pending, process_vars, api_vars, sync>>

insert_es_fails(e, t) ==
  /\ At(e, t, "insert")
  /\ set_progress(t, Failed)
  /\ Goto(e, t, "finally", 0)
  /\ UNCHANGED <<doc, doc_store, canceled, stream, pending, process_vars, api_vars, sync>>

(* A batch is in the store: cancellation test, progress, chunk ids.  The   *)
(* second insert_es has one chunk, the table of contents, and the ids it   *)
(* writes replace those of the first.                                      *)
insert_canceled(e, t) ==
  /\ At(e, t, "mothers") \/ At(e, t, "record")
  /\ t \in canceled
  /\ set_progress(t, Failed)
  /\ Goto(e, t, "finally", 0)
  /\ UNCHANGED <<doc, doc_store, canceled, stream, pending, process_vars, api_vars, sync>>

IdsUpTo(p, k) == IF k = 0 THEN TocOf(p) ELSE ChunksOf(p, k)
AfterBatch(p, k) ==
  IF k = 0 THEN [at |-> "closing", k |-> 0]
  ELSE IF k < Batches[p] THEN [at |-> "insert", k |-> k + 1] ELSE [at |-> "indexed", k |-> 0]

record_chunk_ids(e, t) ==
  LET k == work[e][t].k IN
  /\ At(e, t, "record") /\ t \notin canceled
  /\ rows' = update_chunk_ids(update_progress(t, Some), t, IdsUpTo(Page(t), k))
  /\ work' = [work EXCEPT ![e][t] = AfterBatch(Page(t), k)]
  /\ UNCHANGED <<doc, doc_store, canceled, stream, pending, process_vars, api_vars, sync>>

(* The chunks are in; if toc_extraction is on, and the model found a table *)
(* of contents, it is inserted too.                                        *)
indexing_done(e, t, toc) ==
  /\ At(e, t, "indexed")
  /\ progress_message(t)
  /\ Goto(e, t, IF toc THEN "maybe" ELSE "closing", 0)
  /\ UNCHANGED <<doc, doc_store, canceled, stream, pending, process_vars, api_vars, sync>>

finish(e, t) ==
  /\ At(e, t, "closing")
  /\ set_progress(t, Done)
  /\ Goto(e, t, "finally", 0)
  /\ UNCHANGED <<doc, doc_store, canceled, stream, pending, process_vars, api_vars, sync>>

(* An exception of the document store, the database or the table of        *)
(* contents passes the finally block; handle_task records the failure.     *)
handler_raises(e, t) ==
  /\ \E at \in {"mothers", "insert", "record", "indexed"} : At(e, t, at)
  /\ Goto(e, t, "raised", 0)
  /\ UNCHANGED <<rows, doc, doc_store, canceled, stream, pending, process_vars, api_vars, sync>>

(* The finally block: whatever is indexed of the document goes, if the     *)
(* task has been canceled by now.                                          *)
finally(e, t) ==
  /\ At(e, t, "finally") \/ At(e, t, "raised")
  /\ doc_store' = IF t \in canceled THEN {} ELSE doc_store
  /\ Goto(e, t, IF work[e][t].at = "raised" THEN "failed" ELSE "ack", 0)
  /\ UNCHANGED <<rows, doc, canceled, stream, pending, process_vars, api_vars, sync>>

handle_task_fails(e, t) ==
  /\ At(e, t, "failed")
  /\ set_progress(t, Failed)
  /\ Goto(e, t, "ack", 0)
  /\ UNCHANGED <<doc, doc_store, canceled, stream, pending, process_vars, api_vars, sync>>

ack(e, t) ==
  /\ At(e, t, "ack")
  /\ Acked(e, t)
  /\ Goto(e, t, "none", 0)
  /\ UNCHANGED <<rows, doc, doc_store, canceled, stream, process_vars, api_vars, sync>>

(* The process dies with messages in hand, and is started again.  A        *)
(* document may kill whoever handles it each time; other deaths are few.   *)
crash(e) ==
  /\ up[e] /\ pending[e] # {}
  /\ deaths' = IF Handling(e) = {} THEN deaths + 1 ELSE deaths
  /\ deaths' <= MaxDeaths
  /\ up' = [up EXCEPT ![e] = FALSE]
  /\ replay' = [replay EXCEPT ![e] = {}]
  /\ work' = [work EXCEPT ![e] = [t \in Tasks |-> Idle]]
  /\ UNCHANGED <<rows, doc, doc_store, canceled, stream, pending, api_vars, sync>>

(* Faulty variant: only new messages are read after a start.               *)
RestartWithoutReplay(e) ==
  /\ ~up[e]
  /\ up' = [up EXCEPT ![e] = TRUE]
  /\ UNCHANGED <<rows, doc, doc_store, canceled, stream, pending, replay, deaths, work,
                 api_vars, sync>>
restart(e) ==
  /\ ~up[e]
  /\ up' = [up EXCEPT ![e] = TRUE]
  /\ replay' = [replay EXCEPT ![e] = pending[e]]
  /\ UNCHANGED <<rows, doc, doc_store, canceled, stream, pending, deaths, work, api_vars, sync>>

-----------------------------------------------------------------------------
(* DocumentService.update_progress: get_unfinished_docs and _sync_progress *)
(* read, compute, and later write.                                         *)
Rows == {t \in Tasks : Exists(rows, t)}
Listed == doc.progress = Some \/ \E t \in Rows : Unfinished(rows, t)

Finished == \A t \in Rows : ~Unfinished(rows, t)

Derived ==
  IF ~Finished
  THEN [run |-> doc.run,
        progress |-> IF \E t \in Rows : rows[t].progress \in {Some, Done} THEN Some ELSE Gone]
  ELSE IF \E t \in Rows : rows[t].progress = Failed
       THEN [run |-> "FAIL", progress |-> Failed] ELSE [run |-> "DONE", progress |-> Done]

sync_read ==
  /\ sync = Nothing /\ Listed /\ Rows # {}
  /\ sync' = Derived
  /\ UNCHANGED <<rows, doc, doc_store, canceled, stream, executor_vars, api_vars>>

sync_write ==
  /\ sync # Nothing
  /\ doc' = [run |-> sync.run,
             progress |-> IF sync.progress = Gone THEN doc.progress ELSE sync.progress]
  /\ sync' = Nothing
  /\ UNCHANGED <<rows, doc_store, canceled, stream, executor_vars, api_vars>>

-----------------------------------------------------------------------------
RunStep ==
  \/ run_delete_rows \/ run_delete_chunks \/ queue_get_tasks \/ queue_filter_delete
  \/ queue_delete_pre_chunks \/ queue_bulk_insert \/ begin2parse
  \/ \E t \in Tasks : queue_product(t)
  \/ queue_product_fails \/ run_end \/ cancel_update

Request == \E delete \in BOOLEAN : run_begin(delete)

CollectStep(e) ==
  \E t \in Tasks : \/ collect(e, t) \/ get_task_unknown(e, t) \/ get_task_abandoned(e, t)
                   \/ get_task(e, t) \/ collect_has_canceled(e, t) \/ collect_refused(e, t)

HandleStep(e, t) ==
  \/ start_canceled(e, t) \/ build_chunks(e, t) \/ build_chunks_fails(e, t) \/ no_chunks(e, t)
  \/ maybe_insert_canceled(e, t) \/ maybe_insert_es(e, t)
  \/ insert_mothers(e, t)
  \/ insert_es(e, t) \/ insert_es_fails(e, t) \/ insert_canceled(e, t)
  \/ record_chunk_ids(e, t) \/ \E toc \in BOOLEAN : indexing_done(e, t, toc)
  \/ finish(e, t) \/ handler_raises(e, t) \/ finally(e, t) \/ handle_task_fails(e, t)
  \/ ack(e, t)

ExecutorStep(e) == CollectStep(e) \/ restart(e) \/ \E t \in Tasks : HandleStep(e, t)
SyncStep == sync_read \/ sync_write

Next ==
  \/ Request \/ cancel_all_task_of \/ RunStep
  \/ \E e \in Executors : ExecutorStep(e) \/ crash(e)
  \/ SyncStep

Spec == Init /\ [][Next]_vars

(* A request that was accepted is served to its end, the progress loop     *)
(* runs every six seconds, and an executor is restarted by its launcher,   *)
(* polls for messages and carries on with the tasks it has: it never       *)
(* stops while there is something it can do.  A document may kill its      *)
(* executor every time it is handled.                                      *)
FairSpec ==
  /\ Spec
  /\ WF_vars(RunStep) /\ WF_vars(SyncStep)
  /\ \A e \in Executors : WF_vars(ExecutorStep(e))

-----------------------------------------------------------------------------
Progress == {Gone, Failed, Zero, Some, Done}
Row == [progress : Progress, chunk_ids : SUBSET Chunks, retry_count : Nat]

TypesOK ==
  /\ rows \in [Tasks -> Row]
  /\ doc \in [run : {"UNSTART", "RUNNING", "CANCEL", "DONE", "FAIL"}, progress : Progress]
  /\ doc_store \subseteq Chunks
  /\ canceled \subseteq Tasks /\ stream \subseteq Tasks
  /\ pending \in [Executors -> SUBSET Tasks] /\ replay \in [Executors -> SUBSET Tasks]
  /\ up \in [Executors -> BOOLEAN] /\ deaths \in 0 .. MaxDeaths
  /\ work \in [Executors -> [Tasks ->
       [at : {"none", "received", "collected", "refused", "begun", "empty", "maybe", "mothers",
              "insert", "record", "indexed", "closing", "finally",
              "raised", "failed", "ack"},
        k : Nat]]]
  /\ api \in [at : {"none", "delete_rows", "delete_chunks", "get_tasks", "filter_delete",
                    "delete_pre_chunks", "bulk_insert", "begin2parse", "queue_product",
                    "cancel"},
              prev : [Tasks -> Row], todo : SUBSET Tasks]
  /\ queue_failed \in BOOLEAN /\ runs \in 0 .. MaxRuns /\ cancels \in 0 .. MaxRequests
  /\ sync \in [run : {"none", "UNSTART", "RUNNING", "CANCEL", "DONE", "FAIL"},
               progress : Progress]

(* Types; and no task is handled more than RetryLimit times, although an   *)
(* executor that dies before its ack gets the message again, and get_task  *)
(* goes on counting when a refused message is delivered once more.         *)
TasksTypeOK ==
  /\ TypesOK
  /\ \A e \in Executors : \A t \in Handling(e) :
       Exists(rows, t) => rows[t].retry_count \in 1 .. RetryLimit

(* An unfinished task is never forgotten: its message is in the stream, or *)
(* about to be put there, or an executor works on it, or will find it      *)
(* among its unacknowledged messages, however often executors die.  Only a *)
(* task that was canceled, or whose message Redis did not take, may be     *)
(* left unfinished.                                                        *)
HeldBy(e, t) == t \in pending[e] /\ (t \in Working(e) \/ t \in replay[e] \/ ~up[e])
NoLostTask ==
  \A t \in Tasks :
    Unfinished(rows, t) /\ t \notin canceled /\ ~queue_failed =>
      t \in stream \cup api.todo \/ \E e \in Executors : HeldBy(e, t)

(* What a task row says is indexed is indexed, and all chunks of its page  *)
(* range are once the task is done, although requests delete and reuse     *)
(* chunks while executors, also those of an earlier run, insert them.  The *)
(* row of a task that is done names all of them, or the table of contents  *)
(* alone, whose insert_es came last.  This is claimed as long as nothing   *)
(* is canceled.                                                            *)
IndexedUnlessCanceled ==
  cancels = 0 =>
    \A t \in Tasks : Exists(rows, t) =>
      /\ rows[t].chunk_ids \subseteq doc_store
      /\ rows[t].progress = Done =>
           /\ PageChunks(Page(t)) \subseteq doc_store
           /\ rows[t].chunk_ids \in {PageChunks(Page(t)), TocOf(Page(t))}

(* The chunks that queue_tasks reuses from a previous run are in the       *)
(* index, at least when every message has been acknowledged.               *)
ReusedChunksAreIndexed ==
  api.at = "filter_delete" /\ (\A e \in Executors : pending[e] = {}) =>
    \A t \in Tasks : t \in Reusable(Page(t)) => api.prev[t].chunk_ids \subseteq doc_store

(* A document that is being parsed is done or has failed at some point,    *)
(* even if its pages kill the executor each time they are tried; only a    *)
(* cancellation, or a parse request that reported an error, is no promise. *)
EveryDocumentEnds ==
  doc.run = "RUNNING" ~> doc.run # "RUNNING" \/ queue_failed \/ cancels > 0
=============================================================================
