------------------------- MODULE DocumentTasksProofs -------------------------
(***************************************************************************)
(* Proofs about DocumentTasks, for any executors, page ranges, batches and *)
(* requests: every variable keeps its type, a task is handled no more      *)
(* often than the retry limit says, no task is lost, and as long as        *)
(* nothing is canceled the index holds what the task rows say.             *)
(*                                                                         *)
(* The inductive invariant DocInv says where the one message of a task is  *)
(* (OneMessage), how an executor's unacknowledged messages relate to its   *)
(* coroutines and to the replay after a restart (Holding), what the row of *)
(* a task looks like at each stage of its collection and of its handler    *)
(* (Stages), that the rows are those of one run (Tables), and what is in   *)
(* the index at each stage of a handler and of a parse request (Index).    *)
(***************************************************************************)
EXTENDS DocumentTasks, TLAPS

USE TasksAssumption

(* The steps of a request before its tasks have rows.                      *)
Preparing == {"delete_rows", "delete_chunks", "get_tasks", "filter_delete",
              "delete_pre_chunks", "bulk_insert"}
Known(t) == t[1] <= runs /\ (t[1] = runs => api.at \notin Preparing)
Sent(t) == t \in stream \/ t \in api.todo \/ \E e \in Executors : t \in pending[e]

(* The stages of a task with an executor: those with chunks to index,      *)
(* those of an unfinished attempt, and those of an attempt that counts.    *)
Places == {"none", "received", "collected", "refused", "begun", "empty", "maybe", "mothers",
           "insert", "record", "indexed", "closing", "finally", "raised", "failed", "ack"}
States == [at : Places, k : Nat]
Indexing == {"maybe", "mothers", "insert", "record", "indexed", "closing"}
Attempt == {"collected", "begun", "empty", "raised", "failed"} \cup Indexing
Counted == Attempt \cup {"finally", "ack"}

Shape(w, p) ==
  /\ w.at \in Indexing => Batches[p] # 0
  /\ w.at \in {"maybe", "mothers"} => w.k \in {0, 1}
  /\ w.at \in {"insert", "record"} => w.k \in 0 .. Batches[p]

Shapes ==
  /\ TypesOK
  /\ \A e \in Executors, t \in Tasks : Shape(work[e][t], Page(t))
  /\ sync.run = "none" => sync = Nothing
  /\ cancels = 0 => canceled = {}

(* A task has a message only once it has a row, and the message is in one  *)
(* place.                                                                  *)
OneMessage ==
  /\ \A t \in Tasks : Sent(t) \/ Exists(rows, t) => Known(t)
  /\ \A t \in stream : t \notin api.todo /\ \A e \in Executors : t \notin pending[e]
  /\ \A t \in api.todo : \A e \in Executors : t \notin pending[e]
  /\ \A e, f \in Executors, t \in Tasks : t \in pending[e] /\ t \in pending[f] => e = f
  /\ api.todo # {} => api.at \in {"begin2parse", "queue_product"}

(* What an executor has not acknowledged it works on, or will replay.      *)
Holding ==
  \A e \in Executors, t \in Tasks :
    /\ work[e][t].at # "none" => t \in pending[e] /\ up[e]
    /\ t \in replay[e] => t \in pending[e] /\ up[e] /\ work[e][t].at = "none"
    /\ t \in pending[e] /\ up[e] => t \in replay[e] \/ work[e][t].at # "none"

StageOK(w, row, p) ==
  /\ w.at \in Attempt => row.progress \in {Gone, Failed, Some}
  /\ w.at = "empty" /\ Batches[p] # 0 => row.progress \in {Gone, Failed}
  /\ w.at \in {"finally", "ack"} => row.progress \in {Gone, Failed, Done}
  /\ w.at \in Counted /\ row.progress # Gone => row.retry_count \in 1 .. RetryLimit

Stages ==
  \A e \in Executors, t \in Tasks :
    /\ StageOK(work[e][t], rows[t], Page(t))
    /\ work[e][t].at = "refused" => ~Unfinished(rows, t) \/ t \in canceled

(* The rows of a table are those of one run.                               *)
Names(p) == IF Batches[p] = 0 THEN {} ELSE PageChunks(p) \cup TocOf(p)
OneRun(table) ==
  /\ \A t \in Tasks : ~Exists(table, t) => table[t] = NoRow
  /\ \A t, u \in Tasks : Exists(table, t) /\ Exists(table, u) => t[1] = u[1]
  /\ \A t \in Tasks : table[t].chunk_ids \subseteq Names(Page(t))

Tables ==
  /\ OneRun(rows) /\ OneRun(api.prev)
  /\ api.at \in {"delete_chunks", "delete_pre_chunks", "bulk_insert"} => rows = NoTable

Complete(p) == {PageChunks(p), TocOf(p)}
DoneIsComplete(table) ==
  \A t \in Tasks : table[t].progress = Done => table[t].chunk_ids \in Complete(Page(t))

(* A row and the index.                                                    *)
InStore(row, p, store) ==
  /\ row.chunk_ids \subseteq store
  /\ row.progress = Done => PageChunks(p) \subseteq store

(* How many of the n batches of its task a coroutine has inserted.         *)
Inserted(w, n) ==
  IF \/ w.at \in {"indexed", "closing"}
     \/ w.at \in {"maybe", "mothers", "insert", "record"} /\ w.k = 0 THEN n
  ELSE IF w.at = "record" THEN w.k
  ELSE IF w.at = "insert" THEN w.k - 1 ELSE 0

StageStore(w, row, p, store) ==
  /\ ChunksOf(p, Inserted(w, Batches[p])) \subseteq store
  /\ w.at = "record" /\ w.k = 0 => TocOf(p) \subseteq store
  /\ w.at \in {"indexed", "closing"} => row.chunk_ids \in Complete(p)

PrevIndexed ==
  \A t \in Tasks :
    (\/ api.at \in {"filter_delete", "delete_pre_chunks"}
     \/ api.at = "bulk_insert" /\ t \in Reusable(Page(t))) =>
      InStore(api.prev[t], Page(t), doc_store)

RowsIndexed == \A t \in Tasks : InStore(rows[t], Page(t), doc_store)
StageIndexed ==
  \A e \in Executors, t \in Tasks :
    Exists(rows, t) => StageStore(work[e][t], rows[t], Page(t), doc_store)

Index ==
  cancels = 0 =>
    /\ DoneIsComplete(rows) /\ DoneIsComplete(api.prev)
    /\ RowsIndexed /\ PrevIndexed /\ StageIndexed

DocInv == Shapes /\ OneMessage /\ Holding /\ Stages /\ NoLostTask /\ Tables /\ Index

-----------------------------------------------------------------------------
(* Tables.                                                                 *)
LEMMA RowFacts ==
  /\ NewRow \in Row /\ NoRow \in Row /\ NoTable \in [Tasks -> Row]
  /\ NoRow.progress = Gone /\ NoRow.chunk_ids = {} /\ NoRow.retry_count = 0
  /\ NewRow.progress = Zero /\ NewRow.chunk_ids = {} /\ NewRow.retry_count = 0
BY DEF NewRow, NoRow, NoTable, Row, Progress, Gone, Failed, Zero, Some, Done

LEMMA NoTableFacts == OneRun(NoTable) /\ DoneIsComplete(NoTable)
BY RowFacts DEF OneRun, DoneIsComplete, NoTable, Exists, Gone, Done

LEMMA ChunkFacts ==
  ASSUME NEW p \in Pages
  PROVE  /\ Batches[p] \in Nat /\ ChunksOf(p, 0) = {}
         /\ PageChunks(p) \subseteq Names(p)
         /\ Batches[p] # 0 => TocOf(p) \subseteq Names(p)
         /\ Names(p) \subseteq Chunks
         /\ \A n \in 0 .. Batches[p] : ChunksOf(p, n) \subseteq PageChunks(p)
         /\ \A c \in Names(p) : c[1] = p
BY DEF ChunksOf, PageChunks, TocOf, Names, Chunks

LEMMA TaskFacts ==
  ASSUME NEW t \in Tasks
  PROVE  t[1] \in 1 .. MaxRuns /\ Page(t) \in Pages /\ t = <<t[1], Page(t)>>
BY DEF Tasks, Page

LEMMA InStoreGrows ==
  ASSUME NEW row, NEW p, NEW s, NEW s1, s \subseteq s1, InStore(row, p, s)
  PROVE  InStore(row, p, s1)
BY DEF InStore

LEMMA StageStoreGrows ==
  ASSUME NEW w, NEW row, NEW p, NEW s, NEW s1, s \subseteq s1, StageStore(w, row, p, s)
  PROVE  StageStore(w, row, p, s1)
BY DEF StageStore

(* A stage at which an executor has nothing of the task in the index.      *)
LEMMA EarlyStage ==
  ASSUME NEW w, NEW row, NEW p \in Pages, NEW s,
         w.at \notin Indexing \/ (w.at \in {"maybe", "mothers"} /\ w.k = 1)
  PROVE  StageStore(w, row, p, s)
<1>1. Inserted(w, Batches[p]) = 0 /\ w.at \notin {"record", "indexed", "closing"}
  BY DEF Inserted, Indexing
<1> QED
  BY <1>1, ChunkFacts DEF StageStore

LEMMA IdleShape ==
  ASSUME NEW w, NEW p, w.at \in {"none", "received"}
  PROVE  Shape(w, p)
BY DEF Shape, Indexing

LEMMA IdleStage ==
  ASSUME NEW w, NEW row, NEW p, w.at \in {"none", "received"}
  PROVE  StageOK(w, row, p)
BY DEF StageOK, Counted, Attempt, Indexing

(* What a step of a task may do to its row.                                *)
RowWritten(t) ==
  /\ rows' \in [Tasks -> Row]
  /\ \A u \in Tasks \ {t} : rows'[u] = rows[u]
  /\ Exists(rows', t) <=> Exists(rows, t)
  /\ ~Exists(rows, t) => rows'[t] = rows[t]

LEMMA UpdateProgress ==
  ASSUME rows \in [Tasks -> Row], NEW t \in Tasks, NEW p \in {Failed, Some, Done},
         NEW new, new = update_progress(t, p)
  PROVE  /\ new \in [Tasks -> Row]
         /\ \A u \in Tasks \ {t} : new[u] = rows[u]
         /\ new[t].retry_count = rows[t].retry_count /\ new[t].chunk_ids = rows[t].chunk_ids
         /\ new[t].progress =
              IF /\ rows[t].progress \notin {Gone, Failed}
                 /\ p = Failed \/ p > rows[t].progress THEN p ELSE rows[t].progress
         /\ ~Exists(rows, t) => new[t] = rows[t]
<1> DEFINE C == /\ rows[t].progress \notin {Gone, Failed}
                /\ p = Failed \/ p > rows[t].progress
<1>p. p \in Progress
  BY DEF Progress
<1>r. rows[t] \in Row
  OBVIOUS
<1>1. CASE C
  <2>1. new = [rows EXCEPT ![t].progress = p]
    BY <1>1 DEF update_progress
  <2>2. [rows[t] EXCEPT !.progress = p] \in Row
    BY <1>p, <1>r DEF Row
  <2>3. new = [rows EXCEPT ![t] = [rows[t] EXCEPT !.progress = p]]
    BY <2>1
  <2>4. /\ new \in [Tasks -> Row]
        /\ \A u \in Tasks \ {t} : new[u] = rows[u]
        /\ new[t] = [rows[t] EXCEPT !.progress = p]
    BY <2>2, <2>3
  <2>5. /\ new[t].retry_count = rows[t].retry_count /\ new[t].chunk_ids = rows[t].chunk_ids
        /\ new[t].progress = p
    BY <2>4, <1>r DEF Row
  <2> QED
    BY <2>4, <2>5, <1>1 DEF Exists
<1>2. CASE ~C
  BY <1>2 DEF update_progress
<1> QED
  BY <1>1, <1>2

(* What set_progress leaves of a row that an executor works on.            *)
LEMMA SetProgress ==
  ASSUME DocInv, NEW t \in Tasks, NEW p \in {Failed, Some, Done}, set_progress(t, p)
  PROVE  /\ RowWritten(t) /\ rows'[t].chunk_ids = rows[t].chunk_ids
         /\ rows'[t].retry_count = rows[t].retry_count
         /\ rows'[t].progress # Gone => rows[t].progress # Gone
         /\ p = Failed => rows'[t].progress \in {Gone, Failed}
         /\ p = Done => rows'[t].progress \in {Gone, Failed, Done}
         /\ p = Some /\ rows[t].progress \in {Gone, Failed, Some} =>
              rows'[t].progress \in {Gone, Failed, Some}
         /\ p = Done /\ rows[t].progress \in {Gone, Failed} => rows'[t].progress # Done
<1>1. rows \in [Tasks -> Row] /\ rows[t].progress \in Progress
  BY DEF DocInv, Shapes, TypesOK, Row
<1> DEFINE q == IF t \in canceled THEN Failed ELSE p
<1>2. q \in {Failed, Some, Done} /\ rows' = update_progress(t, q)
  BY DEF set_progress
<1>3. /\ rows' \in [Tasks -> Row]
      /\ \A u \in Tasks \ {t} : rows'[u] = rows[u]
      /\ rows'[t].retry_count = rows[t].retry_count /\ rows'[t].chunk_ids = rows[t].chunk_ids
      /\ rows'[t].progress =
           IF /\ rows[t].progress \notin {Gone, Failed}
              /\ q = Failed \/ q > rows[t].progress THEN q ELSE rows[t].progress
      /\ ~Exists(rows, t) => rows'[t] = rows[t]
  <2> HIDE DEF q
  <2> QED
    BY <1>1, <1>2, UpdateProgress
<1> QED
  BY <1>1, <1>3 DEF RowWritten, Exists, Progress, Gone, Failed, Zero, Some, Done

LEMMA ProgressMessage ==
  ASSUME DocInv, NEW t \in Tasks, progress_message(t), rows[t].progress \in {Gone, Failed, Some}
  PROVE  /\ RowWritten(t) /\ rows'[t].chunk_ids = rows[t].chunk_ids
         /\ rows'[t].retry_count = rows[t].retry_count
         /\ rows'[t].progress \in {Gone, Failed, Some}
         /\ rows'[t].progress # Gone => rows[t].progress # Gone
<1>1. CASE t \in canceled
  <2>1. set_progress(t, Failed)
    BY <1>1 DEF progress_message, set_progress
  <2> QED
    BY <2>1, SetProgress
<1>2. CASE t \notin canceled
  BY <1>2 DEF progress_message, RowWritten, DocInv, Shapes, TypesOK
<1> QED
  BY <1>1, <1>2

-----------------------------------------------------------------------------
(* The steps of an executor with a task.                                   *)
Goes(e, t, w) == work' = [work EXCEPT ![e][t] = w]

LEMMA Moved ==
  ASSUME TypesOK, NEW e \in Executors, NEW t \in Tasks, NEW w \in States,
         Goes(e, t, w)
  PROVE  /\ work' \in [Executors -> [Tasks -> States]]
         /\ work'[e][t] = w
         /\ \A f \in Executors, u \in Tasks : f # e \/ u # t => work'[f][u] = work[f][u]
<1>1. work \in [Executors -> [Tasks -> States]]
  BY DEF TypesOK, States, Places
<1>g. work' = [work EXCEPT ![e][t] = w]
  BY DEF Goes
<1>2. /\ work'[e] = [work[e] EXCEPT ![t] = w]
      /\ \A f \in Executors \ {e} : work'[f] = work[f]
      /\ DOMAIN work' = Executors
      /\ work' = [work EXCEPT ![e] = [work[e] EXCEPT ![t] = w]]
  BY <1>1, <1>g
<1>3. [work[e] EXCEPT ![t] = w] \in [Tasks -> States]
  BY <1>1
<1> QED
  BY <1>1, <1>2, <1>3

(* A step that goes on with its task: the task is not lost.                *)
LEMMA HandlerGoesOn ==
  ASSUME DocInv, NEW e \in Executors, NEW t \in Tasks, NEW w \in States,
         work[e][t].at # "none", w.at # "none",
         Goes(e, t, w), RowWritten(t),
         UNCHANGED <<canceled, stream, pending, process_vars, api_vars>>
  PROVE  OneMessage' /\ Holding' /\ NoLostTask'
<1>1. /\ work'[e][t] = w
      /\ \A f \in Executors, u \in Tasks : f # e \/ u # t => work'[f][u] = work[f][u]
  BY Moved DEF DocInv, Shapes
<1>u. /\ canceled' = canceled /\ stream' = stream /\ pending' = pending /\ replay' = replay
      /\ up' = up /\ api' = api /\ queue_failed' = queue_failed /\ runs' = runs
  BY DEF api_vars, process_vars
<1>2. OneMessage'
  <2>1. \A u \in Tasks : Exists(rows', u) <=> Exists(rows, u)
    BY DEF RowWritten, Exists
  <2>2. \A u \in Tasks : (Sent(u)' <=> Sent(u)) /\ (Known(u)' <=> Known(u))
    BY <1>u DEF Sent, Known
  <2> QED
    BY <2>1, <2>2, <1>u DEF OneMessage, DocInv
<1>3. Holding'
  BY <1>1, <1>u DEF Holding, DocInv
<1>4. NoLostTask'
  <2> SUFFICES ASSUME NEW u \in Tasks, Unfinished(rows', u), u \notin canceled, ~queue_failed
               PROVE  u \in stream \cup api.todo \/ \E f \in Executors : HeldBy(f, u)'
    BY <1>u DEF NoLostTask
  <2>1. CASE u = t
    <3>1. t \in pending[e]
      BY DEF DocInv, Holding
    <3>2. HeldBy(e, t)'
      BY <3>1, <1>1, <1>u DEF HeldBy, Working
    <3> QED
      BY <2>1, <3>2
  <2>2. CASE u # t
    <3>1. Unfinished(rows, u)
      BY <2>2 DEF RowWritten, Unfinished
    <3>2. ASSUME NEW f \in Executors, HeldBy(f, u)
          PROVE  HeldBy(f, u)'
      BY <2>2, <3>2, <1>1, <1>u DEF HeldBy, Working
    <3> QED
      BY <3>1, <3>2 DEF DocInv, NoLostTask
  <2> QED
    BY <2>1, <2>2
<1> QED
  BY <1>2, <1>3, <1>4

(* Nobody else works on the task.                                          *)
LEMMA OnlyWorker ==
  ASSUME DocInv, NEW e \in Executors, NEW f \in Executors, NEW t \in Tasks,
         t \in pending[e], f # e
  PROVE  t \notin pending[f] /\ work[f][t].at = "none" /\ t \notin replay[f]
BY DEF DocInv, OneMessage, Holding

LEMMA HandlerStages ==
  ASSUME DocInv, NEW e \in Executors, NEW t \in Tasks, NEW w \in States,
         work[e][t].at # "none",
         Goes(e, t, w), RowWritten(t), canceled' = canceled,
         StageOK(w, rows'[t], Page(t)),
         w.at = "refused" => ~Unfinished(rows', t) \/ t \in canceled
  PROVE  Stages'
<1>1. /\ work'[e][t] = w
      /\ \A f \in Executors, u \in Tasks : f # e \/ u # t => work'[f][u] = work[f][u]
  BY Moved DEF DocInv, Shapes
<1>2. \A f \in Executors : f # e => work[f][t].at = "none"
  BY OnlyWorker DEF DocInv, Holding
<1>3. \A u \in Tasks \ {t} : rows'[u] = rows[u]
  BY DEF RowWritten
<1> SUFFICES ASSUME NEW f \in Executors, NEW u \in Tasks
             PROVE  /\ StageOK(work'[f][u], rows'[u], Page(u))
                    /\ work'[f][u].at = "refused" => ~Unfinished(rows', u) \/ u \in canceled
  BY DEF Stages, StageOK
<1>4. CASE u = t /\ f = e
  BY <1>1, <1>4
<1>5. CASE u = t /\ f # e
  BY <1>1, <1>2, <1>5, IdleStage
<1>6. CASE u # t
  BY <1>1, <1>3, <1>6 DEF DocInv, Stages, Unfinished
<1> QED
  BY <1>4, <1>5, <1>6

LEMMA HandlerTables ==
  ASSUME DocInv, NEW t \in Tasks, RowWritten(t), api' = api,
         rows'[t].chunk_ids \subseteq Names(Page(t))
  PROVE  Tables'
<1>1. \A u \in Tasks : Exists(rows', u) <=> Exists(rows, u)
  BY DEF RowWritten, Exists
<1>2. \A u \in Tasks \ {t} : rows'[u] = rows[u]
  BY DEF RowWritten
<1>3. ~Exists(rows, t) => rows'[t] = rows[t]
  BY DEF RowWritten
<1>4. OneRun(rows) /\ OneRun(api.prev)
  BY DEF DocInv, Tables
<1>5. OneRun(rows')
  BY <1>1, <1>2, <1>3, <1>4 DEF OneRun
<1>6. rows = NoTable => rows' = rows
  <2> SUFFICES ASSUME rows = NoTable PROVE \A u \in Tasks : rows'[u] = rows[u]
    BY DEF DocInv, Shapes, TypesOK, RowWritten
  <2>1. ~Exists(rows, t)
    BY RowFacts DEF Exists, NoTable
  <2> QED
    BY <2>1, <1>2, <1>3
<1> QED
  BY <1>4, <1>5, <1>6 DEF DocInv, Tables

LEMMA HandlerShapes ==
  ASSUME DocInv, NEW e \in Executors, NEW t \in Tasks, NEW w \in States, Goes(e, t, w),
         Shape(w, Page(t)),
         rows' \in [Tasks -> Row], doc_store' \subseteq Chunks,
         pending' \in [Executors -> SUBSET Tasks],
         UNCHANGED <<doc, canceled, stream, process_vars, api_vars, sync>>
  PROVE  Shapes'
<1>1. TypesOK
  BY DEF DocInv, Shapes
<1>2. /\ work' \in [Executors -> [Tasks -> States]]
      /\ work'[e][t] = w
      /\ \A f \in Executors, u \in Tasks : f # e \/ u # t => work'[f][u] = work[f][u]
  BY Moved, <1>1
<1>3. TypesOK'
  BY <1>1, <1>2 DEF TypesOK, States, Places, api_vars, process_vars
<1>4. \A f \in Executors, u \in Tasks : Shape(work'[f][u], Page(u))
  BY <1>2 DEF DocInv, Shapes
<1> QED
  BY <1>3, <1>4 DEF DocInv, Shapes, Shape, Nothing, api_vars

LEMMA HandlerIndex ==
  ASSUME DocInv, NEW e \in Executors, NEW t \in Tasks, NEW w \in States, Goes(e, t, w),
         RowWritten(t), work[e][t].at # "none", api' = api, cancels' = cancels,
         cancels = 0 => doc_store \subseteq doc_store',
         cancels = 0 /\ Exists(rows, t) =>
           /\ InStore(rows'[t], Page(t), doc_store')
           /\ rows'[t].progress = Done => rows'[t].chunk_ids \in Complete(Page(t))
           /\ StageStore(w, rows'[t], Page(t), doc_store')
  PROVE  Index'
<1> SUFFICES ASSUME cancels = 0 PROVE Index'
  BY DEF Index
<1>1. /\ work'[e][t] = w
      /\ \A f \in Executors, u \in Tasks : f # e \/ u # t => work'[f][u] = work[f][u]
  BY Moved DEF DocInv, Shapes
<1>2. /\ DoneIsComplete(rows) /\ DoneIsComplete(api.prev)
      /\ RowsIndexed /\ PrevIndexed /\ StageIndexed
  BY DEF DocInv, Index
<1>3. /\ \A u \in Tasks \ {t} : rows'[u] = rows[u]
      /\ Exists(rows', t) <=> Exists(rows, t)
      /\ ~Exists(rows, t) => rows'[t] = rows[t]
  BY DEF RowWritten
<1>4. DoneIsComplete(rows')
  BY <1>2, <1>3 DEF DoneIsComplete
<1>5. \A u \in Tasks : InStore(rows'[u], Page(u), doc_store')
  <2> TAKE u \in Tasks
  <2>1. CASE u = t /\ Exists(rows, t)
    BY <2>1
  <2>2. CASE ~(u = t /\ Exists(rows, t))
    <3>1. rows'[u] = rows[u] /\ InStore(rows[u], Page(u), doc_store)
      BY <2>2, <1>2, <1>3 DEF RowsIndexed
    <3> QED
      BY <3>1, InStoreGrows
  <2> QED
    BY <2>1, <2>2
<1>6. PrevIndexed'
  <2>1. \A u \in Tasks : Reusable(Page(u))' = Reusable(Page(u))
    BY DEF Reusable
  <2>2. \A u \in Tasks : InStore(api.prev[u], Page(u), doc_store) =>
                           InStore(api.prev[u], Page(u), doc_store')
    BY InStoreGrows
  <2> QED
    BY <2>1, <2>2, <1>2 DEF PrevIndexed, InStore
<1>7. StageIndexed'
  <2> SUFFICES ASSUME NEW f \in Executors, NEW u \in Tasks, Exists(rows', u)
               PROVE  StageStore(work'[f][u], rows'[u], Page(u), doc_store')
    BY DEF StageIndexed, StageStore, Inserted
  <2>1. CASE u = t /\ f = e
    BY <2>1, <1>1, <1>3
  <2>2. CASE u = t /\ f # e
    <3>1. work'[f][u].at = "none"
      BY <2>2, <1>1, OnlyWorker DEF DocInv, Holding
    <3>2. work'[f][u].at \notin Indexing
      BY <3>1 DEF Indexing
    <3> QED
      BY <3>2, EarlyStage, TaskFacts
  <2>3. CASE u # t
    <3>1. StageStore(work[f][u], rows[u], Page(u), doc_store)
      BY <2>3, <1>2, <1>3 DEF StageIndexed, Exists
    <3>2. work'[f][u] = work[f][u] /\ rows'[u] = rows[u]
      BY <2>3, <1>1, <1>3
    <3> QED
      BY <3>1, <3>2, StageStoreGrows
  <2> QED
    BY <2>1, <2>2, <2>3
<1> QED
  BY <1>2, <1>4, <1>5, <1>6, <1>7 DEF Index, RowsIndexed, InStore, DoneIsComplete

LEMMA HandlerInv ==
  ASSUME DocInv, NEW e \in Executors, NEW t \in Tasks, NEW w \in States,
         work[e][t].at # "none", w.at # "none", Goes(e, t, w), RowWritten(t),
         Shape(w, Page(t)), StageOK(w, rows'[t], Page(t)),
         w.at = "refused" => ~Unfinished(rows', t) \/ t \in canceled,
         rows'[t].chunk_ids \subseteq Names(Page(t)),
         doc_store' \subseteq Chunks,
         cancels = 0 => doc_store \subseteq doc_store',
         cancels = 0 /\ Exists(rows, t) =>
           /\ InStore(rows'[t], Page(t), doc_store')
           /\ rows'[t].progress = Done => rows'[t].chunk_ids \in Complete(Page(t))
           /\ StageStore(w, rows'[t], Page(t), doc_store'),
         UNCHANGED <<doc, canceled, stream, pending, process_vars, api_vars, sync>>
  PROVE  DocInv'
<1>1. OneMessage' /\ Holding' /\ NoLostTask'
  BY HandlerGoesOn
<1>2. Stages'
  BY HandlerStages
<1>3. Tables'
  BY HandlerTables DEF api_vars
<1>4. Shapes'
  <2>1. rows' \in [Tasks -> Row] /\ pending' \in [Executors -> SUBSET Tasks]
    BY DEF RowWritten, DocInv, Shapes, TypesOK
  <2> QED
    BY <2>1, HandlerShapes
<1>5. Index'
  BY HandlerIndex DEF api_vars
<1> QED
  BY <1>1, <1>2, <1>3, <1>4, <1>5 DEF DocInv

LEMMA RowKept ==
  ASSUME DocInv, NEW t \in Tasks, rows' = rows
  PROVE  RowWritten(t)
BY DEF DocInv, Shapes, TypesOK, RowWritten

(* What DocInv says of a task that is worked on.                           *)
LEMMA AtWork ==
  ASSUME DocInv, NEW e \in Executors, NEW t \in Tasks
  PROVE  /\ work[e][t] \in States /\ rows[t] \in Row /\ Page(t) \in Pages
         /\ doc_store \subseteq Chunks
         /\ rows[t].chunk_ids \subseteq Names(Page(t))
         /\ Shape(work[e][t], Page(t)) /\ StageOK(work[e][t], rows[t], Page(t))
         /\ cancels = 0 /\ Exists(rows, t) =>
              /\ InStore(rows[t], Page(t), doc_store)
              /\ rows[t].progress = Done => rows[t].chunk_ids \in Complete(Page(t))
              /\ StageStore(work[e][t], rows[t], Page(t), doc_store)
         /\ cancels = 0 => canceled = {}
<1>1. /\ work[e][t] \in States /\ rows[t] \in Row
      /\ doc_store \subseteq Chunks
  BY DEF DocInv, Shapes, TypesOK, States, Places
<1>2. Shape(work[e][t], Page(t)) /\ (cancels = 0 => canceled = {})
  BY DEF DocInv, Shapes
<1>3. rows[t].chunk_ids \subseteq Names(Page(t))
  BY DEF DocInv, Tables, OneRun
<1>4. StageOK(work[e][t], rows[t], Page(t))
  BY DEF DocInv, Stages
<1>5. cancels = 0 /\ Exists(rows, t) =>
        /\ InStore(rows[t], Page(t), doc_store)
        /\ rows[t].progress = Done => rows[t].chunk_ids \in Complete(Page(t))
        /\ StageStore(work[e][t], rows[t], Page(t), doc_store)
  BY DEF DocInv, Index, DoneIsComplete, StageIndexed, RowsIndexed
<1> QED
  BY <1>1, <1>2, <1>3, <1>4, <1>5, TaskFacts

(* A step that inserts nothing and leaves the row, except that its         *)
(* progress may change to one that is not Done.                            *)
LEMMA QuietStep ==
  ASSUME DocInv, NEW e \in Executors, NEW t \in Tasks, NEW w \in States,
         work[e][t].at # "none", w.at # "none", Goes(e, t, w), RowWritten(t),
         Shape(w, Page(t)), StageOK(w, rows'[t], Page(t)),
         w.at = "refused" => ~Unfinished(rows', t) \/ t \in canceled,
         rows'[t].chunk_ids = rows[t].chunk_ids,
         rows'[t].progress = Done => rows[t].progress = Done,
         cancels = 0 /\ Exists(rows, t) => StageStore(w, rows'[t], Page(t), doc_store),
         UNCHANGED <<doc, doc_store, canceled, stream, pending, process_vars, api_vars, sync>>
  PROVE  DocInv'
<1>1. cancels = 0 /\ Exists(rows, t) =>
        /\ InStore(rows'[t], Page(t), doc_store)
        /\ rows'[t].progress = Done => rows'[t].chunk_ids \in Complete(Page(t))
  BY AtWork DEF InStore
<1>2. rows'[t].chunk_ids \subseteq Names(Page(t)) /\ doc_store' \subseteq Chunks
  BY AtWork
<1> QED
  BY <1>1, <1>2, HandlerInv

(* The steps that record a failure.                                        *)
LEMMA FailingInv ==
  ASSUME DocInv, NEW e \in Executors, NEW t \in Tasks, NEW at \in {"finally", "ack", "empty"},
         work[e][t].at \in Counted, set_progress(t, Failed), Goto(e, t, at, 0),
         UNCHANGED <<doc, doc_store, canceled, stream, pending, process_vars, api_vars, sync>>
  PROVE  DocInv'
<1> DEFINE w == [at |-> at, k |-> 0]
<1>1. w \in States /\ w.at = at /\ Goes(e, t, w)
  BY DEF States, Places, Goto, Goes
<1>2. /\ RowWritten(t) /\ rows'[t].chunk_ids = rows[t].chunk_ids
      /\ rows'[t].progress \in {Gone, Failed} /\ rows'[t].retry_count = rows[t].retry_count
      /\ rows'[t].progress # Gone => rows[t].progress # Gone
  BY SetProgress
<1> HIDE DEF w
<1>3. rows'[t].progress # Done /\ work[e][t].at # "none" /\ w.at # "none"
  BY <1>1, <1>2 DEF Gone, Failed, Done, Counted, Attempt, Indexing
<1>4. w.at \notin Indexing /\ w.at # "refused" /\ w.at \in Counted
  BY <1>1 DEF Indexing, Counted, Attempt
<1>5. Shape(w, Page(t))
  BY <1>1, <1>4 DEF Shape
<1>6. StageOK(w, rows'[t], Page(t))
  BY <1>2, AtWork DEF StageOK
<1>7. StageStore(w, rows'[t], Page(t), doc_store)
  BY <1>4, EarlyStage, TaskFacts
<1> QED
  BY <1>1, <1>2, <1>3, <1>4, <1>5, <1>6, <1>7, QuietStep

(* The steps that only go on.                                              *)
LEMMA MovingInv ==
  ASSUME DocInv, NEW e \in Executors, NEW t \in Tasks, NEW w \in States,
         work[e][t].at # "none", w.at # "none", Goes(e, t, w),
         Shape(w, Page(t)), StageOK(w, rows[t], Page(t)),
         w.at = "refused" => ~Unfinished(rows, t) \/ t \in canceled,
         cancels = 0 /\ Exists(rows, t) => StageStore(w, rows[t], Page(t), doc_store),
         UNCHANGED <<rows, doc, doc_store, canceled, stream, pending, process_vars, api_vars, sync>>
  PROVE  DocInv'
<1>1. RowWritten(t)
  BY RowKept
<1> QED
  BY <1>1, QuietStep


LEMMA BuildInv ==
  ASSUME DocInv, NEW e \in Executors, NEW t \in Tasks, build_chunks(e, t)
  PROVE  DocInv'
<1> PICK w \in States : /\ Goes(e, t, w)
                        /\ Batches[Page(t)] = 0 => w.at = "empty"
                        /\ Batches[Page(t)] # 0 => w.at = "maybe" /\ w.k = 1
  <2>1. /\ [at |-> "empty", k |-> 0] \in States /\ [at |-> "maybe", k |-> 1] \in States
        /\ [at |-> "empty", k |-> 0].at = "empty" /\ [at |-> "maybe", k |-> 1].at = "maybe"
        /\ [at |-> "maybe", k |-> 1].k = 1
    BY DEF States, Places
  <2> QED
    BY <2>1 DEF build_chunks, Goto, Goes
<1>1. /\ work[e][t].at = "begun" /\ set_progress(t, Some)
      /\ UNCHANGED <<doc, doc_store, canceled, stream, pending, process_vars, api_vars, sync>>
  BY DEF build_chunks, At
<1>2. /\ work[e][t].at \in Attempt /\ w.at \in Attempt /\ work[e][t].at \in Counted
      /\ w.at \notin {"none", "refused", "finally", "ack"}
  BY <1>1 DEF Attempt, Counted, Indexing
<1>3. /\ RowWritten(t) /\ rows'[t].chunk_ids = rows[t].chunk_ids
      /\ rows'[t].progress \in {Gone, Failed, Some}
      /\ rows'[t].retry_count = rows[t].retry_count
      /\ rows'[t].progress # Gone => rows[t].progress # Gone
  BY <1>1, <1>2, SetProgress, AtWork DEF StageOK
<1>4. rows'[t].progress # Done
  BY <1>3 DEF Gone, Failed, Some, Done
<1>5. Shape(w, Page(t))
  BY DEF Shape, Indexing
<1>6. StageOK(w, rows'[t], Page(t))
  BY <1>2, <1>3, AtWork DEF StageOK
<1>7. StageStore(w, rows'[t], Page(t), doc_store)
  <2>1. w.at \notin Indexing \/ (w.at \in {"maybe", "mothers"} /\ w.k = 1)
    BY DEF Indexing
  <2> QED
    BY <2>1, EarlyStage, TaskFacts
<1> QED
  BY <1>1, <1>2, <1>3, <1>4, <1>5, <1>6, <1>7, QuietStep

(* A page range without chunks is done; one that failed stays so.          *)
LEMMA NoChunksInv ==
  ASSUME DocInv, NEW e \in Executors, NEW t \in Tasks, no_chunks(e, t)
  PROVE  DocInv'
<1> DEFINE w == [at |-> "ack", k |-> 0]
<1>1. w \in States /\ w.at = "ack" /\ Goes(e, t, w)
  BY DEF States, Places, Goto, Goes, no_chunks
<1>2. /\ work[e][t].at = "empty" /\ set_progress(t, Done)
      /\ UNCHANGED <<doc, doc_store, canceled, stream, pending, process_vars, api_vars, sync>>
  BY DEF no_chunks, At
<1>3. /\ RowWritten(t) /\ rows'[t].chunk_ids = rows[t].chunk_ids
      /\ rows'[t].retry_count = rows[t].retry_count
      /\ rows'[t].progress \in {Gone, Failed, Done}
      /\ rows'[t].progress # Gone => rows[t].progress # Gone
      /\ rows[t].progress \in {Gone, Failed} => rows'[t].progress # Done
  BY <1>2, SetProgress
<1> HIDE DEF w
<1>4. work[e][t].at \in Counted /\ w.at \in Counted /\ w.at \notin Indexing \cup Attempt
  BY <1>1, <1>2 DEF Counted, Attempt, Indexing
<1>5. Shape(w, Page(t)) /\ StageOK(w, rows'[t], Page(t))
  BY <1>1, <1>3, <1>4, AtWork DEF Shape, StageOK
<1>6. StageStore(w, rows'[t], Page(t), doc_store)
  BY <1>4, EarlyStage, TaskFacts
<1>7. rows'[t].progress = Done => Batches[Page(t)] = 0
  BY <1>2, <1>3, AtWork DEF StageOK
<1>8. Batches[Page(t)] = 0 => PageChunks(Page(t)) = {} /\ rows[t].chunk_ids = {}
  BY AtWork, ChunkFacts DEF Names, PageChunks
<1>9. cancels = 0 /\ Exists(rows, t) =>
        /\ InStore(rows'[t], Page(t), doc_store)
        /\ rows'[t].progress = Done => rows'[t].chunk_ids \in Complete(Page(t))
  BY <1>3, <1>7, <1>8, AtWork DEF InStore, Complete
<1> QED
  BY <1>1, <1>2, <1>3, <1>5, <1>6, <1>9, AtWork, HandlerInv

LEMMA MaybeCanceledInv ==
  ASSUME DocInv, NEW e \in Executors, NEW t \in Tasks, maybe_insert_canceled(e, t)
  PROVE  DocInv'
<1> PICK w \in States : Goes(e, t, w) /\ w.at \in {"closing", "indexed"}
  <2>1. /\ \A at \in {"closing", "indexed"} : [at |-> at, k |-> 0] \in States
        /\ \A at \in {"closing", "indexed"} : [at |-> at, k |-> 0].at = at
    BY DEF States, Places
  <2> QED
    BY <2>1 DEF maybe_insert_canceled, Goto, Goes
<1>1. /\ work[e][t].at = "maybe" /\ t \in canceled
      /\ UNCHANGED <<rows, doc, doc_store, canceled, stream, pending, process_vars, api_vars, sync>>
  BY DEF maybe_insert_canceled, At
<1>2. cancels # 0
  BY <1>1, AtWork
<1>3. /\ work[e][t].at \in Indexing /\ w.at \in Indexing
      /\ work[e][t].at \in Attempt /\ w.at \in Attempt /\ work[e][t].at \in Counted
      /\ w.at \notin {"none", "refused", "finally", "ack", "empty", "maybe", "mothers",
                      "insert", "record"}
  BY <1>1 DEF Indexing, Attempt, Counted
<1>4. Shape(w, Page(t)) /\ StageOK(w, rows[t], Page(t))
  BY <1>3, AtWork DEF Shape, StageOK
<1> QED
  BY <1>1, <1>2, <1>3, <1>4, MovingInv

(* On the way to an insertion.                                             *)
LEMMA MaybeInsertInv ==
  ASSUME DocInv, NEW e \in Executors, NEW t \in Tasks,
         maybe_insert_es(e, t) \/ insert_mothers(e, t)
  PROVE  DocInv'
<1> PICK w \in States : Goes(e, t, w) /\ w.at \in {"mothers", "insert"} /\ w.k = work[e][t].k
  <2>1. work[e][t].k \in Nat
    BY AtWork DEF States
  <2>2. \A at \in {"mothers", "insert"} :
          LET v == [at |-> at, k |-> work[e][t].k]
          IN  v \in States /\ v.at = at /\ v.k = work[e][t].k
    BY <2>1 DEF States, Places
  <2> QED
    BY <2>2 DEF maybe_insert_es, insert_mothers, Goto, Goes
<1>1. /\ work[e][t].at \in {"maybe", "mothers"}
      /\ UNCHANGED <<rows, doc, doc_store, canceled, stream, pending, process_vars, api_vars, sync>>
  BY DEF maybe_insert_es, insert_mothers, At
<1>2. /\ work[e][t].at \in Indexing /\ w.at \in Indexing
      /\ work[e][t].at \in Attempt /\ w.at \in Attempt /\ work[e][t].at \in Counted
      /\ w.at \notin {"none", "refused", "finally", "ack", "empty", "record", "indexed", "closing"}
  BY <1>1 DEF Indexing, Attempt, Counted
<1>3. w.k \in {0, 1} /\ Batches[Page(t)] # 0 /\ Batches[Page(t)] \in Nat
  BY <1>1, <1>2, AtWork, ChunkFacts DEF Shape
<1>4. Shape(w, Page(t)) /\ StageOK(w, rows[t], Page(t))
  BY <1>2, <1>3, AtWork DEF Shape, StageOK
<1>5. Inserted(w, Batches[Page(t)]) = Inserted(work[e][t], Batches[Page(t)])
  BY <1>1, <1>3 DEF Inserted
<1>6. cancels = 0 /\ Exists(rows, t) => StageStore(w, rows[t], Page(t), doc_store)
  BY <1>2, <1>5, AtWork DEF StageStore
<1>7. work[e][t].at # "none"
  BY <1>1
<1> QED
  BY <1>1, <1>2, <1>4, <1>6, <1>7, MovingInv

LEMMA InsertInv ==
  ASSUME DocInv, NEW e \in Executors, NEW t \in Tasks, insert_es(e, t)
  PROVE  DocInv'
<1> DEFINE k == work[e][t].k
           w == [at |-> "record", k |-> k]
           n == Batches[Page(t)]
<1>0. /\ work[e][t].at = "insert" /\ doc_store' = doc_store \cup {<<Page(t), k>>}
      /\ Goes(e, t, w)
      /\ UNCHANGED <<rows, doc, canceled, stream, pending, process_vars, api_vars, sync>>
  BY DEF insert_es, At, Goto, Goes
<1>1. k \in 0 .. n /\ n \in Nat /\ n # 0
  BY <1>0, AtWork, ChunkFacts DEF Shape, Indexing
<1>2. w \in States /\ w.at = "record" /\ w.k = k
  BY <1>1 DEF States, Places
<1>3. RowWritten(t)
  BY <1>0, RowKept
<1>4. <<Page(t), k>> \in Names(Page(t))
  BY <1>1 DEF Names, PageChunks, TocOf, ChunksOf
<1> HIDE DEF w, k, n
<1>5. doc_store' \subseteq Chunks /\ doc_store \subseteq doc_store'
  BY <1>0, <1>4, AtWork, ChunkFacts
<1>6. cancels = 0 /\ Exists(rows, t) => StageStore(w, rows[t], Page(t), doc_store')
  <2> SUFFICES ASSUME cancels = 0, Exists(rows, t)
               PROVE  StageStore(w, rows[t], Page(t), doc_store')
    OBVIOUS
  <2>0. ChunksOf(Page(t), Inserted(work[e][t], n)) \subseteq doc_store
    BY AtWork DEF StageStore, n
  <2>1. CASE k = 0
    <3>1. Inserted(work[e][t], n) = n /\ Inserted(w, n) = n
      BY <1>0, <1>2, <2>1 DEF Inserted, k
    <3>2. TocOf(Page(t)) \subseteq doc_store'
      BY <1>0, <2>1 DEF TocOf
    <3> QED
      BY <3>1, <3>2, <2>0, <1>2, <1>5 DEF StageStore, n
  <2>2. CASE k # 0
    <3>1. Inserted(work[e][t], n) = k - 1 /\ Inserted(w, n) = k
      BY <1>0, <1>2, <2>2 DEF Inserted, k
    <3>2. ChunksOf(Page(t), k) = ChunksOf(Page(t), k - 1) \cup {<<Page(t), k>>}
      BY <1>1, <2>2 DEF ChunksOf
    <3>3. ChunksOf(Page(t), k) \subseteq doc_store'
      BY <3>1, <3>2, <2>0, <1>0
    <3> QED
      BY <3>1, <3>3, <2>2, <1>2 DEF StageStore, n
  <2> QED
    BY <2>1, <2>2
<1>7. /\ work[e][t].at \in Indexing /\ w.at \in Indexing
      /\ work[e][t].at \in Attempt /\ w.at \in Attempt /\ work[e][t].at \in Counted
      /\ w.at \notin {"none", "refused", "finally", "ack", "empty", "maybe", "mothers"}
  BY <1>0, <1>2 DEF Indexing, Attempt, Counted
<1>8. Shape(w, Page(t)) /\ StageOK(w, rows[t], Page(t))
  BY <1>1, <1>2, <1>7, AtWork DEF Shape, StageOK, n
<1>9. cancels = 0 /\ Exists(rows, t) =>
        /\ InStore(rows[t], Page(t), doc_store')
        /\ rows[t].progress = Done => rows[t].chunk_ids \in Complete(Page(t))
  BY <1>5, AtWork, InStoreGrows
<1> QED
  BY <1>0, <1>2, <1>3, <1>5, <1>6, <1>7, <1>8, <1>9, AtWork, HandlerInv

LEMMA RecordInv ==
  ASSUME DocInv, NEW e \in Executors, NEW t \in Tasks, record_chunk_ids(e, t)
  PROVE  DocInv'
<1> DEFINE k == work[e][t].k
           w == AfterBatch(Page(t), k)
           ids == IdsUpTo(Page(t), k)
           up1 == update_progress(t, Some)
           n == Batches[Page(t)]
<1>0. /\ work[e][t].at = "record" /\ t \notin canceled
      /\ rows' = update_chunk_ids(up1, t, ids) /\ Goes(e, t, w)
      /\ UNCHANGED <<doc, doc_store, canceled, stream, pending, process_vars, api_vars, sync>>
  BY DEF record_chunk_ids, At, Goto, Goes
<1>1. k \in 0 .. n /\ n \in Nat /\ n # 0
  BY <1>0, AtWork, ChunkFacts DEF Shape, Indexing
<1>2. /\ w \in States /\ w.at \in {"insert", "indexed", "closing"}
      /\ w.at = "insert" => w.k = k + 1 /\ k # 0 /\ k + 1 \in 1 .. n
      /\ w.at = "indexed" => k = n
      /\ w.at = "closing" => k = 0
  BY <1>1 DEF States, Places, AfterBatch
<1>3. ids \subseteq Names(Page(t)) /\ ids \in SUBSET Chunks
  BY <1>1, ChunkFacts, TaskFacts DEF IdsUpTo
<1>4. rows \in [Tasks -> Row] /\ rows[t].progress \in {Gone, Failed, Some}
  BY <1>0, AtWork DEF DocInv, Shapes, TypesOK, StageOK, Attempt, Indexing
<1>i. cancels = 0 /\ Exists(rows, t) => ids \subseteq doc_store
  <2>1. cancels = 0 /\ Exists(rows, t) => StageStore(work[e][t], rows[t], Page(t), doc_store)
    BY AtWork
  <2>2. k # 0 => Inserted(work[e][t], n) = k
    BY <1>0 DEF Inserted
  <2> QED
    BY <2>1, <2>2, <1>0 DEF StageStore, IdsUpTo
<1>c. /\ ids = ChunksOf(Page(t), Inserted(w, n)) \/ w.at = "closing"
      /\ w.at = "closing" => ids = TocOf(Page(t)) /\ Inserted(w, n) = n
                             /\ Inserted(work[e][t], n) = n
      /\ w.at = "indexed" => ids = PageChunks(Page(t))
  BY <1>0, <1>1, <1>2 DEF Inserted, IdsUpTo, PageChunks
<1> HIDE DEF k, w, ids, up1, n
<1>5. /\ up1 \in [Tasks -> Row]
      /\ \A u \in Tasks \ {t} : up1[u] = rows[u]
      /\ up1[t].retry_count = rows[t].retry_count /\ up1[t].chunk_ids = rows[t].chunk_ids
      /\ up1[t].progress = rows[t].progress
      /\ ~Exists(rows, t) => up1[t] = rows[t]
  <2>1. /\ up1 \in [Tasks -> Row]
        /\ \A u \in Tasks \ {t} : up1[u] = rows[u]
        /\ up1[t].retry_count = rows[t].retry_count /\ up1[t].chunk_ids = rows[t].chunk_ids
        /\ up1[t].progress =
             IF /\ rows[t].progress \notin {Gone, Failed}
                /\ Some = Failed \/ Some > rows[t].progress THEN Some ELSE rows[t].progress
        /\ ~Exists(rows, t) => up1[t] = rows[t]
    BY <1>4, UpdateProgress DEF up1
  <2> QED
    BY <2>1, <1>4 DEF Gone, Some, Failed
<1>6. /\ rows' \in [Tasks -> Row]
      /\ \A u \in Tasks \ {t} : rows'[u] = rows[u]
      /\ rows'[t].retry_count = rows[t].retry_count /\ rows'[t].progress = rows[t].progress
      /\ rows'[t].chunk_ids = IF Exists(rows, t) THEN ids ELSE rows[t].chunk_ids
      /\ ~Exists(rows, t) => rows'[t] = rows[t]
  <2>1. CASE Exists(rows, t)
    <3>1. rows' = [up1 EXCEPT ![t] = [up1[t] EXCEPT !.chunk_ids = ids]]
      BY <1>0, <1>5, <2>1 DEF update_chunk_ids, Exists
    <3>2. up1[t] \in Row
      BY <1>5
    <3>3. /\ [up1[t] EXCEPT !.chunk_ids = ids] \in Row
          /\ [up1[t] EXCEPT !.chunk_ids = ids].retry_count = up1[t].retry_count
          /\ [up1[t] EXCEPT !.chunk_ids = ids].progress = up1[t].progress
          /\ [up1[t] EXCEPT !.chunk_ids = ids].chunk_ids = ids
      BY <3>2, <1>3 DEF Row
    <3>4. /\ rows' \in [Tasks -> Row]
          /\ \A u \in Tasks \ {t} : rows'[u] = up1[u]
          /\ rows'[t] = [up1[t] EXCEPT !.chunk_ids = ids]
      BY <3>1, <3>3, <1>5
    <3> QED
      BY <3>3, <3>4, <1>5, <2>1
  <2>2. CASE ~Exists(rows, t)
    BY <1>0, <1>5, <2>2 DEF update_chunk_ids, Exists
  <2> QED
    BY <2>1, <2>2
<1>7. RowWritten(t)
  BY <1>6 DEF RowWritten, Exists
<1>8. /\ work[e][t].at \in Indexing /\ w.at \in Indexing
      /\ work[e][t].at \in Attempt /\ w.at \in Attempt /\ work[e][t].at \in Counted
      /\ w.at \notin {"none", "refused", "finally", "ack", "empty", "maybe", "mothers", "record"}
  BY <1>0, <1>2 DEF Indexing, Attempt, Counted
<1>9. /\ rows'[t].progress \in {Gone, Failed, Some} /\ rows'[t].progress # Done
      /\ rows'[t].chunk_ids \subseteq Names(Page(t))
  BY <1>3, <1>4, <1>6, AtWork DEF Gone, Failed, Some, Done
<1>10. Shape(w, Page(t)) /\ StageOK(w, rows'[t], Page(t))
  BY <1>1, <1>2, <1>4, <1>6, <1>8, AtWork DEF Shape, StageOK, n
<1>11. cancels = 0 /\ Exists(rows, t) =>
         /\ InStore(rows'[t], Page(t), doc_store)
         /\ StageStore(w, rows'[t], Page(t), doc_store)
  <2> SUFFICES ASSUME cancels = 0, Exists(rows, t)
               PROVE  /\ InStore(rows'[t], Page(t), doc_store)
                      /\ StageStore(w, rows'[t], Page(t), doc_store)
    OBVIOUS
  <2>1. rows'[t].chunk_ids = ids /\ ids \subseteq doc_store
    BY <1>6, <1>i
  <2>2. ChunksOf(Page(t), Inserted(w, n)) \subseteq doc_store
    <3>1. CASE w.at # "closing"
      BY <3>1, <2>1, <1>c
    <3>2. CASE w.at = "closing"
      BY <3>2, <1>c, AtWork DEF StageStore, n
    <3> QED
      BY <3>1, <3>2
  <2>3. w.at \in {"indexed", "closing"} => ids \in Complete(Page(t))
    BY <1>c DEF Complete
  <2> QED
    BY <2>1, <2>2, <2>3, <1>8, <1>9 DEF InStore, StageStore, n
<1> QED
  BY <1>0, <1>2, <1>7, <1>8, <1>9, <1>10, <1>11, AtWork, HandlerInv

LEMMA IndexingDoneInv ==
  ASSUME DocInv, NEW e \in Executors, NEW t \in Tasks, NEW toc \in BOOLEAN,
         indexing_done(e, t, toc)
  PROVE  DocInv'
<1> PICK w \in States : Goes(e, t, w) /\ w.at \in {"maybe", "closing"} /\ w.k = 0
  <2>1. \A at \in {"maybe", "closing"} :
          LET v == [at |-> at, k |-> 0] IN v \in States /\ v.at = at /\ v.k = 0
    BY DEF States, Places
  <2> QED
    BY <2>1 DEF indexing_done, Goto, Goes
<1>1. /\ work[e][t].at = "indexed" /\ progress_message(t)
      /\ UNCHANGED <<doc, doc_store, canceled, stream, pending, process_vars, api_vars, sync>>
  BY DEF indexing_done, At
<1>2. /\ work[e][t].at \in Indexing /\ w.at \in Indexing
      /\ work[e][t].at \in Attempt /\ w.at \in Attempt /\ work[e][t].at \in Counted
      /\ w.at \notin {"none", "refused", "finally", "ack", "empty", "insert", "record", "indexed"}
  BY <1>1 DEF Indexing, Attempt, Counted
<1>3. rows[t].progress \in {Gone, Failed, Some}
  BY <1>2, AtWork DEF StageOK
<1>4. /\ RowWritten(t) /\ rows'[t].chunk_ids = rows[t].chunk_ids
      /\ rows'[t].retry_count = rows[t].retry_count
      /\ rows'[t].progress \in {Gone, Failed, Some}
      /\ rows'[t].progress # Gone => rows[t].progress # Gone
  BY <1>1, <1>3, ProgressMessage
<1>5. rows'[t].progress # Done
  BY <1>4 DEF Gone, Failed, Some, Done
<1>6. Shape(w, Page(t)) /\ StageOK(w, rows'[t], Page(t))
  BY <1>2, <1>4, AtWork DEF Shape, StageOK
<1>7. Inserted(w, Batches[Page(t)]) = Inserted(work[e][t], Batches[Page(t)])
  BY <1>1 DEF Inserted
<1>8. cancels = 0 /\ Exists(rows, t) => StageStore(w, rows'[t], Page(t), doc_store)
  BY <1>1, <1>2, <1>4, <1>7, AtWork DEF StageStore
<1>9. work[e][t].at # "none"
  BY <1>1
<1> QED
  BY <1>1, <1>2, <1>4, <1>5, <1>6, <1>8, <1>9, QuietStep

LEMMA FinishInv ==
  ASSUME DocInv, NEW e \in Executors, NEW t \in Tasks, finish(e, t)
  PROVE  DocInv'
<1> DEFINE w == [at |-> "finally", k |-> 0]
<1>1. w \in States /\ w.at = "finally" /\ Goes(e, t, w)
  BY DEF States, Places, Goto, Goes, finish
<1>2. /\ work[e][t].at = "closing" /\ set_progress(t, Done)
      /\ UNCHANGED <<doc, doc_store, canceled, stream, pending, process_vars, api_vars, sync>>
  BY DEF finish, At
<1>3. /\ RowWritten(t) /\ rows'[t].chunk_ids = rows[t].chunk_ids
      /\ rows'[t].retry_count = rows[t].retry_count
      /\ rows'[t].progress \in {Gone, Failed, Done}
      /\ rows'[t].progress # Gone => rows[t].progress # Gone
  BY <1>2, SetProgress
<1> HIDE DEF w
<1>4. work[e][t].at \in Counted /\ w.at \in Counted /\ w.at \notin Indexing \cup Attempt
  BY <1>1, <1>2 DEF Counted, Attempt, Indexing
<1>5. Shape(w, Page(t)) /\ StageOK(w, rows'[t], Page(t))
  BY <1>1, <1>3, <1>4, AtWork DEF Shape, StageOK
<1>6. StageStore(w, rows'[t], Page(t), doc_store)
  BY <1>4, EarlyStage, TaskFacts
<1>7. cancels = 0 /\ Exists(rows, t) =>
        /\ InStore(rows'[t], Page(t), doc_store)
        /\ rows'[t].progress = Done => rows'[t].chunk_ids \in Complete(Page(t))
  <2>1. Inserted(work[e][t], Batches[Page(t)]) = Batches[Page(t)]
    BY <1>2 DEF Inserted
  <2> QED
    BY <1>2, <1>3, <2>1, AtWork DEF InStore, StageStore, PageChunks
<1> QED
  BY <1>1, <1>2, <1>3, <1>5, <1>6, <1>7, AtWork, HandlerInv

LEMMA RaisesInv ==
  ASSUME DocInv, NEW e \in Executors, NEW t \in Tasks, handler_raises(e, t)
  PROVE  DocInv'
<1> DEFINE w == [at |-> "raised", k |-> 0]
<1>1. w \in States /\ w.at = "raised" /\ Goes(e, t, w)
  BY DEF States, Places, Goto, Goes, handler_raises
<1>2. /\ work[e][t].at \in {"mothers", "insert", "record", "indexed"}
      /\ UNCHANGED <<rows, doc, doc_store, canceled, stream, pending, process_vars, api_vars, sync>>
  BY DEF handler_raises, At
<1> HIDE DEF w
<1>3. /\ work[e][t].at \in Attempt /\ w.at \in Attempt /\ work[e][t].at \in Counted
      /\ w.at \notin Indexing \cup {"none", "refused", "finally", "ack", "empty"}
      /\ work[e][t].at # "none"
  BY <1>1, <1>2 DEF Indexing, Attempt, Counted
<1>4. Shape(w, Page(t)) /\ StageOK(w, rows[t], Page(t))
  BY <1>1, <1>3, AtWork DEF Shape, StageOK
<1>5. StageStore(w, rows[t], Page(t), doc_store)
  BY <1>3, EarlyStage, TaskFacts
<1> QED
  BY <1>1, <1>2, <1>3, <1>4, <1>5, MovingInv

LEMMA FinallyInv ==
  ASSUME DocInv, NEW e \in Executors, NEW t \in Tasks, finally(e, t)
  PROVE  DocInv'
<1> PICK w \in States : /\ Goes(e, t, w)
                        /\ work[e][t].at = "raised" => w.at = "failed"
                        /\ work[e][t].at = "finally" => w.at = "ack"
  <2>1. \A at \in {"failed", "ack"} : LET v == [at |-> at, k |-> 0] IN v \in States /\ v.at = at
    BY DEF States, Places
  <2> QED
    BY <2>1 DEF finally, Goto, Goes, At
<1>1. /\ work[e][t].at \in {"finally", "raised"}
      /\ doc_store' = IF t \in canceled THEN {} ELSE doc_store
      /\ UNCHANGED <<rows, doc, canceled, stream, pending, process_vars, api_vars, sync>>
  BY DEF finally, At
<1>2. /\ work[e][t].at \in Counted /\ w.at \in Counted
      /\ work[e][t].at \in Attempt => w.at \in Attempt
      /\ w.at \in Attempt => work[e][t].at \in Attempt
      /\ w.at \notin Indexing \cup {"none", "refused", "empty"}
      /\ w.at \in {"finally", "ack"} => work[e][t].at = "finally"
  BY <1>1 DEF Indexing, Attempt, Counted
<1>3. RowWritten(t)
  BY <1>1, RowKept
<1>4. Shape(w, Page(t)) /\ StageOK(w, rows[t], Page(t))
  BY <1>1, <1>2, AtWork DEF Shape, StageOK, Indexing
<1>5. StageStore(w, rows[t], Page(t), doc_store')
  BY <1>2, EarlyStage, TaskFacts
<1>6. (cancels = 0 => doc_store' = doc_store) /\ doc_store' \subseteq Chunks
  BY <1>1, AtWork
<1>7. work[e][t].at # "none"
  BY <1>1
<1> QED
  BY <1>1, <1>2, <1>3, <1>4, <1>5, <1>6, <1>7, AtWork, HandlerInv

-----------------------------------------------------------------------------
(* Acknowledging, dying and starting again.                                *)
LEMMA AckedFacts ==
  ASSUME DocInv, NEW e \in Executors, NEW t \in Tasks, Acked(e, t)
  PROVE  /\ pending' \in [Executors -> SUBSET Tasks]
         /\ pending'[e] = pending[e] \ {t}
         /\ \A f \in Executors \ {e} : pending'[f] = pending[f]
BY DEF Acked, DocInv, Shapes, TypesOK

(* A message is acknowledged when its task is finished, or was canceled.   *)
LEMMA AckInv ==
  ASSUME DocInv, NEW e \in Executors, NEW t \in Tasks, ack(e, t) \/ collect_refused(e, t)
  PROVE  DocInv'
<1> DEFINE w == [at |-> "none", k |-> 0]
<1>1. w \in States /\ w.at = "none" /\ Goes(e, t, w)
  BY DEF States, Places, Goto, Goes, ack, collect_refused
<1>2. /\ work[e][t].at \in {"ack", "refused"} /\ up[e] /\ Acked(e, t)
      /\ UNCHANGED <<rows, doc, doc_store, canceled, stream, process_vars, api_vars, sync>>
  BY DEF ack, collect_refused, At
<1>u. /\ rows' = rows /\ canceled' = canceled /\ stream' = stream /\ replay' = replay
      /\ up' = up /\ api' = api /\ queue_failed' = queue_failed /\ runs' = runs
      /\ cancels' = cancels /\ doc_store' = doc_store
  BY <1>2 DEF process_vars, api_vars
<1>3. /\ pending' \in [Executors -> SUBSET Tasks]
      /\ pending'[e] = pending[e] \ {t}
      /\ \A f \in Executors \ {e} : pending'[f] = pending[f]
  BY <1>2, AckedFacts
<1>4. RowWritten(t)
  BY <1>2, RowKept
<1>5. ~Unfinished(rows, t) \/ t \in canceled
  <2>1. CASE work[e][t].at = "ack"
    <3>1. rows[t].progress \in {Gone, Failed, Done}
      BY <2>1, AtWork DEF StageOK
    <3> QED
      BY <3>1 DEF Unfinished, Gone, Failed, Zero, Some, Done
  <2>2. CASE work[e][t].at = "refused"
    BY <2>2 DEF DocInv, Stages
  <2> QED
    BY <2>1, <2>2, <1>2
<1>6. TypesOK
  BY DEF DocInv, Shapes
<1> HIDE DEF w
<1>7. Shapes'
  <2>1. Shape(w, Page(t))
    BY <1>1, IdleShape
  <2> QED
    BY <2>1, <1>1, <1>2, <1>3, AtWork, HandlerShapes, <1>4 DEF RowWritten
<1>8. Stages'
  <2>1. StageOK(w, rows'[t], Page(t)) /\ w.at # "refused" /\ work[e][t].at # "none"
    BY <1>1, <1>2, IdleStage
  <2> QED
    BY <2>1, <1>1, <1>2, <1>4, HandlerStages
<1>9. Tables'
  BY <1>u, <1>4, AtWork, HandlerTables
<1>10. Index'
  <2>1. w.at \notin Indexing /\ work[e][t].at # "none"
    BY <1>1, <1>2 DEF Indexing
  <2>2. StageStore(w, rows'[t], Page(t), doc_store')
    BY <2>1, EarlyStage, TaskFacts
  <2> QED
    BY <2>1, <2>2, <1>1, <1>u, <1>4, AtWork, HandlerIndex
<1>11. /\ work'[e][t] = w
       /\ \A f \in Executors, u \in Tasks : f # e \/ u # t => work'[f][u] = work[f][u]
  BY Moved, <1>1, <1>6
<1>12. OneMessage'
  <2>1. \A u \in Tasks : (Sent(u)' => Sent(u)) /\ (Known(u)' <=> Known(u))
    BY <1>u, <1>3 DEF Sent, Known
  <2> QED
    BY <2>1, <1>u, <1>3 DEF OneMessage, DocInv
<1>13. Holding'
  BY <1>1, <1>2, <1>u, <1>3, <1>11 DEF Holding, DocInv
<1>14. NoLostTask'
  <2> SUFFICES ASSUME NEW u \in Tasks, Unfinished(rows, u), u \notin canceled, ~queue_failed
               PROVE  u \in stream \cup api.todo \/ \E f \in Executors : HeldBy(f, u)'
    BY <1>u DEF NoLostTask
  <2>1. u # t
    BY <1>5
  <2>2. ASSUME NEW f \in Executors, HeldBy(f, u)
        PROVE  HeldBy(f, u)'
    BY <2>1, <2>2, <1>u, <1>3, <1>11 DEF HeldBy, Working
  <2> QED
    BY <2>2 DEF DocInv, NoLostTask
<1> QED
  BY <1>7, <1>8, <1>9, <1>10, <1>12, <1>13, <1>14 DEF DocInv

LEMMA IdleFacts == Idle \in States /\ Idle.at = "none" /\ Idle.at \notin Indexing
BY DEF Idle, States, Places, Indexing

LEMMA CrashInv ==
  ASSUME DocInv, NEW e \in Executors, crash(e)
  PROVE  DocInv'
<1>0. TypesOK
  BY DEF DocInv, Shapes
<1>1. /\ up[e]
      /\ UNCHANGED <<rows, doc, doc_store, canceled, stream, pending, api_vars, sync>>
  BY DEF crash
<1>u. /\ rows' = rows /\ doc' = doc /\ doc_store' = doc_store /\ canceled' = canceled
      /\ stream' = stream /\ pending' = pending /\ api' = api /\ queue_failed' = queue_failed
      /\ runs' = runs /\ cancels' = cancels /\ sync' = sync
  BY <1>1 DEF api_vars
<1>2. /\ up' \in [Executors -> BOOLEAN] /\ ~up'[e]
      /\ \A f \in Executors \ {e} : up'[f] = up[f]
  BY <1>0 DEF crash, TypesOK
<1>3. /\ replay' \in [Executors -> SUBSET Tasks] /\ replay'[e] = {}
      /\ \A f \in Executors \ {e} : replay'[f] = replay[f]
  BY <1>0 DEF crash, TypesOK
<1>4. /\ work' \in [Executors -> [Tasks -> States]]
      /\ \A u \in Tasks : work'[e][u] = Idle
      /\ \A f \in Executors \ {e} : work'[f] = work[f]
  <2>1. work \in [Executors -> [Tasks -> States]]
    BY <1>0 DEF TypesOK, States, Places
  <2>2. [u \in Tasks |-> Idle] \in [Tasks -> States]
    BY IdleFacts
  <2> QED
    BY <2>1, <2>2 DEF crash
<1>5. Shapes'
  <2>1. deaths' \in 0 .. MaxDeaths
    BY <1>0 DEF crash, TypesOK
  <2>2. TypesOK'
    BY <2>1, <1>0, <1>u, <1>2, <1>3, <1>4 DEF TypesOK, States, Places
  <2>3. \A f \in Executors, u \in Tasks : Shape(work'[f][u], Page(u))
    <3> TAKE f \in Executors, u \in Tasks
    <3>1. CASE f = e
      BY <3>1, <1>4, IdleFacts, IdleShape
    <3>2. CASE f # e
      BY <3>2, <1>4 DEF DocInv, Shapes
    <3> QED
      BY <3>1, <3>2
  <2> QED
    BY <2>2, <2>3, <1>u DEF Shapes, Shape, DocInv, Nothing
<1>6. OneMessage'
  <2>1. \A u \in Tasks : (Sent(u)' <=> Sent(u)) /\ (Known(u)' <=> Known(u))
    BY <1>u DEF Sent, Known
  <2> QED
    BY <2>1, <1>u DEF OneMessage, DocInv
<1>7. Holding'
  BY <1>u, <1>2, <1>3, <1>4, IdleFacts DEF Holding, DocInv
<1>8. Stages'
  <2> SUFFICES ASSUME NEW f \in Executors, NEW u \in Tasks
               PROVE  /\ StageOK(work'[f][u], rows[u], Page(u))
                      /\ work'[f][u].at = "refused" => ~Unfinished(rows, u) \/ u \in canceled
    BY <1>u DEF Stages, StageOK
  <2>1. CASE f = e
    BY <2>1, <1>4, IdleFacts, IdleStage
  <2>2. CASE f # e
    BY <2>2, <1>4 DEF DocInv, Stages
  <2> QED
    BY <2>1, <2>2
<1>9. NoLostTask'
  <2> SUFFICES ASSUME NEW u \in Tasks, Unfinished(rows, u), u \notin canceled, ~queue_failed
               PROVE  u \in stream \cup api.todo \/ \E f \in Executors : HeldBy(f, u)'
    BY <1>u DEF NoLostTask
  <2>1. ASSUME NEW f \in Executors, HeldBy(f, u)
        PROVE  HeldBy(f, u)'
    BY <2>1, <1>u, <1>2, <1>3, <1>4 DEF HeldBy, Working
  <2> QED
    BY <2>1 DEF DocInv, NoLostTask
<1>10. Tables'
  BY <1>u DEF Tables, OneRun, DocInv
<1>11. Index'
  <2> SUFFICES ASSUME cancels = 0 PROVE Index'
    BY <1>u DEF Index
  <2>1. StageIndexed'
    <3> SUFFICES ASSUME NEW f \in Executors, NEW u \in Tasks, Exists(rows, u)
                 PROVE  StageStore(work'[f][u], rows[u], Page(u), doc_store)
      BY <1>u DEF StageIndexed, StageStore, Inserted
    <3>1. CASE f = e
      BY <3>1, <1>4, IdleFacts, EarlyStage, TaskFacts
    <3>2. CASE f # e
      BY <3>2, <1>4 DEF DocInv, Index, StageIndexed
    <3> QED
      BY <3>1, <3>2
  <2>2. PrevIndexed'
    BY <1>u DEF DocInv, Index, PrevIndexed, Reusable, InStore
  <2> QED
    BY <1>u, <2>1, <2>2 DEF DocInv, Index, DoneIsComplete, RowsIndexed, InStore
<1> QED
  BY <1>5, <1>6, <1>7, <1>8, <1>9, <1>10, <1>11 DEF DocInv

LEMMA RestartInv ==
  ASSUME DocInv, NEW e \in Executors, restart(e)
  PROVE  DocInv'
<1>0. TypesOK
  BY DEF DocInv, Shapes
<1>1. ~up[e]
  BY DEF restart
<1>u. /\ rows' = rows /\ doc' = doc /\ doc_store' = doc_store /\ canceled' = canceled
      /\ stream' = stream /\ pending' = pending /\ api' = api /\ queue_failed' = queue_failed
      /\ runs' = runs /\ cancels' = cancels /\ sync' = sync /\ deaths' = deaths /\ work' = work
  BY DEF restart, api_vars
<1>2. /\ up' \in [Executors -> BOOLEAN] /\ up'[e]
      /\ \A f \in Executors \ {e} : up'[f] = up[f]
  BY <1>0 DEF restart, TypesOK
<1>3. /\ replay' \in [Executors -> SUBSET Tasks] /\ replay'[e] = pending[e]
      /\ \A f \in Executors \ {e} : replay'[f] = replay[f]
  BY <1>0 DEF restart, TypesOK
<1>4. Shapes'
  <2>1. TypesOK'
    BY <1>0, <1>u, <1>2, <1>3 DEF TypesOK
  <2> QED
    BY <2>1, <1>u DEF Shapes, Shape, DocInv, Nothing
<1>5. OneMessage'
  <2>1. \A u \in Tasks : (Sent(u)' <=> Sent(u)) /\ (Known(u)' <=> Known(u))
    BY <1>u DEF Sent, Known
  <2> QED
    BY <2>1, <1>u DEF OneMessage, DocInv
<1>6. Holding'
  BY <1>1, <1>u, <1>2, <1>3 DEF Holding, DocInv
<1>7. NoLostTask'
  <2> SUFFICES ASSUME NEW u \in Tasks, Unfinished(rows, u), u \notin canceled, ~queue_failed
               PROVE  u \in stream \cup api.todo \/ \E f \in Executors : HeldBy(f, u)'
    BY <1>u DEF NoLostTask
  <2>1. ASSUME NEW f \in Executors, HeldBy(f, u)
        PROVE  HeldBy(f, u)'
    BY <2>1, <1>1, <1>u, <1>2, <1>3 DEF HeldBy, Working
  <2> QED
    BY <2>1 DEF DocInv, NoLostTask
<1>8. Stages' /\ Tables' /\ Index'
  BY <1>u DEF DocInv, Stages, StageOK, Unfinished, Tables, OneRun, Index, DoneIsComplete,
              PrevIndexed, Reusable, RowsIndexed, InStore, StageIndexed, StageStore, Inserted
<1> QED
  BY <1>4, <1>5, <1>6, <1>7, <1>8 DEF DocInv

-----------------------------------------------------------------------------
(* Collecting messages.                                                    *)
LEMMA MessageFacts ==
  ASSUME DocInv, NEW e \in Executors, NEW t \in Tasks, Message(e, t)
  PROVE  /\ up[e] /\ Sent(t) /\ Known(t) /\ t \notin api.todo
         /\ \A f \in Executors : work[f][t].at = "none" /\ (f # e => t \notin pending[f])
         /\ \A f \in Executors : f # e => t \notin replay[f]
<1>1. up[e] /\ (t \in replay[e] \/ t \in stream)
  BY DEF Message
<1>2. Sent(t)
  BY <1>1 DEF Sent, DocInv, Holding
<1>3. CASE t \in replay[e]
  BY <1>1, <1>2, <1>3, OnlyWorker DEF DocInv, OneMessage, Holding
<1>4. CASE t \in stream
  BY <1>1, <1>2, <1>4 DEF DocInv, OneMessage, Holding
<1> QED
  BY <1>1, <1>3, <1>4

LEMMA TakenFacts ==
  ASSUME DocInv, NEW e \in Executors, NEW t \in Tasks, Taken(e, t)
  PROVE  /\ stream' = stream \ {t} /\ replay' \in [Executors -> SUBSET Tasks]
         /\ replay'[e] = replay[e] \ {t}
         /\ \A f \in Executors \ {e} : replay'[f] = replay[f]
BY DEF Taken, DocInv, Shapes, TypesOK

LEMMA CollectInv ==
  ASSUME DocInv, NEW e \in Executors, NEW t \in Tasks, collect(e, t)
  PROVE  DocInv'
<1> DEFINE w == [at |-> "received", k |-> 0]
<1>0. TypesOK
  BY DEF DocInv, Shapes
<1>a. /\ Message(e, t) /\ Taken(e, t) /\ NotAcked(e, t) /\ Goes(e, t, w)
      /\ UNCHANGED <<rows, doc, doc_store, canceled, up, deaths, api_vars, sync>>
  BY DEF collect, Goto, Goes
<1>1. /\ up[e] /\ Sent(t) /\ Known(t) /\ t \notin api.todo
      /\ \A f \in Executors : work[f][t].at = "none" /\ (f # e => t \notin pending[f])
  BY MessageFacts, <1>a
<1>2. /\ stream' = stream \ {t} /\ replay' \in [Executors -> SUBSET Tasks]
      /\ replay'[e] = replay[e] \ {t}
      /\ \A f \in Executors \ {e} : replay'[f] = replay[f]
  BY TakenFacts, <1>a
<1>3. /\ pending' \in [Executors -> SUBSET Tasks]
      /\ pending'[e] = pending[e] \cup {t}
      /\ \A f \in Executors \ {e} : pending'[f] = pending[f]
  BY <1>0, <1>a DEF NotAcked, TypesOK
<1>w. w \in States /\ w.at = "received" /\ w.at \notin Indexing
  BY DEF States, Places, Indexing
<1> HIDE DEF w
<1>4. /\ work' \in [Executors -> [Tasks -> States]]
      /\ work'[e][t] = w
      /\ \A f \in Executors, u \in Tasks : f # e \/ u # t => work'[f][u] = work[f][u]
  BY Moved, <1>w, <1>0, <1>a
<1>u. /\ rows' = rows /\ doc' = doc /\ doc_store' = doc_store /\ canceled' = canceled /\ up' = up
      /\ api' = api /\ queue_failed' = queue_failed /\ runs' = runs
      /\ cancels' = cancels /\ sync' = sync /\ deaths' = deaths
  BY <1>a DEF api_vars
<1>5. Shapes'
  <2>1. TypesOK'
    BY <1>0, <1>2, <1>3, <1>4, <1>u DEF TypesOK, States, Places
  <2>2. \A f \in Executors, u \in Tasks : Shape(work'[f][u], Page(u))
    BY <1>4, <1>w, IdleShape DEF DocInv, Shapes
  <2> QED
    BY <2>1, <2>2, <1>u DEF Shapes, Shape, DocInv, Nothing
<1>6. OneMessage'
  <2>1. \A u \in Tasks : (Sent(u)' <=> Sent(u)) /\ (Known(u)' <=> Known(u))
    BY <1>1, <1>2, <1>3, <1>u DEF Sent, Known
  <2>2. /\ \A u \in stream' : u \notin api.todo /\ \A f \in Executors : u \notin pending'[f]
        /\ \A u \in api.todo : \A f \in Executors : u \notin pending'[f]
    BY <1>1, <1>2, <1>3 DEF OneMessage, DocInv
  <2>3. \A f, g \in Executors, u \in Tasks : u \in pending'[f] /\ u \in pending'[g] => f = g
    BY <1>1, <1>3 DEF OneMessage, DocInv
  <2> QED
    BY <2>1, <2>2, <2>3, <1>u DEF OneMessage, DocInv
<1>7. Holding'
  <2> SUFFICES ASSUME NEW f \in Executors, NEW u \in Tasks
               PROVE  /\ work'[f][u].at # "none" => u \in pending'[f] /\ up[f]
                      /\ u \in replay'[f] => u \in pending'[f] /\ up[f] /\ work'[f][u].at = "none"
                      /\ u \in pending'[f] /\ up[f] => u \in replay'[f] \/ work'[f][u].at # "none"
    BY <1>u DEF Holding
  <2>1. CASE f = e /\ u = t
    BY <2>1, <1>1, <1>2, <1>3, <1>4, <1>w
  <2>2. CASE ~(f = e /\ u = t)
    BY <2>2, <1>1, <1>2, <1>3, <1>4 DEF DocInv, Holding
  <2> QED
    BY <2>1, <2>2
<1>8. Stages'
  <2> SUFFICES ASSUME NEW f \in Executors, NEW u \in Tasks
               PROVE  /\ StageOK(work'[f][u], rows[u], Page(u))
                      /\ work'[f][u].at = "refused" => ~Unfinished(rows, u) \/ u \in canceled
    BY <1>u DEF Stages, StageOK
  <2>1. CASE f = e /\ u = t
    BY <2>1, <1>4, <1>w, IdleStage
  <2>2. CASE ~(f = e /\ u = t)
    BY <2>2, <1>4 DEF DocInv, Stages
  <2> QED
    BY <2>1, <2>2
<1>9. NoLostTask'
  <2> SUFFICES ASSUME NEW u \in Tasks, Unfinished(rows, u), u \notin canceled, ~queue_failed
               PROVE  u \in stream' \cup api.todo \/ \E f \in Executors : HeldBy(f, u)'
    BY <1>u DEF NoLostTask
  <2>1. CASE u = t
    <3>1. HeldBy(e, t)'
      BY <1>3, <1>4, <1>w DEF HeldBy, Working
    <3> QED
      BY <2>1, <3>1
  <2>2. CASE u # t
    <3>1. ASSUME NEW f \in Executors, HeldBy(f, u)
          PROVE  HeldBy(f, u)'
      BY <2>2, <3>1, <1>2, <1>3, <1>4, <1>u DEF HeldBy, Working
    <3> QED
      BY <3>1, <2>2, <1>2 DEF DocInv, NoLostTask
  <2> QED
    BY <2>1, <2>2
<1>10. Tables'
  BY <1>u DEF DocInv, Tables, OneRun
<1>11. Index'
  <2> SUFFICES ASSUME cancels = 0 PROVE Index'
    BY <1>u DEF Index
  <2>1. StageIndexed'
    <3> SUFFICES ASSUME NEW f \in Executors, NEW u \in Tasks, Exists(rows, u)
                 PROVE  StageStore(work'[f][u], rows[u], Page(u), doc_store)
      BY <1>u DEF StageIndexed, StageStore, Inserted
    <3>1. CASE f = e /\ u = t
      BY <3>1, <1>4, <1>w, EarlyStage, TaskFacts
    <3>2. CASE ~(f = e /\ u = t)
      BY <3>2, <1>4 DEF DocInv, Index, StageIndexed
    <3> QED
      BY <3>1, <3>2
  <2>2. PrevIndexed'
    BY <1>u DEF DocInv, Index, PrevIndexed, Reusable, InStore
  <2> QED
    BY <1>u, <2>1, <2>2 DEF DocInv, Index, DoneIsComplete, RowsIndexed, InStore
<1> QED
  BY <1>5, <1>6, <1>7, <1>8, <1>9, <1>10, <1>11 DEF DocInv

LEMMA ReceivedFacts ==
  ASSUME DocInv, NEW t \in Tasks, NEW p \in {Failed, Some}, rows' = Received(t, p)
  PROVE  /\ rows' \in [Tasks -> Row]
         /\ \A u \in Tasks \ {t} : rows'[u] = rows[u]
         /\ rows'[t].progress = p /\ rows'[t].chunk_ids = rows[t].chunk_ids
         /\ rows'[t].retry_count = rows[t].retry_count + 1
         /\ rows[t].retry_count \in Nat
<1>1. rows \in [Tasks -> Row] /\ rows[t] \in Row
  BY DEF DocInv, Shapes, TypesOK
<1> DEFINE r1 == [rows[t] EXCEPT !.progress = p]
           r  == [r1 EXCEPT !.retry_count = @ + 1]
<1>2. r1 \in Row /\ r1.retry_count = rows[t].retry_count
      /\ r1.progress = p /\ r1.chunk_ids = rows[t].chunk_ids
  BY <1>1 DEF Row, Progress
<1>3. r \in Row /\ r.retry_count = rows[t].retry_count + 1
      /\ r.progress = p /\ r.chunk_ids = rows[t].chunk_ids
  <2> HIDE DEF r1
  <2> QED
    BY <1>2 DEF Row
<1>4. rows' = [[rows EXCEPT ![t].progress = p] EXCEPT ![t].retry_count = @ + 1]
  BY DEF Received
<1>5. rows' = [rows EXCEPT ![t] = r]
  <2>1. [rows EXCEPT ![t].progress = p] = [rows EXCEPT ![t] = r1]
    BY <1>1
  <2>2. rows' = [[rows EXCEPT ![t] = r1] EXCEPT ![t] = r]
    BY <2>1, <1>1, <1>4
  <2> HIDE DEF r, r1
  <2> QED
    BY <2>2, <1>1
<1>6. rows[t].retry_count \in Nat
  BY <1>1 DEF Row
<1> HIDE DEF r
<1> QED
  BY <1>1, <1>3, <1>5, <1>6

(* A message is refused: there is no row, no attempt is left, or the task  *)
(* was canceled.                                                           *)
LEMMA RefusingInv ==
  ASSUME DocInv, NEW e \in Executors, NEW t \in Tasks, NEW w \in States, Goes(e, t, w),
         work[e][t].at # "none", w.at = "refused", RowWritten(t),
         rows'[t].chunk_ids = rows[t].chunk_ids,
         rows'[t].progress = Done => rows[t].progress = Done,
         ~Unfinished(rows', t) \/ t \in canceled,
         UNCHANGED <<doc, doc_store, canceled, stream, pending, process_vars, api_vars, sync>>
  PROVE  DocInv'
<1>1. w.at \notin Indexing \cup Attempt \cup Counted
  BY DEF Indexing, Attempt, Counted
<1>2. Shape(w, Page(t)) /\ StageOK(w, rows'[t], Page(t))
  BY <1>1 DEF Shape, StageOK, Attempt
<1>3. StageStore(w, rows'[t], Page(t), doc_store)
  BY <1>1, EarlyStage, TaskFacts
<1> QED
  BY <1>2, <1>3, QuietStep

LEMMA GetTaskRefusesInv ==
  ASSUME DocInv, NEW e \in Executors, NEW t \in Tasks,
         get_task_unknown(e, t) \/ get_task_abandoned(e, t)
  PROVE  DocInv'
<1> DEFINE w == [at |-> "refused", k |-> 0]
<1>1. w \in States /\ w.at = "refused" /\ Goes(e, t, w)
  BY DEF States, Places, Goto, Goes, get_task_unknown, get_task_abandoned
<1>2. /\ work[e][t].at = "received"
      /\ UNCHANGED <<doc, doc_store, canceled, stream, pending, process_vars, api_vars, sync>>
  BY DEF get_task_unknown, get_task_abandoned, At
<1> HIDE DEF w
<1>3. CASE get_task_unknown(e, t)
  <2>1. rows' = rows /\ ~Exists(rows, t)
    BY <1>3 DEF get_task_unknown
  <2>2. ~Unfinished(rows', t)
    BY <2>1 DEF Exists, Unfinished, Gone, Zero, Some
  <2> QED
    BY <2>1, <2>2, <1>1, <1>2, RowKept, RefusingInv
<1>4. CASE get_task_abandoned(e, t)
  <2>1. rows' = Received(t, Failed) /\ Exists(rows, t)
    BY <1>4 DEF get_task_abandoned
  <2>2. /\ rows' \in [Tasks -> Row]
        /\ \A u \in Tasks \ {t} : rows'[u] = rows[u]
        /\ rows'[t].progress = Failed /\ rows'[t].chunk_ids = rows[t].chunk_ids
    BY <2>1, ReceivedFacts
  <2>3. /\ RowWritten(t) /\ ~Unfinished(rows', t)
        /\ rows'[t].progress # Done
    BY <2>1, <2>2 DEF RowWritten, Exists, Unfinished, Gone, Failed, Zero, Some, Done
  <2> QED
    BY <2>2, <2>3, <1>1, <1>2, RefusingInv
<1> QED
  BY <1>3, <1>4

LEMMA GetTaskInv ==
  ASSUME DocInv, NEW e \in Executors, NEW t \in Tasks, get_task(e, t)
  PROVE  DocInv'
<1> DEFINE w == [at |-> "collected", k |-> 0]
<1>1. w \in States /\ w.at = "collected" /\ Goes(e, t, w)
  BY DEF States, Places, Goto, Goes, get_task
<1>2. /\ work[e][t].at = "received" /\ Exists(rows, t) /\ RetriesLeft(t)
      /\ rows' = Received(t, Some)
      /\ UNCHANGED <<doc, doc_store, canceled, stream, pending, process_vars, api_vars, sync>>
  BY DEF get_task, At
<1> HIDE DEF w
<1>3. /\ rows' \in [Tasks -> Row]
      /\ \A u \in Tasks \ {t} : rows'[u] = rows[u]
      /\ rows'[t].progress = Some /\ rows'[t].chunk_ids = rows[t].chunk_ids
      /\ rows'[t].retry_count = rows[t].retry_count + 1
      /\ rows[t].retry_count \in Nat
  BY <1>2, ReceivedFacts
<1>4. RowWritten(t) /\ rows'[t].progress # Done
  BY <1>2, <1>3 DEF RowWritten, Exists, Gone, Some, Done
<1>5. rows'[t].retry_count \in 1 .. RetryLimit
  BY <1>2, <1>3 DEF RetriesLeft
<1>6. w.at \notin Indexing \cup {"none", "refused", "empty", "finally", "ack"}
  BY <1>1 DEF Indexing
<1>7. Shape(w, Page(t)) /\ StageOK(w, rows'[t], Page(t))
  BY <1>3, <1>5, <1>6 DEF Shape, StageOK, Indexing
<1>8. StageStore(w, rows'[t], Page(t), doc_store)
  BY <1>6, EarlyStage, TaskFacts
<1> QED
  BY <1>1, <1>2, <1>3, <1>4, <1>6, <1>7, <1>8, QuietStep

LEMMA HasCanceledInv ==
  ASSUME DocInv, NEW e \in Executors, NEW t \in Tasks, collect_has_canceled(e, t)
  PROVE  DocInv'
<1> PICK w \in States : /\ Goes(e, t, w)
                        /\ t \in canceled => w.at = "refused"
                        /\ t \notin canceled => w.at = "begun"
  <2>1. \A at \in {"refused", "begun"} : LET v == [at |-> at, k |-> 0] IN v \in States /\ v.at = at
    BY DEF States, Places
  <2> QED
    BY <2>1 DEF collect_has_canceled, Goto, Goes
<1>1. /\ work[e][t].at = "collected"
      /\ UNCHANGED <<rows, doc, doc_store, canceled, stream, pending, process_vars, api_vars, sync>>
  BY DEF collect_has_canceled, At
<1>2. CASE t \in canceled
  BY <1>1, <1>2, RowKept, RefusingInv
<1>3. CASE t \notin canceled
  <2>1. /\ work[e][t].at \in Attempt /\ work[e][t].at \in Counted
        /\ w.at \notin Indexing \cup {"none", "refused", "empty", "finally", "ack"}
    BY <1>1, <1>3 DEF Attempt, Counted, Indexing
  <2>2. Shape(w, Page(t)) /\ StageOK(w, rows[t], Page(t))
    BY <2>1, AtWork DEF Shape, StageOK, Indexing
  <2>3. StageStore(w, rows[t], Page(t), doc_store)
    BY <2>1, EarlyStage, TaskFacts
  <2>4. work[e][t].at # "none"
    BY <1>1
  <2> QED
    BY <2>1, <2>2, <2>3, <2>4, <1>1, MovingInv
<1> QED
  BY <1>2, <1>3

-----------------------------------------------------------------------------
(* Requests.                                                               *)
LEMMA ApiType ==
  ASSUME DocInv
  PROVE  /\ rows \in [Tasks -> Row] /\ api.prev \in [Tasks -> Row] /\ api.todo \subseteq Tasks
         /\ runs \in 0 .. MaxRuns
BY DEF DocInv, Shapes, TypesOK

(* A request that moves on and touches neither the rows nor the index.     *)
LEMMA ApiMovesInv ==
  ASSUME DocInv, NEW at, UNCHANGED <<rows, doc_store, canceled, stream, executor_vars, sync>>,
         api'.at = at, api'.prev = api.prev \/ api'.prev = NoTable,
         api'.todo \subseteq api.todo, Shapes',
         api.todo = {} \/ at \in {"begin2parse", "queue_product"} \/ api'.todo = {},
         at \notin {"delete_chunks", "filter_delete", "delete_pre_chunks", "bulk_insert"},
         /\ at \in Preparing => api.at \in Preparing \/ runs' = runs + 1
         /\ runs' = runs \/ runs' = runs + 1,
         api'.todo # api.todo => queue_failed', ~queue_failed' => ~queue_failed,
         cancels' = cancels
  PROVE  DocInv'
<1>u. /\ rows' = rows /\ doc_store' = doc_store /\ canceled' = canceled /\ stream' = stream
      /\ pending' = pending /\ replay' = replay /\ up' = up /\ deaths' = deaths /\ work' = work
  BY DEF executor_vars, process_vars
<1>t. /\ runs \in Nat /\ \A t \in Tasks : t[1] \in Nat
  BY ApiType, TaskFacts
<1>1. OneMessage'
  <2>1. \A t \in Tasks : Sent(t)' => Sent(t)
    BY <1>u DEF Sent
  <2>2. \A t \in Tasks : Known(t) => Known(t)'
    BY <1>t DEF Known
  <2> QED
    BY <2>1, <2>2, <1>u, ApiType DEF OneMessage, DocInv
<1>2. Holding' /\ Stages'
  BY <1>u DEF DocInv, Holding, Stages, StageOK, Unfinished
<1>3. NoLostTask'
  <2>1. \A e \in Executors, t \in Tasks : HeldBy(e, t) => HeldBy(e, t)'
    BY <1>u DEF HeldBy, Working
  <2> QED
    BY <2>1, <1>u DEF DocInv, NoLostTask, Unfinished
<1>4. Tables'
  BY <1>u, NoTableFacts DEF DocInv, Tables, OneRun
<1>5. Index'
  BY <1>u, NoTableFacts DEF DocInv, Index, DoneIsComplete, RowsIndexed, InStore, PrevIndexed,
         StageIndexed, StageStore, Inserted
<1> QED
  BY <1>1, <1>2, <1>3, <1>4, <1>5 DEF DocInv

Calls == [at : {"none", "delete_rows", "delete_chunks", "get_tasks", "filter_delete",
                "delete_pre_chunks", "bulk_insert", "begin2parse", "queue_product", "cancel"},
          prev : [Tasks -> Row], todo : SUBSET Tasks]

LEMMA NoCallFacts ==
  NoCall \in Calls /\ NoCall.at = "none" /\ NoCall.prev = NoTable /\ NoCall.todo = {}
BY RowFacts DEF NoCall, Calls

LEMMA ApiShapes ==
  ASSUME DocInv, UNCHANGED <<stream, executor_vars, canceled, sync>>,
         rows' \in [Tasks -> Row],
         doc' \in [run : {"UNSTART", "RUNNING", "CANCEL", "DONE", "FAIL"}, progress : Progress],
         doc_store' \subseteq Chunks,
         api' \in Calls, queue_failed' \in BOOLEAN, runs' \in 0 .. MaxRuns,
         cancels' = cancels
  PROVE  Shapes'
<1>1. TypesOK'
  BY DEF DocInv, Shapes, TypesOK, Calls, executor_vars, process_vars
<1> QED
  BY <1>1 DEF DocInv, Shapes, Shape, executor_vars, Nothing

LEMMA ShapeFacts ==
  ASSUME DocInv
  PROVE  /\ rows \in [Tasks -> Row] /\ api \in Calls /\ queue_failed \in BOOLEAN
         /\ doc \in [run : {"UNSTART", "RUNNING", "CANCEL", "DONE", "FAIL"}, progress : Progress]
         /\ doc_store \subseteq Chunks
         /\ runs \in 0 .. MaxRuns /\ cancels \in 0 .. MaxRequests
BY DEF DocInv, Shapes, TypesOK, Calls

LEMMA ApiAt ==
  ASSUME api \in Calls, NEW at \in {"none", "delete_rows", "delete_chunks", "get_tasks",
           "filter_delete", "delete_pre_chunks", "bulk_insert", "begin2parse",
           "queue_product", "cancel"},
         api' = [api EXCEPT !.at = at]
  PROVE  api' \in Calls /\ api'.at = at /\ api'.prev = api.prev /\ api'.todo = api.todo
BY DEF Calls

LEMMA RunBeginInv ==
  ASSUME DocInv, NEW delete \in BOOLEAN, run_begin(delete)
  PROVE  DocInv'
<1> DEFINE at == IF delete THEN "delete_rows" ELSE "get_tasks"
<1>1. /\ api.at = "none" /\ runs < MaxRuns /\ runs' = runs + 1
      /\ doc' = [run |-> "RUNNING", progress |-> Zero]
      /\ api' = [api EXCEPT !.at = at]
      /\ UNCHANGED <<rows, doc_store, canceled, stream, executor_vars, queue_failed, cancels, sync>>
  BY DEF run_begin
<1>2. api' \in Calls /\ api'.at = at /\ api'.prev = api.prev /\ api'.todo = api.todo
  BY <1>1, ShapeFacts, ApiAt
<1>3. Shapes'
  <2>1. doc' \in [run : {"UNSTART", "RUNNING", "CANCEL", "DONE", "FAIL"}, progress : Progress]
    BY <1>1 DEF Progress
  <2> QED
    BY <2>1, <1>1, <1>2, ShapeFacts, ApiShapes
<1>4. api.todo = {}
  BY <1>1 DEF DocInv, OneMessage
<1> QED
  BY <1>1, <1>2, <1>3, <1>4, ApiMovesInv

LEMMA ApiEndsInv ==
  ASSUME DocInv, queue_product_fails \/ run_end \/ cancel_update
  PROVE  DocInv'
<1>1. /\ api' = NoCall /\ queue_failed' \in BOOLEAN /\ runs' = runs /\ cancels' = cancels
      /\ UNCHANGED <<rows, doc_store, canceled, stream, executor_vars, sync>>
      /\ (api.todo = {} \/ queue_failed') /\ (~queue_failed' => ~queue_failed)
      /\ doc' = doc \/ doc' = [run |-> "CANCEL", progress |-> Zero]
  <2>1. CASE queue_product_fails
    BY <2>1 DEF queue_product_fails
  <2>2. CASE run_end
    BY <2>2, ShapeFacts DEF run_end
  <2>3. CASE cancel_update
    BY <2>3, ShapeFacts DEF cancel_update, DocInv, OneMessage
  <2> QED
    BY <2>1, <2>2, <2>3
<1>2. api'.at = "none" /\ api'.prev = NoTable /\ api'.todo = {} /\ api' \in Calls
  BY <1>1, NoCallFacts
<1>3. Shapes'
  <2>1. doc' \in [run : {"UNSTART", "RUNNING", "CANCEL", "DONE", "FAIL"}, progress : Progress]
    BY <1>1, ShapeFacts DEF Progress
  <2> QED
    BY <2>1, <1>1, <1>2, ShapeFacts, ApiShapes
<1>4. "none" \notin Preparing
  BY DEF Preparing
<1>5. ~queue_failed' => ~queue_failed
  BY DEF queue_product_fails, run_end, cancel_update
<1> QED
  BY <1>1, <1>2, <1>3, <1>4, <1>5, ApiMovesInv

LEMMA Begin2ParseInv ==
  ASSUME DocInv, begin2parse
  PROVE  DocInv'
<1>1. /\ api.at = "begin2parse" /\ doc' = [run |-> "RUNNING", progress |-> Some]
      /\ api' = [api EXCEPT !.at = "queue_product"]
      /\ UNCHANGED <<rows, doc_store, canceled, stream, executor_vars, queue_failed, runs,
                     cancels, sync>>
  BY DEF begin2parse
<1>2. /\ api' \in Calls /\ api'.at = "queue_product" /\ api'.prev = api.prev
      /\ api'.todo = api.todo
  BY <1>1, ShapeFacts, ApiAt
<1>3. Shapes'
  <2>1. doc' \in [run : {"UNSTART", "RUNNING", "CANCEL", "DONE", "FAIL"}, progress : Progress]
    BY <1>1 DEF Progress
  <2> QED
    BY <2>1, <1>1, <1>2, ShapeFacts, ApiShapes
<1>4. "queue_product" \notin Preparing
  BY DEF Preparing
<1> QED
  BY <1>1, <1>2, <1>3, <1>4, ApiMovesInv

(* A row that is gone says nothing about the stage.                        *)
LEMMA GoneStage ==
  ASSUME NEW w, NEW p
  PROVE  StageOK(w, NoRow, p)
BY RowFacts DEF StageOK

LEMMA DeleteRowsInv ==
  ASSUME DocInv, run_delete_rows \/ queue_filter_delete
  PROVE  DocInv'
<1> PICK at \in {"delete_chunks", "delete_pre_chunks"} :
      /\ at = "delete_pre_chunks" => api.at = "filter_delete"
      /\ api.at \in {"delete_rows", "filter_delete"}
      /\ rows' = NoTable /\ queue_failed' = FALSE /\ api' = [api EXCEPT !.at = at]
      /\ UNCHANGED <<doc, doc_store, canceled, stream, executor_vars, runs, cancels, sync>>
  BY DEF run_delete_rows, queue_filter_delete
<1>1. api' \in Calls /\ api'.at = at /\ api'.prev = api.prev /\ api'.todo = api.todo
  BY ShapeFacts, ApiAt
<1>u. /\ doc_store' = doc_store /\ canceled' = canceled /\ stream' = stream
      /\ pending' = pending /\ replay' = replay /\ up' = up /\ deaths' = deaths /\ work' = work
      /\ runs' = runs /\ cancels' = cancels
  BY DEF executor_vars, process_vars
<1>2. Shapes'
  BY <1>1, ShapeFacts, RowFacts, ApiShapes
<1>3. \A t \in Tasks : rows'[t] = NoRow /\ ~Exists(rows', t) /\ ~Unfinished(rows', t)
  BY RowFacts DEF NoTable, Exists, Unfinished, Gone, Zero, Some
<1>4. OneMessage'
  <2>1. \A t \in Tasks : Sent(t)' => Sent(t)
    BY <1>1, <1>u DEF Sent
  <2>2. \A t \in Tasks : Known(t) => Known(t)'
    BY <1>1, <1>u DEF Known, Preparing
  <2>3. api.todo = {}
    BY DEF DocInv, OneMessage
  <2> QED
    BY <2>1, <2>2, <2>3, <1>1, <1>3, <1>u DEF OneMessage, DocInv
<1>5. Holding' /\ NoLostTask'
  BY <1>u, <1>3, RowFacts DEF DocInv, Holding, NoLostTask
<1>s. Stages'
  BY <1>3, GoneStage DEF Stages, StageOK
<1>6. Tables'
  BY <1>1, NoTableFacts DEF DocInv, Tables
<1>7. Index'
  BY <1>1, <1>3, <1>u, NoTableFacts, RowFacts
     DEF DocInv, Index, DoneIsComplete, RowsIndexed, InStore, PrevIndexed, StageIndexed, Gone, Done
<1> QED
  BY <1>2, <1>4, <1>5, <1>6, <1>7, <1>s DEF DocInv

(* While there are no rows the index may shrink.                           *)
LEMMA DeleteChunksInv ==
  ASSUME DocInv, run_delete_chunks \/ queue_get_tasks \/ queue_delete_pre_chunks
  PROVE  DocInv'
<1> PICK at \in {"get_tasks", "filter_delete", "bulk_insert"} :
      /\ api.at \in {"delete_chunks", "get_tasks", "delete_pre_chunks"}
      /\ at = "get_tasks" => api.at = "delete_chunks" /\ doc_store' = {}
      /\ at = "filter_delete" => doc_store' = doc_store /\ api.at = "get_tasks"
      /\ at = "bulk_insert" =>
           doc_store' = doc_store \ pre_chunk_ids /\ api.at = "delete_pre_chunks"
      /\ api' = [api EXCEPT !.at = at, !.prev = IF at = "filter_delete" THEN rows ELSE api.prev]
      /\ UNCHANGED <<rows, doc, canceled, stream, executor_vars, queue_failed, runs, cancels,
                     sync>>
  <2>1. CASE run_delete_chunks
    <3>1. api' = [api EXCEPT !.at = "get_tasks", !.prev = api.prev]
      BY <2>1, ShapeFacts DEF run_delete_chunks, Calls
    <3> QED
      BY <2>1, <3>1 DEF run_delete_chunks
  <2>2. CASE queue_get_tasks
    BY <2>2 DEF queue_get_tasks
  <2>3. CASE queue_delete_pre_chunks
    <3>1. api' = [api EXCEPT !.at = "bulk_insert", !.prev = api.prev]
      BY <2>3, ShapeFacts DEF queue_delete_pre_chunks, Calls
    <3> QED
      BY <2>3, <3>1 DEF queue_delete_pre_chunks
  <2> QED
    BY <2>1, <2>2, <2>3
<1>1. /\ api' \in Calls /\ api'.at = at /\ api'.todo = api.todo
      /\ api'.prev = IF at = "filter_delete" THEN rows ELSE api.prev
  BY ShapeFacts DEF Calls
<1>u. /\ rows' = rows /\ canceled' = canceled /\ stream' = stream
      /\ pending' = pending /\ replay' = replay /\ up' = up /\ deaths' = deaths /\ work' = work
      /\ runs' = runs /\ cancels' = cancels /\ queue_failed' = queue_failed
  BY DEF executor_vars, process_vars
<1>2. Shapes'
  <2>1. doc_store' \subseteq Chunks
    BY ShapeFacts
  <2> QED
    BY <2>1, <1>1, ShapeFacts, ApiShapes
<1>3. OneMessage'
  <2>1. \A t \in Tasks : Sent(t)' => Sent(t)
    BY <1>1, <1>u DEF Sent
  <2>2. \A t \in Tasks : Known(t) => Known(t)'
    BY <1>1, <1>u DEF Known, Preparing
  <2>3. api.todo = {}
    BY DEF DocInv, OneMessage
  <2> QED
    BY <2>1, <2>2, <2>3, <1>1, <1>u DEF OneMessage, DocInv
<1>4. Holding' /\ Stages'
  BY <1>u DEF DocInv, Holding, Stages, StageOK, Unfinished
<1>5. NoLostTask'
  <2>1. \A e \in Executors, t \in Tasks : HeldBy(e, t) => HeldBy(e, t)'
    BY <1>u DEF HeldBy, Working
  <2> QED
    BY <2>1, <1>1, <1>u DEF DocInv, NoLostTask, Unfinished
<1>6. Tables'
  BY <1>1, <1>u DEF DocInv, Tables
<1>7. Index'
  <2> SUFFICES ASSUME cancels = 0 PROVE Index'
    BY <1>u DEF Index
  <2>1. CASE at = "filter_delete"
    BY <2>1, <1>1, <1>u DEF DocInv, Index, DoneIsComplete, RowsIndexed, InStore, PrevIndexed,
         StageIndexed, StageStore, Inserted
  <2>2. CASE at # "filter_delete"
    <3>1. \A t \in Tasks : rows[t] = NoRow /\ ~Exists(rows, t)
      BY <2>2, RowFacts DEF DocInv, Tables, NoTable, Exists
    <3>2. PrevIndexed'
      <4>1. CASE at = "get_tasks"
        BY <4>1, <1>1 DEF PrevIndexed
      <4>2. CASE at = "bulk_insert"
        <5> SUFFICES ASSUME NEW t \in Tasks, t \in Reusable(Page(t)),
                            NEW u \in Tasks, u \notin Reusable(Page(u)),
                            NEW c \in Names(Page(t)), c \in api.prev[u].chunk_ids
                     PROVE  FALSE
          <6>1. \A t \in Tasks : Reusable(Page(t))' = Reusable(Page(t))
            BY <4>2, <1>1 DEF Reusable
          <6>2. \A t \in Tasks : InStore(api.prev[t], Page(t), doc_store)
            BY <4>2 DEF DocInv, Index, PrevIndexed
          <6>3. \A t \in Tasks : /\ api.prev[t].chunk_ids \subseteq Names(Page(t))
                                /\ PageChunks(Page(t)) \subseteq Names(Page(t))
            BY TaskFacts, ChunkFacts DEF DocInv, Tables, OneRun
          <6>4. \A t \in Tasks : t \in Reusable(Page(t)) =>
                  \A c \in Names(Page(t)) : c \in doc_store => c \in doc_store'
            BY <4>2 DEF pre_chunk_ids
          <6>5. \A t \in Tasks : t \in Reusable(Page(t)) =>
                  InStore(api.prev[t], Page(t), doc_store')
            BY <6>2, <6>3, <6>4 DEF InStore
          <6> QED
            BY <6>1, <6>5, <4>2, <1>1 DEF PrevIndexed, InStore
        <5>1. OneRun(api.prev)
          BY DEF DocInv, Tables
        <5>2. c \in Names(Page(u))
          BY <5>1 DEF OneRun
        <5>3. Page(t) = Page(u)
          BY <5>2, ChunkFacts, TaskFacts
        <5>4. Exists(api.prev, t) /\ Exists(api.prev, u)
          BY <5>1, RowFacts DEF OneRun, Reusable, Exists, Gone, Done
        <5>5. t = u
          BY <5>1, <5>3, <5>4, TaskFacts DEF OneRun
        <5> QED
          BY <5>5
      <4> QED
        BY <4>1, <4>2, <2>2
    <3>3. \A t \in Tasks : rows'[t].chunk_ids = {} /\ ~Exists(rows', t) /\ rows'[t].progress # Done
      BY <1>u, <3>1, RowFacts DEF Gone, Done
    <3>4. StageIndexed'
      BY <3>3 DEF StageIndexed
    <3> QED
      BY <3>2, <3>3, <3>4, <1>1, <1>u, <2>2
         DEF DocInv, Index, DoneIsComplete, RowsIndexed, InStore
  <2> QED
    BY <2>1, <2>2
<1> QED
  BY <1>2, <1>3, <1>4, <1>5, <1>6, <1>7 DEF DocInv

LEMMA TaskRowFacts ==
  ASSUME DocInv, NEW p \in Pages
  PROVE  /\ task_row(p) \in Row /\ task_row(p).retry_count = 0
         /\ task_row(p).progress = IF Reusable(p) = {} THEN Zero ELSE Done
         /\ task_row(p).chunk_ids \subseteq Names(p)
         /\ cancels = 0 /\ Reusable(p) # {} => task_row(p).chunk_ids \in Complete(p)
         /\ cancels = 0 /\ api.at = "bulk_insert" => InStore(task_row(p), p, doc_store)
<1>1. CASE Reusable(p) = {}
  BY <1>1, RowFacts DEF task_row, InStore, Zero, Done
<1>2. CASE Reusable(p) # {}
  <2> DEFINE v == CHOOSE t \in Reusable(p) : TRUE
             r == [NewRow EXCEPT !.progress = Done, !.chunk_ids = api.prev[v].chunk_ids]
  <2>1. v \in Reusable(p)
    BY <1>2
  <2>2. v \in Tasks /\ Page(v) = p /\ api.prev[v].progress = Done
    BY <2>1 DEF Reusable
  <2>3. task_row(p) = r
    BY <1>2 DEF task_row
  <2> HIDE DEF v
  <2>4. api.prev[v] \in Row
    BY <2>2, ApiType
  <2>5. r \in Row /\ r.retry_count = 0 /\ r.progress = Done /\ r.chunk_ids = api.prev[v].chunk_ids
    <3>1. api.prev[v].chunk_ids \in SUBSET (Chunks) /\ Done \in Progress
      BY <2>4 DEF Row, Progress
    <3>2. NewRow \in Row /\ NewRow.retry_count = 0
      BY RowFacts
    <3> QED
      BY <3>1, <3>2 DEF Row
  <2>6. api.prev[v].chunk_ids \subseteq Names(p)
    BY <2>2 DEF DocInv, Tables, OneRun
  <2>7. cancels = 0 => api.prev[v].chunk_ids \in Complete(p)
    BY <2>2 DEF DocInv, Index, DoneIsComplete
  <2>8. cancels = 0 /\ api.at = "bulk_insert" => InStore(r, p, doc_store)
    <3>1. cancels = 0 /\ api.at = "bulk_insert" => InStore(api.prev[v], p, doc_store)
      BY <2>1, <2>2 DEF DocInv, Index, PrevIndexed
    <3> HIDE DEF r
    <3> QED
      BY <2>2, <2>5, <3>1 DEF InStore
  <2> HIDE DEF r
  <2> QED
    BY <1>2, <2>3, <2>5, <2>6, <2>7, <2>8
<1> QED
  BY <1>1, <1>2

LEMMA BulkInsertInv ==
  ASSUME DocInv, queue_bulk_insert
  PROVE  DocInv'
<1> DEFINE new == {t \in Tasks : t[1] = runs /\ Reusable(Page(t)) = {}}
<1>1. /\ api.at = "bulk_insert"
      /\ rows' = [t \in Tasks |-> IF t[1] = runs THEN task_row(Page(t)) ELSE rows[t]]
      /\ api' = [at |-> "begin2parse", prev |-> NoTable, todo |-> new]
      /\ UNCHANGED <<doc, doc_store, canceled, stream, executor_vars, queue_failed, runs,
                     cancels, sync>>
  BY DEF queue_bulk_insert
<1>2. /\ api' \in Calls /\ api'.at = "begin2parse" /\ api'.prev = NoTable /\ api'.todo = new
      /\ new \subseteq Tasks
  BY <1>1, RowFacts DEF Calls
<1>u. /\ doc_store' = doc_store /\ canceled' = canceled /\ stream' = stream
      /\ pending' = pending /\ replay' = replay /\ up' = up /\ deaths' = deaths /\ work' = work
      /\ runs' = runs /\ cancels' = cancels /\ queue_failed' = queue_failed
  BY <1>1 DEF executor_vars, process_vars
<1>3. \A t \in Tasks : rows[t] = NoRow
  BY <1>1 DEF DocInv, Tables, NoTable
<1>4. /\ \A t \in Tasks : t[1] = runs => rows'[t] = task_row(Page(t))
      /\ \A t \in Tasks : t[1] # runs => rows'[t] = NoRow
      /\ rows' \in [Tasks -> Row]
  BY <1>1, <1>3, TaskRowFacts, RowFacts, TaskFacts
<1> HIDE DEF new
<1>5. Shapes'
  BY <1>1, <1>2, <1>4, ShapeFacts, ApiShapes
<1>6. \A t \in Tasks : t[1] = runs =>
        /\ ~Sent(t)
        /\ \A e \in Executors : work[e][t].at = "none" /\ t \notin pending[e]
        /\ t \notin stream
  BY <1>1 DEF DocInv, OneMessage, Known, Preparing, Holding, Sent
<1>7. \A t \in Tasks : Exists(rows', t) => t[1] = runs
  BY <1>4, RowFacts DEF Exists
<1>n. \A t \in new : t \in Tasks /\ t[1] = runs
  BY DEF new
<1>9. OneMessage'
  <2>1. \A t \in Tasks : Sent(t)' => Sent(t) \/ t[1] = runs
    BY <1>2, <1>u, <1>n DEF Sent
  <2>2. \A t \in Tasks : Known(t)' <=> t[1] <= runs
    BY <1>2, <1>u DEF Known, Preparing
  <2>3. \A t \in Tasks : Sent(t)' \/ Exists(rows', t) => Known(t)'
    <3> SUFFICES ASSUME NEW t \in Tasks, Sent(t) \/ t[1] = runs PROVE t[1] <= runs
      BY <2>1, <2>2, <1>7
    <3> QED
      BY TaskFacts, ShapeFacts DEF DocInv, OneMessage, Known
  <2> QED
    BY <2>3, <1>2, <1>6, <1>n, <1>u DEF OneMessage, DocInv
<1>10. Holding'
  BY <1>u DEF DocInv, Holding
<1>11. Stages'
  <2> SUFFICES ASSUME NEW e \in Executors, NEW t \in Tasks
               PROVE  /\ StageOK(work[e][t], rows'[t], Page(t))
                      /\ work[e][t].at = "refused" => ~Unfinished(rows', t)
    BY <1>u DEF Stages, StageOK
  <2>1. CASE t[1] = runs
    BY <2>1, <1>6, IdleStage
  <2>2. CASE t[1] # runs
    BY <2>2, <1>4, GoneStage, RowFacts DEF Unfinished, Gone, Zero, Some
  <2> QED
    BY <2>1, <2>2
<1>12. NoLostTask'
  <2> SUFFICES ASSUME NEW t \in Tasks, Unfinished(rows', t) PROVE t \in new
    BY <1>2 DEF NoLostTask
  <2>1. t[1] = runs
    BY <1>4, RowFacts DEF Unfinished, Gone, Zero, Some
  <2>2. Reusable(Page(t)) = {}
    BY <2>1, <1>4, TaskRowFacts, TaskFacts DEF Unfinished, Zero, Some, Done
  <2> QED
    BY <2>1, <2>2 DEF new
<1>13. Tables'
  <2>1. OneRun(rows')
    <3>1. \A t \in Tasks : ~Exists(rows', t) => rows'[t] = NoRow
      <4>1. ASSUME NEW t \in Tasks, t[1] = runs PROVE Exists(rows', t)
        <5>1. rows'[t].progress \in {Zero, Done}
          BY <4>1, <1>4, TaskRowFacts, TaskFacts
        <5> QED
          BY <5>1 DEF Exists, Gone, Zero, Done
      <4> QED
        BY <4>1, <1>4
    <3>2. \A t \in Tasks : rows'[t].chunk_ids \subseteq Names(Page(t))
      <4> TAKE t \in Tasks
      <4>1. CASE t[1] = runs
        BY <4>1, <1>4, TaskRowFacts, TaskFacts
      <4>2. CASE t[1] # runs
        BY <4>2, <1>4, RowFacts
      <4> QED
        BY <4>1, <4>2
    <3> QED
      BY <3>1, <3>2, <1>7 DEF OneRun
  <2> QED
    BY <2>1, <1>2, NoTableFacts DEF Tables
<1>14. Index'
  <2> SUFFICES ASSUME cancels = 0 PROVE Index'
    BY <1>u DEF Index
  <2>1. DoneIsComplete(rows')
    <3> SUFFICES ASSUME NEW t \in Tasks, rows'[t].progress = Done
                 PROVE  rows'[t].chunk_ids \in Complete(Page(t))
      BY DEF DoneIsComplete
    <3>1. t[1] = runs
      BY <1>4, RowFacts DEF Gone, Done
    <3>2. rows'[t] = task_row(Page(t)) /\ Page(t) \in Pages
      BY <3>1, <1>4, TaskFacts
    <3>3. Reusable(Page(t)) # {}
      BY <3>2, TaskRowFacts DEF Zero, Done
    <3> QED
      BY <3>2, <3>3, TaskRowFacts
  <2>2. \A t \in Tasks : InStore(rows'[t], Page(t), doc_store)
    <3> TAKE t \in Tasks
    <3>1. CASE t[1] = runs
      BY <3>1, <1>1, <1>4, TaskRowFacts, TaskFacts
    <3>2. CASE t[1] # runs
      BY <3>2, <1>4, RowFacts DEF InStore, Gone, Done
    <3> QED
      BY <3>1, <3>2
  <2>3. PrevIndexed'
    BY <1>2 DEF PrevIndexed
  <2>4. StageIndexed'
    <3> SUFFICES ASSUME NEW e \in Executors, NEW t \in Tasks, Exists(rows', t)
                 PROVE  StageStore(work[e][t], rows'[t], Page(t), doc_store)
      BY <1>u DEF StageIndexed, StageStore, Inserted
    <3>1. work[e][t].at \notin Indexing
      BY <1>6, <1>7 DEF Indexing
    <3> QED
      BY <3>1, EarlyStage, TaskFacts
  <2> QED
    BY <2>1, <2>2, <2>3, <2>4, <1>2, <1>u, NoTableFacts
       DEF Index, RowsIndexed, InStore, DoneIsComplete
<1> QED
  BY <1>5, <1>9, <1>10, <1>11, <1>12, <1>13, <1>14 DEF DocInv

LEMMA QueueProductInv ==
  ASSUME DocInv, NEW t \in Tasks, queue_product(t)
  PROVE  DocInv'
<1>1. /\ api.at = "queue_product" /\ t \in api.todo
      /\ stream' = stream \cup {t} /\ api' = [api EXCEPT !.todo = @ \ {t}]
      /\ UNCHANGED <<rows, doc, doc_store, canceled, executor_vars, queue_failed, runs, cancels,
                     sync>>
  BY DEF queue_product
<1>2. /\ api' \in Calls /\ api'.at = api.at /\ api'.prev = api.prev
      /\ api'.todo = api.todo \ {t}
  BY <1>1, ShapeFacts DEF Calls
<1>u. /\ rows' = rows /\ doc_store' = doc_store /\ canceled' = canceled
      /\ pending' = pending /\ replay' = replay /\ up' = up /\ deaths' = deaths /\ work' = work
      /\ runs' = runs /\ cancels' = cancels /\ queue_failed' = queue_failed
      /\ doc' = doc /\ sync' = sync
  BY <1>1 DEF executor_vars, process_vars
<1>3. Shapes'
  <2>1. TypesOK'
    BY <1>1, <1>2, <1>u DEF DocInv, Shapes, TypesOK, Calls
  <2> QED
    BY <2>1, <1>u DEF DocInv, Shapes, Shape, Nothing
<1>4. OneMessage'
  <2>1. \A u \in Tasks : (Sent(u)' <=> Sent(u)) /\ (Known(u)' <=> Known(u))
    BY <1>1, <1>2, <1>u DEF Sent, Known
  <2> QED
    BY <2>1, <1>1, <1>2, <1>u DEF OneMessage, DocInv
<1>5. Holding' /\ Stages'
  BY <1>u DEF DocInv, Holding, Stages, StageOK, Unfinished
<1>6. NoLostTask'
  <2>1. \A e \in Executors, u \in Tasks : HeldBy(e, u) => HeldBy(e, u)'
    BY <1>u DEF HeldBy, Working
  <2> QED
    BY <2>1, <1>1, <1>2, <1>u DEF DocInv, NoLostTask, Unfinished
<1>7. Tables'
  BY <1>2, <1>u DEF DocInv, Tables
<1>8. Index'
  <2>1. PrevIndexed'
    BY <1>1, <1>2 DEF PrevIndexed
  <2> QED
    BY <2>1, <1>2, <1>u DEF DocInv, Index, DoneIsComplete, RowsIndexed, InStore, StageIndexed,
          StageStore, Inserted
<1> QED
  BY <1>3, <1>4, <1>5, <1>6, <1>7, <1>8 DEF DocInv

LEMMA CancelInv ==
  ASSUME DocInv, cancel_all_task_of
  PROVE  DocInv'
<1>1. /\ api.at = "none" /\ runs + cancels < MaxRequests
      /\ canceled' = canceled \cup {t \in Tasks : Exists(rows, t)}
      /\ cancels' = cancels + 1 /\ api' = [api EXCEPT !.at = "cancel"]
      /\ UNCHANGED <<rows, doc, doc_store, stream, executor_vars, queue_failed, runs, sync>>
  BY DEF cancel_all_task_of
<1>2. /\ api' \in Calls /\ api'.at = "cancel" /\ api'.prev = api.prev
      /\ api'.todo = api.todo
  BY <1>1, ShapeFacts, ApiAt
<1>u. /\ rows' = rows /\ doc_store' = doc_store /\ stream' = stream
      /\ pending' = pending /\ replay' = replay /\ up' = up /\ deaths' = deaths /\ work' = work
      /\ runs' = runs /\ queue_failed' = queue_failed
      /\ doc' = doc /\ sync' = sync
  BY <1>1 DEF executor_vars, process_vars
<1>c. cancels' \in 0 .. MaxRequests /\ cancels' # 0
  BY <1>1, ShapeFacts
<1>3. Shapes'
  <2>1. TypesOK'
    BY <1>1, <1>2, <1>u, <1>c DEF DocInv, Shapes, TypesOK, Calls
  <2> QED
    BY <2>1, <1>u, <1>c DEF DocInv, Shapes, Shape, Nothing
<1>4. OneMessage'
  <2>1. \A u \in Tasks : (Sent(u)' <=> Sent(u)) /\ (Known(u) => Known(u)')
    BY <1>1, <1>2, <1>u DEF Sent, Known, Preparing
  <2> QED
    BY <2>1, <1>1, <1>2, <1>u DEF OneMessage, DocInv
<1>5. Holding' /\ Stages'
  <2>1. canceled \subseteq canceled'
    BY <1>1
  <2> QED
    BY <2>1, <1>u DEF DocInv, Holding, Stages, StageOK, Unfinished
<1>6. NoLostTask'
  <2>1. \A e \in Executors, u \in Tasks : HeldBy(e, u) => HeldBy(e, u)'
    BY <1>u DEF HeldBy, Working
  <2> QED
    BY <2>1, <1>1, <1>2, <1>u DEF DocInv, NoLostTask, Unfinished
<1>7. Tables'
  BY <1>2, <1>u DEF DocInv, Tables
<1>8. Index'
  BY <1>c DEF Index
<1> QED
  BY <1>3, <1>4, <1>5, <1>6, <1>7, <1>8 DEF DocInv

(* The progress loop touches only what it derives.                         *)
LEMMA SyncInv ==
  ASSUME DocInv, sync_read \/ sync_write
  PROVE  DocInv'
<1>0. TypesOK
  BY DEF DocInv, Shapes
<1>u. /\ rows' = rows /\ doc_store' = doc_store /\ stream' = stream /\ canceled' = canceled
      /\ pending' = pending /\ replay' = replay /\ up' = up /\ deaths' = deaths /\ work' = work
      /\ runs' = runs /\ queue_failed' = queue_failed /\ api' = api /\ cancels' = cancels
  BY DEF sync_read, sync_write, executor_vars, process_vars, api_vars
<1>1. /\ doc' \in [run : {"UNSTART", "RUNNING", "CANCEL", "DONE", "FAIL"}, progress : Progress]
      /\ sync' \in [run : {"none", "UNSTART", "RUNNING", "CANCEL", "DONE", "FAIL"},
                    progress : Progress]
      /\ sync'.run = "none" => sync' = Nothing
  <2>1. CASE sync_read
    <3>1. Derived \in [run : {"UNSTART", "RUNNING", "CANCEL", "DONE", "FAIL"},
                       progress : Progress]
      BY <1>0 DEF Derived, TypesOK, Progress
    <3>2. Derived.run # "none"
      BY <3>1
    <3> QED
      BY <2>1, <3>1, <3>2, <1>0 DEF sync_read, TypesOK
  <2>2. CASE sync_write
    <3>1. sync.run # "none" /\ sync.progress \in Progress /\ doc.progress \in Progress
          /\ sync.run \in {"UNSTART", "RUNNING", "CANCEL", "DONE", "FAIL"}
      BY <2>2, <1>0 DEF sync_write, DocInv, Shapes, TypesOK
    <3>2. /\ doc' = [run |-> sync.run,
                     progress |-> IF sync.progress = Gone THEN doc.progress ELSE sync.progress]
          /\ sync' = Nothing
      BY <2>2 DEF sync_write
    <3> QED
      BY <3>1, <3>2 DEF Nothing, Progress
  <2> QED
    BY <2>1, <2>2
<1>2. Shapes'
  <2>1. TypesOK'
    BY <1>0, <1>1, <1>u DEF TypesOK
  <2> QED
    BY <2>1, <1>1, <1>u DEF DocInv, Shapes, Shape, Nothing
<1>3. OneMessage'
  <2>1. \A u \in Tasks : (Sent(u)' <=> Sent(u)) /\ (Known(u)' <=> Known(u))
    BY <1>u DEF Sent, Known
  <2> QED
    BY <2>1, <1>u DEF OneMessage, DocInv
<1>4. NoLostTask'
  <2>1. \A e \in Executors, u \in Tasks : HeldBy(e, u) => HeldBy(e, u)'
    BY <1>u DEF HeldBy, Working
  <2> QED
    BY <2>1, <1>u DEF DocInv, NoLostTask, Unfinished
<1>5. Holding' /\ Stages' /\ Tables'
  BY <1>u DEF DocInv, Holding, Stages, StageOK, Unfinished, Tables, OneRun
<1>6. Index'
  BY <1>u DEF DocInv, Index, DoneIsComplete, RowsIndexed, InStore, StageIndexed, StageStore,
              Inserted, PrevIndexed, Reusable
<1> QED
  BY <1>2, <1>3, <1>4, <1>5, <1>6 DEF DocInv

-----------------------------------------------------------------------------
LEMMA InitDocInv == Init => DocInv
<1> SUFFICES ASSUME Init PROVE DocInv
  OBVIOUS
<1>1. /\ rows = NoTable /\ api.prev = NoTable /\ api.todo = {} /\ api.at = "none" /\ api \in Calls
      /\ stream = {} /\ canceled = {} /\ doc_store = {}
      /\ \A t \in Tasks : rows[t] = NoRow
  BY NoCallFacts DEF Init, NoTable
<1>2. \A e \in Executors : /\ pending[e] = {} /\ replay[e] = {}
                           /\ \A t \in Tasks : work[e][t] = Idle
  BY DEF Init
<1>3. TypesOK
  <2>1. work \in [Executors -> [Tasks -> States]]
    BY IdleFacts DEF Init
  <2>2. rows \in [Tasks -> Row]
    BY <1>1, RowFacts
  <2>3. doc \in [run : {"UNSTART", "RUNNING", "CANCEL", "DONE", "FAIL"}, progress : Progress]
    BY DEF Init, Progress
  <2>4. sync \in [run : {"none", "UNSTART", "RUNNING", "CANCEL", "DONE", "FAIL"},
                  progress : Progress]
    BY DEF Init, Nothing, Progress
  <2>5. /\ pending \in [Executors -> SUBSET Tasks] /\ replay \in [Executors -> SUBSET Tasks]
        /\ up \in [Executors -> BOOLEAN]
    BY DEF Init
  <2>6. queue_failed \in BOOLEAN
    BY Zenon DEF Init
  <2>7. runs \in 0 .. MaxRuns /\ cancels \in 0 .. MaxRequests /\ deaths \in 0 .. MaxDeaths
    <3>1. runs = 0 /\ cancels = 0 /\ deaths = 0
      BY DEF Init
    <3> QED
      BY <3>1
  <2> QED
    BY <1>1, <2>1, <2>2, <2>3, <2>4, <2>5, <2>6, <2>7 DEF TypesOK, Calls, States, Places
<1>4. Shapes
  BY <1>1, <1>2, <1>3, IdleFacts, IdleShape DEF Shapes, Init
<1>5. \A t \in Tasks : ~Exists(rows, t) /\ ~Unfinished(rows, t) /\ ~Sent(t)
  BY <1>1, <1>2, RowFacts DEF Exists, Unfinished, Sent, Gone, Zero, Some
<1>6. OneMessage /\ Holding /\ Stages /\ NoLostTask
  BY <1>1, <1>2, <1>5, IdleFacts, IdleStage DEF OneMessage, Holding, Stages, NoLostTask
<1>7. Tables
  BY <1>1, NoTableFacts DEF Tables
<1>8. Index
  BY <1>1, <1>5, NoTableFacts, RowFacts
     DEF Index, PrevIndexed, StageIndexed, RowsIndexed, InStore, Gone, Done
<1> QED
  BY <1>4, <1>6, <1>7, <1>8 DEF DocInv

LEMMA HandleStepInv ==
  ASSUME DocInv, NEW e \in Executors, NEW t \in Tasks, HandleStep(e, t)
  PROVE  DocInv'
<1>1. CASE \/ start_canceled(e, t) \/ build_chunks_fails(e, t) \/ insert_es_fails(e, t)
           \/ insert_canceled(e, t) \/ handle_task_fails(e, t)
  <2>1. PICK at \in {"finally", "ack", "empty"} :
          /\ work[e][t].at \in {"begun", "mothers", "insert", "record", "failed"}
          /\ set_progress(t, Failed) /\ Goto(e, t, at, 0)
          /\ UNCHANGED <<doc, doc_store, canceled, stream, pending, process_vars, api_vars, sync>>
    BY <1>1 DEF start_canceled, build_chunks_fails, insert_es_fails, insert_canceled,
                handle_task_fails, At
  <2>2. work[e][t].at \in Counted
    BY <2>1 DEF Counted, Attempt, Indexing
  <2> QED
    BY <2>1, <2>2, FailingInv
<1>2. CASE build_chunks(e, t) \/ no_chunks(e, t)
  BY <1>2, BuildInv, NoChunksInv
<1>3. CASE maybe_insert_canceled(e, t) \/ maybe_insert_es(e, t) \/ insert_mothers(e, t)
  BY <1>3, MaybeCanceledInv, MaybeInsertInv
<1>4. CASE insert_es(e, t) \/ record_chunk_ids(e, t)
  BY <1>4, InsertInv, RecordInv
<1>5. CASE \E toc \in BOOLEAN : indexing_done(e, t, toc)
  BY <1>5, IndexingDoneInv
<1>6. CASE finish(e, t) \/ handler_raises(e, t) \/ finally(e, t)
  BY <1>6, FinishInv, RaisesInv, FinallyInv
<1>7. CASE ack(e, t)
  BY <1>7, AckInv
<1> QED
  BY <1>1, <1>2, <1>3, <1>4, <1>5, <1>6, <1>7 DEF HandleStep

LEMMA StutterDocInv ==
  ASSUME DocInv, UNCHANGED vars
  PROVE  DocInv'
BY DEF vars, executor_vars, process_vars, api_vars, DocInv, Shapes, Shape, TypesOK, Nothing,
       OneMessage, Sent, Known, Holding, Stages, StageOK, Unfinished, NoLostTask, HeldBy,
       Working, Tables, OneRun, Exists, Index, DoneIsComplete, PrevIndexed, Reusable,
       RowsIndexed, InStore, StageIndexed, StageStore, Inserted

LEMMA DocInvStep ==
  ASSUME DocInv, [Next]_vars
  PROVE  DocInv'
<1>1. CASE Request
  BY <1>1, RunBeginInv DEF Request
<1>2. CASE cancel_all_task_of
  BY <1>2, CancelInv
<1>3. CASE RunStep
  BY <1>3, DeleteRowsInv, DeleteChunksInv, BulkInsertInv, Begin2ParseInv, QueueProductInv,
     ApiEndsInv DEF RunStep
<1>4. ASSUME NEW e \in Executors, CollectStep(e) \/ crash(e) \/ restart(e)
      PROVE  DocInv'
  BY <1>4, CollectInv, GetTaskRefusesInv, GetTaskInv, HasCanceledInv, AckInv, CrashInv,
     RestartInv DEF CollectStep
<1>5. ASSUME NEW e \in Executors, NEW t \in Tasks, HandleStep(e, t)
      PROVE  DocInv'
  BY <1>5, HandleStepInv
<1>6. CASE SyncStep
  BY <1>6, SyncInv DEF SyncStep
<1>7. CASE UNCHANGED vars
  BY <1>7, StutterDocInv
<1> QED
  BY <1>1, <1>2, <1>3, <1>4, <1>5, <1>6, <1>7 DEF Next, ExecutorStep

LEMMA DocInvHolds == Spec => []DocInv
BY InitDocInv, DocInvStep, PTL DEF Spec

(* The tables, the stream, the executors' states and the request keep      *)
(* their types; and a task whose row exists is handled at most RetryLimit  *)
(* times, although get_task commits its count before the message is        *)
(* acknowledged, and executors die in between.                             *)
THEOREM DocumentTypesHold == Spec => []TasksTypeOK
<1>1. DocInv => TasksTypeOK
  <2> SUFFICES ASSUME DocInv, NEW e \in Executors, NEW t \in Handling(e), Exists(rows, t)
               PROVE  rows[t].retry_count \in 1 .. RetryLimit
    BY DEF DocInv, Shapes, TasksTypeOK
  <2>1. t \in Tasks /\ work[e][t].at \in Places \ {"none", "received", "collected", "refused"}
    BY AtWork DEF Handling, Working, Collecting, States
  <2>2. work[e][t].at \in Counted
    BY <2>1 DEF Places, Counted, Attempt, Indexing
  <2> QED
    BY <2>1, <2>2, AtWork DEF StageOK, Exists
<1> QED
  BY <1>1, DocInvHolds, PTL

(* However often executors die and are started again, and however requests *)
(* interleave with them, an unfinished task that was neither canceled nor  *)
(* refused by Redis is in the stream, about to be put there, or held by an *)
(* executor that works on it or will replay it.                            *)
THEOREM TasksAreNotLost == Spec => []NoLostTask
<1>1. DocInv => NoLostTask
  BY DEF DocInv
<1> QED
  BY <1>1, DocInvHolds, PTL

(* As long as nothing is canceled, the chunks that a task row names are in *)
(* the index, and all chunks of its page range are once it is done, in     *)
(* spite of the chunks that parse requests delete and reuse while          *)
(* executors of earlier runs still insert.  The row of a task that is done *)
(* names all of them or, when a table of contents was inserted last, that  *)
(* one alone.                                                              *)
THEOREM RowsAreIndexed == Spec => []IndexedUnlessCanceled
<1>1. DocInv => IndexedUnlessCanceled
  BY DEF DocInv, Index, DoneIsComplete, Complete, RowsIndexed, InStore, IndexedUnlessCanceled
<1> QED
  BY <1>1, DocInvHolds, PTL
=============================================================================
