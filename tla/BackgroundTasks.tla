--------------------------- MODULE BackgroundTasks ---------------------------
(***************************************************************************)
(* The registry of background tasks of Open WebUI (open_webui/tasks.py)    *)
(* with Redis: a chat answer or a debounced save runs as an asyncio task   *)
(* of one process, and any process can list the tasks and stop one.        *)
(*                                                                         *)
(* A pipeline is one transaction of Redis.  Code between two awaits is one *)
(* action; a stop command is published to the processes that have          *)
(* subscribed by then, each of which reads the commands in its own time.   *)
(* Stopping is idempotent, so the commands a process has not read are a    *)
(* set.  Chats and collaborative documents use one Redis: by default       *)
(* WEBSOCKET_REDIS_URL is REDIS_URL.                                       *)
(***************************************************************************)
EXTENDS Processes

CONSTANTS
  Tasks,        \* the uuid4 of create_task, each used once
  Items,        \* chats and documents
  item_of       \* the id that create_task is called with

NoWhere == "nowhere"

ASSUME TasksAssumption == item_of \in [Tasks -> Items] /\ NoWhere \notin Instances

VARIABLES
  where,            \* the process that the task was created in
  coroutine,        \* new, running, cancelling, done, dead
  creation,         \* create_task's progress: new, saving, returned
  cleanup,          \* cleanup_task's progress: none, scheduled, counted, finished
  seen,             \* the item's set when the cleanup asked for its size
  tasks,            \* the local dictionary of every process
  redis_tasks,      \* REDIS_TASKS_KEY
  redis_item_tasks, \* REDIS_ITEM_TASKS_KEY, a set for every item
  to_stop,          \* what a call of stop_item_tasks has still to stop
  listening,        \* processes that have subscribed to REDIS_PUBSUB_CHANNEL
  commands,         \* what each of them has not read yet
  stopped,          \* history: tasks whose process was sent a stop for them
  lost              \* history: tasks that two races put in the wrong list

task_vars == <<where, coroutine, creation, cleanup, seen, tasks, redis_tasks,
               redis_item_tasks, to_stop, listening, commands, stopped, lost>>

TasksInit ==
  /\ where = [t \in Tasks |-> NoWhere]
  /\ coroutine = [t \in Tasks |-> "new"]
  /\ creation = [t \in Tasks |-> "new"]
  /\ cleanup = [t \in Tasks |-> "none"]
  /\ seen = [t \in Tasks |-> {}]
  /\ tasks = [i \in Instances |-> {}]
  /\ redis_tasks = {}
  /\ redis_item_tasks = [c \in Items |-> {}]
  /\ to_stop = {} /\ listening = {}
  /\ commands = [i \in Instances |-> {}]
  /\ stopped = {}
  /\ lost = [unlisted |-> {}, leftover |-> {}]

Alive(t) == where[t] \in up
Running(t) == coroutine[t] \in {"running", "cancelling"}

-----------------------------------------------------------------------------
(* create_task, up to the await of redis_save_task.  Faulty variant: the   *)
(* task is entered into the dictionary after it is saved, so never here.   *)
RegisteredLater(i, t) == tasks
Registered(i, t) == [tasks EXCEPT ![i] = @ \cup {t}]

create_task(i, t) ==
  /\ i \in up /\ creation[t] = "new"
  /\ where' = [where EXCEPT ![t] = i]
  /\ coroutine' = [coroutine EXCEPT ![t] = "running"]
  /\ creation' = [creation EXCEPT ![t] = "saving"]
  /\ tasks' = Registered(i, t)
  /\ UNCHANGED <<cleanup, seen, redis_tasks, redis_item_tasks, to_stop, listening, commands,
                 stopped, lost>>

(* The rest of create_task.  A task that is done may have been cleaned up  *)
(* before: nothing removes it from Redis then.                             *)
redis_save_task(t) ==
  /\ Alive(t) /\ creation[t] = "saving"
  /\ creation' = [creation EXCEPT ![t] = "returned"]
  /\ redis_tasks' = redis_tasks \cup {t}
  /\ redis_item_tasks' = [redis_item_tasks EXCEPT ![item_of[t]] = @ \cup {t}]
  /\ lost' = IF cleanup[t] \in {"counted", "finished"}
             THEN [lost EXCEPT !.leftover = @ \cup {t}] ELSE lost
  /\ UNCHANGED <<where, coroutine, cleanup, seen, tasks, to_stop, listening, commands, stopped>>

(* The coroutine ends, by itself or because CancelledError reaches it; the *)
(* done callback creates the task that cleans up.                          *)
finish(t) ==
  /\ Alive(t) /\ Running(t)
  /\ coroutine' = [coroutine EXCEPT ![t] = "done"]
  /\ cleanup' = [cleanup EXCEPT ![t] = "scheduled"]
  /\ UNCHANGED <<where, creation, seen, tasks, redis_tasks, redis_item_tasks, to_stop,
                 listening, commands, stopped, lost>>

(* cleanup_task.  The first pipeline removes the task and asks for the     *)
(* size of the set, the second one deletes the set if it was empty then.   *)
(* Faulty variants: the set is deleted whatever its size, and the task     *)
(* stays in REDIS_TASKS_KEY.                                               *)
DeleteAnyway(set) == TRUE
IsEmpty(set) == set = {}
KeepInRedis(t) == redis_tasks
RemovedFromRedis(t) == redis_tasks \ {t}

redis_cleanup_task(t) ==
  LET left == redis_item_tasks[item_of[t]] \ {t} IN
  /\ Alive(t) /\ cleanup[t] = "scheduled"
  /\ redis_tasks' = RemovedFromRedis(t)
  /\ redis_item_tasks' = [redis_item_tasks EXCEPT ![item_of[t]] = left]
  /\ seen' = [seen EXCEPT ![t] = left]
  /\ cleanup' = [cleanup EXCEPT ![t] = "counted"]
  /\ UNCHANGED <<where, coroutine, creation, tasks, to_stop, listening, commands, stopped, lost>>

cleanup_task(t) ==
  LET c == item_of[t] IN
  /\ Alive(t) /\ cleanup[t] = "counted"
  /\ IF IsEmpty(seen[t])
     THEN /\ redis_item_tasks' = [redis_item_tasks EXCEPT ![c] = {}]
          /\ lost' = [lost EXCEPT !.unlisted = @ \cup (redis_item_tasks[c] \ seen[t])]
     ELSE UNCHANGED <<redis_item_tasks, lost>>
  /\ tasks' = [tasks EXCEPT ![where[t]] = @ \ {t}]
  /\ cleanup' = [cleanup EXCEPT ![t] = "finished"]
  /\ seen' = [seen EXCEPT ![t] = {}]
  /\ UNCHANGED <<where, coroutine, creation, redis_tasks, to_stop, listening, commands, stopped>>

-----------------------------------------------------------------------------
(* redis_task_command_listener, a task of its own that the start of the    *)
(* process creates and does not wait for: it subscribes, and reads.        *)
subscribe(i) ==
  /\ i \in up \ listening
  /\ listening' = listening \cup {i}
  /\ UNCHANGED <<where, coroutine, creation, cleanup, seen, tasks, redis_tasks,
                 redis_item_tasks, to_stop, commands, stopped, lost>>

redis_task_command_listener(i, t) ==
  /\ i \in up /\ t \in commands[i]
  /\ commands' = [commands EXCEPT ![i] = @ \ {t}]
  /\ coroutine' = IF t \in tasks[i] /\ coroutine[t] = "running"
                  THEN [coroutine EXCEPT ![t] = "cancelling"] ELSE coroutine
  /\ UNCHANGED <<where, creation, cleanup, seen, tasks, redis_tasks, redis_item_tasks,
                 to_stop, listening, stopped, lost>>

(* stop_task.  The caller has the id from create_task or from a list.      *)
(* Redis keeps no command for a process that subscribes later, and nobody  *)
(* repeats one.                                                            *)
Known(t) == creation[t] = "returned" \/ t \in redis_tasks

Published(t) ==
  /\ commands' = [i \in Instances |-> commands[i] \cup (IF i \in listening THEN {t} ELSE {})]
  /\ stopped' = IF where[t] \in listening THEN stopped \cup {t} ELSE stopped

stop_task(t) ==
  /\ up # {} /\ Known(t) /\ t \notin stopped
  /\ Published(t)
  /\ UNCHANGED <<where, coroutine, creation, cleanup, seen, tasks, redis_tasks,
                 redis_item_tasks, to_stop, listening, lost>>

(* stop_item_tasks: the list, and then one command after the other.        *)
list_task_ids_by_item_id(c) ==
  /\ up # {} /\ to_stop = {} /\ redis_item_tasks[c] \ stopped # {}
  /\ to_stop' = redis_item_tasks[c]
  /\ UNCHANGED <<where, coroutine, creation, cleanup, seen, tasks, redis_tasks,
                 redis_item_tasks, listening, commands, stopped, lost>>

stop_item_tasks(t) ==
  /\ up # {} /\ t \in to_stop
  /\ to_stop' = to_stop \ {t}
  /\ Published(t)
  /\ UNCHANGED <<where, coroutine, creation, cleanup, seen, tasks, redis_tasks,
                 redis_item_tasks, listening, lost>>

(* A process dies with its tasks; its subscription and the commands for it *)
(* are lost.                                                               *)
tasks_die(i) ==
  /\ listening' = listening \ {i}
  /\ tasks' = [tasks EXCEPT ![i] = {}]
  /\ commands' = [commands EXCEPT ![i] = {}]
  /\ where' = [t \in Tasks |-> IF where[t] = i THEN NoWhere ELSE where[t]]
  /\ coroutine' = [t \in Tasks |-> IF where[t] = i THEN "dead" ELSE coroutine[t]]
  /\ cleanup' = [t \in Tasks |-> IF where[t] = i THEN "none" ELSE cleanup[t]]
  /\ seen' = [t \in Tasks |-> IF where[t] = i THEN {} ELSE seen[t]]
  /\ UNCHANGED <<creation, redis_tasks, redis_item_tasks, to_stop, stopped, lost>>

-----------------------------------------------------------------------------
TasksNext ==
  \/ \E i \in Instances, t \in Tasks : create_task(i, t)
  \/ \E t \in Tasks : redis_save_task(t) \/ finish(t)
  \/ \E t \in Tasks : redis_cleanup_task(t) \/ cleanup_task(t)
  \/ \E t \in Tasks : stop_task(t) \/ stop_item_tasks(t)
  \/ \E c \in Items : list_task_ids_by_item_id(c)
  \/ \E i \in Instances : subscribe(i)
  \/ \E i \in Instances, t \in Tasks : redis_task_command_listener(i, t)

Cancelled(t) == coroutine[t] = "cancelling" /\ finish(t)

-----------------------------------------------------------------------------
TasksTypeOK ==
  /\ where \in [Tasks -> Instances \cup {NoWhere}]
  /\ coroutine \in [Tasks -> {"new", "running", "cancelling", "done", "dead"}]
  /\ creation \in [Tasks -> {"new", "saving", "returned"}]
  /\ cleanup \in [Tasks -> {"none", "scheduled", "counted", "finished"}]
  /\ seen \in [Tasks -> SUBSET Tasks]
  /\ tasks \in [Instances -> SUBSET Tasks]
  /\ redis_tasks \subseteq Tasks /\ to_stop \subseteq Tasks /\ stopped \subseteq Tasks
  /\ redis_item_tasks \in [Items -> SUBSET Tasks]
  /\ listening \subseteq Instances /\ commands \in [Instances -> SUBSET Tasks]
  /\ lost \in [unlisted : SUBSET Tasks, leftover : SUBSET Tasks]

(* A task that runs and whose id was given out is in both lists of Redis,  *)
(* so that another process can show and stop it; the one exception is an   *)
(* item's set that a cleanup deleted after it had found it empty, with a   *)
(* task saved in between.                                                  *)
RunningTasksAreListed ==
  \A t \in Tasks : Alive(t) /\ Running(t) /\ creation[t] = "returned" =>
    /\ t \in redis_tasks
    /\ t \in redis_item_tasks[item_of[t]] \/ t \in lost.unlisted

(* A task that is stopped, from any process and at any moment after its id *)
(* is known and its own process has subscribed, ends or dies with its      *)
(* process: it is in the dictionary that the listener looks it up in       *)
(* before anyone can know its id.                                          *)
StoppedTasksEnd ==
  \A t \in Tasks : (t \in stopped) ~> ~(Alive(t) /\ Running(t))

(* A task that is done leaves all lists once it is saved; the exceptions   *)
(* are a cleanup that overtook the save, and a process that died.          *)
DoneTasksAreForgotten ==
  \A t \in Tasks : (coroutine[t] = "done") ~>
    \/ ~Alive(t) \/ t \in lost.leftover
    \/ /\ creation[t] = "returned"
       /\ t \notin redis_tasks \cup redis_item_tasks[item_of[t]] \cup tasks[where[t]]
=============================================================================
