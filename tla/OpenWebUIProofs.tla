-------------------------- MODULE OpenWebUIProofs --------------------------
(***************************************************************************)
(* Safety of the task registry and of the cleanup lock, for any number of  *)
(* processes, tasks, items and crashes.                                    *)
(***************************************************************************)
EXTENDS OpenWebUI, TLAPS

USE ProcessesAssumption, TasksAssumption, CleanupAssumption

-----------------------------------------------------------------------------
(* Types.                                                                  *)

(* What the processes do by themselves keeps the types.                    *)
LEMMA StartType ==
  ASSUME NEW i \in Instances, OpenWebUITypeOK, start(i)
  PROVE  OpenWebUITypeOK'
<1>1. TasksTypeOK'
  BY DEF OpenWebUITypeOK, start, TasksTypeOK, task_vars
<1>2. CleanupTypeOK'
  BY DEF OpenWebUITypeOK, start, cleanup_starts, Goto, CleanupTypeOK
<1>3. (up \subseteq Instances /\ crashes \in 0 .. MaxCrashes)'
  BY DEF OpenWebUITypeOK, start, process_starts
<1> QED
  BY <1>1, <1>2, <1>3 DEF OpenWebUITypeOK

LEMMA DieType ==
  ASSUME NEW i \in Instances, OpenWebUITypeOK, die(i)
  PROVE  OpenWebUITypeOK'
<1>1. TasksTypeOK'
  BY DEF OpenWebUITypeOK, die, tasks_die, TasksTypeOK
<1>2. CleanupTypeOK'
  BY DEF OpenWebUITypeOK, die, cleanup_dies, Goto, CleanupTypeOK, Held
<1>3. (up \subseteq Instances /\ crashes \in 0 .. MaxCrashes)'
  BY DEF OpenWebUITypeOK, die, process_dies
<1> QED
  BY <1>1, <1>2, <1>3 DEF OpenWebUITypeOK

LEMMA TasksType ==
  ASSUME OpenWebUITypeOK, TasksNext, UNCHANGED <<process_vars, lock_vars>>
  PROVE  OpenWebUITypeOK'
<1> USE DEF TasksTypeOK
<1>1. TasksTypeOK
  BY DEF OpenWebUITypeOK
<1>2. TasksTypeOK'
  <2>1. ASSUME NEW i \in Instances, NEW t \in Tasks, create_task(i, t)
        PROVE  TasksTypeOK'
    BY <1>1, <2>1 DEF create_task, Registered
  <2>2. ASSUME NEW t \in Tasks, redis_save_task(t)
        PROVE  TasksTypeOK'
    BY <1>1, <2>2 DEF redis_save_task
  <2>3. ASSUME NEW t \in Tasks, finish(t)
        PROVE  TasksTypeOK'
    BY <1>1, <2>3 DEF finish
  <2>4. ASSUME NEW t \in Tasks, redis_cleanup_task(t)
        PROVE  TasksTypeOK'
    BY <1>1, <2>4 DEF redis_cleanup_task, RemovedFromRedis
  <2>5. ASSUME NEW t \in Tasks, cleanup_task(t)
        PROVE  TasksTypeOK'
    <3>1. tasks' \in [Instances -> SUBSET Tasks]
      BY <1>1, <2>5 DEF cleanup_task
    <3>2. redis_item_tasks' \in [Items -> SUBSET Tasks]
      BY <1>1, <2>5 DEF cleanup_task
    <3>3. lost' \in [unlisted : SUBSET Tasks, leftover : SUBSET Tasks]
      <4>1. redis_item_tasks[item_of[t]] \subseteq Tasks
        BY <1>1
      <4>2. \/ lost' = lost
            \/ lost' = [lost EXCEPT !.unlisted =
                          @ \cup (redis_item_tasks[item_of[t]] \ seen[t])]
        BY <2>5 DEF cleanup_task
      <4> QED
        BY <1>1, <4>1, <4>2
    <3>4. /\ cleanup' \in [Tasks -> {"none", "scheduled", "counted", "finished"}]
          /\ seen' \in [Tasks -> SUBSET Tasks]
      BY <1>1, <2>5 DEF cleanup_task
    <3> QED
      BY <1>1, <2>5, <3>1, <3>2, <3>3, <3>4 DEF cleanup_task
  <2>6. ASSUME NEW t \in Tasks, stop_task(t)
        PROVE  TasksTypeOK'
    BY <1>1, <2>6 DEF stop_task, Published
  <2>7. ASSUME NEW t \in Tasks, stop_item_tasks(t)
        PROVE  TasksTypeOK'
    BY <1>1, <2>7 DEF stop_item_tasks, Published
  <2>8. ASSUME NEW c \in Items, list_task_ids_by_item_id(c)
        PROVE  TasksTypeOK'
    BY <1>1, <2>8 DEF list_task_ids_by_item_id
  <2>9. ASSUME NEW i \in Instances, NEW t \in Tasks, redis_task_command_listener(i, t)
        PROVE  TasksTypeOK'
    BY <1>1, <2>9 DEF redis_task_command_listener
  <2>10. ASSUME NEW i \in Instances, subscribe(i)
         PROVE  TasksTypeOK'
    BY <1>1, <2>10 DEF subscribe
  <2> QED
    BY <2>1, <2>2, <2>3, <2>4, <2>5, <2>6, <2>7, <2>8, <2>9, <2>10 DEF TasksNext
<1> QED
  BY <1>2 DEF OpenWebUITypeOK, CleanupTypeOK, process_vars, lock_vars

LEMMA CleanupType ==
  ASSUME OpenWebUITypeOK, CleanupNext, UNCHANGED <<process_vars, task_vars>>
  PROVE  OpenWebUITypeOK'
<1> USE DEF CleanupTypeOK, Goto
<1>1. CleanupTypeOK
  BY DEF OpenWebUITypeOK
<1>2. CleanupTypeOK'
  <2>1. ASSUME NEW i \in Instances, aquire_lock(i)
        PROVE  CleanupTypeOK'
    BY <1>1, <2>1 DEF aquire_lock, SetLock
  <2>2. ASSUME NEW i \in Instances, aquire_retry(i)
        PROVE  CleanupTypeOK'
    <3>1. PICK d \in RetryDelays :
            /\ retry_delay' = [retry_delay EXCEPT ![i] = d]
            /\ timer' = [timer EXCEPT ![i] = d]
      BY <1>1, <2>2 DEF aquire_retry
    <3>d. d \in Nat
      BY DEF RetryDelays
    <3>2. attempt[i] + 1 \in 0 .. max_retries
      BY <1>1, <2>2 DEF aquire_retry, RetriesLeft
    <3> QED
      BY <1>1, <2>2, <3>1, <3>d, <3>2 DEF aquire_retry
  <2>3. ASSUME NEW i \in Instances, aquire_gives_up(i)
        PROVE  CleanupTypeOK'
    BY <1>1, <2>3 DEF aquire_gives_up
  <2>4. ASSUME NEW i \in Instances, renew_lock(i)
        PROVE  CleanupTypeOK'
    BY <1>1, <2>4 DEF renew_lock, SetLock, RenewedLifetime
  <2>5. ASSUME NEW i \in Instances, renew_lock_fails(i)
        PROVE  CleanupTypeOK'
    BY <1>1, <2>5 DEF renew_lock_fails
  <2>6. ASSUME NEW i \in Instances, release_lock_get(i)
        PROVE  CleanupTypeOK'
    BY <1>1, <2>6 DEF release_lock_get
  <2>7. ASSUME NEW i \in Instances, release_lock_delete(i)
        PROVE  CleanupTypeOK'
    BY <1>1, <2>7 DEF release_lock_delete
  <2>8. ASSUME NEW i \in Instances, shutdown(i)
        PROVE  CleanupTypeOK'
    BY <1>1, <2>8 DEF shutdown
  <2>9. ASSUME tick
        PROVE  CleanupTypeOK'
    <3>1. /\ ttl' \in 0 .. LockTimeout /\ timer' \in [Instances -> Nat]
          /\ lock_value' \in Instances \cup {Nobody, Dead}
      BY <1>1, <2>9 DEF tick
    <3>2. since' \in [Instances -> 0 .. LockTimeout]
      <4>1. \A i \in Instances : ~Late(i) /\ Cleaning(i) => since[i] + 1 \in 0 .. LockTimeout
        BY <1>1 DEF Late
      <4> QED
        BY <1>1, <2>9, <4>1 DEF tick
    <3>3. stalled' \in BOOLEAN
      BY <2>9, Zenon DEF tick
    <3> QED
      BY <1>1, <2>9, <3>1, <3>2, <3>3 DEF tick
  <2> QED
    BY <2>1, <2>2, <2>3, <2>4, <2>5, <2>6, <2>7, <2>8, <2>9 DEF CleanupNext, CleanupStep
<1> QED
  BY <1>2 DEF OpenWebUITypeOK, TasksTypeOK, process_vars, task_vars

(* Every variable of the processes, the registry and the lock has its type *)
(* in every reachable state.                                               *)
THEOREM TypesHold == Spec => []OpenWebUITypeOK
<1>1. Init => OpenWebUITypeOK
  <2> SUFFICES ASSUME Init PROVE OpenWebUITypeOK
    OBVIOUS
  <2>1. TasksTypeOK
    BY DEF Init, TasksInit, TasksTypeOK
  <2>2. CleanupTypeOK
    <3>1. contested \in [Instances -> BOOLEAN] /\ stalled \in BOOLEAN
      BY Zenon DEF Init, CleanupInit
    <3>2. 0 \in 0 .. max_retries /\ 0 \in 0 .. LockTimeout /\ LockTimeout \in RetryDelays
      BY DEF RetryDelays
    <3> QED
      BY <3>1, <3>2 DEF Init, CleanupInit, CleanupTypeOK
  <2> QED
    BY <2>1, <2>2 DEF Init, ProcessesInit, OpenWebUITypeOK
<1>2. OpenWebUITypeOK /\ [Next]_vars => OpenWebUITypeOK'
  <2> SUFFICES ASSUME OpenWebUITypeOK, [Next]_vars
               PROVE  OpenWebUITypeOK'
    OBVIOUS
  <2>1. CASE UNCHANGED vars
    BY <2>1 DEF vars, process_vars, task_vars, lock_vars, OpenWebUITypeOK, TasksTypeOK,
                CleanupTypeOK
  <2>2. CASE Next
    BY <2>2, StartType, DieType, TasksType, CleanupType DEF Next
  <2> QED
    BY <2>1, <2>2
<1> QED
  BY <1>1, <1>2, PTL DEF Spec

-----------------------------------------------------------------------------
(* The registry.                                                           *)

(* A task that has not been created has no history, one whose cleanup has  *)
(* begun is done, and a task is nowhere or in a process that is up: a      *)
(* process that is started again has none of its old tasks.                *)
Lives ==
  \A t \in Tasks :
    /\ creation[t] = "new" =>
         coroutine[t] = "new" /\ cleanup[t] = "none" /\ where[t] = NoWhere
    /\ cleanup[t] # "none" => coroutine[t] = "done"
    /\ where[t] = NoWhere \/ where[t] \in up

RegistryInv == OpenWebUITypeOK /\ Lives /\ RunningTasksAreListed

LEMMA StartRegistry ==
  ASSUME NEW i \in Instances, RegistryInv, start(i)
  PROVE  Lives' /\ RunningTasksAreListed'
<1> USE DEF RegistryInv, OpenWebUITypeOK, start, process_starts, task_vars
<1>1. Lives'
  BY DEF Lives
<1>2. \A t \in Tasks : Alive(t)' => Alive(t)
  BY DEF Lives, Alive
<1> QED
  BY <1>1, <1>2 DEF RunningTasksAreListed, Running

LEMMA DieRegistry ==
  ASSUME NEW i \in Instances, RegistryInv, die(i)
  PROVE  Lives' /\ RunningTasksAreListed'
<1> USE DEF RegistryInv, OpenWebUITypeOK, die, process_dies, tasks_die
<1>1. Lives'
  BY DEF Lives
<1>2. \A t \in Tasks : Alive(t)' => Alive(t) /\ coroutine'[t] = coroutine[t]
  BY DEF Alive
<1> QED
  BY <1>1, <1>2 DEF RunningTasksAreListed, Running

LEMMA TasksRegistry ==
  ASSUME RegistryInv, TasksNext, UNCHANGED process_vars
  PROVE  Lives' /\ RunningTasksAreListed'
<1> DEFINE Goal == Lives' /\ RunningTasksAreListed'
<1> USE DEF RegistryInv, OpenWebUITypeOK, TasksTypeOK, process_vars
<1>1. ASSUME NEW i \in Instances, NEW t \in Tasks, create_task(i, t)
      PROVE  Goal
  BY <1>1 DEF create_task, Lives, RunningTasksAreListed, Alive, Running
<1>2. ASSUME NEW t \in Tasks, redis_save_task(t)
      PROVE  Goal
  BY <1>2 DEF redis_save_task, Lives, RunningTasksAreListed, Alive, Running
<1>3. ASSUME NEW t \in Tasks, finish(t)
      PROVE  Goal
  BY <1>3 DEF finish, Lives, RunningTasksAreListed, Alive, Running
<1>4. ASSUME NEW t \in Tasks, redis_cleanup_task(t)
      PROVE  Goal
  BY <1>4 DEF redis_cleanup_task, RemovedFromRedis, Lives, RunningTasksAreListed, Alive,
              Running
<1>5. ASSUME NEW t \in Tasks, cleanup_task(t)
      PROVE  Goal
  <2>1. Lives'
    BY <1>5 DEF cleanup_task, Lives
  <2>2. ASSUME NEW u \in Tasks, (Alive(u) /\ Running(u) /\ creation[u] = "returned")'
        PROVE  (/\ u \in redis_tasks
                /\ u \in redis_item_tasks[item_of[u]] \/ u \in lost.unlisted)'
    BY <1>5, <2>2 DEF cleanup_task, IsEmpty, RunningTasksAreListed, Alive, Running
  <2> QED
    BY <2>1, <2>2 DEF RunningTasksAreListed
<1>6. ASSUME NEW t \in Tasks, stop_task(t)
      PROVE  Goal
  BY <1>6 DEF stop_task, Lives, RunningTasksAreListed, Alive, Running
<1>7. ASSUME NEW t \in Tasks, stop_item_tasks(t)
      PROVE  Goal
  BY <1>7 DEF stop_item_tasks, Lives, RunningTasksAreListed, Alive, Running
<1>8. ASSUME NEW c \in Items, list_task_ids_by_item_id(c)
      PROVE  Goal
  BY <1>8 DEF list_task_ids_by_item_id, Lives, RunningTasksAreListed, Alive, Running
<1>9. ASSUME NEW i \in Instances, NEW t \in Tasks, redis_task_command_listener(i, t)
      PROVE  Goal
  BY <1>9 DEF redis_task_command_listener, Lives, RunningTasksAreListed, Alive, Running
<1>10. ASSUME NEW i \in Instances, subscribe(i)
       PROVE  Goal
  BY <1>10 DEF subscribe, Lives, RunningTasksAreListed, Alive, Running
<1> QED
  BY <1>1, <1>2, <1>3, <1>4, <1>5, <1>6, <1>7, <1>8, <1>9, <1>10 DEF TasksNext

(* A task that runs and whose id was given out can be listed and stopped   *)
(* from every process, unless the cleanup of another task of its item      *)
(* deleted the item's set between the size query and the delete.           *)
THEOREM RegistryComplete == Spec => []RunningTasksAreListed
<1>1. Init => Lives /\ RunningTasksAreListed
  BY DEF Init, TasksInit, Lives, RunningTasksAreListed, Running
<1>2. RegistryInv /\ [Next]_vars => Lives' /\ RunningTasksAreListed'
  <2> SUFFICES ASSUME RegistryInv, [Next]_vars
               PROVE  Lives' /\ RunningTasksAreListed'
    OBVIOUS
  <2>1. CASE UNCHANGED <<process_vars, task_vars>>
    BY <2>1 DEF RegistryInv, process_vars, task_vars, Lives, RunningTasksAreListed, Alive,
                Running
  <2> QED
    BY <2>1, StartRegistry, DieRegistry, TasksRegistry DEF Next, vars
<1> QED
  BY <1>1, <1>2, TypesHold, PTL DEF Spec, RegistryInv

-----------------------------------------------------------------------------
(* The lock.                                                               *)

(* While no cleaner is late, one that cleans up holds the lock, whose age  *)
(* and remaining life make up its lifetime.                                *)
Leases ==
  /\ lock_value # Nobody => ttl >= 1
  /\ ~stalled => \A i \in Instances :
       Cleaning(i) => Held(i) /\ ttl + since[i] = LockTimeout

(* A process that still tries, with no new or renewed lock since its first *)
(* attempt, has waited for as long as the lock it met has got older.       *)
Patience ==
  /\ \A i \in Instances : cleaner[i] = "skipped" => contested[i]
  /\ \A i \in Instances :
       cleaner[i] = "trying" /\ attempt[i] > 0 /\ ~contested[i] /\ lock_value # Nobody =>
         ttl + attempt[i] * retry_delay[i] - timer[i] <= LockTimeout

LockInv == OpenWebUITypeOK /\ Leases /\ Patience

LEMMA StartLock ==
  ASSUME NEW i \in Instances, LockInv, start(i)
  PROVE  Leases' /\ Patience'
<1> USE DEF LockInv, OpenWebUITypeOK, CleanupTypeOK, start, cleanup_starts, Goto
<1>1. Leases'
  BY DEF Leases, Held, Cleaning
<1>2. Patience'
  BY DEF Patience
<1> QED
  BY <1>1, <1>2

LEMMA DieLock ==
  ASSUME NEW i \in Instances, LockInv, die(i)
  PROVE  Leases' /\ Patience'
<1> USE DEF LockInv, OpenWebUITypeOK, CleanupTypeOK, die, cleanup_dies, Goto, Held
<1>1. Leases'
  BY DEF Leases, Nobody, Dead, Cleaning
<1>2. Patience'
  BY DEF Patience
<1> QED
  BY <1>1, <1>2

(* Setting the lock is a new start for everyone who has tried before.      *)
LEMMA SetLockPatience ==
  ASSUME NEW i \in Instances, NEW lifetime, LockInv, SetLock(i, lifetime),
         NEW label \in {"cleaning", "resting"}, Goto(i, label), UNCHANGED attempt
  PROVE  Patience'
<1>1. \A j \in Instances : attempt[j] > 0 => contested'[j]
  BY Zenon DEF SetLock
<1>2. \A j \in Instances : contested[j] => contested'[j]
  BY Zenon DEF SetLock
<1>3. \A j \in Instances : cleaner'[j] = "skipped" => cleaner[j] = "skipped"
  BY DEF LockInv, OpenWebUITypeOK, CleanupTypeOK, Goto
<1> QED
  BY <1>1, <1>2, <1>3 DEF LockInv, Patience

(* The process that sets the lock is the only one that cleans up, since    *)
(* another one would hold it.                                              *)
LEMMA SetLockLeases ==
  ASSUME NEW i \in Instances, LockInv, SetLock(i, LockTimeout),
         NEW label \in {"cleaning", "resting"}, Goto(i, label), UNCHANGED stalled,
         lock_value = Nobody \/ Cleaning(i)
  PROVE  Leases'
<1> USE DEF LockInv, OpenWebUITypeOK, CleanupTypeOK
<1>1. lock_value' = i /\ ttl' = LockTimeout /\ since'[i] = 0
  BY DEF SetLock
<1>2. ASSUME ~stalled, NEW j \in Instances, Cleaning(j)'
      PROVE  j = i
  <2> SUFFICES ASSUME j # i PROVE FALSE
    OBVIOUS
  <2>1. Cleaning(j)
    BY <1>2 DEF Goto, Cleaning
  <2>2. Held(j)
    BY <1>2, <2>1 DEF Leases
  <2> QED
    BY <1>2, <2>2 DEF Leases, Held
<1> QED
  BY <1>1, <1>2 DEF Leases, Held

(* Nobody sets the lock, and i does not give up.                           *)
LEMMA KeptPatience ==
  ASSUME NEW i \in Instances, LockInv, NEW label \in {"releasing", "deleting", "ended"},
         Goto(i, label), lock_value' \in {lock_value, Nobody}, lock_value' # Nobody => ttl' = ttl,
         UNCHANGED <<attempt, retry_delay, timer, contested>>
  PROVE  Patience'
BY DEF LockInv, OpenWebUITypeOK, CleanupTypeOK, Goto, Patience

(* A delay that is at least half of the lifetime, twice.                   *)
LEMMA TwoDelays ==
  ASSUME NEW a \in Nat, a >= 2, NEW d \in RetryDelays
  PROVE  a * d \in Nat /\ a * d >= LockTimeout
<1>1. d \in Nat /\ 2 * d >= LockTimeout
  BY DEF RetryDelays
<1>2. PICK b \in Nat : a = b + 2
  <2>1. a - 2 \in Nat /\ a = (a - 2) + 2
    OBVIOUS
  <2> QED
    BY <2>1
<1>3. (b + 2) * d = b * d + 2 * d /\ b * d \in Nat
  BY <1>1
<1> QED
  BY <1>1, <1>2, <1>3

LEMMA CleanupLock ==
  ASSUME LockInv, CleanupNext
  PROVE  Leases' /\ Patience'
<1> DEFINE Goal == Leases' /\ Patience'
<1>t. OpenWebUITypeOK /\ CleanupTypeOK /\ Leases /\ Patience
  BY DEF LockInv, OpenWebUITypeOK
<1>1. ASSUME NEW i \in Instances, aquire_lock(i)
      PROVE  Goal
  BY <1>1, SetLockLeases, SetLockPatience DEF aquire_lock
<1>2. ASSUME NEW i \in Instances, aquire_retry(i)
      PROVE  Goal
  <2>1. Leases'
    BY <1>t, <1>2 DEF aquire_retry, Leases, Held, Cleaning
  <2>2. PICK d \in RetryDelays :
          /\ retry_delay' = [retry_delay EXCEPT ![i] = d]
          /\ timer' = [timer EXCEPT ![i] = d]
          /\ attempt[i] = 0 \/ d = retry_delay[i]
    <3>1. retry_delay[i] \in RetryDelays
      BY <1>t DEF CleanupTypeOK
    <3>2. CASE attempt[i] = 0
      <4>1. PICK d \in RetryDelays : /\ retry_delay' = [retry_delay EXCEPT ![i] = d]
                                     /\ timer' = [timer EXCEPT ![i] = d]
        BY <1>2, <3>2, Zenon DEF aquire_retry
      <4> QED
        BY <3>2, <4>1, Zenon
    <3>3. CASE attempt[i] # 0
      <4>1. /\ retry_delay' = [retry_delay EXCEPT ![i] = retry_delay[i]]
            /\ timer' = [timer EXCEPT ![i] = retry_delay[i]]
        BY <1>2, <3>3, Zenon DEF aquire_retry
      <4> QED
        BY <3>1, <4>1, Zenon
    <3> QED
      BY <3>2, <3>3
  <2>d. d \in Nat
    BY DEF RetryDelays
  <2>3. ASSUME NEW j \in Instances, j # i
        PROVE  /\ attempt'[j] = attempt[j] /\ timer'[j] = timer[j]
               /\ retry_delay'[j] = retry_delay[j]
    BY <1>t, <1>2, <2>2, <2>3 DEF aquire_retry, CleanupTypeOK
  <2>4. ASSUME ~contested[i]
        PROVE  ttl + attempt'[i] * retry_delay'[i] - timer'[i] <= LockTimeout
    <3>1. attempt'[i] = attempt[i] + 1 /\ timer'[i] = d /\ retry_delay'[i] = d
      BY <1>t, <1>2, <2>2 DEF aquire_retry, CleanupTypeOK
    <3>2. attempt[i] \in Nat /\ ttl \in Nat /\ ttl <= LockTimeout
      BY <1>t DEF CleanupTypeOK
    <3>3. attempt[i] * d \in Nat /\ (attempt[i] + 1) * d = attempt[i] * d + d
      BY <2>d, <3>2
    <3>4. ttl + attempt[i] * d <= LockTimeout
      <4>1. CASE attempt[i] = 0
        BY <2>d, <3>2, <4>1
      <4>2. CASE attempt[i] > 0
        BY <1>t, <1>2, <2>2, <2>4, <3>2, <3>3, <4>2 DEF aquire_retry, Patience
      <4> QED
        BY <3>2, <4>1, <4>2
    <3> QED
      BY <2>d, <3>1, <3>2, <3>3, <3>4
  <2>5. Patience'
    <3>1. UNCHANGED <<lock_value, ttl, cleaner, contested>>
      BY <1>2 DEF aquire_retry
    <3>2. \A j \in Instances : cleaner'[j] = "skipped" => contested'[j]
      BY <1>t, <3>1 DEF Patience
    <3>3. ASSUME NEW j \in Instances,
                 (cleaner[j] = "trying" /\ attempt[j] > 0 /\ ~contested[j] /\ lock_value # Nobody)'
          PROVE  (ttl + attempt[j] * retry_delay[j] - timer[j] <= LockTimeout)'
      <4>1. CASE j = i
        BY <2>4, <3>1, <3>3, <4>1
      <4>2. CASE j # i
        BY <1>t, <2>3, <3>1, <3>3, <4>2 DEF Patience
      <4> QED
        BY <4>1, <4>2
    <3> QED
      BY <3>2, <3>3 DEF Patience
  <2> QED
    BY <2>1, <2>5
<1>3. ASSUME NEW i \in Instances, aquire_gives_up(i)
      PROVE  Goal
  <2>1. Leases'
    BY <1>t, <1>3 DEF aquire_gives_up, Goto, CleanupTypeOK, Leases, Held, Cleaning
  <2>2. contested[i]
    <3> SUFFICES ASSUME ~contested[i] PROVE FALSE
      OBVIOUS
    <3>1. /\ attempt[i] \in Nat /\ attempt[i] >= 2 /\ timer[i] = 0 /\ ttl \in Nat
          /\ lock_value # Nobody /\ cleaner[i] = "trying" /\ retry_delay[i] \in RetryDelays
      BY <1>t, <1>3 DEF aquire_gives_up, RetriesLeft, CleanupTypeOK
    <3>2. ttl + attempt[i] * retry_delay[i] - timer[i] <= LockTimeout /\ ttl >= 1
      BY <1>t, <3>1 DEF Patience, Leases
    <3>3. /\ attempt[i] * retry_delay[i] \in Nat
          /\ attempt[i] * retry_delay[i] >= LockTimeout
      BY <3>1, TwoDelays
    <3> QED
      BY <3>1, <3>2, <3>3
  <2>3. Patience'
    BY <1>t, <1>3, <2>2 DEF aquire_gives_up, Goto, CleanupTypeOK, Patience
  <2> QED
    BY <2>1, <2>3
<1>4. ASSUME NEW i \in Instances, renew_lock(i)
      PROVE  Goal
  <2>1. Cleaning(i)
    BY <1>4 DEF renew_lock, Awake, Cleaning
  <2> QED
    BY <1>4, <2>1, SetLockLeases, SetLockPatience DEF renew_lock, RenewedLifetime
<1>5. ASSUME NEW i \in Instances, renew_lock_fails(i)
      PROVE  Goal
  <2>1. Leases'
    BY <1>t, <1>5 DEF renew_lock_fails, Awake, Goto, CleanupTypeOK, Leases, Held, Cleaning
  <2> QED
    BY <1>5, <2>1, KeptPatience DEF renew_lock_fails
<1>6. ASSUME NEW i \in Instances, release_lock_get(i)
      PROVE  Goal
  <2>1. Leases'
    BY <1>t, <1>6 DEF release_lock_get, Goto, CleanupTypeOK, Leases, Held, Cleaning
  <2> QED
    BY <1>6, <2>1, KeptPatience DEF release_lock_get
<1>7. ASSUME NEW i \in Instances, release_lock_delete(i)
      PROVE  Goal
  <2>1. Leases'
    BY <1>t, <1>7 DEF release_lock_delete, Goto, CleanupTypeOK, Leases, Held, Cleaning
  <2> QED
    BY <1>7, <2>1, KeptPatience DEF release_lock_delete
<1>8. ASSUME NEW i \in Instances, shutdown(i)
      PROVE  Goal
  <2>1. Leases'
    BY <1>t, <1>8 DEF shutdown, Goto, CleanupTypeOK, Leases, Held, Cleaning
  <2> QED
    BY <1>8, <2>1, KeptPatience DEF shutdown
<1>9. ASSUME tick
      PROVE  Goal
  <2>1. Leases'
    <3>1. ttl' \in Nat /\ (ttl > 0 => ttl' = ttl - 1)
      BY <1>t, <1>9 DEF tick, CleanupTypeOK
    <3>2. lock_value' # Nobody => ttl' >= 1
      <4>1. lock_value' # Nobody => ttl' # 0
        BY <1>9, Zenon DEF tick
      <4> QED
        BY <3>1, <4>1
    <3>3. ASSUME ~stalled', NEW i \in Instances, Cleaning(i)'
          PROVE  lock_value' = i /\ ttl' + since'[i] = LockTimeout
      <4>1. ~stalled /\ ~Late(i)
        BY <1>9, <3>3, Zenon DEF tick
      <4>2. Cleaning(i)
        BY <1>9, <3>3 DEF tick, Cleaning
      <4>3. since'[i] = since[i] + 1 /\ since[i] \in Nat /\ since[i] + 1 < LockTimeout
        BY <1>t, <1>9, <4>1, <4>2 DEF tick, Late, CleanupTypeOK
      <4>4. lock_value = i /\ ttl + since[i] = LockTimeout /\ ttl \in Nat
        BY <1>t, <4>1, <4>2 DEF Leases, Held, CleanupTypeOK
      <4>5. ttl' = ttl - 1 /\ ttl' # 0
        BY <3>1, <4>3, <4>4
      <4> QED
        BY <1>9, <4>3, <4>4, <4>5 DEF tick
    <3> QED
      BY <3>2, <3>3 DEF Leases, Held
  <2>2. ASSUME NEW j \in Instances,
               (cleaner[j] = "trying" /\ attempt[j] > 0 /\ ~contested[j] /\ lock_value # Nobody)'
        PROVE  (ttl + attempt[j] * retry_delay[j] - timer[j] <= LockTimeout)'
    <3>1. /\ ttl + attempt[j] * retry_delay[j] - timer[j] <= LockTimeout
          /\ attempt'[j] = attempt[j] /\ retry_delay'[j] = retry_delay[j]
          /\ ttl > 0 /\ ttl' = ttl - 1
      BY <1>t, <1>9, <2>2 DEF tick, CleanupTypeOK, Patience
    <3>2. timer'[j] = IF timer[j] > 0 THEN timer[j] - 1 ELSE 0
      BY <1>t, <1>9 DEF tick
    <3>3. /\ attempt[j] \in Nat /\ retry_delay[j] \in Nat
          /\ timer[j] \in Nat /\ ttl \in Nat
      BY <1>t DEF CleanupTypeOK, RetryDelays
    <3>4. attempt[j] * retry_delay[j] \in Nat
      BY <3>3
    <3> QED
      BY <3>1, <3>2, <3>3, <3>4
  <2>3. \A j \in Instances : cleaner'[j] = "skipped" => contested'[j]
    BY <1>t, <1>9 DEF tick, CleanupTypeOK, Patience
  <2> QED
    BY <2>1, <2>2, <2>3 DEF Patience
<1> QED
  BY <1>1, <1>2, <1>3, <1>4, <1>5, <1>6, <1>7, <1>8, <1>9 DEF CleanupNext, CleanupStep

(* What both theorems about the lock rest on.                              *)
LEMMA LockInvariant == Spec => []LockInv
<1>1. Init => Leases /\ Patience
  BY DEF Init, CleanupInit, Leases, Patience, Cleaning
<1>2. LockInv /\ [Next]_vars => Leases' /\ Patience'
  <2> SUFFICES ASSUME LockInv, [Next]_vars
               PROVE  Leases' /\ Patience'
    OBVIOUS
  <2>1. CASE UNCHANGED lock_vars
    BY <2>1 DEF LockInv, lock_vars, Leases, Patience, Held, Cleaning
  <2> QED
    BY <2>1, StartLock, DieLock, CleanupLock DEF Next, vars
<1> QED
  BY <1>1, <1>2, TypesHold, PTL DEF Spec, LockInv

(* As long as no cleaner lets the lifetime of its lock pass, at most one   *)
(* process cleans up, and it holds the lock all the time, whatever the     *)
(* others do and however long it sleeps between two renewals.              *)
THEOREM AtMostOneCleaner == Spec => []OneCleaner
<1>1. LockInv => OneCleaner
  BY DEF LockInv, Leases, OneCleaner
<1> QED
  BY <1>1, LockInvariant, PTL

(* No process gives up because of the lock of one that has died before:    *)
(* its retries outlast the lock's lifetime.                                *)
THEOREM GivesUpOnlyIfContested == Spec => []GivesUpForTheLiving
<1>1. LockInv => GivesUpForTheLiving
  BY DEF LockInv, Patience, GivesUpForTheLiving
<1> QED
  BY <1>1, LockInvariant, PTL
=============================================================================
