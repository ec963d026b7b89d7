------------------------------ MODULE OpenWebUI ------------------------------
(***************************************************************************)
(* Open WebUI processes: every one runs background tasks, listens to the   *)
(* stop commands and tries to be the one that cleans up the usage pool;    *)
(* when it dies all three go with it.                                      *)
(***************************************************************************)
EXTENDS BackgroundTasks, UsageCleanup

CONSTANT
  Focuses       \* bound: the parts that move in a behaviour

ASSUME FocusAssumption == Focuses \subseteq SUBSET {"tasks", "cleanup"}

(* The tasks and the cleanup share nothing but the lives of the processes, *)
(* so a behaviour that lets only one of them move leaves nothing out.      *)
VARIABLE focus

vars == <<focus, process_vars, task_vars, lock_vars>>

Init == focus \in Focuses /\ ProcessesInit /\ TasksInit /\ CleanupInit

start(i) == process_starts(i) /\ cleanup_starts(i) /\ UNCHANGED <<focus, task_vars>>
die(i) == process_dies(i) /\ tasks_die(i) /\ cleanup_dies(i) /\ UNCHANGED focus

Next ==
  \/ \E i \in Instances : start(i) \/ die(i)
  \/ "tasks" \in focus /\ TasksNext /\ UNCHANGED <<focus, process_vars, lock_vars>>
  \/ "cleanup" \in focus /\ CleanupNext /\ UNCHANGED <<focus, process_vars, task_vars>>

Spec == Init /\ [][Next]_vars

(* The event loop of a process that runs goes on, Redis answers, and a     *)
(* coroutine that is cancelled ends.  A task takes each of its steps once, *)
(* so that all of them together can be asked to be fair.                   *)
Only(A) == "tasks" \in focus /\ A /\ UNCHANGED <<focus, process_vars, lock_vars>>
TaskStep(t) == redis_save_task(t) \/ Cancelled(t) \/ redis_cleanup_task(t) \/ cleanup_task(t)
FairSpec ==
  /\ Spec
  /\ \A t \in Tasks : WF_vars(Only(TaskStep(t)))
  /\ \A i \in Instances, t \in Tasks : WF_vars(Only(redis_task_command_listener(i, t)))

OpenWebUITypeOK ==
  up \subseteq Instances /\ crashes \in 0 .. MaxCrashes /\ TasksTypeOK /\ CleanupTypeOK
=============================================================================
