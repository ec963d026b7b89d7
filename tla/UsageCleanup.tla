----------------------------- MODULE UsageCleanup -----------------------------
(***************************************************************************)
(* periodic_usage_pool_cleanup of Open WebUI (socket/main.py) and the      *)
(* RedisLock that makes one process do it (socket/utils.py).               *)
(*                                                                         *)
(* Time goes by in units of any length.  A process has a new lock_id       *)
(* whenever it is started: the lock of a dead one belongs to nobody alive. *)
(***************************************************************************)
EXTENDS Processes

CONSTANTS
  max_retries,     \* 2 in periodic_usage_pool_cleanup
  LockTimeout,     \* WEBSOCKET_REDIS_LOCK_TIMEOUT
  TimeoutDuration  \* TIMEOUT_DURATION, what a cleaner sleeps for

Nobody == "nobody"
Dead   == "dead"

ASSUME CleanupAssumption ==
  /\ max_retries \in Nat /\ max_retries >= 2
  /\ LockTimeout \in Nat \ {0} /\ TimeoutDuration \in Nat
  /\ Nobody \notin Instances /\ Dead \notin Instances

(* The random choice: between half of the lifetime and all of it.          *)
RetryDelays == {d \in 1 .. LockTimeout : 2 * d >= LockTimeout}

VARIABLES
  lock_value,   \* whose lock_id the key holds
  ttl,          \* units until the key expires
  cleaner,      \* where every process's coroutine is
  attempt,
  retry_delay,  \* the random choice, made when it is first used
  timer,        \* units that the coroutine still sleeps
  contested,    \* history: the lock was set since the process's first attempt
  since,        \* history: units since a cleaner last set the lock
  stalled       \* history: a cleaner let the lifetime of its lock pass

lock_vars == <<lock_value, ttl, cleaner, attempt, retry_delay, timer, contested, since, stalled>>

CleanupInit ==
  /\ lock_value = Nobody /\ ttl = 0
  /\ cleaner = [i \in Instances |-> "off"]
  /\ attempt = [i \in Instances |-> 0]
  /\ retry_delay = [i \in Instances |-> LockTimeout]
  /\ timer = [i \in Instances |-> 0]
  /\ contested = [i \in Instances |-> FALSE]
  /\ since = [i \in Instances |-> 0] /\ stalled = FALSE

Goto(i, label) == cleaner' = [cleaner EXCEPT ![i] = label]
Held(i) == lock_value = i

(* The key is set, by aquire_lock (nx) or renew_lock (xx).                 *)
SetLock(i, lifetime) ==
  /\ lock_value' = i
  /\ ttl' = lifetime
  /\ since' = [since EXCEPT ![i] = 0]
  /\ contested' = [j \in Instances |-> contested[j] \/ attempt[j] > 0]

cleanup_starts(i) ==
  /\ Goto(i, "trying")
  /\ attempt' = [attempt EXCEPT ![i] = 0]
  /\ timer' = [timer EXCEPT ![i] = 0]
  /\ contested' = [contested EXCEPT ![i] = FALSE]
  /\ UNCHANGED <<lock_value, ttl, retry_delay, since, stalled>>

aquire_lock(i) ==
  /\ cleaner[i] = "trying" /\ timer[i] = 0 /\ lock_value = Nobody
  /\ SetLock(i, LockTimeout)
  /\ Goto(i, "cleaning")
  /\ UNCHANGED <<attempt, retry_delay, timer, stalled>>

(* Faulty variants: one attempt fewer, and one more.                       *)
RetriesButOne(i) == attempt[i] + 1 < max_retries
RetriesOnceMore(i) == attempt[i] <= max_retries
RetriesLeft(i) == attempt[i] < max_retries

aquire_retry(i) ==
  /\ cleaner[i] = "trying" /\ timer[i] = 0 /\ lock_value # Nobody
  /\ RetriesLeft(i)
  /\ attempt' = [attempt EXCEPT ![i] = @ + 1]
  /\ \E d \in IF attempt[i] = 0 THEN RetryDelays ELSE {retry_delay[i]} :
       /\ retry_delay' = [retry_delay EXCEPT ![i] = d]
       /\ timer' = [timer EXCEPT ![i] = d]
  /\ UNCHANGED <<lock_value, ttl, cleaner, contested, since, stalled>>

aquire_gives_up(i) ==
  /\ cleaner[i] = "trying" /\ timer[i] = 0 /\ lock_value # Nobody
  /\ ~RetriesLeft(i)
  /\ Goto(i, "skipped")
  /\ UNCHANGED <<lock_value, ttl, attempt, retry_delay, timer, contested, since, stalled>>

(* A round of the loop: the lock, whoever's it is, becomes the process's   *)
(* own; expired connections leave the pool; sleep.                         *)
(* Faulty variant: the renewal does not prolong the lock's life.           *)
OldLifetime == ttl
RenewedLifetime == LockTimeout

Awake(i) == cleaner[i] = "cleaning" \/ (cleaner[i] = "resting" /\ timer[i] = 0)

renew_lock(i) ==
  /\ Awake(i) /\ lock_value # Nobody
  /\ SetLock(i, RenewedLifetime)
  /\ Goto(i, "resting")
  /\ timer' = [timer EXCEPT ![i] = TimeoutDuration]
  /\ UNCHANGED <<attempt, retry_delay, stalled>>

renew_lock_fails(i) ==
  /\ Awake(i) /\ lock_value = Nobody
  /\ Goto(i, "releasing")
  /\ UNCHANGED <<lock_value, ttl, attempt, retry_delay, timer, contested, since, stalled>>

(* The event loop of a process that is shut down cancels the coroutine.    *)
shutdown(i) ==
  /\ cleaner[i] = "resting"
  /\ Goto(i, "releasing")
  /\ UNCHANGED <<lock_value, ttl, attempt, retry_delay, timer, contested, since, stalled>>

(* release_lock, two commands.                                             *)
release_lock_get(i) ==
  /\ cleaner[i] = "releasing"
  /\ Goto(i, IF Held(i) THEN "deleting" ELSE "ended")
  /\ UNCHANGED <<lock_value, ttl, attempt, retry_delay, timer, contested, since, stalled>>

release_lock_delete(i) ==
  /\ cleaner[i] = "deleting"
  /\ lock_value' = Nobody /\ ttl' = 0
  /\ Goto(i, "ended")
  /\ UNCHANGED <<attempt, retry_delay, timer, contested, since, stalled>>

cleanup_dies(i) ==
  /\ Goto(i, "off")
  /\ lock_value' = IF Held(i) THEN Dead ELSE lock_value
  /\ UNCHANGED <<ttl, attempt, retry_delay, timer, contested, since, stalled>>

(* A unit of time goes by.  A cleaner should renew or release the lock     *)
(* before the lifetime of its last setting is over; but the event loop of  *)
(* its process may be busy, or its sleep as long as that.                  *)
Cleaning(i) == cleaner[i] \in {"cleaning", "resting", "releasing", "deleting"}
Late(i) == Cleaning(i) /\ since[i] + 1 >= LockTimeout

tick ==
  /\ lock_value # Nobody \/ \E i \in Instances : timer[i] > 0
  /\ stalled' = (stalled \/ \E i \in Instances : Late(i))
  /\ since' = [i \in Instances |-> IF Cleaning(i) /\ ~Late(i) THEN since[i] + 1 ELSE since[i]]
  /\ ttl' = IF ttl > 0 THEN ttl - 1 ELSE 0
  /\ lock_value' = IF ttl' = 0 THEN Nobody ELSE lock_value
  /\ timer' = [i \in Instances |-> IF timer[i] > 0 THEN timer[i] - 1 ELSE 0]
  /\ UNCHANGED <<cleaner, attempt, retry_delay, contested>>

CleanupStep(i) ==
  \/ aquire_lock(i) \/ aquire_retry(i) \/ aquire_gives_up(i)
  \/ renew_lock(i) \/ renew_lock_fails(i) \/ release_lock_get(i) \/ release_lock_delete(i)

CleanupNext ==
  \/ \E i \in Instances : CleanupStep(i) \/ shutdown(i)
  \/ tick

-----------------------------------------------------------------------------
CleanupTypeOK ==
  /\ lock_value \in Instances \cup {Nobody, Dead}
  /\ ttl \in 0 .. LockTimeout
  /\ cleaner \in [Instances -> {"off", "trying", "cleaning", "resting", "releasing",
                                "deleting", "skipped", "ended"}]
  /\ attempt \in [Instances -> 0 .. max_retries]
  /\ timer \in [Instances -> Nat] /\ retry_delay \in [Instances -> RetryDelays]
  /\ contested \in [Instances -> BOOLEAN] /\ stalled \in BOOLEAN
  /\ since \in [Instances -> 0 .. LockTimeout]

(* As long as no cleaner lets the lifetime of its lock pass, one process   *)
(* cleans up: from aquire_lock to release_lock it holds the lock, through  *)
(* every renewal and whatever other processes start, stop or die           *)
(* meanwhile.                                                              *)
OneCleaner ==
  ~stalled => \A i \in Instances : Cleaning(i) => Held(i)

(* A process gives up only because another one took or renewed the lock    *)
(* after its first attempt: three attempts outlast the lock of a process   *)
(* that had died before.                                                   *)
GivesUpForTheLiving ==
  \A i \in Instances : cleaner[i] = "skipped" => contested[i]
=============================================================================
