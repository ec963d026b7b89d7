------------------------------ MODULE Processes ------------------------------
(***************************************************************************)
(* The server processes (workers, replicas) of Open WebUI, which share a   *)
(* Redis and nothing else.  A process that dies is started again by its    *)
(* supervisor, with nothing in memory.                                     *)
(***************************************************************************)
EXTENDS Integers, FiniteSets

CONSTANTS
  Instances,
  MaxCrashes    \* bound

ASSUME ProcessesAssumption == MaxCrashes \in Nat

VARIABLES
  up,           \* processes that run
  crashes       \* how often a process has died

process_vars == <<up, crashes>>

ProcessesInit == up = {} /\ crashes = 0

process_starts(i) ==
  /\ i \notin up
  /\ up' = up \cup {i}
  /\ UNCHANGED crashes

process_dies(i) ==
  /\ i \in up /\ crashes < MaxCrashes
  /\ up' = up \ {i}
  /\ crashes' = crashes + 1
=============================================================================
