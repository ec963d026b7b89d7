-------------------------- MODULE DataParallelWaves --------------------------
(***************************************************************************)
(* Request waves of data-parallel vLLM engines: DPEngineCoreProc           *)
(* (v1/engine/core.py), DPCoordinatorProc (coordinator.py) and the API     *)
(* servers' DPAsyncMPClient (core_client.py).                              *)
(*                                                                         *)
(* The engines of a mixture-of-experts model compute in lockstep: a        *)
(* forward pass, be it a dummy one, needs all of them.  So an engine that  *)
(* gets a request while all are paused has to have the others woken up,    *)
(* by the coordinator's START_DP_WAVE, and all of them pause together,     *)
(* which every SyncPeriod-th step decides by an all-reduce.  "Waves" count *)
(* the pauses and tell stale messages from new ones.                       *)
(*                                                                         *)
(* Every arrow below is a channel that keeps its messages in order;        *)
(* channels are independent of each other.                                 *)
(*   client -> engine       ADD with the wave that the client knows        *)
(*   client -> coordinator  a request was sent to a paused engine          *)
(*   coordinator -> engine  START_DP_WAVE                                  *)
(*   engine -> coordinator  wave_complete (rank 0), start_wave             *)
(*   coordinator -> client  wave number and running state                  *)
(***************************************************************************)
EXTENDS Integers, Sequences, FiniteSets

CONSTANTS
  Clients,      \* API servers
  MaxRank,      \* the engines are ranks 0 .. MaxRank
  Requests,
  SyncPeriod,   \* 32 in _has_global_unfinished_reqs
  PromptClient  \* a FIRST_REQ is forwarded before the wave it is about ends

ASSUME WavesAssumption ==
  MaxRank \in Nat /\ SyncPeriod \in Nat \ {0} /\ PromptClient \in BOOLEAN

Engines == 0 .. MaxRank
Nobody  == -1          \* exclude_engine_index None

VARIABLES
  current_wave,     \* of every engine
  engines_running,  \* of every engine
  unfinished,       \* requests that the engine's scheduler holds
  in_step,          \* engines that have begun a step of the busy loop
  step_counter,     \* the same in all engines, since they step together
  coordinator,      \* the coordinator's wave and running
  client,           \* every client's wave and running
  events,           \* what the client's stats task was woken up for
  first_req,        \* FIRST_REQ on the client's inproc socket
  adds,             \* client -> engine
  to_coordinator,   \* client -> coordinator
  starts,           \* coordinator -> engine
  outputs,          \* engine -> coordinator
  updates,          \* coordinator -> client
  sent              \* history: requests that were sent

engine_vars == <<current_wave, engines_running, unfinished, in_step, step_counter>>
channels    == <<first_req, adds, to_coordinator, starts, outputs, updates>>
vars == <<engine_vars, coordinator, client, events, channels, sent>>

Init ==
  /\ current_wave = [e \in Engines |-> 0]
  /\ engines_running = [e \in Engines |-> FALSE]
  /\ unfinished = [e \in Engines |-> {}]
  /\ in_step = {} /\ step_counter = 0
  /\ coordinator = [wave |-> 0, running |-> FALSE]
  /\ client = [c \in Clients |-> [wave |-> 0, running |-> FALSE]]
  /\ events = [c \in Clients |-> {}]
  /\ first_req = [c \in Clients |-> <<>>]
  /\ adds = [c \in Clients |-> [e \in Engines |-> <<>>]]
  /\ to_coordinator = [c \in Clients |-> <<>>]
  /\ starts = [e \in Engines |-> <<>>]
  /\ outputs = [e \in Engines |-> <<>>]
  /\ updates = [c \in Clients |-> <<>>]
  /\ sent = {}

-----------------------------------------------------------------------------
(* The client.                                                             *)
add_request_async(c, r, e) ==
  /\ r \notin sent
  /\ sent' = sent \cup {r}
  /\ adds' = [adds EXCEPT ![c][e] = Append(@, [req |-> r, wave |-> client[c].wave])]
  /\ first_req' = [first_req EXCEPT ![c] = IF client[c].running THEN @ ELSE Append(@, e)]
  /\ UNCHANGED <<engine_vars, coordinator, client, events, to_coordinator, starts, outputs,
                 updates>>

(* run_engine_stats_update_task.  Between the poll and the moment that the *)
(* task goes on, other coroutines may run.                                 *)
Ready(c) == {s \in {"first_req", "updates"} :
               IF s = "first_req" THEN first_req[c] # <<>> ELSE updates[c] # <<>>}

poll(c) ==
  /\ events[c] = {} /\ Ready(c) # {}
  /\ events' = [events EXCEPT ![c] = Ready(c)]
  /\ UNCHANGED <<engine_vars, coordinator, client, channels, sent>>

(* Only the latest update counts.                                          *)
Updated(c, state) == IF updates[c] = <<>> THEN state ELSE updates[c][Len(updates[c])]

forward_first_req(c) ==
  /\ events[c] = {"first_req"} \/ (~client[c].running /\ Cardinality(events[c]) = 2)
  /\ to_coordinator' = [to_coordinator EXCEPT
       ![c] = Append(@, [exclude |-> Head(first_req[c]), wave |-> client[c].wave])]
  /\ first_req' = [first_req EXCEPT ![c] = Tail(@)]
  /\ client' = [client EXCEPT ![c] = Updated(c, [@ EXCEPT !.running = TRUE])]
  /\ updates' = [updates EXCEPT ![c] = <<>>]
  /\ events' = [events EXCEPT ![c] = {}]
  /\ UNCHANGED <<engine_vars, coordinator, adds, starts, outputs, sent>>

update_client(c) ==
  /\ events[c] = {"updates"} \/ (client[c].running /\ Cardinality(events[c]) = 2)
  /\ client' = [client EXCEPT ![c] = Updated(c, @)]
  /\ updates' = [updates EXCEPT ![c] = <<>>]
  /\ events' = [events EXCEPT ![c] = {}]
  /\ UNCHANGED <<engine_vars, coordinator, first_req, adds, to_coordinator,
                 starts, outputs, sent>>

-----------------------------------------------------------------------------
(* The coordinator.  A change of state is published to every client.       *)
_send_start_wave(wave, exclude) ==
  starts' = [e \in Engines |-> Append(starts[e], [wave |-> wave, exclude |-> exclude])]

MovedTo(wave, running) ==
  /\ coordinator' = [wave |-> wave, running |-> running]
  /\ updates' = [c \in Clients |-> Append(updates[c], [wave |-> wave, running |-> running])]

(* Faulty variant: the engine named in a stale message is not woken up.    *)
ExcludeAlways(msg) == msg.exclude
engine_to_exclude(msg) == IF msg.wave < coordinator.wave THEN Nobody ELSE msg.exclude

new_request(c) ==
  LET msg == Head(to_coordinator[c]) IN
  /\ to_coordinator[c] # <<>>
  /\ to_coordinator' = [to_coordinator EXCEPT ![c] = Tail(@)]
  /\ IF ~coordinator.running
     THEN /\ MovedTo(coordinator.wave, TRUE)
          /\ _send_start_wave(coordinator.wave, engine_to_exclude(msg))
     ELSE UNCHANGED <<coordinator, updates, starts>>
  /\ UNCHANGED <<engine_vars, client, events, first_req, adds, outputs, sent>>

wave_complete(e) ==
  LET msg == Head(outputs[e]) IN
  /\ outputs[e] # <<>> /\ msg.type = "wave_complete"
  /\ outputs' = [outputs EXCEPT ![e] = Tail(@)]
  /\ IF coordinator.wave <= msg.wave
     THEN MovedTo(msg.wave + 1, FALSE) ELSE UNCHANGED <<coordinator, updates>>
  /\ UNCHANGED <<engine_vars, client, events, first_req, adds, to_coordinator, starts, sent>>

(* Faulty variant: a notification for the current wave is taken for a      *)
(* stale one.                                                              *)
LaterWave(wave) == wave > coordinator.wave
StartsWave(wave) ==
  wave > coordinator.wave \/ (wave = coordinator.wave /\ ~coordinator.running)

start_wave(e) ==
  LET msg == Head(outputs[e]) IN
  /\ outputs[e] # <<>> /\ msg.type = "start_wave"
  /\ outputs' = [outputs EXCEPT ![e] = Tail(@)]
  /\ IF StartsWave(msg.wave)
     THEN MovedTo(msg.wave, TRUE) /\ _send_start_wave(msg.wave, e)
     ELSE UNCHANGED <<coordinator, updates, starts>>
  /\ UNCHANGED <<engine_vars, client, events, first_req, adds, to_coordinator, sent>>

(* The poll timed out: the state is published again.  One such message at  *)
(* a time is in flight to a client.                                        *)
publish(c) ==
  /\ updates[c] = <<>> /\ client[c] # coordinator
  /\ updates' = [updates EXCEPT ![c] = <<coordinator>>]
  /\ UNCHANGED <<engine_vars, coordinator, client, events, first_req, adds, to_coordinator,
                 starts, outputs, sent>>

-----------------------------------------------------------------------------
(* The engine, between steps: _process_input_queue.                        *)
Notify(e, type, wave) ==
  outputs' = [outputs EXCEPT ![e] = Append(@, [type |-> type, wave |-> wave])]

(* Faulty variant: a request of a completed wave is not reported.          *)
NoNotice(e, wave) == FALSE
IsStale(e, wave) == wave < current_wave[e] /\ ~engines_running[e]

add_request(c, e) ==
  LET msg == Head(adds[c][e]) IN
  /\ adds[c][e] # <<>> /\ e \notin in_step
  /\ adds' = [adds EXCEPT ![c][e] = Tail(@)]
  /\ unfinished' = [unfinished EXCEPT ![e] = @ \cup {msg.req}]
  /\ current_wave' = [current_wave EXCEPT ![e] = IF msg.wave > @ THEN msg.wave ELSE @]
  /\ IF IsStale(e, msg.wave)
     THEN Notify(e, "start_wave", current_wave[e]) ELSE UNCHANGED outputs
  /\ UNCHANGED <<engines_running, in_step, step_counter, coordinator, client, events,
                 first_req, to_coordinator, starts, updates, sent>>

(* Faulty variant: a START_DP_WAVE for a completed wave is obeyed.         *)
AcceptsOld(e, msg) == msg.exclude # e
Accepts(e, msg) == msg.exclude # e /\ msg.wave >= current_wave[e]

start_dp_wave(e) ==
  LET msg == Head(starts[e]) IN
  /\ starts[e] # <<>> /\ e \notin in_step
  /\ starts' = [starts EXCEPT ![e] = Tail(@)]
  /\ IF Accepts(e, msg)
     THEN /\ current_wave' = [current_wave EXCEPT ![e] = msg.wave]
          /\ engines_running' = [engines_running EXCEPT ![e] = TRUE]
     ELSE UNCHANGED <<current_wave, engines_running>>
  /\ UNCHANGED <<unfinished, in_step, step_counter, coordinator, client, events,
                 first_req, adds, to_coordinator, outputs, updates, sent>>

Active(e) == engines_running[e] \/ unfinished[e] # {}

begin_step(e) ==
  /\ e \notin in_step /\ Active(e)
  /\ in_step' = in_step \cup {e}
  /\ UNCHANGED <<current_wave, engines_running, unfinished, step_counter, coordinator,
                 client, events, channels, sent>>

(* The step itself, a collective of all engines.  Some requests finish;    *)
(* then _has_global_unfinished_reqs.  Faulty variant: the wave number      *)
(* stays.                                                                  *)
global_unfinished(left) == \E e \in Engines : left[e] # {}
SameWave(e) == current_wave[e]
next_wave(e) == current_wave[e] + 1

end_step(finished) ==
  LET left == [e \in Engines |-> unfinished[e] \ finished]
      goes_on == (step_counter + 1) % SyncPeriod # 0 \/ global_unfinished(left)
  IN
  /\ in_step = Engines
  /\ goes_on \/ ~PromptClient \/ \A c \in Clients : first_req[c] = <<>>
  /\ in_step' = {}
  /\ unfinished' = left
  /\ engines_running' = [e \in Engines |-> goes_on]
  /\ IF goes_on
     THEN /\ step_counter' = (step_counter + 1) % SyncPeriod
          /\ UNCHANGED <<current_wave, outputs>>
     ELSE /\ step_counter' = 0
          /\ Notify(0, "wave_complete", current_wave[0])
          /\ current_wave' = [e \in Engines |-> next_wave(e)]
  /\ UNCHANGED <<coordinator, client, events, first_req, adds, to_coordinator, starts,
                 updates, sent>>

-----------------------------------------------------------------------------
Held == UNION {unfinished[e] : e \in Engines}

Next ==
  \/ \E c \in Clients, r \in Requests, e \in Engines : add_request_async(c, r, e)
  \/ \E c \in Clients : poll(c) \/ forward_first_req(c) \/ update_client(c)
  \/ \E c \in Clients : new_request(c) \/ publish(c)
  \/ \E e \in Engines : wave_complete(e) \/ start_wave(e) \/ start_dp_wave(e) \/ begin_step(e)
  \/ \E c \in Clients, e \in Engines : add_request(c, e)
  \/ \E finished \in SUBSET Held : end_step(finished)

Spec == Init /\ [][Next]_vars

(* Processes go on and messages arrive.  An engine empties its input queue *)
(* before every step, a step completes once all engines take part in it,   *)
(* and a request that is computed again and again finishes (module         *)
(* Scheduler, EveryRequestFinishes).                                       *)
Finishes(r) == \E finished \in SUBSET Held : r \in finished /\ end_step(finished)
FairSpec ==
  /\ Spec
  /\ \A c \in Clients : /\ WF_vars(poll(c)) /\ WF_vars(forward_first_req(c))
                        /\ WF_vars(update_client(c)) /\ WF_vars(new_request(c))
  /\ \A e \in Engines : /\ WF_vars(wave_complete(e)) /\ WF_vars(start_wave(e))
                        /\ WF_vars(begin_step(e)) /\ SF_vars(start_dp_wave(e))
  /\ \A c \in Clients, e \in Engines : SF_vars(add_request(c, e))
  /\ WF_vars(\E finished \in SUBSET Held : end_step(finished))
  /\ \A r \in Requests : SF_vars(Finishes(r))

-----------------------------------------------------------------------------
(* Shapes of the state; and no client, no coordinator, no engine and no    *)
(* message knows of a wave that rank 0 has not reached.                    *)
WavesTypeOK ==
  LET Waves == 0 .. current_wave[0]
      State == [wave : Waves, running : BOOLEAN]
      Elements(seq) == {seq[i] : i \in DOMAIN seq}
  IN
  /\ current_wave \in [Engines -> Waves]
  /\ engines_running \in [Engines -> BOOLEAN]
  /\ unfinished \in [Engines -> SUBSET Requests]
  /\ in_step \subseteq Engines /\ step_counter \in 0 .. SyncPeriod - 1
  /\ coordinator \in State /\ client \in [Clients -> State]
  /\ events \in [Clients -> SUBSET {"first_req", "updates"}]
  /\ \A c \in Clients :
       /\ Elements(first_req[c]) \subseteq Engines
       /\ Elements(to_coordinator[c]) \subseteq [exclude : Engines, wave : Waves]
       /\ Elements(updates[c]) \subseteq State
       /\ \A e \in Engines :
            Elements(adds[c][e]) \subseteq [req : Requests, wave : Waves]
  /\ \A e \in Engines :
       /\ Elements(starts[e]) \subseteq [wave : Waves, exclude : Engines \cup {Nobody}]
       /\ Elements(outputs[e]) \subseteq
            [type : {"wave_complete", "start_wave"}, wave : Waves]
  /\ sent \subseteq Requests

Quiet ==
  /\ \A c \in Clients : first_req[c] = <<>> /\ to_coordinator[c] = <<>>
  /\ \A c \in Clients, e \in Engines : adds[c][e] = <<>>
  /\ \A e \in Engines : starts[e] = <<>> /\ outputs[e] = <<>>

(* The engines run together or pause together: once no message is on its   *)
(* way, no engine waits in the collectives of a step (run_busy_loop) for   *)
(* another one that sits in _process_input_queue and that nothing will     *)
(* wake up.                                                                *)
NobodyStranded ==
  Quiet => (\A e \in Engines : Active(e)) \/ (\A e \in Engines : ~Active(e))

(* Engines that step together are in the same wave, whatever START_DP_WAVE *)
(* and ADD messages each of them has seen: their wave_complete and         *)
(* start_wave messages mean the same thing to the coordinator.             *)
WavesAgree ==
  in_step = Engines => \A e, f \in Engines : current_wave[e] = current_wave[f]

(* Once no message is on its way, the wave and the running state that the  *)
(* coordinator publishes are those of rank 0, in spite of FIRST_REQ,       *)
(* wave_complete and start_wave crossing each other.                       *)
CoordinatorKnows ==
  Quiet => coordinator = [wave |-> current_wave[0], running |-> Active(0)]

(* A request that is sent is served in the end, whatever wave it was       *)
(* stamped with and whichever engines were paused when it came.            *)
Waiting(r) ==
  \/ r \in Held
  \/ \E c \in Clients, e \in Engines : \E i \in DOMAIN adds[c][e] : adds[c][e][i].req = r
EveryRequestServed == \A r \in Requests : (r \in sent) ~> (r \in sent /\ ~Waiting(r))
=============================================================================
