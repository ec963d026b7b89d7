----------------------- MODULE DataParallelWavesProofs -----------------------
(***************************************************************************)
(* Proofs about DataParallelWaves, for any number of engines, clients and  *)
(* requests and any SyncPeriod: no message is ahead of the engines'        *)
(* wave and the engines agree on it; and, if FIRST_REQ messages are        *)
(* forwarded promptly, no engine is stranded and the coordinator knows the *)
(* truth once no message is on its way.                                    *)
(*                                                                         *)
(* Every engine is always in the same wave W.  The argument compares the   *)
(* coordinator with W.  As long as it is behind, the wave_complete that    *)
(* will move it is on its way, and an engine that has become active in     *)
(* wave W has reported it (Behind).  When it is in wave W and takes the    *)
(* engines for paused, whatever makes an engine active has a message to    *)
(* the coordinator on its way (Resting).  When it has started wave W,      *)
(* every engine is active or has a message on its way that makes it so     *)
(* (Started); for the engine that a START_DP_WAVE excludes this rests on   *)
(* the one whose request it is about being busy (Messengers), which is     *)
(* where PromptClient is needed.                                           *)
(***************************************************************************)
EXTENDS DataParallelWaves, FiniteSetTheorems, TLAPS

USE WavesAssumption

W == current_wave[0]
Elems(s) == {s[i] : i \in DOMAIN s}

StateOf  == [wave : Nat, running : BOOLEAN]
AddMsg   == [req : Requests, wave : Nat]
FirstMsg == [exclude : Engines, wave : Nat]
StartMsg == [wave : Nat, exclude : Engines \cup {Nobody}]
OutMsg   == [type : {"wave_complete", "start_wave"}, wave : Nat]

Typed ==
  /\ current_wave \in [Engines -> Nat] /\ \A e \in Engines : current_wave[e] = W
  /\ engines_running \in [Engines -> BOOLEAN]
  /\ unfinished \in [Engines -> SUBSET Requests]
  /\ in_step \subseteq Engines /\ step_counter \in 0 .. SyncPeriod - 1
  /\ coordinator \in StateOf /\ client \in [Clients -> StateOf]
  /\ events \in [Clients -> SUBSET {"first_req", "updates"}]
  /\ first_req \in [Clients -> Seq(Engines)]
  /\ adds \in [Clients -> [Engines -> Seq(AddMsg)]]
  /\ to_coordinator \in [Clients -> Seq(FirstMsg)]
  /\ starts \in [Engines -> Seq(StartMsg)]
  /\ outputs \in [Engines -> Seq(OutMsg)]
  /\ updates \in [Clients -> Seq(StateOf)]
  /\ sent \subseteq Requests
  /\ \A c \in Clients : "first_req" \in events[c] => first_req[c] # <<>>
  /\ \A e \in in_step : Active(e)

(* Nothing is ahead of the coordinator, nor the coordinator of the         *)
(* engines; and what says that the coordinator's wave runs is true.        *)
Reached ==
  /\ coordinator.wave <= W
  /\ \A e \in Engines : \A m \in Elems(outputs[e]) :
       m.wave <= W /\ (m.type = "wave_complete" => m.wave < W)
  /\ \A e \in Engines : \A m \in Elems(starts[e]) :
       m.wave <= coordinator.wave /\ (m.wave = coordinator.wave => coordinator.running)
  /\ \A c \in Clients : \A m \in Elems(updates[c]) :
       /\ m.wave <= coordinator.wave
       /\ m.wave = coordinator.wave /\ m.running => coordinator.running
  /\ \A c \in Clients :
       /\ client[c].wave <= coordinator.wave
       /\ client[c].wave = coordinator.wave /\ client[c].running =>
            coordinator.running \/ Elems(to_coordinator[c]) # {}
  /\ \A c \in Clients : \A m \in Elems(to_coordinator[c]) : m.wave <= coordinator.wave
  /\ \A c \in Clients, e \in Engines : \A m \in Elems(adds[c][e]) : m.wave <= coordinator.wave

StartSent(e) == \E m \in Elems(outputs[e]) : m.type = "start_wave" /\ m.wave = W
CompleteSent ==
  \E e \in Engines : \E m \in Elems(outputs[e]) : m.type = "wave_complete" /\ m.wave = W - 1
Busy(e) == Active(e) \/ \E c \in Clients : Elems(adds[c][e]) # {}
AnyActive == \E e \in Engines : Active(e)
Wake ==
  \/ \E c \in Clients : Elems(first_req[c]) # {} \/ Elems(to_coordinator[c]) # {}
  \/ \E e \in Engines : StartSent(e)

Messengers ==
  /\ \A c \in Clients : \A e \in Elems(first_req[c]) : Busy(e)
  /\ \A c \in Clients : \A m \in Elems(to_coordinator[c]) : m.wave = W => Busy(m.exclude)
  /\ \A e \in Engines : StartSent(e) => Active(e)

Behind ==
  coordinator.wave < W =>
    CompleteSent /\ (AnyActive => \E e \in Engines : StartSent(e))

Resting ==
  coordinator.wave = W /\ ~coordinator.running =>
    /\ AnyActive => Wake
    /\ \A c \in Clients, e \in Engines : \A m \in Elems(adds[c][e]) : m.wave = W => Wake

Started ==
  coordinator.wave = W /\ coordinator.running =>
    \A e \in Engines : Busy(e) \/ \E m \in Elems(starts[e]) : m.wave = W /\ m.exclude # e

Together == Messengers /\ Behind /\ Resting /\ Started

-----------------------------------------------------------------------------
(* Channels.                                                               *)
LEMMA ElemsAppend ==
  ASSUME NEW S, NEW s \in Seq(S), NEW x \in S
  PROVE  /\ Append(s, x) \in Seq(S) /\ Append(s, x) # <<>>
         /\ Elems(Append(s, x)) = Elems(s) \cup {x}
<1>1. /\ Append(s, x) \in Seq(S) /\ DOMAIN Append(s, x) = 1 .. Len(s) + 1
      /\ \A i \in 1 .. Len(s) : Append(s, x)[i] = s[i]
      /\ Append(s, x)[Len(s) + 1] = x /\ Len(s) \in Nat /\ DOMAIN s = 1 .. Len(s)
  OBVIOUS
<1>2. Append(s, x) # <<>>
  OBVIOUS
<1>3. Elems(Append(s, x)) = Elems(s) \cup {x}
  <2>1. ASSUME NEW y \in Elems(Append(s, x)) PROVE y \in Elems(s) \cup {x}
    BY <1>1, <2>1 DEF Elems
  <2>2. ASSUME NEW y \in Elems(s) \cup {x} PROVE y \in Elems(Append(s, x))
    BY <1>1, <2>2 DEF Elems
  <2> QED
    BY <2>1, <2>2
<1> QED
  BY <1>1, <1>2, <1>3

LEMMA ElemsTail ==
  ASSUME NEW S, NEW s \in Seq(S), s # <<>>
  PROVE  /\ Tail(s) \in Seq(S) /\ Head(s) \in S
         /\ Elems(s) = Elems(Tail(s)) \cup {Head(s)}
         /\ s[Len(s)] \in Elems(s) /\ Elems(s) \subseteq S
<1>1. /\ Tail(s) \in Seq(S) /\ DOMAIN Tail(s) = 1 .. Len(s) - 1 /\ Head(s) = s[1]
      /\ \A i \in 1 .. Len(s) - 1 : Tail(s)[i] = s[i + 1]
      /\ Len(s) \in Nat /\ DOMAIN s = 1 .. Len(s) /\ Len(s) # 0
      /\ \A i \in 1 .. Len(s) : s[i] \in S
  OBVIOUS
<1>2. Elems(s) = Elems(Tail(s)) \cup {Head(s)}
  <2>1. ASSUME NEW y \in Elems(s) PROVE y \in Elems(Tail(s)) \cup {Head(s)}
    <3> PICK i \in 1 .. Len(s) : y = s[i]
      BY <1>1, <2>1 DEF Elems
    <3>1. CASE i = 1
      BY <3>1, <1>1
    <3>2. CASE i # 1
      <4>1. i - 1 \in 1 .. Len(s) - 1 /\ y = Tail(s)[i - 1]
        BY <3>2, <1>1
      <4> QED
        BY <4>1, <1>1 DEF Elems
    <3> QED
      BY <3>1, <3>2
  <2>2. ASSUME NEW y \in Elems(Tail(s)) \cup {Head(s)} PROVE y \in Elems(s)
    <3>1. CASE y = Head(s)
      BY <3>1, <1>1 DEF Elems
    <3>2. CASE y \in Elems(Tail(s))
      <4> PICK i \in 1 .. Len(s) - 1 : y = Tail(s)[i]
        BY <3>2, <1>1 DEF Elems
      <4>1. i + 1 \in 1 .. Len(s) /\ y = s[i + 1]
        BY <1>1
      <4> QED
        BY <4>1, <1>1 DEF Elems
    <3> QED
      BY <2>2, <3>1, <3>2
  <2> QED
    BY <2>1, <2>2
<1>3. s[Len(s)] \in Elems(s) /\ Elems(s) \subseteq S
  BY <1>1 DEF Elems
<1> QED
  BY <1>1, <1>2, <1>3

LEMMA ElemsEmpty ==
  ASSUME NEW S, NEW s \in Seq(S)
  PROVE  (Elems(s) = {} <=> s = <<>>) /\ Elems(s) \subseteq S
<1>1. Elems(<<>>) = {}
  BY DEF Elems
<1> QED
  BY <1>1, ElemsTail

LEMMA NoElems == Elems(<<>>) = {}
BY DEF Elems

LEMMA EngineFacts == 0 \in Engines /\ Nobody \notin Engines
BY DEF Engines, Nobody

Channel(ch, D, S) == ch \in [D -> Seq(S)]
Put(ch, d, x) == [ch EXCEPT ![d] = Append(@, x)]
Got(ch, d) == [ch EXCEPT ![d] = Tail(@)]

IsPut(ch, new, D, S, d, x) ==
  /\ new \in [D -> Seq(S)] /\ new[d] # <<>>
  /\ Elems(new[d]) = Elems(ch[d]) \cup {x}
  /\ \A k \in D : k # d => new[k] = ch[k]

IsGot(ch, new, D, S, d) ==
  /\ new \in [D -> Seq(S)] /\ Head(ch[d]) \in S
  /\ Elems(ch[d]) = Elems(new[d]) \cup {Head(ch[d])}
  /\ \A k \in D : k # d => new[k] = ch[k]

LEMMA PutFacts ==
  ASSUME NEW D, NEW S, NEW ch, Channel(ch, D, S), NEW d \in D, NEW x \in S,
         NEW new, new = Put(ch, d, x)
  PROVE  IsPut(ch, new, D, S, d, x)
<1>1. ch[d] \in Seq(S)
  BY DEF Channel
<1>2. /\ Append(ch[d], x) \in Seq(S) /\ Append(ch[d], x) # <<>>
      /\ Elems(Append(ch[d], x)) = Elems(ch[d]) \cup {x}
  BY <1>1, ElemsAppend
<1> QED
  BY <1>2 DEF Put, Channel, IsPut

LEMMA GotFacts ==
  ASSUME NEW D, NEW S, NEW ch, Channel(ch, D, S), NEW d \in D, ch[d] # <<>>,
         NEW new, new = Got(ch, d)
  PROVE  IsGot(ch, new, D, S, d)
<1>1. ch[d] \in Seq(S)
  BY DEF Channel
<1>2. /\ Tail(ch[d]) \in Seq(S) /\ Head(ch[d]) \in S
      /\ Elems(ch[d]) = Elems(Tail(ch[d])) \cup {Head(ch[d])}
  BY <1>1, ElemsTail
<1> QED
  BY <1>2 DEF Got, Channel, IsGot

(* What Typed says of the channels, for citing the lemmas on channels.     *)
LEMMA ChannelFacts ==
  ASSUME Typed
  PROVE  /\ Channel(first_req, Clients, Engines)
         /\ \A c \in Clients : Channel(adds[c], Engines, AddMsg)
         /\ Channel(to_coordinator, Clients, FirstMsg)
         /\ Channel(starts, Engines, StartMsg)
         /\ Channel(outputs, Engines, OutMsg)
         /\ Channel(updates, Clients, StateOf)
BY DEF Typed, Channel

LEMMA ElemTypes ==
  ASSUME Typed
  PROVE  /\ \A c \in Clients : /\ Elems(first_req[c]) \subseteq Engines
                               /\ Elems(to_coordinator[c]) \subseteq FirstMsg
                               /\ Elems(updates[c]) \subseteq StateOf
                               /\ \A e \in Engines : Elems(adds[c][e]) \subseteq AddMsg
         /\ \A e \in Engines : /\ Elems(starts[e]) \subseteq StartMsg
                               /\ Elems(outputs[e]) \subseteq OutMsg
<1>1. ASSUME NEW c \in Clients
      PROVE  /\ first_req[c] \in Seq(Engines) /\ to_coordinator[c] \in Seq(FirstMsg)
             /\ updates[c] \in Seq(StateOf) /\ \A e \in Engines : adds[c][e] \in Seq(AddMsg)
  BY <1>1 DEF Typed
<1>2. ASSUME NEW e \in Engines
      PROVE  starts[e] \in Seq(StartMsg) /\ outputs[e] \in Seq(OutMsg)
  BY <1>2 DEF Typed
<1> QED
  BY <1>1, <1>2, ElemsEmpty

WavesInv == Typed /\ Reached /\ (PromptClient => Together)

-----------------------------------------------------------------------------
(* The client.                                                             *)
LEMMA AddAsyncInv ==
  ASSUME WavesInv, NEW c \in Clients, NEW r \in Requests, NEW e \in Engines,
         add_request_async(c, r, e)
  PROVE  WavesInv'
<1> DEFINE m == [req |-> r, wave |-> client[c].wave]
<1>0. Typed /\ Reached
  BY DEF WavesInv
<1>u. /\ current_wave' = current_wave /\ engines_running' = engines_running
      /\ unfinished' = unfinished /\ in_step' = in_step /\ step_counter' = step_counter
      /\ coordinator' = coordinator /\ client' = client /\ events' = events
      /\ to_coordinator' = to_coordinator /\ starts' = starts /\ outputs' = outputs
      /\ updates' = updates /\ sent' = sent \cup {r}
  BY DEF add_request_async, engine_vars
<1>1. m \in AddMsg /\ m.wave = client[c].wave
  BY <1>0 DEF Typed, AddMsg, StateOf
<1>2. adds' = [adds EXCEPT ![c] = Put(adds[c], e, m)]
  BY <1>0 DEF add_request_async, Put, Typed
<1> HIDE DEF m
<1>3. /\ Put(adds[c], e, m) \in [Engines -> Seq(AddMsg)]
      /\ Elems(Put(adds[c], e, m)[e]) = Elems(adds[c][e]) \cup {m}
      /\ \A f \in Engines : f # e => Put(adds[c], e, m)[f] = adds[c][f]
  <2>1. Channel(adds[c], Engines, AddMsg)
    BY <1>0, ChannelFacts
  <2>2. IsPut(adds[c], Put(adds[c], e, m), Engines, AddMsg, e, m)
    BY <2>1, <1>1, PutFacts
  <2> QED
    BY <2>2 DEF IsPut
<1>4. /\ adds' \in [Clients -> [Engines -> Seq(AddMsg)]]
      /\ Elems(adds'[c][e]) = Elems(adds[c][e]) \cup {m}
      /\ \A d \in Clients, f \in Engines : d # c \/ f # e => adds'[d][f] = adds[d][f]
  BY <1>0, <1>2, <1>3 DEF Typed
<1>5. /\ first_req' \in [Clients -> Seq(Engines)]
      /\ client[c].running => first_req' = first_req
      /\ ~client[c].running => Elems(first_req'[c]) = Elems(first_req[c]) \cup {e}
      /\ \A d \in Clients : d # c => first_req'[d] = first_req[d]
      /\ \A d \in Clients : first_req[d] # <<>> => first_req'[d] # <<>>
  <2>1. CASE client[c].running
    <3>1. first_req' = first_req
      BY <2>1, <1>0 DEF add_request_async, Typed
    <3> QED
      BY <3>1, <2>1, <1>0 DEF Typed
  <2>2. CASE ~client[c].running
    <3>1. first_req' = Put(first_req, c, e)
      BY <2>2 DEF add_request_async, Put
    <3> QED
      <4>1. Channel(first_req, Clients, Engines)
        BY <1>0, ChannelFacts
      <4>2. IsPut(first_req, first_req', Clients, Engines, c, e)
        BY <3>1, <4>1, PutFacts
      <4> QED
        BY <2>2, <4>2 DEF IsPut
  <2> QED
    BY <2>1, <2>2
<1>6. Typed'
  BY <1>0, <1>4, <1>5, <1>u DEF Typed, W, Active
<1>7. Reached'
  <2>0. /\ \A d \in Clients, f \in Engines : \A n \in Elems(adds[d][f]) : n.wave <= coordinator.wave
        /\ client[c].wave <= coordinator.wave
    BY <1>0 DEF Reached
  <2>1. \A d \in Clients, f \in Engines : \A n \in Elems(adds'[d][f]) : n.wave <= coordinator.wave
    <3> SUFFICES ASSUME NEW d \in Clients, NEW f \in Engines, NEW n \in Elems(adds'[d][f])
                 PROVE  n.wave <= coordinator.wave
      OBVIOUS
    <3>1. n \in Elems(adds[d][f]) \/ n = m
      <4>1. CASE d = c /\ f = e
        BY <1>4, <4>1
      <4>2. CASE d # c \/ f # e
        <5>1. adds'[d][f] = adds[d][f]
          BY <1>4, <4>2
        <5> QED
          BY <5>1
      <4> QED
        BY <4>1, <4>2
    <3> QED
      BY <2>0, <3>1, <1>1
  <2> QED
    BY <2>1, <1>0, <1>u DEF Reached, W
<1>8. ASSUME Together PROVE Together'
  <2>w. W' = W /\ \A f \in Engines : (Active(f)' <=> Active(f)) /\ (StartSent(f)' <=> StartSent(f))
    BY <1>u DEF W, Active, StartSent
  <2>1. \A f \in Engines : Busy(f) => Busy(f)'
    BY <2>w, <1>4 DEF Busy
  <2>2. Busy(e)'
    BY <1>4 DEF Busy
  <2>3. Wake => Wake'
    BY <2>w, <1>5, <1>u DEF Wake
  <2>4. Messengers'
    <3>1. \A d \in Clients : \A f \in Elems(first_req'[d]) : f \in Engines /\ Busy(f)'
      BY <1>0, ElemTypes, <2>1, <2>2, <1>5, <1>8 DEF Together, Messengers
    <3>2. \A d \in Clients : \A n \in Elems(to_coordinator[d]) : n.wave = W => Busy(n.exclude)'
      BY <1>0, ElemTypes, <2>1, <1>8 DEF Together, Messengers, FirstMsg
    <3> QED
      BY <3>1, <3>2, <2>w, <1>u, <1>8 DEF Together, Messengers
  <2>5. Behind' /\ Started'
    BY <2>w, <2>1, <1>u, <1>8 DEF Together, Behind, Started, CompleteSent, AnyActive
  <2>6. Resting'
    <3> SUFFICES ASSUME coordinator.wave = W, ~coordinator.running
                 PROVE  /\ AnyActive' => Wake'
                        /\ \A d \in Clients, f \in Engines : \A n \in Elems(adds'[d][f]) :
                             n.wave = W => Wake'
      BY <2>w, <1>u DEF Resting
    <3>1. AnyActive' => Wake'
      BY <2>w, <2>3, <1>8 DEF AnyActive, Together, Resting
    <3>2. ASSUME m.wave = W PROVE Wake'
      BY <3>2, <1>0, <1>1, <1>5, <1>u DEF Wake, Reached
    <3> QED
      BY <3>1, <3>2, <2>3, <1>4, <1>8 DEF Together, Resting
  <2> QED
    BY <2>4, <2>5, <2>6 DEF Together
<1> QED
  BY <1>6, <1>7, <1>8 DEF WavesInv

LEMMA FrameTogether ==
  ASSUME Together, UNCHANGED <<current_wave, engines_running, unfinished, coordinator, first_req,
                               adds, to_coordinator, starts, outputs>>
  PROVE  Together'
<1>1. /\ coordinator' = coordinator /\ first_req' = first_req /\ adds' = adds
      /\ to_coordinator' = to_coordinator /\ starts' = starts /\ W' = W
  BY DEF W
<1>2. \A e : (Active(e)' <=> Active(e)) /\ (StartSent(e)' <=> StartSent(e))
  BY <1>1 DEF Active, StartSent
<1>3. (CompleteSent' <=> CompleteSent) /\ (AnyActive' <=> AnyActive) /\ (Wake' <=> Wake)
  BY <1>1, <1>2 DEF CompleteSent, AnyActive, Wake
<1>4. \A e : Busy(e)' <=> Busy(e)
  BY <1>1, <1>2 DEF Busy
<1> QED
  BY <1>1, <1>2, <1>3, <1>4 DEF Together, Messengers, Behind, Resting, Started

LEMMA PollInv ==
  ASSUME WavesInv, NEW c \in Clients, poll(c)
  PROVE  WavesInv'
<1>0. Typed /\ Reached
  BY DEF WavesInv
<1>u. /\ current_wave' = current_wave /\ engines_running' = engines_running
      /\ unfinished' = unfinished /\ in_step' = in_step /\ step_counter' = step_counter
      /\ coordinator' = coordinator /\ client' = client /\ first_req' = first_req /\ adds' = adds
      /\ to_coordinator' = to_coordinator /\ starts' = starts /\ outputs' = outputs
      /\ updates' = updates /\ sent' = sent /\ events' = [events EXCEPT ![c] = Ready(c)]
  BY DEF poll, engine_vars, channels
<1>1. /\ Ready(c) \subseteq {"first_req", "updates"}
      /\ "first_req" \in Ready(c) => first_req[c] # <<>>
  BY DEF Ready
<1>2. Typed'
  BY <1>0, <1>1, <1>u DEF Typed, W, Active
<1>3. Reached'
  BY <1>0, <1>u DEF Reached, W
<1> QED
  BY <1>2, <1>3, <1>u, FrameTogether DEF WavesInv

LEMMA BeginStepInv ==
  ASSUME WavesInv, NEW e \in Engines, begin_step(e)
  PROVE  WavesInv'
<1>0. Typed /\ Reached
  BY DEF WavesInv
<1>u. /\ current_wave' = current_wave /\ engines_running' = engines_running
      /\ unfinished' = unfinished /\ in_step' = in_step \cup {e} /\ step_counter' = step_counter
      /\ coordinator' = coordinator /\ client' = client /\ first_req' = first_req /\ adds' = adds
      /\ to_coordinator' = to_coordinator /\ starts' = starts /\ outputs' = outputs
      /\ updates' = updates /\ sent' = sent /\ events' = events /\ Active(e)
  BY DEF begin_step, channels
<1>2. Typed'
  BY <1>0, <1>u DEF Typed, W, Active
<1>3. Reached'
  BY <1>0, <1>u DEF Reached, W
<1> QED
  BY <1>2, <1>3, <1>u, FrameTogether DEF WavesInv

LEMMA PublishInv ==
  ASSUME WavesInv, NEW c \in Clients, publish(c)
  PROVE  WavesInv'
<1>0. Typed /\ Reached
  BY DEF WavesInv
<1>u. /\ current_wave' = current_wave /\ engines_running' = engines_running
      /\ unfinished' = unfinished /\ in_step' = in_step /\ step_counter' = step_counter
      /\ coordinator' = coordinator /\ client' = client /\ first_req' = first_req /\ adds' = adds
      /\ to_coordinator' = to_coordinator /\ starts' = starts /\ outputs' = outputs
      /\ sent' = sent /\ events' = events
      /\ updates' = [updates EXCEPT ![c] = <<coordinator>>]
  BY DEF publish, engine_vars
<1>1. <<coordinator>> \in Seq(StateOf) /\ Elems(<<coordinator>>) = {coordinator}
  BY <1>0 DEF Typed, Elems
<1>2. /\ updates' \in [Clients -> Seq(StateOf)]
      /\ Elems(updates'[c]) = {coordinator}
      /\ \A d \in Clients : d # c => updates'[d] = updates[d]
  BY <1>0, <1>1, <1>u DEF Typed
<1>3. Typed'
  BY <1>0, <1>2, <1>u DEF Typed, W, Active
<1>4. Reached'
  <2>0. /\ \A d \in Clients : \A m \in Elems(updates[d]) :
             /\ m.wave <= coordinator.wave
             /\ m.wave = coordinator.wave /\ m.running => coordinator.running
        /\ coordinator.wave \in Nat
    BY <1>0 DEF Reached, Typed, StateOf
  <2>1. \A d \in Clients : \A m \in Elems(updates'[d]) :
          /\ m.wave <= coordinator.wave
          /\ m.wave = coordinator.wave /\ m.running => coordinator.running
    <3> SUFFICES ASSUME NEW d \in Clients, NEW m \in Elems(updates'[d])
                 PROVE  /\ m.wave <= coordinator.wave
                        /\ m.wave = coordinator.wave /\ m.running => coordinator.running
      OBVIOUS
    <3>1. m \in Elems(updates[d]) \/ m = coordinator
      BY <1>2
    <3> QED
      BY <2>0, <3>1
  <2> QED
    BY <2>1, <1>0, <1>u DEF Reached, W
<1> QED
  BY <1>3, <1>4, <1>u, FrameTogether DEF WavesInv

LEMMA TwoEvents ==
  ASSUME NEW E \in SUBSET {"first_req", "updates"}, Cardinality(E) = 2
  PROVE  "first_req" \in E
<1> SUFFICES ASSUME "first_req" \notin E PROVE FALSE
  OBVIOUS
<1>1. E = {} \/ E = {"updates"}
  OBVIOUS
<1>2. Cardinality({}) = 0
  BY FS_EmptySet
<1>3. Cardinality({"updates"}) = 1
  BY FS_Singleton
<1>4. Cardinality(E) = 0 \/ Cardinality(E) = 1
  BY <1>1, <1>2, <1>3, Zenon
<1> QED
  BY <1>4

(* The update that the client's stats task takes last.                     *)
LEMMA UpdatedFacts ==
  ASSUME Typed, Reached, NEW c \in Clients, NEW st \in StateOf
  PROVE  /\ Updated(c, st) \in StateOf
         /\ updates[c] # <<>> =>
              /\ Updated(c, st).wave <= coordinator.wave
              /\ Updated(c, st).wave = coordinator.wave /\ Updated(c, st).running =>
                   coordinator.running
         /\ updates[c] = <<>> => Updated(c, st) = st
<1>1. CASE updates[c] = <<>>
  BY <1>1 DEF Updated
<1>2. CASE updates[c] # <<>>
  <2>1. updates[c] \in Seq(StateOf)
    BY DEF Typed
  <2>2. updates[c][Len(updates[c])] \in Elems(updates[c])
    BY <2>1, <1>2, ElemsTail
  <2>3. updates[c][Len(updates[c])] \in StateOf
    BY <2>2, ElemTypes
  <2> QED
    BY <1>2, <2>2, <2>3 DEF Updated, Reached
<1> QED
  BY <1>1, <1>2

LEMMA UpdateClientInv ==
  ASSUME WavesInv, NEW c \in Clients, update_client(c)
  PROVE  WavesInv'
<1>0. Typed /\ Reached /\ client[c] \in StateOf
  BY DEF WavesInv, Typed
<1>u. /\ current_wave' = current_wave /\ engines_running' = engines_running
      /\ unfinished' = unfinished /\ in_step' = in_step /\ step_counter' = step_counter
      /\ coordinator' = coordinator /\ first_req' = first_req /\ adds' = adds
      /\ to_coordinator' = to_coordinator /\ starts' = starts /\ outputs' = outputs
      /\ sent' = sent
      /\ client' = [client EXCEPT ![c] = Updated(c, client[c])]
      /\ events' = [events EXCEPT ![c] = {}]
      /\ updates' = [updates EXCEPT ![c] = <<>>]
  BY DEF update_client, engine_vars
<1>1. /\ Updated(c, client[c]) \in StateOf
      /\ updates[c] # <<>> =>
           /\ Updated(c, client[c]).wave <= coordinator.wave
           /\ Updated(c, client[c]).wave = coordinator.wave /\ Updated(c, client[c]).running =>
                coordinator.running
      /\ updates[c] = <<>> => Updated(c, client[c]) = client[c]
  BY <1>0, UpdatedFacts
<1>2. /\ client' \in [Clients -> StateOf] /\ client'[c] = Updated(c, client[c])
      /\ \A d \in Clients : d # c => client'[d] = client[d]
      /\ updates' \in [Clients -> Seq(StateOf)] /\ updates'[c] = <<>>
      /\ \A d \in Clients : d # c => updates'[d] = updates[d]
  BY <1>0, <1>1, <1>u DEF Typed
<1>3. Typed'
  <2>1. /\ events' \in [Clients -> SUBSET {"first_req", "updates"}]
        /\ \A d \in Clients : "first_req" \in events'[d] => "first_req" \in events[d]
    BY <1>0, <1>u DEF Typed
  <2> QED
    BY <2>1, <1>0, <1>2, <1>u DEF Typed, W, Active
<1>4. Reached'
  <2>1. \A d \in Clients : \A m \in Elems(updates'[d]) :
          /\ m.wave <= coordinator.wave
          /\ m.wave = coordinator.wave /\ m.running => coordinator.running
    BY <1>0, <1>2, NoElems DEF Reached
  <2>2. \A d \in Clients :
          /\ client'[d].wave <= coordinator.wave
          /\ client'[d].wave = coordinator.wave /\ client'[d].running =>
               coordinator.running \/ Elems(to_coordinator[d]) # {}
    BY <1>0, <1>1, <1>2 DEF Reached
  <2> QED
    BY <2>1, <2>2, <1>0, <1>u DEF Reached, W
<1> QED
  BY <1>3, <1>4, <1>u, FrameTogether DEF WavesInv

LEMMA ForwardInv ==
  ASSUME WavesInv, NEW c \in Clients, forward_first_req(c)
  PROVE  WavesInv'
<1> DEFINE x  == Head(first_req[c])
           m  == [exclude |-> x, wave |-> client[c].wave]
           st == [client[c] EXCEPT !.running = TRUE]
<1>0. Typed /\ Reached /\ client[c] \in StateOf
  BY DEF WavesInv, Typed
<1>u. /\ current_wave' = current_wave /\ engines_running' = engines_running
      /\ unfinished' = unfinished /\ in_step' = in_step /\ step_counter' = step_counter
      /\ coordinator' = coordinator /\ adds' = adds /\ starts' = starts /\ outputs' = outputs
      /\ sent' = sent
      /\ client' = [client EXCEPT ![c] = Updated(c, st)]
      /\ events' = [events EXCEPT ![c] = {}]
      /\ updates' = [updates EXCEPT ![c] = <<>>]
      /\ first_req' = Got(first_req, c) /\ to_coordinator' = Put(to_coordinator, c, m)
  BY DEF forward_first_req, engine_vars, Got, Put
<1>1. "first_req" \in events[c]
  <2>1. events[c] \in SUBSET {"first_req", "updates"}
    BY <1>0 DEF Typed
  <2> QED
    BY <2>1, TwoEvents DEF forward_first_req
<1>2. first_req[c] # <<>>
  BY <1>0, <1>1 DEF Typed
<1>3. /\ first_req' \in [Clients -> Seq(Engines)] /\ x \in Engines
      /\ Elems(first_req[c]) = Elems(first_req'[c]) \cup {x}
      /\ \A d \in Clients : d # c => first_req'[d] = first_req[d]
  <2>1. Channel(first_req, Clients, Engines)
    BY <1>0, ChannelFacts
  <2>2. IsGot(first_req, first_req', Clients, Engines, c)
    BY <2>1, <1>2, <1>u, GotFacts
  <2> QED
    BY <2>2 DEF IsGot
<1> HIDE DEF x
<1>4. m \in FirstMsg /\ m.exclude = x /\ m.wave = client[c].wave
  BY <1>0, <1>3 DEF FirstMsg, StateOf
<1>5. /\ to_coordinator' \in [Clients -> Seq(FirstMsg)]
      /\ Elems(to_coordinator'[c]) = Elems(to_coordinator[c]) \cup {m}
      /\ \A d \in Clients : d # c => to_coordinator'[d] = to_coordinator[d]
  <2> HIDE DEF m
  <2>1. Channel(to_coordinator, Clients, FirstMsg)
    BY <1>0, ChannelFacts
  <2>2. IsPut(to_coordinator, to_coordinator', Clients, FirstMsg, c, m)
    BY <2>1, <1>4, <1>u, PutFacts
  <2> QED
    BY <2>2 DEF IsPut
<1>6. st \in StateOf /\ st.wave = client[c].wave
  BY <1>0 DEF StateOf
<1> HIDE DEF m, st
<1>7. /\ Updated(c, st) \in StateOf
      /\ updates[c] # <<>> =>
           /\ Updated(c, st).wave <= coordinator.wave
           /\ Updated(c, st).wave = coordinator.wave /\ Updated(c, st).running =>
                coordinator.running
      /\ updates[c] = <<>> => Updated(c, st) = st
  BY <1>0, <1>6, UpdatedFacts
<1>8. /\ client' \in [Clients -> StateOf] /\ client'[c] = Updated(c, st)
      /\ \A d \in Clients : d # c => client'[d] = client[d]
      /\ updates' \in [Clients -> Seq(StateOf)] /\ updates'[c] = <<>>
      /\ \A d \in Clients : d # c => updates'[d] = updates[d]
  BY <1>0, <1>7, <1>u DEF Typed
<1>9. Typed'
  <2>1. /\ events' \in [Clients -> SUBSET {"first_req", "updates"}]
        /\ \A d \in Clients : "first_req" \in events'[d] => d # c /\ "first_req" \in events[d]
    BY <1>0, <1>u DEF Typed
  <2> QED
    BY <2>1, <1>0, <1>3, <1>5, <1>8, <1>u DEF Typed, W, Active
<1>10. Reached'
  <2>1. \A d \in Clients : \A n \in Elems(updates'[d]) :
          /\ n.wave <= coordinator.wave
          /\ n.wave = coordinator.wave /\ n.running => coordinator.running
    BY <1>0, <1>8, NoElems DEF Reached
  <2>2. \A d \in Clients :
          /\ client'[d].wave <= coordinator.wave
          /\ client'[d].wave = coordinator.wave /\ client'[d].running =>
               coordinator.running \/ Elems(to_coordinator'[d]) # {}
    <3>0. \A d \in Clients :
            /\ client[d].wave <= coordinator.wave
            /\ client[d].wave = coordinator.wave /\ client[d].running =>
                 coordinator.running \/ Elems(to_coordinator[d]) # {}
      BY <1>0 DEF Reached
    <3>1. m \in Elems(to_coordinator'[c]) /\ client'[c].wave <= coordinator.wave
      BY <1>5, <1>6, <1>7, <1>8, <3>0
    <3>2. \A d \in Clients : d # c => client'[d] = client[d] /\ to_coordinator'[d] = to_coordinator[d]
      BY <1>5, <1>8
    <3> QED
      BY <3>0, <3>1, <3>2
  <2>3. \A d \in Clients : \A n \in Elems(to_coordinator'[d]) : n.wave <= coordinator.wave
    BY <1>0, <1>4, <1>5 DEF Reached
  <2> QED
    BY <2>1, <2>2, <2>3, <1>0, <1>u DEF Reached, W
<1>11. ASSUME Together PROVE Together'
  <2>w. /\ W' = W
        /\ \A f : (Active(f)' <=> Active(f)) /\ (StartSent(f)' <=> StartSent(f))
    BY <1>u DEF W, Active, StartSent
  <2>1. \A f : Busy(f)' <=> Busy(f)
    BY <2>w, <1>u DEF Busy
  <2>2. Wake'
    BY <1>5 DEF Wake
  <2>3. Busy(x)
    BY <1>3, <1>11 DEF Together, Messengers
  <2>4. Messengers'
    <3>1. \A d \in Clients : \A f \in Elems(first_req'[d]) : Busy(f)'
      BY <2>1, <1>3, <1>11 DEF Together, Messengers
    <3>2. \A d \in Clients : \A n \in Elems(to_coordinator'[d]) : n.wave = W => Busy(n.exclude)'
      BY <2>1, <2>3, <1>4, <1>5, <1>11 DEF Together, Messengers
    <3> QED
      BY <3>1, <3>2, <2>w, <1>11 DEF Together, Messengers
  <2>5. Behind' /\ Started'
    BY <2>w, <2>1, <1>u, <1>11 DEF Together, Behind, Started, CompleteSent, AnyActive
  <2>6. Resting'
    BY <2>2 DEF Resting
  <2> QED
    BY <2>4, <2>5, <2>6 DEF Together
<1> QED
  BY <1>9, <1>10, <1>11 DEF WavesInv

-----------------------------------------------------------------------------
(* The coordinator.                                                        *)
PutAll(ch, D, x) == [d \in D |-> Append(ch[d], x)]

IsPutAll(ch, new, D, S, x) ==
  /\ new \in [D -> Seq(S)]
  /\ \A d \in D : Elems(new[d]) = Elems(ch[d]) \cup {x}

LEMMA PutAllFacts ==
  ASSUME NEW D, NEW S, NEW ch, Channel(ch, D, S), NEW x \in S, NEW new, new = PutAll(ch, D, x)
  PROVE  IsPutAll(ch, new, D, S, x)
<1>1. ASSUME NEW d \in D
      PROVE  new[d] \in Seq(S) /\ Elems(new[d]) = Elems(ch[d]) \cup {x}
  <2>1. ch[d] \in Seq(S) /\ new[d] = Append(ch[d], x)
    BY <1>1 DEF Channel, PutAll
  <2> QED
    BY <2>1, ElemsAppend
<1> QED
  BY <1>1 DEF IsPutAll, PutAll

LEMMA MovedFacts ==
  ASSUME Typed, NEW w \in Nat, NEW b \in BOOLEAN, MovedTo(w, b)
  PROVE  /\ coordinator' \in StateOf /\ coordinator'.wave = w /\ coordinator'.running = b
         /\ updates' \in [Clients -> Seq(StateOf)]
         /\ \A c \in Clients : Elems(updates'[c]) = Elems(updates[c]) \cup {coordinator'}
<1> DEFINE x == [wave |-> w, running |-> b]
<1>1. coordinator' = x /\ updates' = PutAll(updates, Clients, x)
  BY DEF MovedTo, PutAll
<1>2. x \in StateOf /\ x.wave = w /\ x.running = b
  BY DEF StateOf
<1>3. Channel(updates, Clients, StateOf)
  BY ChannelFacts
<1> HIDE DEF x
<1>4. IsPutAll(updates, updates', Clients, StateOf, x)
  BY <1>1, <1>2, <1>3, PutAllFacts
<1> QED
  BY <1>1, <1>2, <1>4 DEF IsPutAll

LEMMA SendStartFacts ==
  ASSUME Typed, NEW w \in Nat, NEW ex \in Engines \cup {Nobody}, _send_start_wave(w, ex)
  PROVE  /\ starts' \in [Engines -> Seq(StartMsg)]
         /\ \A e \in Engines :
              Elems(starts'[e]) = Elems(starts[e]) \cup {[wave |-> w, exclude |-> ex]}
<1> DEFINE x == [wave |-> w, exclude |-> ex]
<1>1. starts' = PutAll(starts, Engines, x)
  BY DEF _send_start_wave, PutAll
<1>2. x \in StartMsg
  BY DEF StartMsg
<1>3. Channel(starts, Engines, StartMsg)
  BY ChannelFacts
<1> HIDE DEF x
<1>4. IsPutAll(starts, starts', Engines, StartMsg, x)
  BY <1>1, <1>2, <1>3, PutAllFacts
<1>5. /\ starts' \in [Engines -> Seq(StartMsg)]
      /\ \A e \in Engines : Elems(starts'[e]) = Elems(starts[e]) \cup {x}
  BY <1>4 DEF IsPutAll
<1> QED
  BY <1>5 DEF x

(* The coordinator's wave only grows, and within a wave it only starts.    *)
LEMMA MoveReached ==
  ASSUME Typed, Reached, NEW w \in Nat, NEW b \in BOOLEAN,
         coordinator'.wave = w, coordinator'.running = b, W' = W,
         w >= coordinator.wave, w <= W, w = coordinator.wave => b,
         \A e \in Engines : \A m \in Elems(starts'[e]) :
           m \in Elems(starts[e]) \/ (m.wave = w /\ b),
         \A c \in Clients : Elems(updates'[c]) = Elems(updates[c]) \cup {coordinator'},
         \A c \in Clients : Elems(to_coordinator'[c]) \subseteq Elems(to_coordinator[c]),
         \A e \in Engines : Elems(outputs'[e]) \subseteq Elems(outputs[e]),
         client' = client, adds' = adds
  PROVE  Reached'
<1>t. /\ coordinator.wave \in Nat /\ W \in Nat
      /\ \A c \in Clients : client[c].wave \in Nat
      /\ \A c \in Clients : \A m \in Elems(updates[c]) : m.wave \in Nat
      /\ \A c \in Clients : \A m \in Elems(to_coordinator[c]) : m.wave \in Nat
      /\ \A c \in Clients, e \in Engines : \A m \in Elems(adds[c][e]) : m.wave \in Nat
      /\ \A e \in Engines : \A m \in Elems(starts[e]) : m.wave \in Nat
  <2>1. /\ coordinator.wave \in Nat /\ W \in Nat
        /\ \A c \in Clients : client[c].wave \in Nat
    BY EngineFacts DEF Typed, StateOf, W
  <2>2. \A c \in Clients : \A m \in Elems(updates[c]) : m.wave \in Nat
    BY ElemTypes DEF StateOf
  <2>3. \A c \in Clients : \A m \in Elems(to_coordinator[c]) : m.wave \in Nat
    BY ElemTypes DEF FirstMsg
  <2>4. \A c \in Clients, e \in Engines : \A m \in Elems(adds[c][e]) : m.wave \in Nat
    BY ElemTypes DEF AddMsg
  <2>5. \A e \in Engines : \A m \in Elems(starts[e]) : m.wave \in Nat
    BY ElemTypes DEF StartMsg
  <2> QED
    BY <2>1, <2>2, <2>3, <2>4, <2>5
<1>1. \A e \in Engines : \A m \in Elems(starts'[e]) : m.wave <= w /\ (m.wave = w => b)
  BY <1>t DEF Reached
<1>2. \A c \in Clients : \A m \in Elems(updates'[c]) :
        m.wave <= w /\ (m.wave = w /\ m.running => b)
  <2> SUFFICES ASSUME NEW c \in Clients, NEW m \in Elems(updates[c])
               PROVE  m.wave <= w /\ (m.wave = w /\ m.running => b)
    OBVIOUS
  <2> QED
    BY <1>t DEF Reached
<1>3. \A c \in Clients : client[c].wave <= w /\ (client[c].wave = w /\ client[c].running => b)
  <2> TAKE c \in Clients
  <2>1. client[c].wave <= w
    BY <1>t DEF Reached
  <2>2. ASSUME client[c].wave = w PROVE b
    <3>1. w = coordinator.wave
      BY <1>t, <2>2 DEF Reached
    <3> QED
      BY <3>1
  <2> QED
    BY <2>1, <2>2
<1>4. /\ \A c \in Clients : \A m \in Elems(to_coordinator'[c]) : m.wave <= w
      /\ \A c \in Clients, e \in Engines : \A m \in Elems(adds[c][e]) : m.wave <= w
  BY <1>t DEF Reached
<1>5. \A e \in Engines : \A m \in Elems(outputs'[e]) :
        m.wave <= W /\ (m.type = "wave_complete" => m.wave < W)
  BY DEF Reached
<1> QED
  BY <1>1, <1>2, <1>3, <1>4, <1>5 DEF Reached

LEMMA NewRequestInv ==
  ASSUME WavesInv, NEW c \in Clients, new_request(c)
  PROVE  WavesInv'
<1> DEFINE msg == Head(to_coordinator[c])
           ex  == engine_to_exclude(msg)
<1>0. Typed /\ Reached /\ coordinator.wave \in Nat /\ coordinator.running \in BOOLEAN
  BY DEF WavesInv, Typed, StateOf
<1>u. /\ current_wave' = current_wave /\ engines_running' = engines_running
      /\ unfinished' = unfinished /\ in_step' = in_step /\ step_counter' = step_counter
      /\ client' = client /\ events' = events /\ first_req' = first_req /\ adds' = adds
      /\ outputs' = outputs /\ sent' = sent
      /\ to_coordinator[c] # <<>> /\ to_coordinator' = Got(to_coordinator, c)
  BY DEF new_request, engine_vars, Got
<1>1. /\ to_coordinator' \in [Clients -> Seq(FirstMsg)] /\ msg \in FirstMsg
      /\ Elems(to_coordinator[c]) = Elems(to_coordinator'[c]) \cup {msg}
      /\ \A d \in Clients : d # c => to_coordinator'[d] = to_coordinator[d]
  <2>1. Channel(to_coordinator, Clients, FirstMsg)
    BY <1>0, ChannelFacts
  <2>2. IsGot(to_coordinator, to_coordinator', Clients, FirstMsg, c)
    BY <2>1, <1>u, GotFacts
  <2> QED
    BY <2>2 DEF IsGot
<1>2. \A d \in Clients : Elems(to_coordinator'[d]) \subseteq Elems(to_coordinator[d])
  BY <1>1
<1>w. /\ W' = W
      /\ \A f : (Active(f)' <=> Active(f)) /\ (StartSent(f)' <=> StartSent(f))
      /\ (CompleteSent' <=> CompleteSent) /\ (AnyActive' <=> AnyActive)
      /\ \A f : Busy(f)' <=> Busy(f)
  BY <1>u DEF W, Active, StartSent, CompleteSent, AnyActive, Busy
<1>3. Together => Messengers'
  BY <1>2, <1>u, <1>w DEF Together, Messengers
<1>4. CASE ~coordinator.running
  <2>1. MovedTo(coordinator.wave, TRUE) /\ _send_start_wave(coordinator.wave, ex)
    BY <1>4 DEF new_request
  <2>2. /\ ex \in Engines \cup {Nobody}
        /\ ex \in Engines => ex = msg.exclude /\ ~(msg.wave < coordinator.wave)
    BY <1>1, EngineFacts DEF engine_to_exclude, FirstMsg
  <2> HIDE DEF ex
  <2>3. /\ coordinator' \in StateOf /\ coordinator'.wave = coordinator.wave
        /\ coordinator'.running = TRUE
        /\ updates' \in [Clients -> Seq(StateOf)]
        /\ \A d \in Clients : Elems(updates'[d]) = Elems(updates[d]) \cup {coordinator'}
    BY <2>1, <1>0, MovedFacts
  <2>4. /\ starts' \in [Engines -> Seq(StartMsg)]
        /\ \A e \in Engines : Elems(starts'[e]) =
             Elems(starts[e]) \cup {[wave |-> coordinator.wave, exclude |-> ex]}
    BY <2>1, <2>2, <1>0, SendStartFacts
  <2>5. Typed'
    BY <2>3, <2>4, <1>0, <1>1, <1>u DEF Typed, W, Active
  <2>6. Reached'
    <3>1. \A e \in Engines : \A m \in Elems(starts'[e]) :
            m \in Elems(starts[e]) \/ m.wave = coordinator.wave
      BY <2>4
    <3>2. coordinator.wave <= W /\ coordinator.wave >= coordinator.wave
      BY <1>0 DEF Reached
    <3> QED
      BY <3>1, <3>2, <2>3, <1>0, <1>2, <1>u, <1>w, MoveReached
  <2>7. ASSUME Together PROVE Together'
    <3>1. Behind' /\ Resting'
      BY <2>3, <1>w, <2>7 DEF Together, Behind, Resting
    <3>2. Started'
      <4> SUFFICES ASSUME coordinator.wave = W, NEW e \in Engines
                   PROVE  Busy(e) \/ \E m \in Elems(starts'[e]) : m.wave = W /\ m.exclude # e
        BY <2>3, <1>w DEF Started
      <4>1. CASE e = ex
        <5>1. msg.wave <= coordinator.wave /\ msg.wave \in Nat
          BY <1>0, <1>1 DEF Reached, FirstMsg
        <5>2. msg.wave = W
          BY <5>1, <4>1, <2>2, <1>0
        <5>3. Busy(msg.exclude)
          BY <5>2, <1>1, <2>7 DEF Together, Messengers
        <5> QED
          BY <5>3, <4>1, <2>2
      <4>2. CASE e # ex
        <5> DEFINE n == [wave |-> coordinator.wave, exclude |-> ex]
        <5>1. n \in Elems(starts'[e]) /\ n.wave = coordinator.wave /\ n.exclude = ex
          BY <2>4
        <5> HIDE DEF n
        <5> QED
          BY <5>1, <4>2
      <4> QED
        BY <4>1, <4>2
    <3> QED
      BY <3>1, <3>2, <1>3, <2>7 DEF Together
  <2> QED
    BY <2>5, <2>6, <2>7 DEF WavesInv
<1>5. CASE coordinator.running
  <2>1. coordinator' = coordinator /\ updates' = updates /\ starts' = starts
    BY <1>5 DEF new_request
  <2>2. Typed'
    BY <2>1, <1>0, <1>1, <1>u DEF Typed, W, Active
  <2>3. Reached'
    BY <2>1, <1>0, <1>2, <1>5, <1>u, <1>w DEF Reached
  <2>4. ASSUME Together PROVE Together'
    BY <2>1, <2>4, <1>3, <1>5, <1>w DEF Together, Behind, Resting, Started
  <2> QED
    BY <2>2, <2>3, <2>4 DEF WavesInv
<1> QED
  BY <1>0, <1>4, <1>5

(* The coordinator reads an output of engine e: which messages of          *)
(* importance are still there.                                             *)
LEMMA OutputRead ==
  ASSUME Typed, Reached, NEW e \in Engines, outputs[e] # <<>>, outputs' = Got(outputs, e),
         current_wave' = current_wave, engines_running' = engines_running,
         unfinished' = unfinished, adds' = adds
  PROVE  /\ outputs' \in [Engines -> Seq(OutMsg)] /\ Head(outputs[e]) \in OutMsg
         /\ Head(outputs[e]) \in Elems(outputs[e])
         /\ \A f \in Engines : Elems(outputs'[f]) \subseteq Elems(outputs[f])
         /\ \A f \in Engines : \A m \in Elems(outputs[f]) :
              m # Head(outputs[e]) => m \in Elems(outputs'[f])
         /\ W' = W /\ (AnyActive' <=> AnyActive)
         /\ \A f : (Active(f)' <=> Active(f)) /\ (Busy(f)' <=> Busy(f))
<1>1. Channel(outputs, Engines, OutMsg)
  BY ChannelFacts
<1>2. IsGot(outputs, outputs', Engines, OutMsg, e)
  BY <1>1, GotFacts
<1>3. /\ W' = W /\ (AnyActive' <=> AnyActive)
      /\ \A f : (Active(f)' <=> Active(f)) /\ (Busy(f)' <=> Busy(f))
  BY DEF W, Active, AnyActive, Busy
<1> QED
  BY <1>2, <1>3 DEF IsGot

LEMMA WaveTypes ==
  ASSUME Typed, Reached
  PROVE  /\ coordinator.wave \in Nat /\ coordinator.running \in BOOLEAN /\ W \in Nat
         /\ coordinator.wave <= W
         /\ \A e \in Engines : current_wave[e] = W
BY EngineFacts DEF Typed, StateOf, W, Reached

LEMMA WaveCompleteInv ==
  ASSUME WavesInv, NEW e \in Engines, wave_complete(e)
  PROVE  WavesInv'
<1> DEFINE msg == Head(outputs[e])
<1>0. /\ Typed /\ Reached /\ coordinator.wave \in Nat /\ W \in Nat /\ coordinator.wave <= W
      /\ coordinator.running \in BOOLEAN
  BY WaveTypes DEF WavesInv
<1>u. /\ current_wave' = current_wave /\ engines_running' = engines_running
      /\ unfinished' = unfinished /\ in_step' = in_step /\ step_counter' = step_counter
      /\ client' = client /\ events' = events /\ first_req' = first_req /\ adds' = adds
      /\ to_coordinator' = to_coordinator /\ starts' = starts /\ sent' = sent
      /\ outputs[e] # <<>> /\ outputs' = Got(outputs, e) /\ msg.type = "wave_complete"
  BY DEF wave_complete, engine_vars, Got
<1>1. /\ outputs' \in [Engines -> Seq(OutMsg)] /\ msg \in OutMsg
      /\ msg \in Elems(outputs[e])
      /\ \A f \in Engines : Elems(outputs'[f]) \subseteq Elems(outputs[f])
      /\ \A f \in Engines : \A m \in Elems(outputs[f]) : m # msg => m \in Elems(outputs'[f])
      /\ W' = W /\ (AnyActive' <=> AnyActive)
      /\ \A f : (Active(f)' <=> Active(f)) /\ (Busy(f)' <=> Busy(f))
  BY <1>0, <1>u, OutputRead
<1>2. msg.wave \in Nat /\ msg.wave < W
  BY <1>0, <1>1, <1>u DEF OutMsg, Reached
<1> HIDE DEF msg
<1>3. /\ \A f \in Engines : StartSent(f)' <=> StartSent(f)
      /\ Wake' <=> Wake
  <2>1. \A f \in Engines : StartSent(f)' <=> StartSent(f)
    BY <1>1, <1>u DEF StartSent
  <2> QED
    BY <2>1, <1>u DEF Wake
<1>4. Together => Messengers'
  BY <1>1, <1>3, <1>u DEF Together, Messengers
<1>c. ASSUME CompleteSent, msg.wave # W - 1 PROVE CompleteSent'
  BY <1>c, <1>1 DEF CompleteSent
<1>5. CASE coordinator.wave <= msg.wave
  <2>1. MovedTo(msg.wave + 1, FALSE)
    BY <1>5 DEF wave_complete, msg
  <2>2. msg.wave + 1 \in Nat /\ msg.wave + 1 <= W /\ msg.wave + 1 > coordinator.wave
    BY <1>0, <1>2, <1>5
  <2>3. /\ coordinator' \in StateOf /\ coordinator'.wave = msg.wave + 1
        /\ coordinator'.running = FALSE
        /\ updates' \in [Clients -> Seq(StateOf)]
        /\ \A d \in Clients : Elems(updates'[d]) = Elems(updates[d]) \cup {coordinator'}
    BY <2>1, <2>2, <1>0, MovedFacts
  <2>4. Typed'
    BY <2>3, <1>0, <1>1, <1>u DEF Typed, W, Active
  <2>5. Reached'
    <3>1. msg.wave + 1 >= coordinator.wave /\ msg.wave + 1 # coordinator.wave
      BY <2>2, <1>0
    <3> QED
      BY <3>1, <2>2, <2>3, <1>0, <1>1, <1>u, MoveReached
  <2>6. ASSUME Together PROVE Together'
    <3>1. coordinator.wave < W
      BY <2>2, <1>0
    <3>2. CompleteSent /\ (AnyActive => \E f \in Engines : StartSent(f))
      BY <3>1, <2>6 DEF Together, Behind
    <3>3. Behind'
      <4> SUFFICES ASSUME msg.wave + 1 < W
                   PROVE  CompleteSent' /\ (AnyActive => \E f \in Engines : StartSent(f)')
        BY <2>3, <1>1 DEF Behind
      <4>1. msg.wave # W - 1
        BY <1>0, <1>2
      <4> QED
        BY <4>1, <3>2, <1>3, <1>c
    <3>4. Resting'
      <4>1. AnyActive' => Wake'
        BY <3>2, <1>1, <1>3 DEF Wake
      <4>2. \A c \in Clients, f \in Engines : \A m \in Elems(adds[c][f]) : m.wave # W
        BY <3>1, <1>0 DEF Reached
      <4> QED
        BY <4>1, <4>2, <1>1, <1>u DEF Resting
    <3> QED
      BY <3>3, <3>4, <2>3, <2>6, <1>4 DEF Together, Started
  <2> QED
    BY <2>4, <2>5, <2>6 DEF WavesInv
<1>6. CASE ~(coordinator.wave <= msg.wave)
  <2>1. coordinator' = coordinator /\ updates' = updates
    BY <1>6 DEF wave_complete, msg
  <2>2. Typed'
    BY <2>1, <1>0, <1>1, <1>u DEF Typed, W, Active
  <2>3. Reached'
    BY <2>1, <1>0, <1>1, <1>u DEF Reached
  <2>4. ASSUME Together PROVE Together'
    <3>1. coordinator.wave < W => msg.wave # W - 1
      BY <1>0, <1>2, <1>6
    <3>2. Behind'
      BY <3>1, <2>1, <2>4, <1>1, <1>3, <1>c DEF Together, Behind
    <3>3. Resting' /\ Started'
      BY <2>1, <2>4, <1>1, <1>3, <1>u DEF Together, Resting, Started
    <3> QED
      BY <3>2, <3>3, <2>4, <1>4 DEF Together
  <2> QED
    BY <2>2, <2>3, <2>4 DEF WavesInv
<1> QED
  BY <1>5, <1>6

LEMMA StartWaveInv ==
  ASSUME WavesInv, NEW e \in Engines, start_wave(e)
  PROVE  WavesInv'
<1> DEFINE msg == Head(outputs[e])
<1>0. /\ Typed /\ Reached /\ coordinator.wave \in Nat /\ W \in Nat /\ coordinator.wave <= W
      /\ coordinator.running \in BOOLEAN
  BY WaveTypes DEF WavesInv
<1>u. /\ current_wave' = current_wave /\ engines_running' = engines_running
      /\ unfinished' = unfinished /\ in_step' = in_step /\ step_counter' = step_counter
      /\ client' = client /\ events' = events /\ first_req' = first_req /\ adds' = adds
      /\ to_coordinator' = to_coordinator /\ sent' = sent
      /\ outputs[e] # <<>> /\ outputs' = Got(outputs, e) /\ msg.type = "start_wave"
  BY DEF start_wave, engine_vars, Got
<1>1. /\ outputs' \in [Engines -> Seq(OutMsg)] /\ msg \in OutMsg
      /\ msg \in Elems(outputs[e])
      /\ \A f \in Engines : Elems(outputs'[f]) \subseteq Elems(outputs[f])
      /\ \A f \in Engines : \A m \in Elems(outputs[f]) : m # msg => m \in Elems(outputs'[f])
      /\ W' = W /\ (AnyActive' <=> AnyActive)
      /\ \A f : (Active(f)' <=> Active(f)) /\ (Busy(f)' <=> Busy(f))
  BY <1>0, <1>u, OutputRead
<1>2. msg.wave \in Nat /\ msg.wave <= W
  BY <1>0, <1>1, <1>u DEF OutMsg, Reached
<1> HIDE DEF msg
<1>3. CompleteSent => CompleteSent'
  BY <1>1, <1>u DEF CompleteSent
<1>4. \A f \in Engines : StartSent(f)' => StartSent(f)
  BY <1>1 DEF StartSent
<1>5. Together => Messengers'
  BY <1>1, <1>4, <1>u DEF Together, Messengers
<1>s. ASSUME msg.wave # W PROVE /\ \A f \in Engines : StartSent(f) => StartSent(f)'
                                /\ Wake => Wake'
  <2>1. \A f \in Engines : StartSent(f) => StartSent(f)'
    BY <1>1, <1>s DEF StartSent
  <2> QED
    BY <2>1, <1>u DEF Wake
<1>6. CASE StartsWave(msg.wave)
  <2>1. MovedTo(msg.wave, TRUE) /\ _send_start_wave(msg.wave, e)
    BY <1>6 DEF start_wave, msg
  <2>2. msg.wave >= coordinator.wave
    BY <1>0, <1>2, <1>6 DEF StartsWave
  <2>3. /\ coordinator' \in StateOf /\ coordinator'.wave = msg.wave
        /\ coordinator'.running = TRUE
        /\ updates' \in [Clients -> Seq(StateOf)]
        /\ \A d \in Clients : Elems(updates'[d]) = Elems(updates[d]) \cup {coordinator'}
    BY <2>1, <1>0, <1>2, MovedFacts
  <2>4. /\ starts' \in [Engines -> Seq(StartMsg)]
        /\ \A f \in Engines : Elems(starts'[f]) =
             Elems(starts[f]) \cup {[wave |-> msg.wave, exclude |-> e]}
    BY <2>1, <1>0, <1>2, SendStartFacts
  <2>5. Typed'
    BY <2>3, <2>4, <1>0, <1>1, <1>u DEF Typed, W, Active
  <2>6. Reached'
    <3>1. \A f \in Engines : \A m \in Elems(starts'[f]) :
            m \in Elems(starts[f]) \/ m.wave = msg.wave
      BY <2>4
    <3>2. \A c \in Clients : Elems(to_coordinator'[c]) \subseteq Elems(to_coordinator[c])
      BY <1>u
    <3> QED
      BY <3>1, <3>2, <2>2, <2>3, <1>0, <1>1, <1>2, <1>u, MoveReached
  <2>7. ASSUME Together PROVE Together'
    <3>1. Behind'
      <4> SUFFICES ASSUME msg.wave < W
                   PROVE  CompleteSent' /\ (AnyActive => \E f \in Engines : StartSent(f)')
        BY <2>3, <1>1 DEF Behind
      <4>1. coordinator.wave < W /\ msg.wave # W
        BY <2>2, <1>0, <1>2
      <4> QED
        BY <4>1, <2>7, <1>3, <1>s DEF Together, Behind
    <3>2. Resting'
      BY <2>3 DEF Resting
    <3>3. Started'
      <4> SUFFICES ASSUME msg.wave = W, NEW f \in Engines
                   PROVE  Busy(f) \/ \E m \in Elems(starts'[f]) : m.wave = W /\ m.exclude # f
        BY <2>3, <1>1 DEF Started
      <4>1. CASE f = e
        <5>1. StartSent(e)
          BY <1>1, <1>u DEF StartSent
        <5> QED
          BY <5>1, <4>1, <2>7 DEF Together, Messengers, Busy
      <4>2. CASE f # e
        <5> DEFINE n == [wave |-> msg.wave, exclude |-> e]
        <5>1. n \in Elems(starts'[f]) /\ n.wave = msg.wave /\ n.exclude = e
          BY <2>4
        <5> HIDE DEF n
        <5> QED
          BY <5>1, <4>2
      <4> QED
        BY <4>1, <4>2
    <3> QED
      BY <3>1, <3>2, <3>3, <1>5, <2>7 DEF Together
  <2> QED
    BY <2>5, <2>6, <2>7 DEF WavesInv
<1>7. CASE ~StartsWave(msg.wave)
  <2>1. coordinator' = coordinator /\ updates' = updates /\ starts' = starts
    BY <1>7 DEF start_wave, msg
  <2>2. Typed'
    BY <2>1, <1>0, <1>1, <1>u DEF Typed, W, Active
  <2>3. Reached'
    BY <2>1, <1>0, <1>1, <1>u DEF Reached
  <2>4. ASSUME Together PROVE Together'
    <3>1. msg.wave = W => coordinator.wave = W /\ coordinator.running
      BY <1>0, <1>2, <1>7 DEF StartsWave
    <3>2. Behind'
      BY <3>1, <2>1, <2>4, <1>0, <1>1, <1>3, <1>s DEF Together, Behind
    <3>3. Resting'
      BY <3>1, <2>1, <2>4, <1>1, <1>s, <1>u DEF Together, Resting
    <3>4. Started'
      BY <2>1, <2>4, <1>1 DEF Together, Started
    <3> QED
      BY <3>2, <3>3, <3>4, <2>4, <1>5 DEF Together
  <2> QED
    BY <2>2, <2>3, <2>4 DEF WavesInv
<1> QED
  BY <1>6, <1>7

-----------------------------------------------------------------------------
(* The engines.                                                            *)
LEMMA AddRequestInv ==
  ASSUME WavesInv, NEW c \in Clients, NEW e \in Engines, add_request(c, e)
  PROVE  WavesInv'
<1> DEFINE msg   == Head(adds[c][e])
           stale == IsStale(e, msg.wave)
           n     == [type |-> "start_wave", wave |-> W]
<1>0. /\ Typed /\ Reached /\ coordinator.wave \in Nat /\ W \in Nat /\ coordinator.wave <= W
      /\ coordinator.running \in BOOLEAN /\ current_wave[e] = W
  BY WaveTypes DEF WavesInv
<1>u. /\ engines_running' = engines_running /\ in_step' = in_step
      /\ step_counter' = step_counter /\ coordinator' = coordinator /\ client' = client
      /\ events' = events /\ first_req' = first_req /\ to_coordinator' = to_coordinator
      /\ starts' = starts /\ updates' = updates /\ sent' = sent
      /\ adds[c][e] # <<>>
      /\ unfinished' = [unfinished EXCEPT ![e] = @ \cup {msg.req}]
  BY DEF add_request
<1>1. /\ adds' \in [Clients -> [Engines -> Seq(AddMsg)]] /\ msg \in AddMsg
      /\ Elems(adds[c][e]) = Elems(adds'[c][e]) \cup {msg}
      /\ \A d \in Clients, f \in Engines : d # c \/ f # e => adds'[d][f] = adds[d][f]
  <2>1. Channel(adds[c], Engines, AddMsg)
    BY <1>0, ChannelFacts
  <2>2. IsGot(adds[c], Got(adds[c], e), Engines, AddMsg, e)
    BY <2>1, <1>u, GotFacts
  <2>3. adds' = [adds EXCEPT ![c] = Got(adds[c], e)]
    BY DEF add_request, Got
  <2>4. /\ Got(adds[c], e) \in [Engines -> Seq(AddMsg)] /\ msg \in AddMsg
        /\ Elems(adds[c][e]) = Elems(Got(adds[c], e)[e]) \cup {msg}
        /\ \A f \in Engines : f # e => Got(adds[c], e)[f] = adds[c][f]
    BY <2>2 DEF IsGot
  <2> QED
    BY <2>3, <2>4, <1>0 DEF Typed
<1>2. msg.wave \in Nat /\ msg.req \in Requests /\ msg.wave <= coordinator.wave
  BY <1>0, <1>1 DEF AddMsg, Reached
<1>3. current_wave' = current_wave /\ W' = W
  <2>1. ~(msg.wave > current_wave[e])
    BY <1>0, <1>2
  <2>2. current_wave' = [current_wave EXCEPT ![e] = current_wave[e]]
    BY <2>1 DEF add_request
  <2>3. current_wave' = current_wave
    BY <2>2, <1>0 DEF Typed
  <2> QED
    BY <2>3 DEF W
<1>4. n \in OutMsg /\ n.type = "start_wave" /\ n.wave = W
  BY <1>0 DEF OutMsg
<1>5. (stale => outputs' = Put(outputs, e, n)) /\ (~stale => outputs' = outputs)
  BY <1>0 DEF add_request, Notify, Put
<1>6. stale <=> msg.wave < W /\ ~engines_running[e]
  BY <1>0 DEF IsStale
<1> HIDE DEF msg, n, stale
<1>7. /\ outputs' \in [Engines -> Seq(OutMsg)]
      /\ \A f \in Engines : \A m \in Elems(outputs'[f]) :
           m \in Elems(outputs[f]) \/ (m = n /\ f = e)
      /\ \A f \in Engines : Elems(outputs[f]) \subseteq Elems(outputs'[f])
      /\ stale => n \in Elems(outputs'[e])
  <2>1. CASE stale
    <3>1. Channel(outputs, Engines, OutMsg)
      BY <1>0, ChannelFacts
    <3>2. IsPut(outputs, outputs', Engines, OutMsg, e, n)
      BY <3>1, <2>1, <1>4, <1>5, PutFacts
    <3> QED
      BY <3>2 DEF IsPut
  <2>2. CASE ~stale
    BY <2>2, <1>0, <1>5 DEF Typed
  <2> QED
    BY <2>1, <2>2
<1>8. /\ unfinished' \in [Engines -> SUBSET Requests] /\ unfinished'[e] # {}
      /\ \A f \in Engines : f # e => unfinished'[f] = unfinished[f]
  BY <1>0, <1>2, <1>u DEF Typed
<1>9. /\ Active(e)' /\ \A f \in Engines : Active(f) => Active(f)'
      /\ \A f \in Engines : Busy(f) => Busy(f)'
  <2>1. Active(e)' /\ \A f \in Engines : Active(f) => Active(f)'
    BY <1>8, <1>u DEF Active
  <2> QED
    BY <2>1, <1>1 DEF Busy
<1>10. Typed'
  BY <1>0, <1>1, <1>3, <1>7, <1>8, <1>9, <1>u DEF Typed
<1>11. Reached'
  <2>1. \A f \in Engines : \A m \in Elems(outputs'[f]) :
          m.wave <= W /\ (m.type = "wave_complete" => m.wave < W)
    BY <1>0, <1>4, <1>7 DEF Reached
  <2>2. \A d \in Clients, f \in Engines : \A m \in Elems(adds'[d][f]) :
          m.wave <= coordinator.wave
    <3>1. \A d \in Clients, f \in Engines : \A m \in Elems(adds[d][f]) :
            m.wave <= coordinator.wave
      BY <1>0 DEF Reached
    <3>2. \A d \in Clients, f \in Engines : Elems(adds'[d][f]) \subseteq Elems(adds[d][f])
      BY <1>1
    <3> QED
      BY <3>1, <3>2
  <2> QED
    BY <2>1, <2>2, <1>0, <1>3, <1>u DEF Reached
<1>12. ASSUME Together PROVE Together'
  <2>1. /\ \A f \in Engines : StartSent(f) => StartSent(f)'
        /\ \A f \in Engines : f # e /\ StartSent(f)' => StartSent(f)
        /\ stale => StartSent(e)'
    BY <1>3, <1>4, <1>7 DEF StartSent
  <2>2. (Wake => Wake') /\ (CompleteSent => CompleteSent')
    BY <2>1, <1>3, <1>7, <1>u DEF Wake, CompleteSent
  <2>3. Messengers'
    <3>1. \A d \in Clients : \A f \in Elems(first_req[d]) : Busy(f)'
      BY <1>0, ElemTypes, <1>9, <1>12 DEF Together, Messengers
    <3>2. \A d \in Clients : \A m \in Elems(to_coordinator[d]) : m.wave = W => Busy(m.exclude)'
      BY <1>0, ElemTypes, <1>9, <1>12 DEF Together, Messengers, FirstMsg
    <3>3. \A f \in Engines : StartSent(f)' => Active(f)'
      BY <2>1, <1>9, <1>12 DEF Together, Messengers
    <3> QED
      BY <3>1, <3>2, <3>3, <1>3, <1>u DEF Messengers
  <2>4. engines_running[e] => AnyActive
    BY DEF AnyActive, Active
  <2>5. Behind'
    <3> SUFFICES ASSUME coordinator.wave < W
                 PROVE  CompleteSent' /\ \E f \in Engines : StartSent(f)'
      BY <1>3, <1>u DEF Behind
    <3>1. msg.wave < W
      BY <1>0, <1>2
    <3> QED
      BY <3>1, <2>1, <2>2, <2>4, <1>6, <1>12 DEF Together, Behind
  <2>6. Resting'
    <3> SUFFICES ASSUME coordinator.wave = W, ~coordinator.running PROVE Wake'
      BY <1>3, <1>u DEF Resting
    <3>1. CASE msg.wave = W
      BY <3>1, <2>2, <1>1, <1>12 DEF Together, Resting
    <3>2. CASE msg.wave < W /\ engines_running[e]
      BY <3>2, <2>2, <2>4, <1>12 DEF Together, Resting
    <3>3. CASE stale
      BY <3>3, <2>1 DEF Wake
    <3> QED
      BY <3>1, <3>2, <3>3, <1>0, <1>2, <1>6
  <2>7. Started'
    BY <1>3, <1>9, <1>12, <1>u DEF Together, Started
  <2> QED
    BY <2>3, <2>5, <2>6, <2>7 DEF Together
<1> QED
  BY <1>10, <1>11, <1>12 DEF WavesInv

LEMMA StartDPWaveInv ==
  ASSUME WavesInv, NEW e \in Engines, start_dp_wave(e)
  PROVE  WavesInv'
<1> DEFINE msg == Head(starts[e])
<1>0. /\ Typed /\ Reached /\ coordinator.wave \in Nat /\ W \in Nat /\ coordinator.wave <= W
      /\ coordinator.running \in BOOLEAN /\ current_wave[e] = W
  BY WaveTypes DEF WavesInv
<1>u. /\ unfinished' = unfinished /\ in_step' = in_step
      /\ step_counter' = step_counter /\ coordinator' = coordinator /\ client' = client
      /\ events' = events /\ first_req' = first_req /\ to_coordinator' = to_coordinator
      /\ adds' = adds /\ updates' = updates /\ outputs' = outputs /\ sent' = sent
      /\ starts[e] # <<>> /\ starts' = Got(starts, e)
  BY DEF start_dp_wave, Got
<1>1. /\ starts' \in [Engines -> Seq(StartMsg)] /\ msg \in StartMsg
      /\ Elems(starts[e]) = Elems(starts'[e]) \cup {msg}
      /\ \A f \in Engines : f # e => starts'[f] = starts[f]
  <2>1. Channel(starts, Engines, StartMsg)
    BY <1>0, ChannelFacts
  <2>2. IsGot(starts, starts', Engines, StartMsg, e)
    BY <2>1, <1>u, GotFacts
  <2> QED
    BY <2>2 DEF IsGot
<1>2. /\ msg.wave \in Nat /\ msg.wave <= coordinator.wave
      /\ msg.wave = coordinator.wave => coordinator.running
  BY <1>0, <1>1 DEF StartMsg, Reached
<1>3. CASE Accepts(e, msg)
  <2>1. msg.wave = W /\ coordinator.wave = W /\ coordinator.running
    BY <1>0, <1>2, <1>3 DEF Accepts
  <2>2. /\ current_wave' = [current_wave EXCEPT ![e] = msg.wave]
        /\ engines_running' = [engines_running EXCEPT ![e] = TRUE]
    BY <1>3 DEF start_dp_wave
  <2>3. current_wave' = current_wave
    BY <2>1, <2>2, <1>0 DEF Typed
  <2>4. W' = W
    BY <2>3 DEF W
  <2>5. /\ engines_running' \in [Engines -> BOOLEAN] /\ engines_running'[e]
        /\ \A f \in Engines : f # e => engines_running'[f] = engines_running[f]
    BY <2>2, <1>0 DEF Typed
  <2>6. /\ Active(e)' /\ \A f \in Engines : Active(f) => Active(f)'
        /\ \A f \in Engines : Busy(f) => Busy(f)'
    <3>1. Active(e)' /\ \A f \in Engines : Active(f) => Active(f)'
      BY <2>5, <1>u DEF Active
    <3> QED
      BY <3>1, <1>u DEF Busy
  <2>7. Typed'
    BY <2>3, <2>4, <2>5, <2>6, <1>0, <1>1, <1>u DEF Typed
  <2>8. Reached'
    BY <2>4, <1>0, <1>1, <1>u DEF Reached
  <2>9. ASSUME Together PROVE Together'
    <3>1. \A f \in Engines : StartSent(f)' <=> StartSent(f)
      BY <2>4, <1>u DEF StartSent
    <3>2. Messengers'
      <4>1. \A d \in Clients : \A f \in Elems(first_req[d]) : Busy(f)'
        BY <1>0, ElemTypes, <2>6, <2>9 DEF Together, Messengers
      <4>2. \A d \in Clients : \A m \in Elems(to_coordinator[d]) :
              m.wave = W => Busy(m.exclude)'
        BY <1>0, ElemTypes, <2>6, <2>9 DEF Together, Messengers, FirstMsg
      <4>3. \A f \in Engines : StartSent(f)' => Active(f)'
        BY <3>1, <2>6, <2>9 DEF Together, Messengers
      <4> QED
        BY <4>1, <4>2, <4>3, <2>4, <1>u DEF Messengers
    <3>3. Behind' /\ Resting'
      BY <2>1, <2>4, <1>0, <1>u DEF Behind, Resting
    <3>4. Started'
      BY <2>1, <2>4, <2>6, <2>9, <1>1, <1>u DEF Together, Started, Busy
    <3> QED
      BY <3>2, <3>3, <3>4 DEF Together
  <2> QED
    BY <2>7, <2>8, <2>9 DEF WavesInv
<1>4. CASE ~Accepts(e, msg)
  <2>1. current_wave' = current_wave /\ engines_running' = engines_running
    BY <1>4 DEF start_dp_wave
  <2>2. /\ W' = W /\ (Wake' <=> Wake) /\ (CompleteSent' <=> CompleteSent)
        /\ (AnyActive' <=> AnyActive)
        /\ \A f : /\ Active(f)' <=> Active(f)
                  /\ StartSent(f)' <=> StartSent(f)
                  /\ Busy(f)' <=> Busy(f)
    BY <2>1, <1>u DEF W, Wake, CompleteSent, AnyActive, Active, StartSent, Busy
  <2>3. Typed'
    BY <2>1, <2>2, <1>0, <1>1, <1>u DEF Typed
  <2>4. Reached'
    BY <2>2, <1>0, <1>1, <1>u DEF Reached
  <2>5. ASSUME Together PROVE Together'
    <3>1. Messengers' /\ Behind' /\ Resting'
      BY <2>2, <2>5, <1>u DEF Together, Messengers, Behind, Resting
    <3>2. \A m \in Elems(starts[e]) : m.wave = W /\ m.exclude # e => m \in Elems(starts'[e])
      BY <1>0, <1>1, <1>4 DEF Accepts
    <3>3. Started'
      BY <3>2, <2>2, <2>5, <1>1, <1>u DEF Together, Started
    <3> QED
      BY <3>1, <3>3 DEF Together
  <2> QED
    BY <2>3, <2>4, <2>5 DEF WavesInv
<1> QED
  BY <1>3, <1>4

LEMMA EndStepInv ==
  ASSUME WavesInv, NEW finished, end_step(finished)
  PROVE  WavesInv'
<1> DEFINE left    == [e \in Engines |-> unfinished[e] \ finished]
           goes_on == (step_counter + 1) % SyncPeriod # 0 \/ global_unfinished(left)
           n       == [type |-> "wave_complete", wave |-> W]
<1>0. /\ Typed /\ Reached /\ coordinator.wave \in Nat /\ W \in Nat /\ coordinator.wave <= W
      /\ \A e \in Engines : current_wave[e] = W
  BY WaveTypes DEF WavesInv
<1>u. /\ in_step = Engines /\ in_step' = {} /\ unfinished' = left
      /\ engines_running' = [e \in Engines |-> goes_on]
      /\ coordinator' = coordinator /\ client' = client /\ events' = events
      /\ first_req' = first_req /\ adds' = adds /\ to_coordinator' = to_coordinator
      /\ starts' = starts /\ updates' = updates /\ sent' = sent
  BY DEF end_step
<1>1. left \in [Engines -> SUBSET Requests]
  BY <1>0 DEF Typed
<1>2. engines_running' \in [Engines -> BOOLEAN]
  <2> HIDE DEF goes_on
  <2>1. [e \in Engines |-> goes_on] \in [Engines -> BOOLEAN] \/ goes_on \notin BOOLEAN
    OBVIOUS
  <2>2. goes_on \in BOOLEAN
    BY Zenon DEF goes_on
  <2> QED
    BY <2>1, <2>2, <1>u
<1>3. CASE goes_on
  <2>1. /\ step_counter' = (step_counter + 1) % SyncPeriod
        /\ current_wave' = current_wave /\ outputs' = outputs
    BY <1>3 DEF end_step
  <2> HIDE DEF goes_on, left
  <2>2. step_counter' \in 0 .. SyncPeriod - 1
    BY <2>1, <1>0 DEF Typed
  <2>3. /\ \A e \in Engines : Active(e) /\ Active(e)' /\ Busy(e)'
        /\ AnyActive
    BY <1>0, <1>3, <1>u, EngineFacts DEF Typed, Active, Busy, AnyActive
  <2>4. /\ W' = W /\ (CompleteSent' <=> CompleteSent) /\ (Wake' <=> Wake)
        /\ \A f : StartSent(f)' <=> StartSent(f)
    BY <2>1, <1>u DEF W, CompleteSent, StartSent, Wake
  <2>5. Typed'
    BY <2>1, <2>2, <2>4, <1>0, <1>1, <1>2, <1>u DEF Typed
  <2>6. Reached'
    BY <2>1, <2>4, <1>0, <1>u DEF Reached
  <2>7. ASSUME Together PROVE Together'
    <3>1. Messengers'
      <4>1. /\ \A d \in Clients : \A f \in Elems(first_req[d]) : Busy(f)'
            /\ \A d \in Clients : \A m \in Elems(to_coordinator[d]) : Busy(m.exclude)'
        BY <1>0, ElemTypes, <2>3 DEF FirstMsg
      <4> QED
        BY <4>1, <2>3, <1>u DEF Messengers
    <3>2. Behind' /\ Resting'
      BY <2>3, <2>4, <2>7, <1>u DEF Together, Behind, Resting
    <3>3. Started'
      BY <2>3 DEF Started
    <3> QED
      BY <3>1, <3>2, <3>3 DEF Together
  <2> QED
    BY <2>5, <2>6, <2>7 DEF WavesInv
<1>4. CASE ~goes_on
  <2>1. /\ step_counter' = 0 /\ outputs' = Put(outputs, 0, n)
        /\ current_wave' = [e \in Engines |-> current_wave[e] + 1]
        /\ PromptClient => \A c \in Clients : first_req[c] = <<>>
    BY <1>4 DEF end_step, Notify, Put, next_wave, W
  <2>2. \A e \in Engines : left[e] = {}
    BY <1>4 DEF global_unfinished
  <2> HIDE DEF goes_on, left
  <2>3. /\ current_wave' \in [Engines -> Nat] /\ W' = W + 1
        /\ \A e \in Engines : current_wave'[e] = W'
    BY <2>1, <1>0, EngineFacts DEF W
  <2>4. \A e \in Engines : ~Active(e)'
    BY <2>2, <1>4, <1>u DEF Active
  <2>5. n \in OutMsg /\ n.type = "wave_complete" /\ n.wave = W
    BY <1>0 DEF OutMsg
  <2> HIDE DEF n
  <2>6. /\ outputs' \in [Engines -> Seq(OutMsg)]
        /\ \A e \in Engines : \A m \in Elems(outputs'[e]) : m \in Elems(outputs[e]) \/ m = n
        /\ n \in Elems(outputs'[0])
    <3>1. Channel(outputs, Engines, OutMsg)
      BY <1>0, ChannelFacts
    <3>2. IsPut(outputs, outputs', Engines, OutMsg, 0, n)
      BY <3>1, <2>1, <2>5, EngineFacts, PutFacts
    <3> QED
      BY <3>2 DEF IsPut
  <2>7. Typed'
    BY <2>1, <2>3, <2>6, <1>0, <1>1, <1>2, <1>u DEF Typed
  <2>8. \A e \in Engines : \A m \in Elems(outputs'[e]) : m.wave \in Nat /\ m.wave < W + 1
    <3>1. \A e \in Engines : \A m \in Elems(outputs[e]) : m.wave \in Nat /\ m.wave <= W
      BY <1>0, ElemTypes DEF Reached, OutMsg
    <3> QED
      BY <3>1, <2>5, <2>6, <1>0
  <2>9. Reached'
    <3>1. \A e \in Engines : \A m \in Elems(outputs'[e]) :
            m.wave <= W' /\ (m.type = "wave_complete" => m.wave < W')
      BY <2>3, <2>8, <1>0
    <3>2. coordinator.wave <= W'
      BY <2>3, <1>0
    <3> QED
      BY <3>1, <3>2, <1>0, <1>u DEF Reached
  <2>10. ASSUME PromptClient PROVE Together'
    <3>1. Messengers'
      <4>1. \A c \in Clients : Elems(first_req'[c]) = {}
        BY <2>1, <2>10, <1>u, NoElems
      <4>2. \A c \in Clients : \A m \in Elems(to_coordinator'[c]) : m.wave # W'
        <5>1. \A c \in Clients : \A m \in Elems(to_coordinator[c]) :
                m.wave \in Nat /\ m.wave <= coordinator.wave
          BY <1>0, ElemTypes DEF Reached, FirstMsg
        <5> QED
          BY <5>1, <2>3, <1>0, <1>u
      <4>3. \A e \in Engines : ~StartSent(e)'
        BY <2>3, <2>8, <1>0 DEF StartSent
      <4> QED
        BY <4>1, <4>2, <4>3 DEF Messengers
    <3>2. Behind'
      <4>1. CompleteSent'
        BY <2>3, <2>5, <2>6, <1>0, EngineFacts DEF CompleteSent
      <4> QED
        BY <4>1, <2>4 DEF Behind, AnyActive
    <3>3. Resting' /\ Started'
      BY <2>3, <1>0, <1>u DEF Resting, Started
    <3> QED
      BY <3>1, <3>2, <3>3 DEF Together
  <2> QED
    BY <2>7, <2>9, <2>10 DEF WavesInv
<1> QED
  BY <1>3, <1>4

-----------------------------------------------------------------------------
LEMMA WavesInvInit ==
  ASSUME Init
  PROVE  WavesInv
<1>1. /\ W = 0 /\ \A e \in Engines : ~Active(e)
      /\ coordinator.wave = 0 /\ coordinator.running = FALSE
  BY EngineFacts DEF Init, W, Active
<1>2. /\ \A c \in Clients : /\ Elems(first_req[c]) = {} /\ Elems(to_coordinator[c]) = {}
                            /\ Elems(updates[c]) = {}
                            /\ \A e \in Engines : Elems(adds[c][e]) = {}
      /\ \A e \in Engines : Elems(starts[e]) = {} /\ Elems(outputs[e]) = {}
  BY NoElems DEF Init
<1>3. Typed
  BY <1>1 DEF Init, Typed, StateOf
<1>4. Reached
  BY <1>1, <1>2 DEF Init, Reached
<1>5. Messengers
  BY <1>2 DEF Messengers, StartSent
<1>6. Behind /\ Resting /\ Started
  BY <1>1, <1>2 DEF Behind, Resting, Started, AnyActive
<1> QED
  BY <1>3, <1>4, <1>5, <1>6 DEF WavesInv, Together

LEMMA WavesInvStutter ==
  ASSUME WavesInv, UNCHANGED vars
  PROVE  WavesInv'
<1>u. /\ current_wave' = current_wave /\ engines_running' = engines_running
      /\ unfinished' = unfinished /\ in_step' = in_step /\ step_counter' = step_counter
      /\ coordinator' = coordinator /\ client' = client /\ events' = events
      /\ first_req' = first_req /\ adds' = adds /\ to_coordinator' = to_coordinator
      /\ starts' = starts /\ outputs' = outputs /\ updates' = updates /\ sent' = sent
  BY DEF vars, engine_vars, channels
<1>1. Typed'
  BY <1>u DEF WavesInv, Typed, W, Active
<1>2. Reached'
  BY <1>u DEF WavesInv, Reached, W
<1> QED
  BY <1>1, <1>2, <1>u, FrameTogether DEF WavesInv

LEMMA WavesInvStep ==
  ASSUME WavesInv, [Next]_vars
  PROVE  WavesInv'
<1>1. CASE Next
  BY <1>1, AddAsyncInv, PollInv, ForwardInv, UpdateClientInv, NewRequestInv, PublishInv,
     WaveCompleteInv, StartWaveInv, StartDPWaveInv, BeginStepInv, AddRequestInv, EndStepInv
     DEF Next
<1> QED
  BY <1>1, WavesInvStutter

LEMMA WavesInvariant == Spec => []WavesInv
BY WavesInvInit, WavesInvStep, PTL DEF Spec

(* WavesTypeOK always holds: no client, coordinator, engine or message of  *)
(* DPEngineCoreProc and DPCoordinatorProc is ever ahead of the wave that   *)
(* rank 0 has reached, for any number of engines and clients.              *)
THEOREM WaveTypesHold == Spec => []WavesTypeOK
<1> DEFINE Waves == 0 .. W
           State == [wave : Waves, running : BOOLEAN]
<1>1. ASSUME Typed, Reached PROVE WavesTypeOK
  <2>0. coordinator.wave \in Nat /\ W \in Nat /\ coordinator.wave <= W
    BY <1>1, WaveTypes
  <2>1. /\ \A c \in Clients : /\ Elems(first_req[c]) \subseteq Engines
                              /\ Elems(to_coordinator[c]) \subseteq FirstMsg
                              /\ Elems(updates[c]) \subseteq StateOf
                              /\ \A e \in Engines : Elems(adds[c][e]) \subseteq AddMsg
        /\ \A e \in Engines : /\ Elems(starts[e]) \subseteq StartMsg
                              /\ Elems(outputs[e]) \subseteq OutMsg
    BY <1>1, ElemTypes
  <2>2. current_wave \in [Engines -> Waves] /\ coordinator \in State
    BY <2>0, <1>1 DEF Typed, StateOf
  <2>3. client \in [Clients -> State]
    <3>1. ASSUME NEW c \in Clients PROVE client[c] \in State
      BY <3>1, <2>0, <1>1 DEF Typed, Reached, StateOf
    <3> QED
      BY <3>1, <1>1 DEF Typed
  <2>4. ASSUME NEW c \in Clients
        PROVE  /\ Elems(to_coordinator[c]) \subseteq [exclude : Engines, wave : Waves]
               /\ Elems(updates[c]) \subseteq State
               /\ \A e \in Engines : Elems(adds[c][e]) \subseteq [req : Requests, wave : Waves]
    <3>1. Elems(to_coordinator[c]) \subseteq [exclude : Engines, wave : Waves]
      BY <2>0, <2>1, <2>4, <1>1 DEF Reached, FirstMsg
    <3>2. Elems(updates[c]) \subseteq State
      BY <2>0, <2>1, <2>4, <1>1 DEF Reached, StateOf
    <3>3. \A e \in Engines : Elems(adds[c][e]) \subseteq [req : Requests, wave : Waves]
      BY <2>0, <2>1, <2>4, <1>1 DEF Reached, AddMsg
    <3> QED
      BY <3>1, <3>2, <3>3
  <2>5. ASSUME NEW e \in Engines
        PROVE  /\ Elems(starts[e]) \subseteq [wave : Waves, exclude : Engines \cup {Nobody}]
               /\ Elems(outputs[e]) \subseteq
                    [type : {"wave_complete", "start_wave"}, wave : Waves]
    <3>1. Elems(starts[e]) \subseteq [wave : Waves, exclude : Engines \cup {Nobody}]
      BY <2>0, <2>1, <2>5, <1>1 DEF Reached, StartMsg
    <3>2. Elems(outputs[e]) \subseteq [type : {"wave_complete", "start_wave"}, wave : Waves]
      BY <2>0, <2>1, <2>5, <1>1 DEF Reached, OutMsg
    <3> QED
      BY <3>1, <3>2
  <2>6. /\ engines_running \in [Engines -> BOOLEAN]
        /\ unfinished \in [Engines -> SUBSET Requests]
        /\ in_step \subseteq Engines /\ step_counter \in 0 .. SyncPeriod - 1
        /\ events \in [Clients -> SUBSET {"first_req", "updates"}] /\ sent \subseteq Requests
    BY <1>1 DEF Typed
  <2> QED
    BY <2>1, <2>2, <2>3, <2>4, <2>5, <2>6 DEF WavesTypeOK, Elems, W
<1> QED
  BY <1>1, WavesInvariant, PTL DEF WavesInv

(* WavesAgree always holds: whatever START_DP_WAVE and ADD messages each   *)
(* of them has processed, the engines that enter the collectives of a step *)
(* are in the same wave.                                                   *)
THEOREM EnginesAgree == Spec => []WavesAgree
<1>1. WavesInv => WavesAgree
  BY DEF WavesInv, Typed, WavesAgree
<1> QED
  BY <1>1, WavesInvariant, PTL

LEMMA QuietFacts ==
  ASSUME WavesInv, PromptClient, Quiet
  PROVE  /\ coordinator.wave = W
         /\ coordinator.running => \A e \in Engines : Active(e)
         /\ ~coordinator.running => \A e \in Engines : ~Active(e)
<1>1. Together
  BY DEF WavesInv
<1>2. coordinator.wave \in Nat /\ W \in Nat /\ coordinator.wave <= W
  BY WaveTypes DEF WavesInv
<1>3. /\ \A c \in Clients : Elems(first_req[c]) = {} /\ Elems(to_coordinator[c]) = {}
      /\ \A c \in Clients, e \in Engines : Elems(adds[c][e]) = {}
      /\ \A e \in Engines : Elems(starts[e]) = {} /\ Elems(outputs[e]) = {}
  BY NoElems DEF Quiet
<1>4. ~CompleteSent /\ ~Wake
  BY <1>3 DEF CompleteSent, Wake, StartSent
<1>5. coordinator.wave = W
  BY <1>1, <1>2, <1>4 DEF Together, Behind
<1>6. ASSUME coordinator.running PROVE \A e \in Engines : Active(e)
  BY <1>1, <1>3, <1>5, <1>6 DEF Together, Started, Busy
<1>7. ASSUME ~coordinator.running PROVE \A e \in Engines : ~Active(e)
  BY <1>1, <1>4, <1>5, <1>7 DEF Together, Resting, AnyActive
<1> QED
  BY <1>5, <1>6, <1>7

(* NobodyStranded always holds when clients forward a FIRST_REQ before the *)
(* wave it is about ends: once no message is on its way, the engines of    *)
(* run_busy_loop all run or all pause, for any number of engines, clients  *)
(* and requests.                                                           *)
THEOREM EnginesRunTogether ==
  ASSUME PromptClient
  PROVE  Spec => []NobodyStranded
<1>1. WavesInv => NobodyStranded
  BY QuietFacts, WaveTypes DEF NobodyStranded, WavesInv
<1> QED
  BY <1>1, WavesInvariant, PTL

(* CoordinatorKnows always holds when clients forward a FIRST_REQ before   *)
(* the wave it is about ends: once no message is on its way, the state     *)
(* that DPCoordinatorProc publishes is that of rank 0.                     *)
THEOREM CoordinatorIsRight ==
  ASSUME PromptClient
  PROVE  Spec => []CoordinatorKnows
<1>1. ASSUME WavesInv, Quiet
      PROVE  coordinator = [wave |-> current_wave[0], running |-> Active(0)]
  <2>1. coordinator.wave = current_wave[0]
    BY <1>1, QuietFacts DEF W
  <2>2. coordinator.running \in BOOLEAN /\ (coordinator.running <=> Active(0))
    BY <1>1, QuietFacts, WaveTypes, EngineFacts DEF WavesInv
  <2>3. Active(0) \in BOOLEAN
    <3>1. engines_running[0] \in BOOLEAN
      BY <1>1, EngineFacts DEF WavesInv, Typed
    <3> QED
      BY <3>1, Zenon DEF Active
  <2>4. coordinator.running = Active(0)
    <3> HIDE DEF Active
    <3>1. CASE Active(0)
      <4>1. Active(0) = TRUE /\ coordinator.running = TRUE
        BY <3>1, <2>2, <2>3
      <4> QED
        BY <4>1
    <3>2. CASE ~Active(0)
      <4>1. Active(0) = FALSE /\ coordinator.running = FALSE
        BY <3>2, <2>2, <2>3
      <4> QED
        BY <4>1
    <3> QED
      BY <3>1, <3>2
  <2>5. coordinator \in [wave : Nat, running : BOOLEAN]
    BY <1>1 DEF WavesInv, Typed, StateOf
  <2> QED
    BY <2>1, <2>4, <2>5
<1>2. WavesInv => CoordinatorKnows
  BY <1>1 DEF CoordinatorKnows
<1> QED
  BY <1>2, WavesInvariant, PTL
=============================================================================
