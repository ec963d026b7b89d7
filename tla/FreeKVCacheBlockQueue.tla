------------------------ MODULE FreeKVCacheBlockQueue ------------------------
(***************************************************************************)
(* FreeKVCacheBlockQueue of vllm/v1/core/kv_cache_utils.py: the doubly     *)
(* linked list of free KV-cache blocks, threaded through the blocks' own   *)
(* prev_free_block / next_free_block attributes between two fake blocks    *)
(* that are never popped.                                                  *)
(*                                                                         *)
(* The pointers are modelled as they are written, and the two loops        *)
(* (popleft_n and append_n) take one step per iteration, so the states in  *)
(* which the list is only partly relinked are part of the model.           *)
(*                                                                         *)
(* `order' is a history variable: the queue as the callers of this class   *)
(* think of it.  No action reads it.                                       *)
(***************************************************************************)
EXTENDS Integers, Sequences

CONSTANT NumBlocks      \* len(blocks), the size of the pool

ASSUME NumBlocksAssumption == NumBlocks \in Nat \ {0}

Blocks   == 0 .. NumBlocks - 1
FakeHead == -1          \* fake_free_list_head
FakeTail == -2          \* fake_free_list_tail
None     == -3

Nodes    == Blocks \cup {FakeHead, FakeTail}

VARIABLES
  prev,              \* prev_free_block of every block
  next,              \* next_free_block of every block
  num_free_blocks,
  pc,                \* which loop is running: "idle", "popleft_n", "append_n"
  curr,              \* curr_block of popleft_n, last_block of append_n
  todo,              \* iterations of popleft_n still to run
  arg,               \* blocks append_n has still to link
  ret,               \* what popleft_n has popped so far
  order              \* history: the free blocks in eviction order

loop == <<pc, curr, todo, arg, ret>>
vars == <<prev, next, num_free_blocks, loop, order>>

Init ==
  /\ prev = [b \in Nodes |-> IF b = FakeTail THEN NumBlocks - 1
                             ELSE IF b = FakeHead THEN None ELSE b - 1]
  /\ next = [b \in Nodes |-> IF b = FakeHead THEN 0
                             ELSE IF b = FakeTail THEN None
                             ELSE IF b = NumBlocks - 1 THEN FakeTail ELSE b + 1]
  /\ num_free_blocks = NumBlocks
  /\ pc = "idle" /\ curr = None /\ todo = 0 /\ arg = <<>> /\ ret = <<>>
  /\ order = [i \in 1 .. NumBlocks |-> i - 1]

(* The position of block b in the history sequence. *)
At(b) == CHOOSE i \in DOMAIN order : order[i] = b

Without(s, i) == [k \in 1 .. Len(s) - 1 |-> IF k < i THEN s[k] ELSE s[k + 1]]

-----------------------------------------------------------------------------
popleft ==
  LET first == next[FakeHead] IN
  /\ pc = "idle"
  /\ first \notin {FakeTail, None}
  /\ next[first] # None
  /\ next' = [next EXCEPT ![FakeHead] = next[first], ![first] = None]
  /\ prev' = [prev EXCEPT ![next[first]] = FakeHead, ![first] = None]
  /\ num_free_blocks' = num_free_blocks - 1
  /\ order' = Tail(order)
  /\ UNCHANGED loop

(* Faulty variant: without the assertion that enough blocks are free.      *)
PopTooMany(n) ==
  /\ pc = "idle"
  /\ n > 0
  /\ num_free_blocks' = num_free_blocks - n
  /\ pc' = "popleft_n" /\ curr' = next[FakeHead] /\ todo' = n /\ ret' = <<>>
  /\ UNCHANGED <<prev, next, arg, order>>

popleft_n_start(n) ==
  /\ pc = "idle"
  /\ n > 0 /\ num_free_blocks >= n
  /\ num_free_blocks' = num_free_blocks - n
  /\ pc' = "popleft_n" /\ curr' = next[FakeHead] /\ todo' = n /\ ret' = <<>>
  /\ UNCHANGED <<prev, next, arg, order>>

popleft_n_iter ==
  /\ pc = "popleft_n" /\ todo > 0
  /\ curr # None
  /\ ret' = Append(ret, curr)
  /\ curr' = next[curr]
  /\ prev' = [prev EXCEPT ![curr] = None]
  /\ next' = [next EXCEPT ![curr] = None]
  /\ todo' = todo - 1
  /\ UNCHANGED <<num_free_blocks, pc, arg, order>>

(* Faulty variant: the new front block keeps pointing at a popped one.     *)
PopRelinkOneWay ==
  /\ pc = "popleft_n" /\ todo = 0
  /\ next' = IF curr # None THEN [next EXCEPT ![FakeHead] = curr] ELSE next
  /\ pc' = "idle" /\ curr' = None /\ ret' = <<>>
  /\ order' = SubSeq(order, Len(ret) + 1, Len(order))
  /\ UNCHANGED <<prev, num_free_blocks, todo, arg>>

popleft_n_end ==
  /\ pc = "popleft_n" /\ todo = 0
  /\ IF curr # None
     THEN /\ next' = [next EXCEPT ![FakeHead] = curr]
          /\ prev' = [prev EXCEPT ![curr] = FakeHead]
     ELSE UNCHANGED <<prev, next>>
  /\ pc' = "idle" /\ curr' = None /\ ret' = <<>>
  /\ order' = SubSeq(order, Len(ret) + 1, Len(order))
  /\ UNCHANGED <<num_free_blocks, todo, arg>>

(* The guard is the test that raises RuntimeError. *)
remove(b) ==
  /\ pc = "idle"
  /\ prev[b] # None /\ next[b] # None
  /\ next' = [next EXCEPT ![prev[b]] = next[b], ![b] = None]
  /\ prev' = [prev EXCEPT ![next[b]] = prev[b], ![b] = None]
  /\ num_free_blocks' = num_free_blocks - 1
  /\ order' = Without(order, At(b))
  /\ UNCHANGED loop

(* Callers append only blocks that they took out of the queue. *)
Taken(b) == prev[b] = None /\ next[b] = None

append(b) ==
  LET last == prev[FakeTail] IN
  /\ pc = "idle"
  /\ Taken(b) /\ last # None
  /\ next' = [next EXCEPT ![last] = b, ![b] = FakeTail]
  /\ prev' = [prev EXCEPT ![b] = last, ![FakeTail] = b]
  /\ num_free_blocks' = num_free_blocks + 1
  /\ order' = Append(order, b)
  /\ UNCHANGED loop

(* append_n; num_free_blocks is raised by len(blocks) at the end, and todo  *)
(* remembers that length.                                                  *)
append_n_start(blocks) ==
  /\ pc = "idle"
  /\ blocks # <<>> /\ \A i \in DOMAIN blocks : Taken(blocks[i])
  /\ \A i, j \in DOMAIN blocks : i # j => blocks[i] # blocks[j]
  /\ prev[FakeTail] # None
  /\ pc' = "append_n" /\ curr' = prev[FakeTail] /\ arg' = blocks
  /\ todo' = Len(blocks)
  /\ UNCHANGED <<prev, next, num_free_blocks, ret, order>>

append_n_iter ==
  /\ pc = "append_n" /\ arg # <<>>
  /\ prev' = [prev EXCEPT ![Head(arg)] = curr]
  /\ next' = [next EXCEPT ![curr] = Head(arg)]
  /\ curr' = Head(arg) /\ arg' = Tail(arg)
  /\ order' = Append(order, Head(arg))
  /\ UNCHANGED <<num_free_blocks, pc, todo, ret>>

(* Faulty variant: the last block is not linked to the fake tail.          *)
AppendOpenEnd ==
  /\ pc = "append_n" /\ arg = <<>>
  /\ prev' = [prev EXCEPT ![FakeTail] = curr]
  /\ num_free_blocks' = num_free_blocks + todo
  /\ pc' = "idle" /\ curr' = None /\ todo' = 0
  /\ UNCHANGED <<next, arg, ret, order>>

append_n_end ==
  /\ pc = "append_n" /\ arg = <<>>
  /\ next' = [next EXCEPT ![curr] = FakeTail]
  /\ prev' = [prev EXCEPT ![FakeTail] = curr]
  /\ num_free_blocks' = num_free_blocks + todo
  /\ pc' = "idle" /\ curr' = None /\ todo' = 0
  /\ UNCHANGED <<arg, ret, order>>

BlockSeqs == UNION {[1 .. n -> Blocks] : n \in 0 .. NumBlocks}

Next ==
  \/ popleft
  \/ \E n \in 1 .. NumBlocks : popleft_n_start(n)
  \/ popleft_n_iter
  \/ popleft_n_end
  \/ \E b \in Blocks : remove(b)
  \/ \E b \in Blocks : append(b)
  \/ \E bs \in BlockSeqs : append_n_start(bs)
  \/ append_n_iter
  \/ append_n_end

Spec == Init /\ [][Next]_vars

-----------------------------------------------------------------------------
(* get_all_free_blocks: walk from the fake head while next_free_block is   *)
(* set.  walk[n] is the node reached after n hops.                         *)
Hop(b) == IF b = None THEN None ELSE next[b]

get_all_free_blocks ==
  LET walk[n \in 0 .. NumBlocks + 1] ==
        IF n = 0 THEN FakeHead ELSE Hop(walk[n - 1])
      real == {n \in 1 .. NumBlocks + 1 : walk[n] # None /\ Hop(walk[n]) # None}
  IN  [n \in real |-> walk[n]]

(***************************************************************************)
(* The inductive invariant.  N is the length of the queue and K the number *)
(* of its blocks that a running popleft_n has already unlinked.            *)
(***************************************************************************)
N == Len(order)
K == IF pc = "popleft_n" THEN Len(ret) ELSE 0

TypeOK ==
  /\ prev \in [Nodes -> Nodes \cup {None}]
  /\ next \in [Nodes -> Nodes \cup {None}]
  /\ num_free_blocks \in Nat
  /\ pc \in {"idle", "popleft_n", "append_n"}
  /\ curr \in Nodes \cup {None}
  /\ todo \in Nat
  /\ arg \in Seq(Blocks) /\ ret \in Seq(Blocks) /\ order \in Seq(Blocks)

NoDuplicates == \A i, j \in 1 .. N : order[i] = order[j] => i = j

(* The blocks not yet unlinked are chained in order, both ways.            *)
Chained ==
  \A i \in 1 .. N - 1 :
     i > K => next[order[i]] = order[i + 1] /\ prev[order[i + 1]] = order[i]

(* Both ends hang on the fake blocks; popleft_n lets go of the head end    *)
(* until it is done, append_n of the tail end.                             *)
HeadEnd ==
  pc # "popleft_n" =>
    /\ N = 0 => next[FakeHead] = FakeTail
    /\ N > 0 => next[FakeHead] = order[1] /\ prev[order[1]] = FakeHead
TailEnd ==
  pc # "append_n" =>
    /\ N = 0 => prev[FakeTail] = FakeHead
    /\ N > 0 => prev[FakeTail] = order[N]
    /\ N > K => next[order[N]] = FakeTail

(* A block that is not linked points nowhere: what remove() and append()   *)
(* take for granted of the blocks they are given.                          *)
OutsideIsTaken ==
  \A b \in Blocks : (\A i \in 1 .. N : i > K => order[i] # b) => Taken(b)

PopLoop ==
  pc = "popleft_n" =>
    /\ num_free_blocks = N - K - todo
    /\ K <= N
    /\ curr = IF K < N THEN order[K + 1] ELSE FakeTail
    /\ \A i \in 1 .. K : ret[i] = order[i]
AppendLoop ==
  pc = "append_n" =>
    /\ num_free_blocks = N + Len(arg) - todo
    /\ todo > 0 /\ Len(arg) <= todo
    /\ curr = IF N = 0 THEN FakeHead ELSE order[N]
    /\ \A i \in 1 .. Len(arg) : \A j \in 1 .. N : arg[i] # order[j]
    /\ \A i, j \in 1 .. Len(arg) : arg[i] = arg[j] => i = j
Idle == pc = "idle" => num_free_blocks = N

(* Nothing is ever linked before the fake head or behind the fake tail.    *)
FakeEnds == prev[FakeHead] = None /\ next[FakeTail] = None

(* The list is well formed in every state, also in the middle of the loops *)
(* of popleft_n and append_n: the blocks still linked form one chain, in   *)
(* eviction order and in both directions, that hangs on the fake ends as   *)
(* far as the running loop has not let go of them, and every other block   *)
(* points nowhere.                                                         *)
IInv ==
  /\ TypeOK /\ NoDuplicates /\ Chained /\ HeadEnd /\ TailEnd
  /\ OutsideIsTaken /\ PopLoop /\ AppendLoop /\ Idle /\ FakeEnds

(***************************************************************************)
(* The class's own claims: no assertion of popleft_n or append_n fails, no *)
(* RuntimeError of popleft or append is raised, and "the fake head and     *)
(* tail are NEVER got popped": what popleft_n pops is the front of the     *)
(* queue, real blocks in eviction order.                                   *)
(***************************************************************************)
FakesNeverPopped ==
  /\ pc = "idle" => next[FakeHead] # None /\ prev[FakeTail] # None
  /\ pc = "idle" /\ next[FakeHead] # FakeTail => next[next[FakeHead]] # None
  /\ pc = "popleft_n" /\ todo > 0 => curr \in Blocks
  /\ pc = "popleft_n" => ret = SubSeq(order, 1, Len(ret))
=============================================================================
