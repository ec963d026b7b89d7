----------------------------- MODULE BlockQueue -----------------------------
(***************************************************************************)
(* What FreeKVCacheBlockQueue promises its users (v1/core/block_pool.py,   *)
(* and module KVCacheManager): a queue of distinct blocks, taken from the  *)
(* front, put back at the end, and removed from anywhere in between.       *)
(***************************************************************************)
EXTENDS Integers, Sequences

CONSTANT NumBlocks

VARIABLE queue

Init == queue = [i \in 1 .. NumBlocks |-> i - 1]

(* popleft and popleft_n                                                   *)
TakeFirst(n) ==
  /\ n <= Len(queue)
  /\ queue' = SubSeq(queue, n + 1, Len(queue))

(* remove                                                                  *)
TakeOut(i) ==
  queue' = SubSeq(queue, 1, i - 1) \o SubSeq(queue, i + 1, Len(queue))

(* append and append_n                                                     *)
PutBack ==
  /\ Len(queue') > Len(queue)
  /\ SubSeq(queue', 1, Len(queue)) = queue
  /\ \A i, j \in DOMAIN queue' : queue'[i] = queue'[j] => i = j
  /\ \A i \in DOMAIN queue' : queue'[i] \in 0 .. NumBlocks - 1

Next ==
  \/ \E n \in 1 .. NumBlocks : TakeFirst(n)
  \/ \E i \in DOMAIN queue : TakeOut(i)
  \/ PutBack

Spec == Init /\ [][Next]_queue
=============================================================================
