------------------------ MODULE MCFreeKVCacheBlockQueue ------------------------
(* The linked list as an implementation of BlockQueue.  The queue that its *)
(* users see is what get_all_free_blocks returns, as far as                *)
(* num_free_blocks counts it: popleft_n has taken its blocks as soon as it *)
(* has lowered the number, append_n gives them when it raises it.          *)
EXTENDS FreeKVCacheBlockQueue

(* From the next block that popleft_n unlinks, the head being behind.      *)
Unlinked ==
  LET walk[n \in 1 .. NumBlocks + 1] == IF n = 1 THEN curr ELSE Hop(walk[n - 1])
      linked == {n \in 1 .. NumBlocks : \A m \in 1 .. n : walk[m] \in Blocks}
  IN  [n \in linked |-> walk[n]]

Chain == IF pc = "popleft_n" THEN Unlinked ELSE get_all_free_blocks

VisibleQueue ==
  LET unlinking == IF pc = "popleft_n" THEN todo ELSE 0
  IN  [i \in {k \in 1 .. num_free_blocks : unlinking + k \in DOMAIN Chain} |->
         Chain[unlinking + i]]

Queue == INSTANCE BlockQueue WITH queue <- VisibleQueue

(* Every operation, its loop included, is one step of the queue or none:   *)
(* popleft_n takes the first n blocks, append_n adds the given blocks in   *)
(* order, remove takes one out and leaves the others where they are.       *)
ImplementsQueue == Queue!Spec
=============================================================================
