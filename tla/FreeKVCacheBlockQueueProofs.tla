--------------------- MODULE FreeKVCacheBlockQueueProofs ---------------------
(***************************************************************************)
(* The linked list of FreeKVCacheBlockQueue is well formed after every     *)
(* step and implements the queue of module BlockQueue, for a pool of any   *)
(* size.                                                                   *)
(***************************************************************************)
EXTENDS FreeKVCacheBlockQueue, TLAPS

(* The two fake blocks and None are not blocks, and differ.                *)
LEMMA NodeFacts ==
  /\ FakeHead \notin Blocks /\ FakeTail \notin Blocks /\ None \notin Blocks
  /\ FakeHead # FakeTail /\ None \notin Nodes
  /\ FakeHead \in Nodes /\ FakeTail \in Nodes /\ Blocks \subseteq Nodes
  /\ \A b \in Nodes : b \in Blocks \/ b = FakeHead \/ b = FakeTail
BY NumBlocksAssumption DEF Nodes, Blocks, FakeHead, FakeTail, None

(* __init__ links all blocks in order between the fake ends.               *)
LEMMA InitIInv == Init => IInv
<1> SUFFICES ASSUME Init PROVE IInv
  OBVIOUS
<1> USE NumBlocksAssumption DEF Init, Nodes, Blocks, FakeHead, FakeTail, None
<1>1. TypeOK
  BY DEF TypeOK
<1>2. N = NumBlocks /\ K = 0 /\ \A i \in 1 .. N : order[i] = i - 1
  BY DEF N, K
<1>3. NoDuplicates
  BY <1>2 DEF NoDuplicates
<1>4. Chained
  <2> SUFFICES ASSUME NEW i \in 1 .. N - 1
               PROVE  next[order[i]] = order[i + 1] /\ prev[order[i + 1]] = order[i]
    BY DEF Chained
  <2> order[i] = i - 1 /\ order[i + 1] = i /\ i \in 1 .. NumBlocks - 1
    BY <1>2
  <2> QED OBVIOUS
<1>5. HeadEnd /\ TailEnd /\ FakeEnds
  BY <1>2 DEF HeadEnd, TailEnd, FakeEnds
<1>6. OutsideIsTaken
  <2> SUFFICES ASSUME NEW b \in Blocks PROVE \E i \in 1 .. N : order[i] = b
    BY <1>2 DEF OutsideIsTaken
  <2> b + 1 \in 1 .. N /\ order[b + 1] = b
    BY <1>2
  <2> QED OBVIOUS
<1>7. PopLoop /\ AppendLoop /\ Idle
  BY <1>2 DEF PopLoop, AppendLoop, Idle
<1> QED BY <1>1, <1>3, <1>4, <1>5, <1>6, <1>7 DEF IInv

(* popleft unlinks the first block and reattaches the head end.            *)
LEMMA PopleftIInv == IInv /\ popleft => IInv'
<1> SUFFICES ASSUME IInv, popleft PROVE IInv'
  OBVIOUS
<1> USE NodeFacts
<1> DEFINE first == next[FakeHead]
           second == next[first]
<1>0. TypeOK /\ NoDuplicates /\ Chained /\ HeadEnd /\ TailEnd
      /\ OutsideIsTaken /\ Idle /\ FakeEnds /\ pc = "idle" /\ pc' = "idle"
      /\ K = 0 /\ K' = 0
  BY DEF IInv, popleft, K, loop
<1>1. /\ first # FakeTail /\ second # None
      /\ next' = [next EXCEPT ![FakeHead] = second, ![first] = None]
      /\ prev' = [prev EXCEPT ![second] = FakeHead, ![first] = None]
      /\ num_free_blocks' = num_free_blocks - 1 /\ order' = Tail(order)
      /\ UNCHANGED <<pc, curr, todo, arg, ret>>
  BY DEF popleft, loop
<1>2. N \in Nat /\ \A i \in 1 .. N : order[i] \in Blocks
  BY <1>0 DEF TypeOK, N
<1>3. N > 0 /\ first = order[1] /\ first \in Blocks
  BY <1>0, <1>1, <1>2 DEF HeadEnd
<1>4. second = IF N = 1 THEN FakeTail ELSE order[2]
  BY <1>0, <1>2, <1>3 DEF Chained, TailEnd
<1>5. N' = N - 1 /\ order' \in Seq(Blocks)
      /\ \A i \in 1 .. N - 1 : order'[i] = order[i + 1]
  BY <1>0, <1>1, <1>3 DEF TypeOK, N
<1>6. TypeOK'
  <2>1. second \in Nodes
    BY <1>2, <1>3, <1>4
  <2>2. next' \in [Nodes -> Nodes \cup {None}] /\ prev' \in [Nodes -> Nodes \cup {None}]
    BY <1>0, <1>1, <1>3, <2>1 DEF TypeOK
  <2>3. num_free_blocks' \in Nat
    BY <1>0, <1>1, <1>2, <1>3 DEF Idle
  <2> QED BY <1>0, <1>1, <1>5, <2>2, <2>3 DEF TypeOK
<1>7. NoDuplicates'
  BY <1>0, <1>2, <1>5 DEF NoDuplicates
<1>8. /\ \A i \in 2 .. N : next'[order[i]] = next[order[i]]
      /\ \A i \in 3 .. N : prev'[order[i]] = prev[order[i]]
  BY <1>0, <1>1, <1>2, <1>3, <1>4 DEF NoDuplicates, TypeOK
<1>9. Chained'
  BY <1>0, <1>2, <1>5, <1>8 DEF Chained
<1>10. HeadEnd' /\ FakeEnds'
  <2>1. next'[FakeHead] = second /\ prev'[second] = FakeHead
    <3>1. second # first /\ second \in Nodes
      BY <1>0, <1>2, <1>3, <1>4 DEF NoDuplicates
    <3> QED BY <3>1, <1>0, <1>1, <1>3 DEF TypeOK
  <2>2. FakeEnds'
    BY <1>0, <1>1, <1>2, <1>3, <1>4 DEF FakeEnds, TypeOK
  <2> QED BY <2>1, <2>2, <1>0, <1>2, <1>3, <1>4, <1>5 DEF HeadEnd
<1>11. TailEnd'
  <2>1. CASE N = 1
    BY <2>1, <1>0, <1>1, <1>2, <1>3, <1>4, <1>5 DEF TailEnd, TypeOK
  <2>2. CASE N > 1
    <3>1. prev'[FakeTail] = prev[FakeTail]
      BY <2>2, <1>0, <1>1, <1>2, <1>3, <1>4 DEF TypeOK
    <3>2. order'[N - 1] = order[N] /\ next'[order[N]] = next[order[N]]
      BY <2>2, <1>2, <1>5, <1>8
    <3> QED BY <2>2, <3>1, <3>2, <1>0, <1>2, <1>5 DEF TailEnd
  <2> QED BY <2>1, <2>2, <1>2, <1>3
<1>12. OutsideIsTaken'
  <2> SUFFICES ASSUME NEW b \in Blocks, \A i \in 1 .. N - 1 : order'[i] # b
               PROVE  Taken(b)'
    BY <1>0, <1>2, <1>5 DEF OutsideIsTaken
  <2>1. CASE b = first
    BY <2>1, <1>0, <1>1, <1>2, <1>3, <1>4 DEF Taken, TypeOK, NoDuplicates
  <2>2. CASE b # first
    <3>1. \A i \in 1 .. N : order[i] # b
      <4> SUFFICES ASSUME NEW i \in 1 .. N, i > 1 PROVE order[i] # b
        BY <2>2, <1>2, <1>3
      <4> i - 1 \in 1 .. N - 1 /\ order'[i - 1] = order[i]
        BY <1>2, <1>5
      <4> QED OBVIOUS
    <3>2. Taken(b) /\ b # second
      BY <3>1, <1>0, <1>2, <1>3, <1>4 DEF OutsideIsTaken
    <3> QED BY <2>2, <3>2, <1>0, <1>1 DEF Taken, TypeOK
  <2> QED BY <2>1, <2>2
<1>13. Idle' /\ PopLoop' /\ AppendLoop'
  BY <1>0, <1>1, <1>2, <1>5 DEF Idle, PopLoop, AppendLoop
<1> QED BY <1>6, <1>7, <1>9, <1>10, <1>11, <1>12, <1>13 DEF IInv

(* Entering popleft_n: the counter drops, the list is untouched.           *)
LEMMA PopNStartIInv ==
  ASSUME NEW n \in 1 .. NumBlocks PROVE IInv /\ popleft_n_start(n) => IInv'
<1> SUFFICES ASSUME IInv, popleft_n_start(n) PROVE IInv'
  OBVIOUS
<1> USE NodeFacts
<1>1. /\ TypeOK /\ NoDuplicates /\ Chained /\ HeadEnd /\ TailEnd
      /\ OutsideIsTaken /\ Idle /\ FakeEnds
      /\ pc = "idle" /\ pc' = "popleft_n" /\ ret' = <<>>
      /\ K = 0 /\ K' = 0
  BY DEF IInv, popleft_n_start, K
<1>2. N' = N /\ N \in Nat /\ UNCHANGED <<prev, next, order, arg>>
  BY <1>1 DEF popleft_n_start, N, TypeOK
<1>3. /\ curr' = next[FakeHead] /\ todo' = n /\ num_free_blocks >= n
      /\ num_free_blocks' = num_free_blocks - n /\ n \in Nat
  BY NumBlocksAssumption DEF popleft_n_start
<1>4. TypeOK'
  BY <1>1, <1>2, <1>3 DEF TypeOK
<1>5. NoDuplicates' /\ Chained' /\ HeadEnd' /\ TailEnd' /\ FakeEnds'
  BY <1>1, <1>2 DEF NoDuplicates, Chained, HeadEnd, TailEnd, FakeEnds
<1>6. OutsideIsTaken'
  BY <1>1, <1>2 DEF OutsideIsTaken, Taken
<1>7. PopLoop'
  BY <1>1, <1>2, <1>3 DEF PopLoop, HeadEnd, Idle
<1>8. AppendLoop' /\ Idle'
  BY <1>1 DEF AppendLoop, Idle
<1> QED BY <1>4, <1>5, <1>6, <1>7, <1>8 DEF IInv

(* One iteration of popleft_n cuts off the first block still linked.       *)
LEMMA PopNIterIInv == IInv /\ popleft_n_iter => IInv'
<1> SUFFICES ASSUME IInv, popleft_n_iter PROVE IInv'
  OBVIOUS
<1> USE NodeFacts
<1>1. /\ TypeOK /\ NoDuplicates /\ Chained /\ TailEnd
      /\ OutsideIsTaken /\ PopLoop /\ FakeEnds
      /\ pc = "popleft_n" /\ pc' = "popleft_n" /\ todo > 0
  BY DEF IInv, popleft_n_iter
<1>2. /\ UNCHANGED <<num_free_blocks, arg, order>>
      /\ ret' = Append(ret, curr) /\ curr' = next[curr] /\ todo' = todo - 1
      /\ prev' = [prev EXCEPT ![curr] = None]
      /\ next' = [next EXCEPT ![curr] = None]
  BY DEF popleft_n_iter
<1>3. N' = N /\ N \in Nat /\ \A i \in 1 .. N : order[i] \in Blocks
  BY <1>1, <1>2 DEF N, TypeOK
<1>4. K = Len(ret) /\ K \in Nat /\ todo \in Nat /\ num_free_blocks \in Nat
  BY <1>1 DEF K, TypeOK
<1>5. K < N /\ curr = order[K + 1] /\ curr \in Blocks
  BY <1>1, <1>3, <1>4 DEF PopLoop
<1>6. /\ ret' \in Seq(Blocks) /\ K' = K + 1 /\ ret'[K + 1] = curr
      /\ \A i \in 1 .. K : ret'[i] = ret[i]
  BY <1>1, <1>2, <1>4, <1>5 DEF TypeOK, K
<1>7. next[curr] = IF K + 1 < N THEN order[K + 2] ELSE FakeTail
  BY <1>1, <1>3, <1>4, <1>5 DEF Chained, TailEnd
<1>8. TypeOK'
  BY <1>1, <1>2, <1>4, <1>5, <1>6 DEF TypeOK
<1>9. /\ NoDuplicates'
      /\ \A i \in 1 .. N : i > K + 1 => order[i] # curr
  BY <1>1, <1>2, <1>3, <1>4, <1>5 DEF NoDuplicates
<1>10. \A b \in Nodes : b # curr => next'[b] = next[b] /\ prev'[b] = prev[b]
  BY <1>1, <1>2, <1>5 DEF TypeOK
<1>11. Chained'
  BY <1>1, <1>2, <1>3, <1>4, <1>6, <1>9, <1>10 DEF Chained
<1>12. HeadEnd' /\ FakeEnds' /\ AppendLoop' /\ Idle'
  BY <1>1, <1>5, <1>10 DEF HeadEnd, FakeEnds, AppendLoop, Idle
<1>13. TailEnd'
  BY <1>1, <1>2, <1>3, <1>4, <1>5, <1>6, <1>9, <1>10 DEF TailEnd
<1>14. OutsideIsTaken'
  <2> SUFFICES ASSUME NEW b \in Blocks, \A i \in 1 .. N : i > K + 1 => order[i] # b
               PROVE  Taken(b)'
    BY <1>2, <1>3, <1>6 DEF OutsideIsTaken
  <2>1. CASE b = curr
    BY <2>1, <1>1, <1>2 DEF Taken, TypeOK
  <2>2. CASE b # curr
    <3>1. \A i \in 1 .. N : i > K => order[i] # b
      BY <2>2, <1>3, <1>4, <1>5
    <3> QED BY <3>1, <2>2, <1>1, <1>10 DEF OutsideIsTaken, Taken
  <2> QED BY <2>1, <2>2
<1>15. PopLoop'
  <2>1. \A i \in 1 .. K + 1 : ret'[i] = order[i]
    BY <1>1, <1>4, <1>5, <1>6 DEF PopLoop
  <2> QED BY <2>1, <1>1, <1>2, <1>3, <1>4, <1>5, <1>6, <1>7 DEF PopLoop
<1> QED BY <1>8, <1>9, <1>11, <1>12, <1>13, <1>14, <1>15 DEF IInv

(* popleft_n reattaches what is left to the fake head.                     *)
LEMMA PopNEndIInv == IInv /\ popleft_n_end => IInv'
<1> SUFFICES ASSUME IInv, popleft_n_end PROVE IInv'
  OBVIOUS
<1> USE NodeFacts
<1>1. /\ TypeOK /\ NoDuplicates /\ Chained /\ TailEnd
      /\ OutsideIsTaken /\ PopLoop /\ FakeEnds
      /\ pc = "popleft_n" /\ pc' = "idle" /\ todo = 0 /\ K' = 0 /\ ret' = <<>>
  BY DEF IInv, popleft_n_end, K
<1>2. N \in Nat /\ \A i \in 1 .. N : order[i] \in Blocks
  BY <1>1 DEF N, TypeOK
<1>3. K = Len(ret) /\ K \in Nat /\ K <= N /\ num_free_blocks = N - K
      /\ curr = IF K < N THEN order[K + 1] ELSE FakeTail
  BY <1>1, <1>2 DEF K, TypeOK, PopLoop
<1>4. curr # None /\ curr \in Nodes /\ curr # FakeHead
  BY <1>2, <1>3
<1>5. /\ next' = [next EXCEPT ![FakeHead] = curr]
      /\ prev' = [prev EXCEPT ![curr] = FakeHead]
      /\ order' = SubSeq(order, K + 1, N)
      /\ UNCHANGED <<num_free_blocks, todo, arg>> /\ curr' = None
  BY <1>3, <1>4 DEF popleft_n_end, N
<1>6. N' = N - K /\ order' \in Seq(Blocks)
      /\ \A i \in 1 .. N - K : order'[i] = order[i + K]
  <2>1. PICK s, k, l : s = order /\ k = K /\ l = Len(s)
    OBVIOUS
  <2>2. s \in Seq(Blocks) /\ k \in Nat /\ k <= l /\ l \in Nat /\ order' = SubSeq(s, k + 1, l)
    BY <1>1, <1>2, <1>3, <1>5, <2>1 DEF TypeOK, N
  <2>3. /\ Len(SubSeq(s, k + 1, l)) = l - k /\ SubSeq(s, k + 1, l) \in Seq(Blocks)
        /\ \A i \in 1 .. l - k : SubSeq(s, k + 1, l)[i] = s[i + k]
    BY <2>1, <2>2
  <2> QED  BY <2>1, <2>2, <2>3 DEF N
<1>7. TypeOK'
  BY <1>1, <1>4, <1>5, <1>6 DEF TypeOK
<1>8. NoDuplicates'
  <2> SUFFICES ASSUME NEW i \in 1 .. N - K, NEW j \in 1 .. N - K, order'[i] = order'[j]
               PROVE  i = j
    BY <1>6 DEF NoDuplicates
  <2> i + K \in 1 .. N /\ j + K \in 1 .. N /\ order[i + K] = order[j + K]
    BY <1>2, <1>3, <1>6
  <2> i + K = j + K
    BY <1>1 DEF NoDuplicates
  <2> QED BY <1>2, <1>3
<1>9. /\ \A b \in Nodes : b # FakeHead => next'[b] = next[b]
      /\ \A b \in Nodes : b # curr => prev'[b] = prev[b]
      /\ next'[FakeHead] = curr /\ prev'[curr] = FakeHead
  BY <1>1, <1>4, <1>5 DEF TypeOK
<1>10. Chained'
  <2> SUFFICES ASSUME NEW i \in 1 .. N - K - 1
               PROVE  next'[order'[i]] = order'[i + 1] /\ prev'[order'[i + 1]] = order'[i]
    BY <1>6 DEF Chained
  <2>1. /\ i + K \in 1 .. N - 1 /\ i + K > K /\ order'[i] = order[i + K]
        /\ order'[i + 1] = order[i + K + 1] /\ order[i + K] \in Blocks
        /\ order[i + K + 1] \in Blocks
    BY <1>2, <1>3, <1>6
  <2>2. next[order[i + K]] = order[i + K + 1] /\ prev[order[i + K + 1]] = order[i + K]
    BY <2>1, <1>1 DEF Chained
  <2>3. order[i + K + 1] # curr
    BY <2>1, <1>1, <1>2, <1>3 DEF NoDuplicates
  <2> QED BY <2>1, <2>2, <2>3, <1>9
<1>11. HeadEnd' /\ FakeEnds'
  BY <1>1, <1>2, <1>3, <1>4, <1>6, <1>9 DEF HeadEnd, FakeEnds
<1>12. TailEnd'
  <2>1. CASE K = N
    <3>1. N' = 0 /\ K' = 0
      BY <2>1, <1>1, <1>2, <1>6
    <3>2. curr = FakeTail
      <4> ~ (K < N)
        BY <2>1, <1>2
      <4> QED BY <1>3
    <3>3. prev'[FakeTail] = FakeHead
      BY <3>2, <1>9
    <3> QED BY <3>1, <3>3, <1>1 DEF TailEnd
  <2>2. CASE K < N
    <3>1. order'[N - K] = order[N] /\ order[N] \in Blocks
      BY <2>2, <1>2, <1>3, <1>6
    <3> QED BY <3>1, <2>2, <1>1, <1>2, <1>3, <1>6, <1>9 DEF TailEnd
  <2> QED BY <2>1, <2>2, <1>2, <1>3
<1>13. OutsideIsTaken'
  <2> SUFFICES ASSUME NEW b \in Blocks, \A i \in 1 .. N - K : order'[i] # b
               PROVE  Taken(b)'
    BY <1>1, <1>6 DEF OutsideIsTaken
  <2>1. \A i \in 1 .. N : i > K => order[i] # b
    <3> SUFFICES ASSUME NEW i \in 1 .. N, i > K PROVE order[i] # b
      OBVIOUS
    <3> i - K \in 1 .. N - K /\ order'[i - K] = order[i]
      BY <1>2, <1>3, <1>6
    <3> QED OBVIOUS
  <2>2. b # curr /\ Taken(b)
    BY <2>1, <1>1, <1>2, <1>3 DEF OutsideIsTaken
  <2> QED BY <2>2, <1>9 DEF Taken
<1>14. PopLoop' /\ AppendLoop' /\ Idle'
  BY <1>1, <1>3, <1>5, <1>6 DEF PopLoop, AppendLoop, Idle
<1> QED BY <1>7, <1>8, <1>10, <1>11, <1>12, <1>13, <1>14 DEF IInv

(* remove closes the gap from both sides, wherever the block is.           *)
LEMMA RemoveIInv == ASSUME NEW b \in Blocks PROVE IInv /\ remove(b) => IInv'
<1> SUFFICES ASSUME IInv, remove(b) PROVE IInv'
  OBVIOUS
<1> USE NodeFacts
<1>1. /\ TypeOK /\ NoDuplicates /\ Chained /\ HeadEnd /\ TailEnd
      /\ OutsideIsTaken /\ Idle /\ FakeEnds /\ pc = "idle" /\ pc' = "idle"
      /\ K = 0 /\ K' = 0
  BY DEF IInv, remove, K, loop
<1> DEFINE p == prev[b]
           q == next[b]
           m == At(b)
<1>2. /\ p # None /\ q # None
      /\ next' = [next EXCEPT ![p] = q, ![b] = None]
      /\ prev' = [prev EXCEPT ![q] = p, ![b] = None]
      /\ num_free_blocks' = num_free_blocks - 1
      /\ order' = Without(order, m)
      /\ UNCHANGED <<pc, curr, todo, arg, ret>>
  BY DEF remove, loop
<1>3. N \in Nat /\ DOMAIN order = 1 .. N /\ \A i \in 1 .. N : order[i] \in Blocks
  BY <1>1 DEF TypeOK, N
<1>4. m \in 1 .. N /\ order[m] = b
  <2> \E i \in 1 .. N : order[i] = b
    BY <1>1, <1>2, <1>3 DEF OutsideIsTaken, Taken
  <2> QED BY <1>3 DEF At
<1> HIDE DEF m
<1>5. /\ p = IF m = 1 THEN FakeHead ELSE order[m - 1]
      /\ q = IF m = N THEN FakeTail ELSE order[m + 1]
  <2>1. CASE m = 1
    BY <2>1, <1>1, <1>3, <1>4 DEF HeadEnd, TailEnd, Chained
  <2>2. CASE m > 1
    <3>1. m - 1 \in 1 .. N - 1 /\ m - 1 > 0 /\ (m - 1) + 1 = m
      BY <2>2, <1>3, <1>4
    <3>2. prev[order[m]] = order[m - 1]
      BY <3>1, <1>1 DEF Chained
    <3> QED BY <2>2, <3>2, <1>1, <1>3, <1>4 DEF TailEnd, Chained
  <2> QED BY <2>1, <2>2, <1>3, <1>4
<1>6. \A i \in 1 .. N : i # m => order[i] # b
  BY <1>1, <1>4 DEF NoDuplicates
<1>7. p \in Nodes /\ q \in Nodes /\ p # b /\ q # b /\ p # FakeTail /\ q # FakeHead
  BY <1>3, <1>4, <1>5, <1>6
<1>8. /\ N' = N - 1 /\ order' \in Seq(Blocks)
      /\ \A i \in 1 .. N - 1 : order'[i] = IF i < m THEN order[i] ELSE order[i + 1]
  <2>1. order' = [k \in 1 .. N - 1 |-> IF k < m THEN order[k] ELSE order[k + 1]]
    BY <1>2 DEF Without, N
  <2>2. \A k \in 1 .. N - 1 : (IF k < m THEN order[k] ELSE order[k + 1]) \in Blocks
    BY <1>3, <1>4
  <2> QED BY <2>1, <2>2, <1>3, <1>4 DEF N
<1>9. /\ next'[p] = q /\ prev'[q] = p /\ next'[b] = None /\ prev'[b] = None
      /\ \A x \in Nodes : x # p /\ x # b => next'[x] = next[x]
      /\ \A x \in Nodes : x # q /\ x # b => prev'[x] = prev[x]
  BY <1>1, <1>2, <1>7 DEF TypeOK
<1>10. TypeOK'
  <2>1. num_free_blocks' \in Nat
    BY <1>1, <1>2, <1>3, <1>4 DEF Idle
  <2> QED BY <2>1, <1>1, <1>2, <1>7, <1>8 DEF TypeOK
<1>11. NoDuplicates'
  <2> SUFFICES ASSUME NEW i \in 1 .. N - 1, NEW j \in 1 .. N - 1, order'[i] = order'[j]
               PROVE  i = j
    BY <1>8 DEF NoDuplicates
  <2> DEFINE f(k) == IF k < m THEN k ELSE k + 1
  <2>1. /\ f(i) \in 1 .. N /\ f(j) \in 1 .. N
        /\ order[f(i)] = order'[i] /\ order[f(j)] = order'[j]
    BY <1>3, <1>4, <1>8
  <2>2. f(i) = f(j)
    BY <2>1, <1>1 DEF NoDuplicates
  <2> QED BY <2>2, <1>3, <1>4
<1>12. Chained'
  <2> SUFFICES ASSUME NEW i \in 1 .. N - 2
               PROVE  next'[order'[i]] = order'[i + 1] /\ prev'[order'[i + 1]] = order'[i]
    BY <1>3, <1>8 DEF Chained
  <2>0. i \in 1 .. N - 1 /\ i + 1 \in 1 .. N - 1
    BY <1>3
  <2>1. CASE i + 1 < m
    <3>1. order'[i] = order[i] /\ order'[i + 1] = order[i + 1]
          /\ order[i] \in Blocks /\ order[i + 1] \in Blocks
      BY <2>0, <2>1, <1>3, <1>4, <1>8
    <3>2. order[i] # b /\ order[i + 1] # b /\ order[i] # p /\ order[i + 1] # q
      BY <2>0, <2>1, <3>1, <1>1, <1>3, <1>4, <1>5, <1>6 DEF NoDuplicates
    <3>3. next[order[i]] = order[i + 1] /\ prev[order[i + 1]] = order[i]
      BY <2>0, <1>1 DEF Chained
    <3> QED BY <3>1, <3>2, <3>3, <1>9
  <2>2. CASE i + 1 = m
    <3>1. order'[i] = order[m - 1] /\ order'[i + 1] = order[m + 1] /\ m # 1 /\ m # N
      BY <2>0, <2>2, <1>3, <1>4, <1>8
    <3> QED BY <3>1, <1>5, <1>9
  <2>3. CASE i >= m
    <3>1. order'[i] = order[i + 1] /\ order'[i + 1] = order[i + 2]
          /\ order[i + 1] \in Blocks /\ order[i + 2] \in Blocks
      BY <2>0, <2>3, <1>3, <1>4, <1>8
    <3>2. order[i + 1] # b /\ order[i + 2] # b /\ order[i + 1] # p /\ order[i + 2] # q
      <4>1. i + 1 \in 1 .. N /\ i + 2 \in 1 .. N /\ i + 1 # m /\ i + 2 # m
            /\ i + 1 # m - 1 /\ i + 2 # m + 1
        BY <2>0, <2>3, <1>3, <1>4
      <4> QED BY <4>1, <3>1, <1>1, <1>3, <1>4, <1>5, <1>6 DEF NoDuplicates
    <3>3. next[order[i + 1]] = order[i + 2] /\ prev[order[i + 2]] = order[i + 1]
      <4> i + 1 \in 1 .. N - 1 /\ i + 1 > 0 /\ (i + 1) + 1 = i + 2
        BY <2>0, <1>3
      <4> QED BY <1>1 DEF Chained
    <3> QED BY <3>1, <3>2, <3>3, <1>9
  <2> QED BY <2>1, <2>2, <2>3, <1>3, <1>4
<1>13. HeadEnd'
  <2>1. CASE m = 1
    BY <2>1, <1>1, <1>3, <1>4, <1>5, <1>8, <1>9 DEF HeadEnd
  <2>2. CASE m > 1
    <3>1. order'[1] = order[1] /\ order[1] \in Blocks /\ N > 1 /\ order[1] # b
      BY <2>2, <1>3, <1>4, <1>6, <1>8
    <3>2. order[1] # q /\ FakeHead # p
      BY <2>2, <3>1, <1>1, <1>3, <1>4, <1>5 DEF NoDuplicates
    <3> QED BY <3>1, <3>2, <1>1, <1>3, <1>8, <1>9 DEF HeadEnd
  <2> QED BY <2>1, <2>2, <1>3, <1>4
<1>14. TailEnd'
  <2>1. CASE m = N
    <3>1. N > 1 => order'[N - 1] = order[N - 1] /\ order[N - 1] = p
      BY <2>1, <1>3, <1>4, <1>5, <1>8
    <3> QED BY <2>1, <3>1, <1>1, <1>3, <1>4, <1>5, <1>8, <1>9 DEF TailEnd
  <2>2. CASE m < N
    <3>1. order'[N - 1] = order[N] /\ order[N] \in Blocks /\ N > 1 /\ order[N] # b
      BY <2>2, <1>3, <1>4, <1>6, <1>8
    <3>2. order[N] # p /\ FakeTail # q
      BY <2>2, <3>1, <1>1, <1>3, <1>4, <1>5 DEF NoDuplicates
    <3> QED BY <3>1, <3>2, <1>1, <1>3, <1>8, <1>9 DEF TailEnd
  <2> QED BY <2>1, <2>2, <1>3, <1>4
<1>15. FakeEnds'
  BY <1>1, <1>7, <1>9 DEF FakeEnds
<1>16. OutsideIsTaken'
  <2> SUFFICES ASSUME NEW x \in Blocks, \A i \in 1 .. N - 1 : order'[i] # x
               PROVE  Taken(x)'
    BY <1>1, <1>3, <1>8 DEF OutsideIsTaken
  <2>1. CASE x = b
    BY <2>1, <1>9 DEF Taken
  <2>2. CASE x # b
    <3>1. \A i \in 1 .. N : order[i] # x
      <4> SUFFICES ASSUME NEW i \in 1 .. N PROVE order[i] # x
        OBVIOUS
      <4>1. CASE i = m
        BY <4>1, <2>2, <1>4
      <4>2. CASE i < m
        <5> i \in 1 .. N - 1 /\ order'[i] = order[i]
          BY <4>2, <1>3, <1>4, <1>8
        <5> QED OBVIOUS
      <4>3. CASE i > m
        <5> i - 1 \in 1 .. N - 1 /\ order'[i - 1] = order[i]
          BY <4>3, <1>3, <1>4, <1>8
        <5> QED OBVIOUS
      <4> QED BY <4>1, <4>2, <4>3, <1>3, <1>4
    <3>2. Taken(x) /\ x # p /\ x # q
      BY <3>1, <1>1, <1>3, <1>4, <1>5 DEF OutsideIsTaken
    <3> QED BY <3>2, <2>2, <1>9 DEF Taken
  <2> QED BY <2>1, <2>2
<1>17. Idle' /\ PopLoop' /\ AppendLoop'
  BY <1>1, <1>2, <1>3, <1>8 DEF Idle, PopLoop, AppendLoop
<1> QED BY <1>10, <1>11, <1>12, <1>13, <1>14, <1>15, <1>16, <1>17 DEF IInv

(* append puts the block between the last one and the fake tail.           *)
LEMMA AppendIInv == ASSUME NEW b \in Blocks PROVE IInv /\ append(b) => IInv'
<1> SUFFICES ASSUME IInv, append(b) PROVE IInv'
  OBVIOUS
<1> USE NodeFacts
<1> DEFINE last == prev[FakeTail]
<1>1. /\ TypeOK /\ NoDuplicates /\ Chained /\ HeadEnd /\ TailEnd
      /\ OutsideIsTaken /\ Idle /\ FakeEnds /\ pc = "idle" /\ pc' = "idle"
      /\ K = 0 /\ K' = 0
  BY DEF IInv, append, K, loop
<1>2. /\ Taken(b)
      /\ next' = [next EXCEPT ![last] = b, ![b] = FakeTail]
      /\ prev' = [prev EXCEPT ![b] = last, ![FakeTail] = b]
      /\ num_free_blocks' = num_free_blocks + 1
      /\ order' = Append(order, b)
      /\ UNCHANGED <<pc, curr, todo, arg, ret>>
  BY DEF append, loop
<1>3. N \in Nat /\ \A i \in 1 .. N : order[i] \in Blocks
  BY <1>1 DEF TypeOK, N
<1>4. \A i \in 1 .. N : order[i] # b
  <2> SUFFICES ASSUME NEW i \in 1 .. N, order[i] = b PROVE FALSE
    OBVIOUS
  <2>1. CASE i = N
    BY <2>1, <1>1, <1>2, <1>3 DEF TailEnd, Taken
  <2>2. CASE i < N
    <3> i \in 1 .. N - 1 /\ order[i + 1] \in Blocks
      BY <2>2, <1>3
    <3> QED BY <1>1, <1>2 DEF Chained, Taken
  <2> QED BY <2>1, <2>2, <1>3
<1>5. last = (IF N = 0 THEN FakeHead ELSE order[N]) /\ last \in Nodes /\ last # b /\ last # FakeTail
  BY <1>1, <1>3, <1>4 DEF TailEnd
<1>6. /\ N' = N + 1 /\ order' \in Seq(Blocks) /\ order'[N + 1] = b
      /\ \A i \in 1 .. N : order'[i] = order[i]
  BY <1>1, <1>2 DEF TypeOK, N
<1>7. /\ next'[last] = b /\ next'[b] = FakeTail /\ prev'[b] = last /\ prev'[FakeTail] = b
      /\ \A x \in Nodes : x # last /\ x # b => next'[x] = next[x]
      /\ \A x \in Nodes : x # FakeTail /\ x # b => prev'[x] = prev[x]
  BY <1>1, <1>2, <1>5 DEF TypeOK
<1>8. TypeOK'
  <2>1. next' \in [Nodes -> Nodes \cup {None}] /\ prev' \in [Nodes -> Nodes \cup {None}]
    BY <1>1, <1>2, <1>5 DEF TypeOK
  <2>2. num_free_blocks' \in Nat
    BY <1>1, <1>2 DEF TypeOK
  <2> QED BY <2>1, <2>2, <1>1, <1>2, <1>6 DEF TypeOK
<1>9. NoDuplicates'
  <2> SUFFICES ASSUME NEW i \in 1 .. N + 1, NEW j \in 1 .. N + 1, order'[i] = order'[j]
               PROVE  i = j
    BY <1>6 DEF NoDuplicates
  <2> QED BY <1>1, <1>3, <1>4, <1>6 DEF NoDuplicates
<1>10. Chained'
  <2> SUFFICES ASSUME NEW i \in 1 .. N
               PROVE  next'[order'[i]] = order'[i + 1] /\ prev'[order'[i + 1]] = order'[i]
    BY <1>3, <1>6 DEF Chained
  <2>1. CASE i = N
    BY <2>1, <1>3, <1>5, <1>6, <1>7
  <2>2. CASE i < N
    <3>1. /\ i \in 1 .. N - 1 /\ i + 1 \in 1 .. N /\ order[i] \in Blocks /\ order[i + 1] \in Blocks
          /\ order[i] # last
      BY <2>2, <1>1, <1>3, <1>5 DEF NoDuplicates
    <3>2. next[order[i]] = order[i + 1] /\ prev[order[i + 1]] = order[i]
      BY <3>1, <1>1 DEF Chained
    <3> QED BY <3>1, <3>2, <1>4, <1>6, <1>7
  <2> QED BY <2>1, <2>2, <1>3
<1>11. HeadEnd'
  <2>1. CASE N = 0
    BY <2>1, <1>1, <1>5, <1>6, <1>7 DEF HeadEnd
  <2>2. CASE N > 0
    BY <2>2, <1>1, <1>3, <1>4, <1>5, <1>6, <1>7 DEF HeadEnd
  <2> QED BY <2>1, <2>2, <1>3
<1>12. TailEnd' /\ FakeEnds'
  BY <1>1, <1>3, <1>5, <1>6, <1>7 DEF TailEnd, FakeEnds
<1>13. OutsideIsTaken'
  <2> SUFFICES ASSUME NEW x \in Blocks, \A i \in 1 .. N + 1 : order'[i] # x
               PROVE  Taken(x)'
    BY <1>1, <1>3, <1>6 DEF OutsideIsTaken
  <2>1. x # b /\ \A i \in 1 .. N : order[i] # x
    BY <1>3, <1>6
  <2>2. Taken(x) /\ x # last
    BY <2>1, <1>1, <1>3, <1>5 DEF OutsideIsTaken
  <2> QED BY <2>1, <2>2, <1>7 DEF Taken
<1>14. Idle' /\ PopLoop' /\ AppendLoop'
  BY <1>1, <1>2, <1>3, <1>6 DEF Idle, PopLoop, AppendLoop
<1> QED BY <1>8, <1>9, <1>10, <1>11, <1>12, <1>13, <1>14 DEF IInv

(* Entering append_n: only blocks outside the list are given.              *)
LEMMA AppendNStartIInv ==
  ASSUME NEW bs \in BlockSeqs PROVE IInv /\ append_n_start(bs) => IInv'
<1> SUFFICES ASSUME IInv, append_n_start(bs) PROVE IInv'
  OBVIOUS
<1> USE NodeFacts
<1>1. /\ TypeOK /\ NoDuplicates /\ Chained /\ HeadEnd /\ TailEnd
      /\ OutsideIsTaken /\ Idle /\ FakeEnds
      /\ pc = "idle" /\ pc' = "append_n" /\ K = 0 /\ K' = 0
  BY DEF IInv, append_n_start, K
<1>2. bs \in Seq(Blocks) /\ DOMAIN bs = 1 .. Len(bs)
  BY NumBlocksAssumption DEF BlockSeqs
<1>3. /\ UNCHANGED <<prev, next, num_free_blocks, ret, order>>
      /\ curr' = prev[FakeTail] /\ arg' = bs /\ todo' = Len(bs)
      /\ \A i \in 1 .. Len(bs) : Taken(bs[i])
      /\ \A i, j \in 1 .. Len(bs) : i # j => bs[i] # bs[j]
  BY <1>2 DEF append_n_start
<1>4. N' = N /\ N \in Nat /\ \A i \in 1 .. N : order[i] \in Blocks
  BY <1>1, <1>3 DEF TypeOK, N
<1>5. TypeOK'
  BY <1>1, <1>2, <1>3 DEF TypeOK
<1>6. NoDuplicates' /\ Chained' /\ HeadEnd' /\ TailEnd' /\ FakeEnds'
  BY <1>1, <1>3, <1>4 DEF NoDuplicates, Chained, HeadEnd, TailEnd, FakeEnds
<1>7. OutsideIsTaken'
  <2>1. \A b : Taken(b)' <=> Taken(b)
    BY <1>3 DEF Taken
  <2> QED BY <2>1, <1>1, <1>3, <1>4 DEF OutsideIsTaken
<1>8. \A j \in 1 .. N : next[order[j]] # None
  <2> SUFFICES ASSUME NEW j \in 1 .. N PROVE next[order[j]] # None
    OBVIOUS
  <2>1. CASE j = N
    BY <2>1, <1>1, <1>4 DEF TailEnd
  <2>2. CASE j < N
    <3> j \in 1 .. N - 1 /\ order[j + 1] \in Blocks
      BY <2>2, <1>4
    <3> QED BY <1>1, <1>4 DEF Chained
  <2> QED BY <2>1, <2>2, <1>4
<1>9. AppendLoop'
  <2>1. \A i \in 1 .. Len(bs) : \A j \in 1 .. N : bs[i] # order[j]
    BY <1>3, <1>8 DEF Taken
  <2>2. Len(bs) \in Nat /\ Len(bs) > 0
    BY <1>2 DEF append_n_start
  <2> QED BY <2>1, <2>2, <1>1, <1>2, <1>3, <1>4 DEF AppendLoop, TailEnd, Idle
<1>10. PopLoop' /\ Idle'
  BY <1>1 DEF PopLoop, Idle
<1> QED BY <1>5, <1>6, <1>7, <1>9, <1>10 DEF IInv

(* One iteration of append_n links the next block both ways.               *)
LEMMA AppendNIterIInv == IInv /\ append_n_iter => IInv'
<1> SUFFICES ASSUME IInv, append_n_iter PROVE IInv'
  OBVIOUS
<1> USE NodeFacts
<1> DEFINE b == Head(arg)
<1>1. /\ TypeOK /\ NoDuplicates /\ Chained /\ HeadEnd
      /\ OutsideIsTaken /\ AppendLoop /\ FakeEnds
      /\ pc = "append_n" /\ pc' = "append_n" /\ K = 0 /\ K' = 0
  BY DEF IInv, append_n_iter, K
<1>2. /\ prev' = [prev EXCEPT ![b] = curr] /\ next' = [next EXCEPT ![curr] = b]
      /\ curr' = b /\ arg' = Tail(arg) /\ order' = Append(order, b) /\ arg # <<>>
      /\ UNCHANGED <<num_free_blocks, todo, ret>>
  BY DEF append_n_iter
<1>3. N \in Nat /\ \A i \in 1 .. N : order[i] \in Blocks
  BY <1>1 DEF TypeOK, N
<1>4. /\ Len(arg) \in Nat /\ Len(arg) > 0 /\ b = arg[1] /\ b \in Blocks
      /\ arg' \in Seq(Blocks) /\ Len(arg') = Len(arg) - 1
      /\ \A i \in 1 .. Len(arg) - 1 : arg'[i] = arg[i + 1]
  BY <1>1, <1>2 DEF TypeOK
<1> HIDE DEF b
<1>5. /\ N' = N + 1 /\ order' \in Seq(Blocks) /\ order'[N + 1] = b
      /\ \A i \in 1 .. N : order'[i] = order[i]
  BY <1>1, <1>2, <1>4 DEF TypeOK, N
<1>6. \A i \in 1 .. N : order[i] # b
  BY <1>1, <1>4 DEF AppendLoop
<1>7. curr = (IF N = 0 THEN FakeHead ELSE order[N]) /\ curr \in Nodes /\ curr # FakeTail /\ curr # b
  BY <1>1, <1>3, <1>4, <1>6 DEF AppendLoop
<1>8. /\ next'[curr] = b /\ prev'[b] = curr
      /\ \A x \in Nodes : x # curr => next'[x] = next[x]
      /\ \A x \in Nodes : x # b => prev'[x] = prev[x]
  BY <1>1, <1>2, <1>4, <1>7 DEF TypeOK
<1>9. TypeOK'
  BY <1>1, <1>2, <1>4, <1>5, <1>7 DEF TypeOK
<1>10. NoDuplicates'
  BY <1>1, <1>3, <1>5, <1>6 DEF NoDuplicates
<1>11. Chained'
  <2> SUFFICES ASSUME NEW i \in 1 .. N
               PROVE  next'[order'[i]] = order'[i + 1] /\ prev'[order'[i + 1]] = order'[i]
    BY <1>3, <1>5 DEF Chained
  <2>1. CASE i = N
    BY <2>1, <1>3, <1>5, <1>7, <1>8
  <2>2. CASE i < N
    <3>1. /\ i \in 1 .. N - 1 /\ i + 1 \in 1 .. N /\ order[i] \in Blocks /\ order[i + 1] \in Blocks
          /\ order[i] # curr
      BY <2>2, <1>1, <1>3, <1>7 DEF NoDuplicates
    <3>2. next[order[i]] = order[i + 1] /\ prev[order[i + 1]] = order[i]
      BY <3>1, <1>1 DEF Chained
    <3> QED BY <3>1, <3>2, <1>5, <1>6, <1>8
  <2> QED BY <2>1, <2>2, <1>3
<1>12. HeadEnd'
  <2>1. CASE N = 0
    BY <2>1, <1>5, <1>7, <1>8 DEF HeadEnd
  <2>2. CASE N > 0
    BY <2>2, <1>1, <1>3, <1>5, <1>6, <1>7, <1>8 DEF HeadEnd
  <2> QED BY <2>1, <2>2, <1>3
<1>13. FakeEnds' /\ TailEnd' /\ PopLoop' /\ Idle'
  BY <1>1, <1>4, <1>7, <1>8 DEF FakeEnds, TailEnd, PopLoop, Idle
<1>14. OutsideIsTaken'
  <2> SUFFICES ASSUME NEW x \in Blocks, \A i \in 1 .. N + 1 : order'[i] # x
               PROVE  Taken(x)'
    BY <1>1, <1>3, <1>5 DEF OutsideIsTaken
  <2>1. x # b /\ \A i \in 1 .. N : order[i] # x
    BY <1>3, <1>5
  <2>2. Taken(x) /\ x # curr
    BY <2>1, <1>1, <1>3, <1>7 DEF OutsideIsTaken
  <2> QED BY <2>1, <2>2, <1>8 DEF Taken
<1>15. AppendLoop'
  <2>1. \A i \in 1 .. Len(arg) - 1 : \A j \in 1 .. N + 1 : arg'[i] # order'[j]
    <3> SUFFICES ASSUME NEW i \in 1 .. Len(arg) - 1, NEW j \in 1 .. N + 1
                 PROVE  arg'[i] # order'[j]
      OBVIOUS
    <3>1. arg'[i] = arg[i + 1] /\ i + 1 \in 1 .. Len(arg) /\ 1 \in 1 .. Len(arg) /\ i + 1 # 1
      BY <1>4
    <3>2. arg[i + 1] # b
      BY <3>1, <1>1, <1>4 DEF AppendLoop
    <3>3. CASE j = N + 1
      BY <3>1, <3>2, <3>3, <1>5
    <3>4. CASE j <= N
      <4> j \in 1 .. N /\ order'[j] = order[j]
        BY <3>4, <1>3, <1>5
      <4> QED BY <3>1, <1>1 DEF AppendLoop
    <3> QED BY <3>3, <3>4, <1>3
  <2>2. \A i, j \in 1 .. Len(arg) - 1 : arg'[i] = arg'[j] => i = j
    <3> SUFFICES ASSUME NEW i \in 1 .. Len(arg) - 1, NEW j \in 1 .. Len(arg) - 1, arg'[i] = arg'[j]
                 PROVE  i = j
      OBVIOUS
    <3> i + 1 \in 1 .. Len(arg) /\ j + 1 \in 1 .. Len(arg) /\ arg[i + 1] = arg[j + 1]
      BY <1>4
    <3> i + 1 = j + 1
      BY <1>1 DEF AppendLoop
    <3> QED OBVIOUS
  <2>3. num_free_blocks' = N' + Len(arg') - todo' /\ todo' > 0 /\ Len(arg') <= todo'
    <3>1. num_free_blocks = N + Len(arg) - todo /\ todo \in Nat /\ todo > 0 /\ Len(arg) <= todo
      BY <1>1 DEF AppendLoop, TypeOK
    <3> QED BY <3>1, <1>2, <1>3, <1>4, <1>5
  <2>4. curr' = order'[N']
    BY <1>2, <1>5
  <2> QED BY <2>1, <2>2, <2>3, <2>4, <1>3, <1>4, <1>5 DEF AppendLoop
<1> QED BY <1>9, <1>10, <1>11, <1>12, <1>13, <1>14, <1>15 DEF IInv

(* append_n reattaches the tail end and counts the new blocks.             *)
LEMMA AppendNEndIInv == IInv /\ append_n_end => IInv'
<1> SUFFICES ASSUME IInv, append_n_end PROVE IInv'
  OBVIOUS
<1> USE NodeFacts
<1>1. /\ TypeOK /\ NoDuplicates /\ Chained /\ HeadEnd
      /\ OutsideIsTaken /\ AppendLoop /\ FakeEnds
      /\ pc = "append_n" /\ pc' = "idle" /\ K = 0 /\ K' = 0
  BY DEF IInv, append_n_end, K
<1>2. /\ next' = [next EXCEPT ![curr] = FakeTail]
      /\ prev' = [prev EXCEPT ![FakeTail] = curr]
      /\ num_free_blocks' = num_free_blocks + todo
      /\ curr' = None /\ todo' = 0 /\ arg = <<>> /\ UNCHANGED <<arg, ret, order>>
  BY DEF append_n_end
<1>3. N' = N /\ N \in Nat /\ \A i \in 1 .. N : order[i] \in Blocks
  BY <1>1, <1>2 DEF TypeOK, N
<1>4. curr = (IF N = 0 THEN FakeHead ELSE order[N]) /\ curr \in Nodes /\ curr # FakeTail
  BY <1>1, <1>3 DEF AppendLoop
<1>5. /\ next'[curr] = FakeTail /\ prev'[FakeTail] = curr
      /\ \A x \in Nodes : x # curr => next'[x] = next[x]
      /\ \A x \in Nodes : x # FakeTail => prev'[x] = prev[x]
  BY <1>1, <1>2, <1>4 DEF TypeOK
<1>6. num_free_blocks' = N
  BY <1>1, <1>2, <1>3 DEF AppendLoop, TypeOK
<1>7. TypeOK'
  BY <1>1, <1>2, <1>3, <1>4, <1>6 DEF TypeOK
<1>8. NoDuplicates'
  BY <1>1, <1>2, <1>3 DEF NoDuplicates
<1>9. Chained'
  <2> SUFFICES ASSUME NEW i \in 1 .. N - 1
               PROVE  next'[order[i]] = order[i + 1] /\ prev'[order[i + 1]] = order[i]
    BY <1>2, <1>3 DEF Chained
  <2>1. i + 1 \in 1 .. N /\ order[i] \in Blocks /\ order[i + 1] \in Blocks /\ order[i] # curr
    BY <1>1, <1>3, <1>4 DEF NoDuplicates
  <2>2. next[order[i]] = order[i + 1] /\ prev[order[i + 1]] = order[i]
    BY <1>1 DEF Chained
  <2> QED BY <2>1, <2>2, <1>5
<1>10. HeadEnd'
  BY <1>1, <1>2, <1>3, <1>4, <1>5 DEF HeadEnd
<1>11. TailEnd' /\ FakeEnds'
  BY <1>1, <1>2, <1>3, <1>4, <1>5 DEF TailEnd, FakeEnds
<1>12. OutsideIsTaken'
  <2> SUFFICES ASSUME NEW x \in Blocks, \A i \in 1 .. N : order[i] # x
               PROVE  Taken(x)'
    BY <1>1, <1>2, <1>3 DEF OutsideIsTaken
  <2>1. Taken(x) /\ x # curr
    BY <1>1, <1>3, <1>4 DEF OutsideIsTaken
  <2> QED BY <2>1, <1>5 DEF Taken
<1>13. PopLoop' /\ AppendLoop' /\ Idle'
  BY <1>1, <1>3, <1>6 DEF PopLoop, AppendLoop, Idle
<1> QED BY <1>7, <1>8, <1>9, <1>10, <1>11, <1>12, <1>13 DEF IInv

(* Nothing changes if no variable does.                                    *)
LEMMA StutterIInv == IInv /\ UNCHANGED vars => IInv'
<1> SUFFICES ASSUME IInv, UNCHANGED vars PROVE IInv'
  OBVIOUS
<1>1. UNCHANGED <<prev, next, num_free_blocks, pc, curr, todo, arg, ret, order>>
  BY DEF vars, loop
<1>2. UNCHANGED <<N, K>>
  BY <1>1 DEF N, K
<1>3. \A b : Taken(b)' <=> Taken(b)
  BY <1>1 DEF Taken
<1>4. OutsideIsTaken'
  BY <1>1, <1>2, <1>3 DEF IInv, OutsideIsTaken
<1> QED BY <1>1, <1>2, <1>4 DEF IInv, TypeOK, NoDuplicates, Chained, HeadEnd, TailEnd,
                              PopLoop, AppendLoop, Idle, FakeEnds

(* The free list stays well formed: whatever sequence of popleft,          *)
(* popleft_n, remove, append and append_n the block pool issues, and after *)
(* every iteration of their loops, for a pool of any size.                 *)
THEOREM ListWellFormed == Spec => []IInv
<1>1. ASSUME IInv, [Next]_vars PROVE IInv'
  <2>1. CASE popleft                              BY <1>1, <2>1, PopleftIInv
  <2>2. CASE \E n \in 1 .. NumBlocks : popleft_n_start(n)
    BY <1>1, <2>2, PopNStartIInv
  <2>3. CASE popleft_n_iter                       BY <1>1, <2>3, PopNIterIInv
  <2>4. CASE popleft_n_end                        BY <1>1, <2>4, PopNEndIInv
  <2>5. CASE \E b \in Blocks : remove(b)          BY <1>1, <2>5, RemoveIInv
  <2>6. CASE \E b \in Blocks : append(b)          BY <1>1, <2>6, AppendIInv
  <2>7. CASE \E bs \in BlockSeqs : append_n_start(bs)
    BY <1>1, <2>7, AppendNStartIInv
  <2>8. CASE append_n_iter                        BY <1>1, <2>8, AppendNIterIInv
  <2>9. CASE append_n_end                         BY <1>1, <2>9, AppendNEndIInv
  <2>10. CASE UNCHANGED vars                      BY <1>1, <2>10, StutterIInv
  <2> QED BY <1>1, <2>1, <2>2, <2>3, <2>4, <2>5, <2>6, <2>7, <2>8, <2>9, <2>10 DEF Next
<1> QED BY <1>1, InitIInv, PTL DEF Spec

(* The assertions and RuntimeErrors of the class never fire and the fake   *)
(* blocks are never popped.                                                *)
THEOREM FakesSafe == Spec => []FakesNeverPopped
<1>1. IInv => FakesNeverPopped
  <2> SUFFICES ASSUME IInv PROVE FakesNeverPopped
    OBVIOUS
  <2> USE NodeFacts
  <2>1. /\ TypeOK /\ Chained /\ HeadEnd /\ TailEnd /\ PopLoop /\ AppendLoop
        /\ N \in Nat /\ K \in Nat /\ \A i \in 1 .. N : order[i] \in Blocks
    BY DEF IInv, TypeOK, N, K
  <2>2. pc = "popleft_n" /\ todo > 0 => curr \in Blocks
    BY <2>1 DEF PopLoop, TypeOK
  <2>3. pc = "popleft_n" => ret = SubSeq(order, 1, Len(ret))
    BY <2>1 DEF PopLoop, TypeOK, N, K
  <2>4. pc = "idle" /\ next[FakeHead] # FakeTail => next[next[FakeHead]] # None
    BY <2>1 DEF HeadEnd, TailEnd, Chained, K
  <2>5. pc = "idle" => next[FakeHead] # None /\ prev[FakeTail] # None
    BY <2>1 DEF HeadEnd, TailEnd
  <2> QED BY <2>2, <2>3, <2>4, <2>5 DEF FakesNeverPopped
<1> QED BY <1>1, ListWellFormed, PTL

-----------------------------------------------------------------------------
(* The linked list implements BlockQueue.                                  *)

(* The queue that BlockPool sees: the first num_free_blocks blocks that no *)
(* popleft_n is about to take.  popleft_n takes its blocks when it lowers  *)
(* the number, append_n gives its blocks when it raises it.                *)
Claimed == IF pc = "popleft_n" THEN K + todo ELSE 0
Visible == [i \in 1 .. num_free_blocks |-> order[Claimed + i]]

Queue == INSTANCE BlockQueue WITH queue <- Visible

(* All of the visible queue is linked, and between operations it is all of *)
(* the list.                                                               *)
LEMMA VisibleFacts ==
  ASSUME IInv
  PROVE  /\ num_free_blocks \in Nat /\ Claimed \in Nat
         /\ Claimed + num_free_blocks <= N /\ K <= Claimed
         /\ Len(Visible) = num_free_blocks /\ Visible \in Seq(Blocks)
         /\ DOMAIN Visible = 1 .. num_free_blocks
         /\ \A i \in 1 .. num_free_blocks :
              Visible[i] = order[Claimed + i] /\ Visible[i] \in Blocks
<1>1. TypeOK /\ PopLoop /\ AppendLoop /\ Idle
  BY DEF IInv
<1>2. num_free_blocks \in Nat /\ Claimed \in Nat /\ N \in Nat /\ Len(arg) \in Nat /\ K <= Claimed
  BY <1>1 DEF TypeOK, Claimed, N, K
<1>3. Claimed + num_free_blocks <= N
  <2>1. CASE pc = "popleft_n"
    BY <1>1, <1>2, <2>1 DEF TypeOK, PopLoop, Claimed, N, K
  <2>2. CASE pc = "append_n"
    BY <1>1, <1>2, <2>2 DEF TypeOK, AppendLoop, Claimed
  <2>3. CASE pc = "idle"
    BY <1>1, <1>2, <2>3 DEF TypeOK, Idle, Claimed
  <2> QED  BY <1>1, <2>1, <2>2, <2>3 DEF TypeOK
<1>4. \A i \in 1 .. num_free_blocks : order[Claimed + i] \in Blocks
  BY <1>1, <1>2, <1>3 DEF TypeOK, N
<1> QED  BY <1>2, <1>3, <1>4 DEF Visible

(* A step that lowers the visible queue's number by n and leaves the rest  *)
(* in place takes the first n blocks.                                      *)
LEMMA TakesFirst ==
  ASSUME IInv, IInv', NEW n \in 1 .. NumBlocks,
         num_free_blocks >= n, num_free_blocks' = num_free_blocks - n,
         \A i \in 1 .. num_free_blocks - n : order'[Claimed' + i] = order[Claimed + n + i]
  PROVE  Queue!TakeFirst(n)
<1> DEFINE m == num_free_blocks
           t == SubSeq(Visible, n + 1, Len(Visible))
<1>1. m \in Nat /\ Len(Visible) = m /\ Visible \in Seq(Blocks)
      /\ \A i \in 1 .. m : Visible[i] = order[Claimed + i]
      /\ Claimed \in Nat
  BY VisibleFacts
<1>2. n \in Nat /\ n > 0
  BY NumBlocksAssumption
<1>3. t = [i \in 1 .. m - n |-> Visible[n + i]]
  BY <1>1, <1>2
<1>4. Visible' = [i \in 1 .. m - n |-> order'[Claimed' + i]]
  BY DEF Visible
<1>5. \A i \in 1 .. m - n : order'[Claimed' + i] = Visible[n + i]
  <2> TAKE i \in 1 .. m - n
  <2>1. n + i \in 1 .. m /\ Claimed + n + i = Claimed + (n + i)
    BY <1>1, <1>2
  <2> QED  BY <1>1, <2>1
<1>6. Visible' = t
  BY <1>3, <1>4, <1>5
<1> QED  BY <1>1, <1>6 DEF Queue!TakeFirst

(* A step that leaves the visible queue alone.                             *)
LEMMA StaysPut ==
  ASSUME IInv, num_free_blocks' = num_free_blocks,
         \A i \in 1 .. num_free_blocks : order'[Claimed' + i] = order[Claimed + i]
  PROVE  Visible' = Visible
BY DEF Visible

(* A step of append or append_n, which adds to the end.                    *)
LEMMA PutsBack ==
  ASSUME IInv, IInv', Claimed = 0, Claimed' = 0, num_free_blocks' > num_free_blocks,
         \A i \in 1 .. num_free_blocks : order'[i] = order[i]
  PROVE  Queue!PutBack
<1>1. /\ num_free_blocks \in Nat /\ Len(Visible) = num_free_blocks
      /\ Visible \in Seq(Blocks) /\ \A i \in 1 .. num_free_blocks : Visible[i] = order[i]
  BY VisibleFacts
<1>2. /\ num_free_blocks' \in Nat /\ Len(Visible') = num_free_blocks' /\ num_free_blocks' <= N'
      /\ Visible' \in Seq(Blocks)
      /\ \A i \in 1 .. num_free_blocks' : Visible'[i] = order'[i] /\ Visible'[i] \in Blocks
      /\ DOMAIN Visible' = 1 .. num_free_blocks'
  <2>1. (/\ num_free_blocks \in Nat /\ Len(Visible) = num_free_blocks /\ Claimed + num_free_blocks <= N
         /\ Visible \in Seq(Blocks)
         /\ DOMAIN Visible = 1 .. num_free_blocks
         /\ \A i \in 1 .. num_free_blocks :
              Visible[i] = order[Claimed + i] /\ Visible[i] \in Blocks)'
    BY VisibleFacts, PTL
  <2> QED  BY <2>1 DEF Blocks
<1>3. SubSeq(Visible', 1, Len(Visible)) = Visible
  <2>1. SubSeq(Visible', 1, num_free_blocks) = [i \in 1 .. num_free_blocks |-> Visible'[i]]
    BY <1>1, <1>2
  <2>2. Visible = [i \in 1 .. num_free_blocks |-> Visible[i]]
    BY <1>1
  <2>3. \A i \in 1 .. num_free_blocks : Visible'[i] = Visible[i]
    BY <1>1, <1>2
  <2> QED  BY <1>1, <2>1, <2>2, <2>3
<1>4. \A i, j \in DOMAIN Visible' : Visible'[i] = Visible'[j] => i = j
  <2>1. NoDuplicates' /\ N' \in Nat
    BY DEF IInv, TypeOK, N
  <2> QED  BY <1>2, <2>1 DEF NoDuplicates
<1>5. \A i \in DOMAIN Visible' : Visible'[i] \in 0 .. NumBlocks - 1
  BY <1>2 DEF Blocks
<1> QED  BY <1>1, <1>2, <1>3, <1>4, <1>5 DEF Queue!PutBack

(* popleft takes the first block.                                          *)
LEMMA PopleftTakes == ASSUME IInv, IInv', popleft PROVE Queue!TakeFirst(1)
<1>1. TypeOK /\ HeadEnd /\ Idle /\ pc = "idle" /\ pc' = "idle" /\ N \in Nat
  BY DEF IInv, TypeOK, N, popleft, loop
<1>2. Claimed = 0 /\ Claimed' = 0 /\ num_free_blocks = N
  BY <1>1 DEF Claimed, Idle
<1>3. N > 0
  BY <1>1 DEF HeadEnd, popleft
<1>4. num_free_blocks' = num_free_blocks - 1 /\ order' = Tail(order)
  BY DEF popleft
<1>5. \A i \in 1 .. num_free_blocks - 1 : order'[Claimed' + i] = order[Claimed + 1 + i]
  BY <1>1, <1>2, <1>3, <1>4 DEF TypeOK, N
<1>6. 1 \in 1 .. NumBlocks
  BY NumBlocksAssumption
<1>7. num_free_blocks >= 1
  BY <1>1, <1>2, <1>3
<1> QED  BY <1>4, <1>5, <1>6, <1>7, TakesFirst

(* popleft_n takes its blocks when it lowers the number; unlinking them    *)
(* one by one and relinking the head is invisible.                         *)
LEMMA PopNStartTakes ==
  ASSUME IInv, IInv', NEW n \in 1 .. NumBlocks, popleft_n_start(n)
  PROVE  Queue!TakeFirst(n)
<1>1. Claimed = 0 /\ Claimed' = n /\ order' = order
  BY NumBlocksAssumption DEF popleft_n_start, Claimed, K
<1>2. num_free_blocks >= n /\ num_free_blocks' = num_free_blocks - n /\ num_free_blocks \in Nat
  BY DEF popleft_n_start, IInv, TypeOK
<1>3. n \in Nat
  BY NumBlocksAssumption
<1>4. \A i \in 1 .. num_free_blocks - n : order'[Claimed' + i] = order[Claimed + n + i]
  BY <1>1, <1>2, <1>3
<1> QED  BY <1>2, <1>4, TakesFirst

LEMMA PopNIterStays == ASSUME IInv, popleft_n_iter PROVE Visible' = Visible
<1>1. TypeOK /\ pc = "popleft_n" /\ pc' = "popleft_n"
  BY DEF IInv, popleft_n_iter
<1>2. K = Len(ret) /\ K' = Len(ret) + 1 /\ Len(ret) \in Nat /\ todo' = todo - 1 /\ todo \in Nat
  BY <1>1 DEF popleft_n_iter, K, TypeOK
<1>3. Claimed' = Claimed
  BY <1>1, <1>2 DEF Claimed
<1>4. num_free_blocks' = num_free_blocks /\ order' = order
  BY DEF popleft_n_iter
<1> QED  BY <1>3, <1>4, StaysPut

LEMMA PopNEndStays == ASSUME IInv, popleft_n_end PROVE Visible' = Visible
<1>1. TypeOK /\ PopLoop /\ pc = "popleft_n" /\ pc' = "idle" /\ todo = 0
      /\ num_free_blocks' = num_free_blocks /\ order' = SubSeq(order, Len(ret) + 1, Len(order))
  BY DEF IInv, popleft_n_end
<1>2. Claimed = Len(ret) /\ Claimed' = 0 /\ Len(ret) \in Nat /\ N \in Nat
      /\ num_free_blocks = N - Len(ret) /\ num_free_blocks \in Nat
  BY <1>1 DEF Claimed, K, TypeOK, PopLoop, N
<1>3. \A i \in 1 .. num_free_blocks : order'[i] = order[Len(ret) + i]
  BY <1>1, <1>2 DEF TypeOK, N
<1>4. \A i \in 1 .. num_free_blocks : order'[Claimed' + i] = order[Claimed + i]
  BY <1>2, <1>3
<1> QED  BY <1>1, <1>4, StaysPut

(* remove takes one block out and leaves the others in order.              *)
LEMMA RemoveTakesOut ==
  ASSUME IInv, IInv', NEW b \in Blocks, remove(b)
  PROVE  \E i \in DOMAIN Visible : Queue!TakeOut(i)
<1>1. TypeOK /\ OutsideIsTaken /\ Idle /\ pc = "idle" /\ pc' = "idle" /\ N \in Nat /\ K = 0
  BY DEF IInv, TypeOK, N, K, remove, loop
<1>2. Claimed = 0 /\ Claimed' = 0 /\ num_free_blocks = N /\ num_free_blocks' = N - 1
  BY <1>1 DEF Claimed, Idle, remove
<1>3. \E i \in 1 .. N : order[i] = b
  BY <1>1 DEF OutsideIsTaken, Taken, remove
<1>4. DOMAIN order = 1 .. N
  BY <1>1 DEF TypeOK, N
<1>5. At(b) \in 1 .. N /\ order[At(b)] = b
  BY <1>3, <1>4 DEF At
<1>6. PICK i \in 1 .. N : i = At(b)
  BY <1>5
<1>7. order' = [k \in 1 .. N - 1 |-> IF k < i THEN order[k] ELSE order[k + 1]]
  BY <1>6 DEF remove, Without, N
<1>8. /\ Len(Visible) = N /\ Visible \in Seq(Blocks) /\ DOMAIN Visible = 1 .. N
      /\ \A k \in 1 .. N : Visible[k] = order[k]
  BY <1>1, <1>2, VisibleFacts
<1>9. Visible' = [k \in 1 .. N - 1 |-> order'[k]]
  BY <1>1, <1>2 DEF Visible
<1> DEFINE front == SubSeq(Visible, 1, i - 1)
           back == SubSeq(Visible, i + 1, Len(Visible))
<1>10. /\ front \in Seq(Blocks) /\ Len(front) = i - 1
       /\ \A k \in 1 .. i - 1 : front[k] = order[k]
  BY <1>1, <1>8
<1>11. /\ back \in Seq(Blocks) /\ Len(back) = N - i
       /\ \A k \in 1 .. N - i : back[k] = order[i + k]
  BY <1>1, <1>8
<1> HIDE DEF front, back
<1>12. PICK c : c = front \o back
  OBVIOUS
<1>13. /\ c = [k \in 1 .. N - 1 |-> c[k]]
       /\ \A k \in 1 .. N - 1 : c[k] = IF k <= i - 1 THEN front[k] ELSE back[k - (i - 1)]
  <2>1. PICK f \in Seq(Blocks) : f = front
    BY <1>10
  <2>2. PICK g \in Seq(Blocks) : g = back
    BY <1>11
  <2>3. Len(f) + Len(g) = N - 1 /\ Len(f) = i - 1
    <3>1. Len(f) = i - 1 /\ Len(g) = N - i
      BY <1>10, <1>11, <2>1, <2>2, Zenon
    <3>2. N \in Int /\ i \in Int
      BY <1>1
    <3> QED  BY <3>1, <3>2
  <2>4. c = f \o g
    BY <1>12, <2>1, <2>2
  <2>5. f \o g \in Seq(Blocks) /\ Len(f \o g) = Len(f) + Len(g)
    OBVIOUS
  <2>6. \A k \in 1 .. Len(f) + Len(g) : (f \o g)[k] = IF k <= Len(f) THEN f[k] ELSE g[k - Len(f)]
    OBVIOUS
  <2>7. \A k \in 1 .. N - 1 : c[k] = IF k <= i - 1 THEN f[k] ELSE g[k - (i - 1)]
    BY <2>3, <2>4, <2>6
  <2>8. c \in Seq(Blocks) /\ Len(c) = N - 1
    BY <2>3, <2>4, <2>5
  <2> QED  BY <2>1, <2>2, <2>7, <2>8
<1>14. \A k \in 1 .. N - 1 : c[k] = order'[k]
  <2> TAKE k \in 1 .. N - 1
  <2>1. CASE k < i
    BY <1>1, <1>7, <1>10, <1>13, <2>1
  <2>2. CASE k >= i
    <3>1. k - (i - 1) \in 1 .. N - i /\ i + (k - (i - 1)) = k + 1
      BY <1>1, <2>2
    <3> QED  BY <1>1, <1>7, <1>11, <1>13, <2>2, <3>1
  <2> QED  BY <1>1, <2>1, <2>2
<1>15. Visible' = c
  BY <1>9, <1>13, <1>14
<1> QED  BY <1>8, <1>12, <1>15 DEF Queue!TakeOut, front, back

(* append puts one block at the end, append_n puts all of its blocks there *)
(* when it raises the number; linking them one by one is invisible.        *)
LEMMA AppendPuts == ASSUME IInv, IInv', NEW b \in Blocks, append(b) PROVE Queue!PutBack
<1>1. TypeOK /\ Idle /\ pc = "idle" /\ pc' = "idle" /\ N \in Nat
  BY DEF IInv, TypeOK, N, append, loop
<1>2. Claimed = 0 /\ Claimed' = 0 /\ num_free_blocks = N /\ num_free_blocks' = N + 1
  BY <1>1 DEF Claimed, Idle, append
<1>3. \A i \in 1 .. num_free_blocks : order'[i] = order[i]
  BY <1>1, <1>2 DEF append, TypeOK, N
<1> QED  BY <1>1, <1>2, <1>3, PutsBack

LEMMA AppendNStartStays ==
  ASSUME IInv, NEW bs, append_n_start(bs) PROVE Visible' = Visible
<1>1. Claimed = 0 /\ Claimed' = 0 /\ num_free_blocks' = num_free_blocks /\ order' = order
  BY DEF append_n_start, Claimed
<1> QED  BY <1>1, StaysPut

LEMMA AppendNIterStays == ASSUME IInv, append_n_iter PROVE Visible' = Visible
<1>1. TypeOK /\ arg # <<>> /\ order' = Append(order, Head(arg)) /\ num_free_blocks' = num_free_blocks
      /\ Claimed = 0 /\ Claimed' = 0
  BY DEF IInv, append_n_iter, Claimed
<1>2. num_free_blocks \in Nat /\ num_free_blocks <= N /\ N \in Nat
  BY <1>1, VisibleFacts DEF TypeOK, N
<1>3. \A i \in 1 .. num_free_blocks : order'[i] = order[i]
  BY <1>1, <1>2 DEF TypeOK, N
<1>4. \A i \in 1 .. num_free_blocks : order'[Claimed' + i] = order[Claimed + i]
  <2> TAKE i \in 1 .. num_free_blocks
  <2>1. Claimed' + i = i /\ Claimed + i = i
    BY <1>1, <1>2
  <2> QED  BY <1>3, <2>1
<1> QED  BY <1>1, <1>4, StaysPut

LEMMA AppendNEndPuts == ASSUME IInv, IInv', append_n_end PROVE Queue!PutBack
<1>1. TypeOK /\ AppendLoop /\ pc = "append_n" /\ pc' = "idle" /\ order' = order
      /\ num_free_blocks' = num_free_blocks + todo
  BY DEF IInv, append_n_end
<1>2. Claimed = 0 /\ Claimed' = 0
  BY <1>1 DEF Claimed
<1>3. num_free_blocks' > num_free_blocks
  BY <1>1 DEF TypeOK, AppendLoop
<1> QED  BY <1>1, <1>2, <1>3, PutsBack

(* The linked list implements the queue that BlockPool relies on, whatever *)
(* the size of the pool: popleft and popleft_n take the front blocks,      *)
(* remove takes out one and keeps the order of the others, append and      *)
(* append_n put distinct blocks at the end, and no step in the middle of a *)
(* loop shows.                                                             *)
THEOREM LinkedListIsAQueue == Spec => Queue!Spec
<1>1. Init => Queue!Init
  BY NumBlocksAssumption DEF Init, Queue!Init, Visible, Claimed
<1>2. IInv /\ IInv' /\ [Next]_vars => [Queue!Next]_Visible
  <2> SUFFICES ASSUME IInv, IInv', [Next]_vars PROVE Queue!Next \/ Visible' = Visible
    OBVIOUS
  <2>1. CASE popleft
    BY <2>1, PopleftTakes, NumBlocksAssumption DEF Queue!Next
  <2>2. ASSUME NEW n \in 1 .. NumBlocks, popleft_n_start(n) PROVE Queue!Next
    BY <2>2, PopNStartTakes DEF Queue!Next
  <2>3. CASE popleft_n_iter
    BY <2>3, PopNIterStays
  <2>4. CASE popleft_n_end
    BY <2>4, PopNEndStays
  <2>5. ASSUME NEW b \in Blocks, remove(b) PROVE Queue!Next
    BY <2>5, RemoveTakesOut DEF Queue!Next
  <2>6. ASSUME NEW b \in Blocks, append(b) PROVE Queue!Next
    BY <2>6, AppendPuts DEF Queue!Next
  <2>7. ASSUME NEW bs \in BlockSeqs, append_n_start(bs) PROVE Visible' = Visible
    BY <2>7, AppendNStartStays
  <2>8. CASE append_n_iter
    BY <2>8, AppendNIterStays
  <2>9. CASE append_n_end
    BY <2>9, AppendNEndPuts DEF Queue!Next
  <2>10. CASE UNCHANGED vars
    BY <2>10 DEF vars, loop, Visible, Claimed, K
  <2> QED  BY <2>1, <2>2, <2>3, <2>4, <2>5, <2>6, <2>7, <2>8, <2>9, <2>10 DEF Next
<1> QED  BY <1>1, <1>2, ListWellFormed, PTL DEF Spec, Queue!Spec
=============================================================================
