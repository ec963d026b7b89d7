-------------------------- MODULE SchedulerProofs ---------------------------
(***************************************************************************)
(* Proofs about module Scheduler, for any number of requests, blocks and   *)
(* batches in flight, both policies, with and without chunked prefill,     *)
(* asynchronous scheduling and forced resets.                              *)
(*                                                                         *)
(* The inductive invariant SchedInv has seven parts.  KVInv is the one of  *)
(* the KV cache (module KVCacheManagerProofs).  Lists says where a request *)
(* is listed, also in the middle of update_from_output.  Loop says that    *)
(* the loop of schedule() has only unscheduled requests ahead of it, which *)
(* is why a preemption must move req_index back exactly when its victim    *)
(* was scheduled.  Counts bounds the tokens computed and scheduled by the  *)
(* tokens known and in flight, and ties them to the length of the block    *)
(* table: allocate_slots is then always called within the interface of the *)
(* KV cache.  Flights ties the placeholders to the outputs in flight, and  *)
(* is what keeps num_output_placeholders from going below zero.            *)
(***************************************************************************)
EXTENDS Scheduler, KVCacheManagerProofs, WellFoundedInduction

-----------------------------------------------------------------------------
(* Blocks and tokens.                                                      *)

(* Multiplying by the block size is strictly monotone.                     *)
LEMMA ScaleStrict ==
  ASSUME NEW a \in Int, NEW c \in Int, NEW b \in Nat \ {0}, a * b < c * b
  PROVE  a < c
<1> SUFFICES ASSUME c <= a PROVE FALSE
  OBVIOUS
<1>1. a - c \in Nat /\ (a - c) * b \in Nat
  OBVIOUS
<1>2. a * b = (a - c) * b + c * b
  OBVIOUS
<1> QED  BY <1>1, <1>2

(* What \div computes.                                                     *)
LEMMA DivFacts ==
  ASSUME NEW a \in Int, NEW b \in Nat \ {0}
  PROVE  /\ (a \div b) \in Int /\ (a \div b) * b <= a /\ a < (a \div b) * b + b
         /\ a >= 0 => a \div b >= 0
<1>1. (a \div b) \in Int /\ (a \div b) * b <= a /\ a < (a \div b) * b + b
  OBVIOUS
<1>2. ASSUME a >= 0 PROVE a \div b >= 0
  <2>1. (-1) * b < (a \div b) * b
    BY <1>1, <1>2
  <2>2. -1 < a \div b
    BY <1>1, <2>1, ScaleStrict
  <2> QED  BY <1>1, <2>2
<1> QED  BY <1>1, <1>2

(* cdiv rounds up.                                                         *)
LEMMA CdivFacts ==
  ASSUME NEW x \in Nat, NEW b \in Nat \ {0}
  PROVE  /\ cdiv(x, b) \in Nat /\ x <= cdiv(x, b) * b /\ cdiv(x, b) * b < x + b
         /\ \A k \in Nat : k * b < x => k < cdiv(x, b)
         /\ \A k \in Nat : x <= k * b => cdiv(x, b) <= k
<1> DEFINE q == (x + b - 1) \div b
<1>1. q \in Int /\ q * b <= x + b - 1 /\ x + b - 1 < q * b + b /\ q >= 0
  BY DivFacts
<1>2. cdiv(x, b) = q
  BY DEF cdiv
<1> HIDE DEF q
<1>3. ASSUME NEW k \in Nat, k * b < x PROVE k < q
  <2>1. k * b < q * b
    BY <1>1, <1>3
  <2> QED  BY <1>1, <2>1, ScaleStrict
<1>4. ASSUME NEW k \in Nat, x <= k * b PROVE q <= k
  <2>1. q * b < (k + 1) * b
    BY <1>1, <1>4
  <2> QED  BY <1>1, <2>1, ScaleStrict
<1> QED  BY <1>1, <1>2, <1>3, <1>4

(* The block size and the number of blocks of the longest request.         *)
LEMMA SizeFacts ==
  /\ BlockSize \in Nat \ {0} /\ MaxModelLen \in Nat \ {0} /\ MaxReqBlocks \in Nat
  /\ MaxModelLen <= MaxReqBlocks * BlockSize
  /\ MaxNumScheduledTokens \in Nat \ {0} /\ BatchQueueSize \in Nat \ {0}
  /\ MaxNumRunningReqs \in Nat \ {0} /\ LongPrefillTokenThreshold \in Nat
  /\ \A r \in Reqs : PromptLen[r] \in Nat \ {0} /\ PromptLen[r] < MaxModelLen
                     /\ MaxTokens[r] \in Nat \ {0}
BY SchedulerAssumption, ConstAssumption

(* A request has reached min_tokens when it reaches one of the limits.     *)
LEMMA MinTokensFacts ==
  ASSUME NEW r \in Reqs
  PROVE  /\ MinTokens[r] \in Nat /\ MinTokens[r] <= MaxTokens[r]
         /\ PromptLen[r] + MinTokens[r] <= MaxModelLen
BY SchedulerAssumption

(* A request whose tokens fit into the model's context asks for at least   *)
(* one block and no more than its table may hold, and never for more       *)
(* cached blocks than that.                                                *)
LEMMA NeedFacts ==
  ASSUME NEW x \in Nat \ {0}, x <= MaxModelLen
  PROVE  /\ cdiv(x, BlockSize) \in 1 .. MaxReqBlocks
         /\ \A y \in Nat : y <= x => y \div BlockSize \in 0 .. cdiv(x, BlockSize)
<1>0. /\ BlockSize \in Nat \ {0} /\ MaxReqBlocks \in Nat
      /\ MaxModelLen <= MaxReqBlocks * BlockSize /\ MaxModelLen \in Nat
  BY SizeFacts
<1>1. /\ cdiv(x, BlockSize) \in Nat /\ x <= cdiv(x, BlockSize) * BlockSize
      /\ \A k \in Nat : k * BlockSize < x => k < cdiv(x, BlockSize)
      /\ \A k \in Nat : x <= k * BlockSize => cdiv(x, BlockSize) <= k
  BY <1>0, CdivFacts
<1>2. 0 < cdiv(x, BlockSize)
  BY <1>0, <1>1
<1>3. x <= MaxReqBlocks * BlockSize
  <2>1. MaxReqBlocks * BlockSize \in Int
    BY <1>0
  <2> QED  BY <1>0, <2>1
<1>4. ASSUME NEW y \in Nat, y <= x
      PROVE  y \div BlockSize \in 0 .. cdiv(x, BlockSize)
  <2>1. /\ (y \div BlockSize) \in Int /\ (y \div BlockSize) * BlockSize <= y
        /\ y \div BlockSize >= 0
    BY <1>0, DivFacts
  <2>2. (y \div BlockSize) * BlockSize < (cdiv(x, BlockSize) + 1) * BlockSize
    BY <1>0, <1>1, <1>4, <2>1
  <2>3. y \div BlockSize < cdiv(x, BlockSize) + 1
    BY <1>0, <1>1, <2>1, <2>2, ScaleStrict
  <2> QED  BY <1>1, <2>1, <2>3
<1> QED  BY <1>0, <1>1, <1>2, <1>3, <1>4

(* A minimum that exists is what Least picks.                              *)
HasLeast(S) == \E x \in S : \A y \in S : x <= y

LEMMA LeastFacts ==
  ASSUME NEW S, HasLeast(S)
  PROVE  Least(S) \in S /\ \A y \in S : Least(S) <= y
BY DEF Least, HasLeast

LEMMA HasLeastAdd ==
  ASSUME NEW S \in SUBSET Int, NEW x \in Int, S = {} \/ HasLeast(S)
  PROVE  HasLeast(S \cup {x})
<1>1. CASE S = {}
  BY <1>1 DEF HasLeast
<1>2. CASE HasLeast(S)
  <2>1. PICK m \in S : \A y \in S : m <= y
    BY <1>2 DEF HasLeast
  <2>2. CASE m <= x
    BY <2>1, <2>2 DEF HasLeast
  <2>3. CASE ~(m <= x)
    <3>1. \A y \in S \cup {x} : x <= y
      BY <2>1, <2>3
    <3> QED  BY <3>1 DEF HasLeast
  <2> QED  BY <2>2, <2>3
<1> QED  BY <1>1, <1>2

(* schedule() never gives a request more tokens than any of its limits,    *)
(* and gives it some if all of them allow it.                              *)
LEMMA CappedFacts ==
  ASSUME NEW n \in Int, NEW limits \in SUBSET Int, limits = {} \/ (\E x \in Int : limits = {x}),
         token_budget \in Int
  PROVE  /\ Capped(n, limits) \in Int
         /\ Capped(n, limits) <= n /\ Capped(n, limits) <= token_budget
         /\ \A l \in limits : Capped(n, limits) <= l
         /\ n >= 0 /\ token_budget >= 0 /\ (\A l \in limits : l >= 0) => Capped(n, limits) >= 0
         /\ n > 0 /\ token_budget > 0 /\ (\A l \in limits : l > 0) => Capped(n, limits) > 0
<1> DEFINE T == IF LongPrefillTokenThreshold > 0 THEN {LongPrefillTokenThreshold} ELSE {}
           A == {n, token_budget}
           S == {n, token_budget} \cup limits \cup T
<1>1. Capped(n, limits) = Least(S)
  BY DEF Capped
<1>0. LongPrefillTokenThreshold \in Nat
  BY SizeFacts
<1>2. HasLeast(A) /\ A \in SUBSET Int
  <2>1. HasLeast({n}) 
    BY DEF HasLeast
  <2>2. HasLeast({n} \cup {token_budget})
    BY <2>1, HasLeastAdd
  <2>3. {n} \cup {token_budget} = A
    OBVIOUS
  <2> QED  BY <2>2, <2>3
<1> HIDE DEF A
<1>3. HasLeast(A \cup limits) /\ A \cup limits \in SUBSET Int
  <2>1. CASE limits = {}
    <3>1. A \cup limits = A
      BY <2>1
    <3> QED  BY <1>2, <3>1
  <2>2. CASE \E x \in Int : limits = {x}
    <3>1. PICK x \in Int : limits = {x}
      BY <2>2
    <3>2. HasLeast(A \cup {x})
      BY <1>2, HasLeastAdd
    <3> QED  BY <1>2, <3>1, <3>2
  <2> QED  BY <2>1, <2>2
<1>4. HasLeast((A \cup limits) \cup T)
  <2>1. CASE LongPrefillTokenThreshold > 0
    <3>1. T = {LongPrefillTokenThreshold}
      BY <2>1
    <3>2. HasLeast((A \cup limits) \cup {LongPrefillTokenThreshold})
      BY <1>0, <1>3, HasLeastAdd
    <3> QED  BY <3>1, <3>2
  <2>2. CASE ~(LongPrefillTokenThreshold > 0)
    <3>1. T = {} /\ (A \cup limits) \cup T = A \cup limits
      BY <2>2
    <3> QED  BY <1>3, <3>1
  <2> QED  BY <2>1, <2>2
<1>5. S = (A \cup limits) \cup T /\ S \in SUBSET Int
  BY <1>0, <1>3 DEF A
<1>6. Least(S) \in S /\ \A y \in S : Least(S) <= y
  BY <1>4, <1>5, LeastFacts
<1>7. /\ n \in S /\ token_budget \in S /\ limits \subseteq S
      /\ \A y \in S : y = n \/ y = token_budget \/ y \in limits \/ y > 0
  BY <1>0
<1> HIDE DEF S
<1> QED  BY <1>1, <1>5, <1>6, <1>7

-----------------------------------------------------------------------------
(* The lists of requests.                                                  *)

(* Taking some requests out of a list.                                     *)
LEMMA RemoveFacts ==
  ASSUME NEW s \in Seq(Reqs), NEW S
  PROVE  /\ Keep(s, Reqs \ S) \in Seq(Reqs)
         /\ Elems(Keep(s, Reqs \ S)) = Elems(s) \ S
         /\ Distinct(s) => Distinct(Keep(s, Reqs \ S))
<1>1. Elems(s) \subseteq Reqs
  BY DEF Elems
<1>2. Elems(s) \cap (Reqs \ S) = Elems(s) \ S
  BY <1>1
<1> QED  BY <1>2, KeepFacts

(* What putting a request into the waiting queue does to it: where it goes *)
(* depends on the policy.                                                  *)
Inserted(s, r, t) ==
  t \in Seq(Reqs) /\ Elems(t) = Elems(s) \cup {r} /\ (r \notin Elems(s) /\ Distinct(s) => Distinct(t))

LEMMA OneElement ==
  ASSUME NEW r \in Reqs
  PROVE  <<r>> \in Seq(Reqs) /\ Elems(<<r>>) = {r} /\ Distinct(<<r>>)
BY DEF Elems, Distinct

LEMMA HeapInserted ==
  ASSUME NEW s \in Seq(Reqs), NEW r \in Reqs
  PROVE  Inserted(s, r, HeapInsert(s, r))
<1> DEFINE earlier == {q \in Reqs : Before(q, r)}
           A == Keep(s, earlier)
           B == Keep(s, Reqs \ earlier)
           one == <<r>>
           C == A \o one
<1>1. /\ A \in Seq(Reqs) /\ Elems(A) = Elems(s) \cap earlier
      /\ Distinct(s) => Distinct(A)
  BY KeepFacts
<1>2. /\ B \in Seq(Reqs) /\ Elems(B) = Elems(s) \ earlier
      /\ Distinct(s) => Distinct(B)
  BY RemoveFacts
<1>3. HeapInsert(s, r) = C \o B
  BY DEF HeapInsert
<1>o. one \in Seq(Reqs) /\ Elems(one) = {r} /\ Distinct(one)
  BY OneElement
<1> HIDE DEF A, B, one
<1>4. C \in Seq(Reqs) /\ Elems(C) = (Elems(s) \cap earlier) \cup {r}
  <2>1. C \in Seq(Reqs) /\ Elems(C) = Elems(A) \cup Elems(one)
    BY <1>1, <1>o, ConcatElems
  <2> QED  BY <1>1, <1>o, <2>1
<1>5. r \notin Elems(s) /\ Distinct(s) => Distinct(C)
  <2> SUFFICES ASSUME r \notin Elems(s), Distinct(s) PROVE Distinct(C)
    OBVIOUS
  <2>1. Distinct(A) /\ Elems(A) \cap Elems(one) = {}
    BY <1>1, <1>o
  <2> QED  BY <1>1, <1>o, <2>1, ConcatDistinct
<1> HIDE DEF C
<1>6. C \o B \in Seq(Reqs) /\ Elems(C \o B) = Elems(C) \cup Elems(B)
  BY <1>2, <1>4, ConcatElems
<1>7. Elems(C) \cup Elems(B) = Elems(s) \cup {r}
  BY <1>2, <1>4
<1>8. ASSUME r \notin Elems(s), Distinct(s) PROVE Distinct(C \o B)
  <2>1. Elems(C) \cap Elems(B) = {}
    BY <1>2, <1>4, <1>8
  <2> QED  BY <1>2, <1>4, <1>5, <1>8, <2>1, ConcatDistinct
<1> QED  BY <1>3, <1>6, <1>7, <1>8 DEF Inserted

LEMMA AddInserted ==
  ASSUME NEW s \in Seq(Reqs), NEW r \in Reqs
  PROVE  Inserted(s, r, add_to_queue(s, r))
<1>1. Inserted(s, r, Append(s, r))
  BY AppendFacts DEF Inserted
<1> QED  BY <1>1, HeapInserted DEF add_to_queue

LEMMA PrependInserted ==
  ASSUME NEW s \in Seq(Reqs), NEW r \in Reqs
  PROVE  Inserted(s, r, prepend_request(s, r))
<1> DEFINE one == <<r>>
<1>o. one \in Seq(Reqs) /\ Elems(one) = {r} /\ Distinct(one)
  BY OneElement
<1>p. prepend_request(s, r) = IF Policy = "fcfs" THEN one \o s ELSE HeapInsert(s, r)
  BY DEF prepend_request
<1> HIDE DEF one
<1>1. one \o s \in Seq(Reqs) /\ Elems(one \o s) = Elems(one) \cup Elems(s)
  BY <1>o, ConcatElems
<1>2. ASSUME r \notin Elems(s), Distinct(s) PROVE Distinct(one \o s)
  <2>1. Elems(one) \cap Elems(s) = {}
    BY <1>2, <1>o
  <2> QED  BY <1>2, <1>o, <2>1, ConcatDistinct
<1>3. Inserted(s, r, one \o s)
  BY <1>1, <1>2, <1>o DEF Inserted
<1> QED  BY <1>p, <1>3, HeapInserted

(* The head of a list and the rest.                                        *)
LEMMA TailFacts ==
  ASSUME NEW T, NEW s \in Seq(T), s # <<>>
  PROVE  /\ Len(s) \in Nat \ {0} /\ s[1] \in T /\ s[1] \in Elems(s) /\ Head(s) = s[1]
         /\ Tail(s) \in Seq(T) /\ Len(Tail(s)) = Len(s) - 1
         /\ \A i \in 1 .. Len(s) - 1 : Tail(s)[i] = s[i + 1]
         /\ Elems(s) = {s[1]} \cup Elems(Tail(s))
         /\ Distinct(s) => Distinct(Tail(s)) /\ s[1] \notin Elems(Tail(s))
<1>1. /\ Len(s) \in Nat \ {0} /\ s[1] \in T /\ Head(s) = s[1]
      /\ Tail(s) \in Seq(T) /\ Len(Tail(s)) = Len(s) - 1
      /\ \A i \in 1 .. Len(s) - 1 : Tail(s)[i] = s[i + 1]
  OBVIOUS
<1> DEFINE t == Tail(s)
<1> HIDE DEF t
<1>2. /\ Len(t) = Len(s) - 1 /\ \A i \in 1 .. Len(s) - 1 : t[i] = s[i + 1]
  BY <1>1 DEF t
<1>3. s[1] \in Elems(s)
  BY <1>1 DEF Elems
<1>4. Elems(s) = {s[1]} \cup Elems(t)
  <2>1. ASSUME NEW i \in 1 .. Len(s) PROVE s[i] \in {s[1]} \cup Elems(t)
    <3>1. CASE i = 1
      BY <3>1
    <3>2. CASE i # 1
      <4>1. i - 1 \in 1 .. Len(t) /\ t[i - 1] = s[i]
        BY <1>1, <1>2, <3>2
      <4> QED  BY <4>1 DEF Elems
    <3> QED  BY <3>1, <3>2
  <2>2. ASSUME NEW i \in 1 .. Len(t) PROVE t[i] \in Elems(s)
    <3>1. i + 1 \in 1 .. Len(s) /\ t[i] = s[i + 1]
      BY <1>1, <1>2
    <3> QED  BY <3>1 DEF Elems
  <2> QED  BY <1>3, <2>1, <2>2 DEF Elems
<1>5. ASSUME Distinct(s) PROVE Distinct(t) /\ s[1] \notin Elems(t)
  <2>1. ASSUME NEW i \in 1 .. Len(t), NEW j \in 1 .. Len(t), t[i] = t[j] PROVE i = j
    <3>1. i + 1 \in 1 .. Len(s) /\ j + 1 \in 1 .. Len(s) /\ s[i + 1] = s[j + 1]
      BY <1>1, <1>2, <2>1
    <3> QED  BY <1>1, <1>2, <1>5, <3>1 DEF Distinct
  <2>2. ASSUME NEW i \in 1 .. Len(t), t[i] = s[1] PROVE FALSE
    <3>1. i + 1 \in 1 .. Len(s) /\ 1 \in 1 .. Len(s) /\ s[i + 1] = s[1] /\ i + 1 # 1
      BY <1>1, <1>2, <2>2
    <3> QED  BY <1>5, <3>1 DEF Distinct
  <2> QED  BY <2>1, <2>2 DEF Distinct, Elems
<1> QED  BY <1>1, <1>3, <1>4, <1>5 DEF t

(* Taking one element out of a list: those behind it move up by one.       *)
LEMMA RemoveOne ==
  ASSUME NEW T, NEW s \in Seq(T), Distinct(s), NEW v \in 1 .. Len(s), NEW S,
         \A i \in 1 .. Len(s) : s[i] \in S <=> i # v
  PROVE  /\ Len(Keep(s, S)) = Len(s) - 1
         /\ \A k \in 1 .. Len(s) - 1 : Keep(s, S)[k] = IF k < v THEN s[k] ELSE s[k + 1]
<1> DEFINE I == {i \in 1 .. Len(s) : s[i] \in S}
           C == Cardinality(I)
           at(k) == CHOOSE i \in I : Rank(I, i) = k
<1>0. Len(s) \in Nat /\ I \in SUBSET (1 .. Len(s)) /\ I = (1 .. Len(s)) \ {v}
  OBVIOUS
<1>1. Keep(s, S) = [k \in 1 .. C |-> s[at(k)]]
  BY DEF Keep
<1>2. C = Len(s) - 1
  <2>1. IsFiniteSet(1 .. Len(s)) /\ Cardinality(1 .. Len(s)) = Len(s)
    BY <1>0, FS_Interval
  <2> QED  BY <1>0, <2>1, FS_RemoveElement
<1>3. ASSUME NEW i \in I PROVE Rank(I, i) = IF i < v THEN i ELSE i - 1
  <2>1. IsFiniteSet(1 .. i) /\ Cardinality(1 .. i) = i /\ i \in Nat
    BY <1>0, FS_Interval
  <2>2. CASE i < v
    <3>1. {j \in I : j <= i} = 1 .. i
      BY <1>0, <2>2
    <3> QED  BY <2>1, <2>2, <3>1 DEF Rank
  <2>3. CASE ~(i < v)
    <3>1. {j \in I : j <= i} = (1 .. i) \ {v} /\ v \in 1 .. i
      BY <1>0, <2>3
    <3>2. Cardinality((1 .. i) \ {v}) = i - 1
      BY <2>1, <3>1, FS_RemoveElement
    <3> QED  BY <2>3, <3>1, <3>2 DEF Rank
  <2> QED  BY <2>2, <2>3
<1> HIDE DEF I, C
<1>4. ASSUME NEW k \in 1 .. Len(s) - 1
      PROVE  at(k) = IF k < v THEN k ELSE k + 1
  <2> DEFINE m == IF k < v THEN k ELSE k + 1
  <2>0. k \in Nat /\ v \in Nat /\ m \in 1 .. Len(s) /\ m # v
    BY <1>0
  <2>1. m \in I /\ Rank(I, m) = k
    <3>1. m \in I
      BY <1>0, <2>0
    <3>2. Rank(I, m) = IF m < v THEN m ELSE m - 1
      BY <1>3, <3>1
    <3> QED  BY <2>0, <3>1, <3>2
  <2>2. \A i \in I : Rank(I, i) = k => i = m
    BY <1>0, <1>3
  <2> HIDE DEF m
  <2>3. at(k) = m
    BY <2>1, <2>2
  <2> QED  BY <2>3 DEF m
<1>5. Len(Keep(s, S)) = C
  BY <1>0, <1>1, <1>2
<1>6. ASSUME NEW k \in 1 .. Len(s) - 1
      PROVE  Keep(s, S)[k] = IF k < v THEN s[k] ELSE s[k + 1]
  <2>1. Keep(s, S)[k] = s[at(k)]
    BY <1>1, <1>2
  <2> HIDE DEF at
  <2> QED  BY <1>4, <2>1
<1> QED  BY <1>2, <1>5, <1>6

-----------------------------------------------------------------------------
(* The tokens scheduled in the current step.                               *)
Entries == [req : Reqs, n : Nat \ {0}]
OncePer(b) == \A i, j \in 1 .. Len(b) : b[i].req = b[j].req => i = j
ReqsOf(s) == {s[i].req : i \in 1 .. Len(s)}
TokensOf(E) == IF E = {} THEN 0 ELSE (CHOOSE e \in E : TRUE).n
Planned(s, r) == TokensOf({e \in Elems(s) : e.req = r})

(* A request scheduled once gets the tokens of its one entry.              *)
LEMMA PlannedFacts ==
  ASSUME NEW s \in Seq(Entries), OncePer(s), NEW r
  PROVE  /\ Planned(s, r) \in Nat
         /\ \A i \in 1 .. Len(s) : s[i].req = r => Planned(s, r) = s[i].n
         /\ r \notin ReqsOf(s) <=> Planned(s, r) = 0
<1> DEFINE E == {e \in Elems(s) : e.req = r}
<1>0. Len(s) \in Nat /\ \A i \in 1 .. Len(s) : s[i].n \in Nat \ {0}
  <2>1. Len(s) \in Nat /\ \A i \in 1 .. Len(s) : s[i] \in Entries
    OBVIOUS
  <2> QED  BY <2>1 DEF Entries
<1>1. CASE E = {}
  <2>1. Planned(s, r) = 0
    BY <1>1 DEF Planned, TokensOf
  <2>2. \A i \in 1 .. Len(s) : s[i].req # r
    BY <1>1 DEF Elems
  <2>3. r \notin ReqsOf(s)
    BY <2>2 DEF ReqsOf
  <2> QED  BY <2>1, <2>2, <2>3
<1>2. CASE E # {}
  <2>1. PICK i \in 1 .. Len(s) : s[i].req = r
    BY <1>2 DEF Elems
  <2>2. E = {s[i]}
    <3>1. \A j \in 1 .. Len(s) : s[j].req = r => j = i
      BY <2>1 DEF OncePer
    <3> QED  BY <2>1, <3>1 DEF Elems
  <2>3. (CHOOSE e \in E : TRUE) = s[i]
    BY <2>2
  <2>4. Planned(s, r) = s[i].n
    BY <1>2, <2>3 DEF Planned, TokensOf
  <2>5. \A j \in 1 .. Len(s) : s[j].req = r => j = i
    BY <2>1 DEF OncePer
  <2>6. r \in ReqsOf(s)
    BY <2>1 DEF ReqsOf
  <2> QED  BY <1>0, <2>1, <2>4, <2>5, <2>6
<1> QED  BY <1>1, <1>2

(* Scheduling one more request.                                            *)
LEMMA PlannedAppend ==
  ASSUME NEW s \in Seq(Entries), OncePer(s), NEW e \in Entries, e.req \notin ReqsOf(s)
  PROVE  /\ Append(s, e) \in Seq(Entries) /\ OncePer(Append(s, e))
         /\ ReqsOf(Append(s, e)) = ReqsOf(s) \cup {e.req}
         /\ \A r : Planned(Append(s, e), r) = IF r = e.req THEN e.n ELSE Planned(s, r)
<1> DEFINE a == Append(s, e)
           L == Len(s)
<1>1. /\ a \in Seq(Entries) /\ L \in Nat /\ Len(a) = L + 1 /\ a[L + 1] = e
      /\ \A i \in 1 .. L : a[i] = s[i]
  OBVIOUS
<1> HIDE DEF a
<1>2. OncePer(a)
  <2> SUFFICES ASSUME NEW i \in 1 .. L + 1, NEW j \in 1 .. L + 1, a[i].req = a[j].req PROVE i = j
    BY <1>1 DEF OncePer
  <2>1. CASE i \in 1 .. L /\ j \in 1 .. L
    BY <1>1, <2>1 DEF OncePer
  <2>2. CASE i = L + 1 /\ j \in 1 .. L
    BY <1>1, <2>2 DEF ReqsOf
  <2>3. CASE i \in 1 .. L /\ j = L + 1
    BY <1>1, <2>3 DEF ReqsOf
  <2> QED  BY <1>1, <2>1, <2>2, <2>3
<1>3. ReqsOf(a) = ReqsOf(s) \cup {e.req}
  <2>1. \A i \in 1 .. Len(a) : a[i].req \in ReqsOf(s) \cup {e.req}
    BY <1>1 DEF ReqsOf
  <2>2. \A i \in 1 .. Len(s) : s[i].req \in ReqsOf(a)
    BY <1>1 DEF ReqsOf
  <2>3. e.req \in ReqsOf(a)
    BY <1>1 DEF ReqsOf
  <2> QED  BY <2>1, <2>2, <2>3 DEF ReqsOf
<1>4. ASSUME NEW r PROVE Planned(a, r) = IF r = e.req THEN e.n ELSE Planned(s, r)
  <2>1. CASE r = e.req
    BY <1>1, <1>2, <2>1, PlannedFacts
  <2>2. CASE r # e.req /\ r \in ReqsOf(s)
    <3>1. PICK i \in 1 .. L : s[i].req = r
      BY <2>2 DEF ReqsOf
    <3>2. i \in 1 .. Len(a) /\ a[i] = s[i]
      BY <1>1
    <3>3. Planned(a, r) = a[i].n /\ Planned(s, r) = s[i].n
      BY <1>1, <1>2, <3>1, <3>2, PlannedFacts
    <3> QED  BY <2>2, <3>2, <3>3
  <2>3. CASE r # e.req /\ r \notin ReqsOf(s)
    <3>1. Planned(a, r) = 0 /\ Planned(s, r) = 0
      BY <1>1, <1>2, <1>3, <2>3, PlannedFacts
    <3> QED  BY <2>3, <3>1
  <2> QED  BY <2>1, <2>2, <2>3
<1> QED  BY <1>1, <1>2, <1>3, <1>4 DEF a

(* Un-scheduling the victim.                                               *)
Unscheduled(s, v, k) ==
  /\ k \in Seq(Entries) /\ OncePer(k) /\ ReqsOf(k) = ReqsOf(s) \ {v}
  /\ \A r : Planned(k, r) = IF r = v THEN 0 ELSE Planned(s, r)

LEMMA PlannedRemove ==
  ASSUME NEW s \in Seq(Entries), OncePer(s), NEW v,
         NEW back, \A e : e \in back <=> e \in Elems(s) /\ e.req = v,
         NEW k, k = Keep(s, Elems(s) \ back)
  PROVE  Unscheduled(s, v, k)
<1>0. Distinct(s)
  BY DEF OncePer, Distinct
<1>1. k \in Seq(Entries) /\ Elems(k) = Elems(s) \ back /\ Distinct(k)
  <2>1. k \in Seq(Entries) /\ Elems(k) = Elems(s) \cap (Elems(s) \ back) /\ Distinct(k)
    BY <1>0, KeepFacts
  <2> QED  BY <2>1
<1>2. \A x, y \in Elems(s) : x.req = y.req => x = y
  BY DEF Elems, OncePer
<1>3. OncePer(k)
  <2> SUFFICES ASSUME NEW i \in 1 .. Len(k), NEW j \in 1 .. Len(k), k[i].req = k[j].req PROVE i = j
    BY DEF OncePer
  <2>1. k[i] \in Elems(k) /\ k[j] \in Elems(k)
    BY DEF Elems
  <2>2. k[i] = k[j]
    BY <1>1, <1>2, <2>1
  <2> QED  BY <1>1, <2>2 DEF Distinct
<1>r. \A t : ReqsOf(t) = {e.req : e \in Elems(t)}
  BY DEF ReqsOf, Elems
<1>4. ReqsOf(k) = ReqsOf(s) \ {v}
  BY <1>1, <1>r
<1>5. ASSUME NEW r PROVE Planned(k, r) = IF r = v THEN 0 ELSE Planned(s, r)
  <2>1. CASE r = v
    BY <1>1, <1>3, <1>4, <2>1, PlannedFacts
  <2>2. CASE r # v
    <3>1. {e \in Elems(k) : e.req = r} = {e \in Elems(s) : e.req = r}
      BY <1>1, <2>2
    <3>2. Planned(k, r) = Planned(s, r)
      BY <3>1 DEF Planned
    <3> QED  BY <2>2, <3>2
  <2> QED  BY <2>1, <2>2
<1> QED  BY <1>1, <1>3, <1>4, <1>5 DEF Unscheduled

-----------------------------------------------------------------------------
(* What the scheduler's calls do to the block tables: request r's table    *)
(* ends up with len blocks of which k are cached, nobody else's changes,   *)
(* and the call is one that the KV cache allows.                           *)
KVEffect(r, len, k) ==
  /\ [KVNext]_kvars /\ KVInv'
  /\ Len(req_to_blocks'[r]) = len /\ num_cached_block'[r] = k
  /\ \A q \in Reqs : q # r => /\ Len(req_to_blocks'[q]) = Len(req_to_blocks[q])
                              /\ num_cached_block'[q] = num_cached_block[q]

(* The tables in the KV cache's invariant.                                 *)
LEMMA TableFacts ==
  ASSUME KVInv, NEW r \in Reqs
  PROVE  /\ req_to_blocks[r] \in Seq(PoolBlocks) /\ Len(req_to_blocks[r]) \in Nat
         /\ num_cached_block[r] \in Nat /\ num_cached_block[r] <= Len(req_to_blocks[r])
         /\ Len(req_to_blocks[r]) <= MaxReqBlocks
         /\ Len(req_to_blocks[r]) = 0 <=> req_to_blocks[r] = <<>>
         /\ DOMAIN req_to_blocks = Reqs /\ DOMAIN num_cached_block = Reqs
<1>1. /\ req_to_blocks \in [Reqs -> Seq(PoolBlocks)] /\ num_cached_block \in [Reqs -> Nat]
      /\ num_cached_block[r] <= Len(req_to_blocks[r]) /\ Len(req_to_blocks[r]) <= MaxReqBlocks
  BY DEF KVInv, KVTypeOK
<1>2. /\ req_to_blocks[r] \in Seq(PoolBlocks) /\ num_cached_block[r] \in Nat
      /\ DOMAIN req_to_blocks = Reqs /\ DOMAIN num_cached_block = Reqs
  BY <1>1
<1>3. Len(req_to_blocks[r]) \in Nat /\ (Len(req_to_blocks[r]) = 0 <=> req_to_blocks[r] = <<>>)
  BY <1>2
<1> QED  BY <1>1, <1>2, <1>3

LEMMA FreeEffect ==
  ASSUME KVInv, NEW r \in Reqs, free(r)
  PROVE  KVEffect(r, 0, 0)
<1>1. KVInv' /\ [KVNext]_kvars
  BY FreeKVInv DEF KVNext
<1>2. /\ req_to_blocks' = [req_to_blocks EXCEPT ![r] = <<>>]
      /\ num_cached_block' = [num_cached_block EXCEPT ![r] = 0]
  BY DEF free
<1>3. /\ req_to_blocks'[r] = <<>> /\ num_cached_block'[r] = 0
      /\ \A q \in Reqs : q # r => /\ req_to_blocks'[q] = req_to_blocks[q]
                                  /\ num_cached_block'[q] = num_cached_block[q]
  BY <1>2, TableFacts
<1>4. Len(req_to_blocks'[r]) = 0
  BY <1>3
<1> QED  BY <1>1, <1>3, <1>4 DEF KVEffect

(* The hits are at most as many as were looked for.                        *)
LEMMA HitLength ==
  ASSUME NEW r \in Reqs, NEW m \in Nat
  PROVE  Len(get_computed_blocks(r, m)) \in 0 .. m
<1> DEFINE S == HitLengths(r, m)
           bh == block_hashes[r]
<1>1. CASE ~EnableCaching
  <2>1. get_computed_blocks(r, m) = <<>>
    BY <1>1 DEF get_computed_blocks
  <2> QED  BY <2>1
<1>2. CASE EnableCaching
  <2> DEFINE k == CHOOSE j \in S : \A l \in S : l <= j
  <2>1. get_computed_blocks(r, m) = [i \in 1 .. k |-> cached[bh[i]][1]]
    BY <1>2 DEF get_computed_blocks, find_longest_cache_hit
  <2>2. /\ S \in SUBSET (0 .. m) /\ 0 \in S
        /\ \A j \in S : \A l \in 0 .. j : l \in S
    BY DEF HitLengths
  <2> HIDE DEF S
  <2>3. \E j \in S : \A l \in S : l <= j
    BY <2>2, LongestExists
  <2>4. k \in S
    BY <2>3
  <2> HIDE DEF k
  <2>5. k \in 0 .. m
    BY <2>2, <2>4
  <2> QED  BY <2>1, <2>5
<1> QED  BY <1>1, <1>2

(* allocate_slots gives the request exactly the blocks it asked for.       *)
LEMMA AllocEffect ==
  ASSUME KVInv, NEW r \in Reqs, NEW hits, NEW num_blocks \in 1 .. MaxReqBlocks,
         NEW num_full \in 0 .. num_blocks, HitsOK(r, hits, num_blocks),
         allocate_slots(r, hits, num_blocks, num_full), [KVNext]_kvars
  PROVE  KVEffect(r, num_blocks, FullAfter(num_cached_block[r] + Len(hits), num_full))
<1>1. KVInv'
  BY KVInvStep
<1>0. PICK N, T, full : Allocated(r, hits, num_blocks, N, T, full)
  BY AllocFacts
<1>2. Len(T) = num_blocks /\ req_to_blocks' = [req_to_blocks EXCEPT ![r] = T]
  BY <1>0 DEF Allocated, Taken
<1>3. num_cached_block' =
        [num_cached_block EXCEPT ![r] = FullAfter(num_cached_block[r] + Len(hits), num_full)]
  BY DEF allocate_slots
<1>4. /\ req_to_blocks'[r] = T
      /\ num_cached_block'[r] = FullAfter(num_cached_block[r] + Len(hits), num_full)
      /\ \A q \in Reqs : q # r => /\ req_to_blocks'[q] = req_to_blocks[q]
                                  /\ num_cached_block'[q] = num_cached_block[q]
  BY <1>2, <1>3, TableFacts
<1> QED  BY <1>1, <1>2, <1>4 DEF KVEffect

LEMMA AdmitEffect ==
  ASSUME KVInv, NEW r \in Reqs, NEW m \in 0 .. MaxReqBlocks - 1,
         NEW num_blocks \in 1 .. MaxReqBlocks, NEW num_full \in 0 .. num_blocks,
         Len(req_to_blocks[r]) = 0, num_blocks > Len(get_computed_blocks(r, m)),
         allocate_slots(r, get_computed_blocks(r, m), num_blocks, num_full)
  PROVE  KVEffect(r, num_blocks, FullAfter(Len(get_computed_blocks(r, m)), num_full))
<1>1. req_to_blocks[r] = <<>> /\ num_cached_block[r] = 0 /\ num_blocks \in Nat
  BY TableFacts, BlockFacts
<1>2. HitsOK(r, get_computed_blocks(r, m), num_blocks)
  BY <1>1, AdmitHits
<1>3. Admit(r, m, num_blocks, num_full)
  BY <1>1 DEF Admit
<1>4. [KVNext]_kvars
  BY <1>3 DEF KVNext
<1>5. m \in Nat
  BY BlockFacts
<1>6. Len(get_computed_blocks(r, m)) \in Nat
  BY <1>5, HitLength
<1>7. num_cached_block[r] + Len(get_computed_blocks(r, m)) = Len(get_computed_blocks(r, m))
  BY <1>1, <1>6
<1> QED  BY <1>2, <1>4, <1>7, AllocEffect

LEMMA GrowEffect ==
  ASSUME KVInv, NEW r \in Reqs,
         NEW num_blocks \in 1 .. MaxReqBlocks, NEW num_full \in 0 .. num_blocks,
         Len(req_to_blocks[r]) # 0, num_blocks >= Len(req_to_blocks[r]),
         allocate_slots(r, <<>>, num_blocks, num_full)
  PROVE  KVEffect(r, num_blocks, FullAfter(num_cached_block[r], num_full))
<1>1. req_to_blocks[r] # <<>> /\ num_cached_block[r] \in Nat /\ num_blocks \in Nat
  BY TableFacts, BlockFacts
<1>2. HitsOK(r, <<>>, num_blocks)
  BY <1>1, GrowHits
<1>3. Grow(r, num_blocks, num_full)
  BY <1>1 DEF Grow
<1>4. [KVNext]_kvars
  BY <1>3 DEF KVNext
<1>5. KVEffect(r, num_blocks, FullAfter(num_cached_block[r] + Len(<<>>), num_full))
  BY <1>2, <1>4, AllocEffect
<1>6. num_cached_block[r] + Len(<<>>) = num_cached_block[r]
  BY <1>1
<1> QED  BY <1>5, <1>6

LEMMA CommitEffect ==
  ASSUME KVInv, NEW r \in Reqs, NEW full \in 0 .. MaxReqBlocks, full <= Len(req_to_blocks[r]),
         cache_blocks(r, full)
  PROVE  KVEffect(r, Len(req_to_blocks[r]), full)
<1>1. Commit(r, full)
  BY DEF Commit
<1>2. [KVNext]_kvars /\ KVInv'
  BY <1>1, CommitKVInv DEF KVNext
<1>3. /\ num_cached_block' = [num_cached_block EXCEPT ![r] = full]
      /\ req_to_blocks' = req_to_blocks
  BY DEF cache_blocks
<1>4. /\ num_cached_block'[r] = full
      /\ \A q \in Reqs : q # r => num_cached_block'[q] = num_cached_block[q]
  BY <1>3, TableFacts
<1> QED  BY <1>2, <1>3, <1>4 DEF KVEffect

(* Calls that leave all tables alone.                                      *)
SameTables ==
  /\ [KVNext]_kvars /\ KVInv'
  /\ \A q \in Reqs : Len(req_to_blocks'[q]) = Len(req_to_blocks[q])
                     /\ num_cached_block'[q] = num_cached_block[q]

LEMMA NoEffect ==
  ASSUME KVInv, UNCHANGED kvars
  PROVE  SameTables
<1>1. KVInv'
  BY KVInvStep
<1> QED  BY <1>1 DEF SameTables, kvars

LEMMA ResetEffect ==
  ASSUME KVInv, reset_prefix_cache
  PROVE  SameTables
<1>1. KVInv' /\ [KVNext]_kvars
  BY ResetKVInv DEF KVNext
<1> QED  BY <1>1 DEF SameTables, reset_prefix_cache

-----------------------------------------------------------------------------
(* The request to preempt.                                                 *)

(* The least-number principle; through it a proof can take the first       *)
(* position where a claim about a sequence would fail.                     *)
LEMMA LeastNatural ==
  ASSUME NEW T \in SUBSET Nat, T # {}
  PROVE  \E x \in T : \A y \in T : x <= y
<1>1. \E R : IsWellFoundedOn(R, Nat) /\ \A x, y \in Nat : x < y => <<x, y>> \in R
  <2> DEFINE R == OpToRel(<, Nat)
  <2>1. IsWellFoundedOn(R, Nat)
    BY NatLessThanWellFounded
  <2>2. \A x, y \in Nat : x < y => <<x, y>> \in R
    BY Zenon DEF OpToRel
  <2> HIDE DEF R
  <2> QED  BY <2>1, <2>2
<1>2. PICK R : IsWellFoundedOn(R, Nat) /\ \A x, y \in Nat : x < y => <<x, y>> \in R
  BY <1>1
<1>3. T \subseteq Nat
  OBVIOUS
<1>4. PICK x \in T : \A y \in T : ~ (<<y, x>> \in R)
  <2>1. IsWellFoundedOn(R, Nat)
    BY <1>2
  <2>2. T # {}
    OBVIOUS
  <2> HIDE <1>2
  <2>3. \E x \in T : \A y \in T : ~ (<<y, x>> \in R)
    BY <1>3, <2>1, <2>2, WFMin
  <2> QED  BY <2>3
<1>5. \A y \in T : ~(y < x)
  BY <1>2, <1>4
<1> QED  BY <1>5

(* A sequence of numbers has a largest one.                                *)
LEMMA LargestKey ==
  ASSUME NEW n \in Nat \ {0}, NEW key \in [1 .. n -> Nat]
  PROVE  \E i \in 1 .. n : \A j \in 1 .. n : key[j] <= key[i]
<1> DEFINE F == {k \in 1 .. n : ~\E i \in 1 .. k : \A j \in 1 .. k : key[j] <= key[i]}
<1>0. F \in SUBSET Nat /\ \A j \in 1 .. n : key[j] \in Nat
  OBVIOUS
<1>1. ASSUME F # {} PROVE FALSE
  <2>1. PICK k \in F : \A l \in F : k <= l
    <3> HIDE DEF F
    <3> QED  BY <1>0, <1>1, LeastNatural
  <2>2. k \in 1 .. n /\ \A i \in 1 .. k : \E j \in 1 .. k : ~(key[j] <= key[i])
    BY <2>1
  <2>3. k # 1
    <3> SUFFICES ASSUME k = 1 PROVE FALSE
      OBVIOUS
    <3>1. 1 \in 1 .. k /\ \A j \in 1 .. k : j = 1
      OBVIOUS
    <3>2. key[1] \in Nat
      BY <1>0
    <3> QED  BY <2>2, <3>1, <3>2
  <2>4. k - 1 \in 1 .. n /\ k - 1 \notin F
    <3> HIDE DEF F
    <3>1. k \in Nat /\ k - 1 \in 1 .. n /\ ~(k <= k - 1)
      BY <2>2, <2>3
    <3> QED  BY <2>1, <3>1
  <2>5. PICK i \in 1 .. k - 1 : \A j \in 1 .. k - 1 : key[j] <= key[i]
    BY <2>4
  <2>6. i \in 1 .. k /\ k \in 1 .. k /\ i \in 1 .. n
        /\ \A j \in 1 .. k : j \in 1 .. n /\ (j \in 1 .. k - 1 \/ j = k)
    BY <2>2, <2>5
  <2>7. PICK x \in 1 .. k : ~(key[x] <= key[i])
    BY <2>2, <2>6
  <2>8. x = k /\ key[k] \in Nat /\ key[i] \in Nat /\ key[i] <= key[k]
    BY <1>0, <2>5, <2>6, <2>7
  <2>9. \A j \in 1 .. k : key[j] <= key[k]
    BY <1>0, <2>5, <2>6, <2>8
  <2> QED  BY <2>2, <2>6, <2>9
<1>2. n \in 1 .. n /\ n \notin F
  <2> HIDE DEF F
  <2> QED  BY <1>1
<1> QED  BY <1>2

(* Among requests in a list one has the largest priority key.              *)
LEMMA LastPriority ==
  ASSUME NEW s \in Seq(Reqs), s # <<>>
  PROVE  \E r \in Elems(s) : \A q \in Elems(s) : ~Before(r, q)
<1> DEFINE key == [i \in 1 .. Len(s) |-> PriorityKey[s[i]]]
<1>0. Len(s) \in Nat \ {0} /\ \A i \in 1 .. Len(s) : s[i] \in Reqs
  OBVIOUS
<1>1. \A i \in 1 .. Len(s) : PriorityKey[s[i]] \in Nat
  BY <1>0, SchedulerAssumption
<1>2. key \in [1 .. Len(s) -> Nat] /\ \A i \in 1 .. Len(s) : key[i] = PriorityKey[s[i]]
  BY <1>1
<1> HIDE DEF key
<1>3. PICK i \in 1 .. Len(s) : \A j \in 1 .. Len(s) : key[j] <= key[i]
  BY <1>0, <1>2, LargestKey
<1>4. \A j \in 1 .. Len(s) : ~Before(s[i], s[j])
  BY <1>1, <1>2, <1>3 DEF Before
<1>5. s[i] \in Elems(s) /\ \A q \in Elems(s) : ~Before(s[i], q)
  BY <1>4 DEF Elems
<1> QED  BY <1>5

(* The victim is one of the running requests.                              *)
LEMMA VictimRuns ==
  ASSUME running \in Seq(Reqs), running # <<>>
  PROVE  Victim \in Elems(running)
<1>1. CASE Policy = "fcfs"
  <2>1. Victim = running[Len(running)] /\ Len(running) \in 1 .. Len(running)
    BY <1>1 DEF Victim
  <2> QED  BY <2>1 DEF Elems
<1>2. CASE Policy # "fcfs"
  <2>1. Victim = CHOOSE r \in Elems(running) : \A q \in Elems(running) : ~Before(r, q)
    BY <1>2 DEF Victim
  <2> QED  BY <2>1, LastPriority
<1> QED  BY <1>1, <1>2

(* A list without repetition is no longer than there are requests.         *)
LEMMA DistinctLength ==
  ASSUME NEW s \in Seq(Reqs), Distinct(s)
  PROVE  Len(s) <= Cardinality(Reqs) /\ Cardinality(Reqs) \in Nat
<1>1. IsFiniteSet(Reqs) /\ Len(s) \in Nat
  BY ConstAssumption
<1>2. s \in Injection(1 .. Len(s), Reqs)
  <2>1. s \in [1 .. Len(s) -> Reqs]
    OBVIOUS
  <2>2. \A i, j \in 1 .. Len(s) : s[i] = s[j] => i = j
    BY DEF Distinct
  <2>3. PICK D : D = 1 .. Len(s)
    OBVIOUS
  <2>4. s \in [D -> Reqs] /\ \A i, j \in D : s[i] = s[j] => i = j
    BY <2>1, <2>2, <2>3
  <2>5. s \in Injection(D, Reqs)
    BY <2>4 DEF Injection, IsInjective
  <2> QED  BY <2>3, <2>5
<1>3. IsFiniteSet(1 .. Len(s)) /\ Cardinality(1 .. Len(s)) = Len(s)
  <2>1. PICK n \in Nat : n = Len(s)
    BY <1>1
  <2>2. IsFiniteSet(1 .. n) /\ Cardinality(1 .. n) = n
    BY FS_Interval
  <2> QED  BY <2>1, <2>2
<1>4. Cardinality(1 .. Len(s)) <= Cardinality(Reqs)
  BY <1>1, <1>2, FS_Injection
<1> QED  BY <1>1, <1>3, <1>4, FS_CardinalityType

-----------------------------------------------------------------------------
(* The inductive invariant.                                                *)
Outputs == [req : Reqs, pos : 0 .. MaxModelLen]

(* Types.                                                                  *)
Shapes ==
  /\ status \in [Reqs -> {"new", "WAITING", "RUNNING", "PREEMPTED", "FINISHED"}]
  /\ num_computed_tokens \in [Reqs -> Nat] /\ num_output_tokens \in [Reqs -> Nat]
  /\ num_output_placeholders \in [Reqs -> Nat]
  /\ discard_latest_async_tokens \in [Reqs -> BOOLEAN]
  /\ running \in Seq(Reqs) /\ waiting \in Seq(Reqs) /\ finished_req_ids \subseteq Reqs
  /\ pc \in {"idle", "running", "allocate", "waiting", "await", "update", "stopped",
             "resetting"}
  /\ token_budget \in Nat /\ req_index \in Nat \ {0}
  /\ scheduled \in Seq(Entries)
  /\ batch_queue \in Seq(Seq(Outputs)) /\ output \in Seq(Outputs)
  /\ forced_resets \in Nat
  /\ stopped_running_reqs \subseteq Reqs /\ stopped_preempted_reqs \subseteq Reqs

(* Every request is in the list its status says, also in the middle of     *)
(* update_from_output, where those that stopped are still listed; only a   *)
(* running request, or the one about to be freed, holds blocks.            *)
Placed(r) ==
  /\ r \in Elems(running) <=> status[r] = "RUNNING" \/ r \in stopped_running_reqs
  /\ r \in Elems(waiting) <=>
       status[r] \in {"WAITING", "PREEMPTED"} \/ r \in stopped_preempted_reqs
  /\ r \in stopped_running_reqs \/ r \in stopped_preempted_reqs => status[r] = "FINISHED"
  /\ ~(r \in stopped_running_reqs /\ r \in stopped_preempted_reqs)
  /\ status[r] # "RUNNING" => Len(req_to_blocks[r]) = 0 \/ (pc = "stopped" /\ r = cur.req)
Lists ==
  /\ Distinct(running) /\ Distinct(waiting)
  /\ \A r \in Reqs : Placed(r)
  /\ pc \notin {"update", "stopped"} => stopped_running_reqs = {} /\ stopped_preempted_reqs = {}
  /\ pc = "stopped" => cur.req \in Reqs /\ status[cur.req] = "FINISHED"

(* The loops of schedule(): nobody is scheduled twice, because the loop    *)
(* over running has only unscheduled requests ahead of it, also after a    *)
(* preemption has taken some request out of the list.                      *)
Current ==
  /\ cur \in Entries /\ cur.req \in Elems(running) /\ cur.req \notin ReqsOf(scheduled)
  /\ \A i \in 1 .. Len(running) : i > req_index => running[i] # cur.req
  /\ cur.n <= token_budget /\ req_index <= Cardinality(Reqs)
  /\ num_computed_tokens[cur.req] + cur.n <= MaxModelLen - 1
  /\ num_computed_tokens[cur.req] + cur.n <=
       num_tokens(cur.req) + num_output_placeholders[cur.req]
Loop ==
  /\ Len(running) <= MaxNumRunningReqs
  /\ OncePer(scheduled) /\ ReqsOf(scheduled) \subseteq Elems(running)
  /\ ~Scheduling => scheduled = <<>>
  /\ pc \in {"running", "allocate"} =>
       \A i \in 1 .. Len(running) : i >= req_index => running[i] \notin ReqsOf(scheduled)
  /\ req_index <= Cardinality(Reqs) + 1
  /\ pc = "allocate" => Current
  /\ pc = "resetting" => forced_resets # 0

(* The token counts, with those about to be computed: never beyond the     *)
(* tokens known or in flight, nor beyond the model's context, and exactly  *)
(* what the request's blocks are for.                                      *)
Target(r) == num_computed_tokens[r] + Planned(scheduled, r)
RunningOK(r) ==
  /\ Target(r) >= 1
  /\ Target(r) <= num_tokens(r) + num_output_placeholders[r]
  /\ Len(req_to_blocks[r]) = cdiv(Target(r), BlockSize)
  /\ num_cached_block[r] * BlockSize <= num_tokens(r)
CountsOK(r) ==
  /\ status[r] = "RUNNING" => RunningOK(r)
  /\ Target(r) <= MaxModelLen - 1
  /\ status[r] # "FINISHED" => num_tokens(r) < MaxModelLen /\ num_output_tokens[r] < MaxTokens[r]
  /\ status[r] \in {"new", "WAITING", "PREEMPTED"} => num_computed_tokens[r] = 0
  /\ num_output_tokens[r] <= MaxModelLen
Counts == \A r \in Reqs : CountsOK(r)

(* The batches in flight.                                                  *)
Batches ==
  /\ pc \notin {"update", "stopped"} => output = <<>>
  /\ Len(batch_queue) <= BatchQueueSize
  /\ pc # "await" => Len(batch_queue) < BatchQueueSize
  /\ pc = "await" => batch_queue # <<>>
  /\ OncePer(output) /\ \A k \in 1 .. Len(batch_queue) : OncePer(batch_queue[k])

(* The outputs a request is still owed.  An asynchronous scheduler has at  *)
(* most two batches in flight, the one being processed included.  After a  *)
(* forced reset one output may be dropped instead of being counted.        *)
Owed(b, r) == IF \E i \in 1 .. Len(b) : b[i].req = r /\ b[i].pos # 0 THEN 1 ELSE 0
OwedAt(q, k, r) == IF Len(q) >= k THEN Owed(q[k], r) ELSE 0
Pending(out, q, r) == Owed(out, r) + OwedAt(q, 1, r) + OwedAt(q, 2, r)
Discards(r) == IF discard_latest_async_tokens[r] THEN 1 ELSE 0
FlightsOK(r) ==
  /\ ~Async => num_output_placeholders[r] = 0
  /\ Async /\ status[r] # "FINISHED" =>
       /\ Pending(output, batch_queue, r) <= num_output_placeholders[r] + Discards(r)
       /\ status[r] = "new" => Pending(output, batch_queue, r) = 0
       /\ forced_resets = 0 => /\ ~discard_latest_async_tokens[r]
                               /\ num_output_placeholders[r] = Pending(output, batch_queue, r)
Flights == \A r \in Reqs : FlightsOK(r)

SchedInv == KVInv /\ Shapes /\ Lists /\ Loop /\ Counts /\ Batches /\ Flights

(* NumScheduled and ScheduledNow of the model, as sets of entries.         *)
LEMMA NumScheduledIs ==
  /\ \A r : NumScheduled(r) = Planned(scheduled, r)
  /\ \A r : ScheduledNow(r) = {e \in Elems(scheduled) : e.req = r}
BY DEF NumScheduled, ScheduledNow, Planned, TokensOf

-----------------------------------------------------------------------------
(* Initially, and what carries over from step to step.                     *)
LEMMA EmptyFacts ==
  /\ Elems(<<>>) = {} /\ Distinct(<<>>) /\ ReqsOf(<<>>) = {} /\ OncePer(<<>>)
  /\ \A r : Planned(<<>>, r) = 0 /\ Owed(<<>>, r) = 0
<1>1. Elems(<<>>) = {} /\ Distinct(<<>>) /\ ReqsOf(<<>>) = {} /\ OncePer(<<>>)
  BY DEF Elems, Distinct, ReqsOf, OncePer
<1>2. \A r : Planned(<<>>, r) = 0
  BY <1>1 DEF Planned, TokensOf
<1>3. \A r : Owed(<<>>, r) = 0
  BY DEF Owed
<1> QED  BY <1>1, <1>2, <1>3

LEMMA InitSchedInv == Init => SchedInv
<1> SUFFICES ASSUME Init PROVE SchedInv
  OBVIOUS
<1> USE DEF Init
<1>1. KVInv
  BY InitKVInv
<1>2. Shapes
  BY SizeFacts DEF Shapes
<1>3. Lists
  <2>1. \A r \in Reqs : req_to_blocks[r] = <<>>
    BY DEF KVInit
  <2> QED  BY <2>1, EmptyFacts DEF Lists, Placed
<1>4. Loop
  <2>1. Cardinality(Reqs) \in Nat
    BY ConstAssumption, FS_CardinalityType
  <2> QED  BY <2>1, EmptyFacts, SizeFacts DEF Loop
<1>5. Counts
  <2> SUFFICES ASSUME NEW r \in Reqs PROVE CountsOK(r)
    BY DEF Counts
  <2>1. Target(r) = 0
    BY EmptyFacts DEF Target
  <2> QED  BY <2>1, SizeFacts DEF CountsOK, num_tokens
<1>6. Batches
  BY EmptyFacts, SizeFacts DEF Batches
<1>7. Flights
  <2> SUFFICES ASSUME NEW r \in Reqs PROVE FlightsOK(r)
    BY DEF Flights
  <2>1. Pending(output, batch_queue, r) = 0
    BY EmptyFacts DEF Pending, OwedAt
  <2> QED  BY <2>1 DEF FlightsOK, Discards
<1> QED  BY <1>1, <1>2, <1>3, <1>4, <1>5, <1>6, <1>7 DEF SchedInv

LEMMA CountsFrame ==
  ASSUME SchedInv, SameTables,
         UNCHANGED <<status, num_computed_tokens, num_output_tokens, num_output_placeholders,
                     scheduled>>
  PROVE  Counts'
BY DEF SchedInv, SameTables, Counts, CountsOK, RunningOK, Target, num_tokens

LEMMA ListsFrame ==
  ASSUME SchedInv, SameTables, pc # "stopped", pc' # "stopped", pc = "update" <=> pc' = "update",
         UNCHANGED <<running, waiting, status, stopped_running_reqs, stopped_preempted_reqs>>
  PROVE  Lists'
BY DEF SchedInv, SameTables, Lists, Placed

LEMMA FlightsFrame ==
  ASSUME SchedInv,
         UNCHANGED <<num_output_placeholders, discard_latest_async_tokens, status, output,
                     batch_queue, forced_resets>>
  PROVE  Flights'
BY DEF SchedInv, Flights, FlightsOK, Discards

LEMMA BatchesFrame ==
  ASSUME SchedInv, UNCHANGED <<output, batch_queue>>, pc # "await", pc' # "await",
         pc \in {"update", "stopped"} => pc' \in {"update", "stopped"}
  PROVE  Batches'
BY DEF SchedInv, Batches

(* The steps that only move the control point.                             *)
LEMMA ResetUnusedStep ==
  ASSUME SchedInv, reset_prefix_cache_if_unused
  PROVE  SchedInv' /\ [KVNext]_kvars
<1> USE DEF reset_prefix_cache_if_unused, request_vars, queue_vars, local_vars, output_vars,
            ghost_vars
<1>1. SameTables
  BY ResetEffect DEF SchedInv
<1>2. Shapes'
  BY DEF SchedInv, Shapes
<1>3. Lists' /\ Counts' /\ Flights' /\ Batches'
  BY <1>1, ListsFrame, CountsFrame, FlightsFrame, BatchesFrame
<1>4. Loop'
  BY DEF SchedInv, Loop, Scheduling
<1> QED  BY <1>1, <1>2, <1>3, <1>4 DEF SchedInv, SameTables

LEMMA ResetBeginStep ==
  ASSUME SchedInv, reset_begin
  PROVE  SchedInv' /\ [KVNext]_kvars
<1> USE DEF reset_begin, request_vars, queue_vars, local_vars, output_vars, ghost_vars
<1>1. SameTables
  BY NoEffect DEF SchedInv
<1>2. Shapes'
  BY DEF SchedInv, Shapes
<1>3. Lists' /\ Counts' /\ Batches'
  BY <1>1, ListsFrame, CountsFrame, BatchesFrame
<1>4. Loop'
  BY DEF SchedInv, Loop, Scheduling, Shapes
<1>5. Flights'
  BY DEF SchedInv, Flights, FlightsOK, Discards, Shapes
<1> QED  BY <1>1, <1>2, <1>3, <1>4, <1>5 DEF SchedInv, SameTables

LEMMA ScheduleBeginStep ==
  ASSUME SchedInv, schedule_begin
  PROVE  SchedInv' /\ [KVNext]_kvars
<1> USE DEF schedule_begin, request_vars, queue_vars, output_vars, ghost_vars
<1>1. SameTables
  BY NoEffect DEF SchedInv
<1>2. Shapes'
  BY SizeFacts DEF SchedInv, Shapes
<1>3. scheduled' = scheduled
  BY DEF SchedInv, Loop, Scheduling
<1>4. Lists' /\ Counts' /\ Batches' /\ Flights'
  BY <1>1, <1>3, ListsFrame, CountsFrame, BatchesFrame, FlightsFrame
<1>5. Loop'
  <2>1. Cardinality(Reqs) \in Nat
    BY ConstAssumption, FS_CardinalityType
  <2> QED  BY <2>1, EmptyFacts DEF SchedInv, Loop, Scheduling
<1> QED  BY <1>1, <1>2, <1>4, <1>5 DEF SchedInv, SameTables

LEMMA RunningSkipStep ==
  ASSUME SchedInv, running_skip
  PROVE  SchedInv' /\ [KVNext]_kvars
<1>0. /\ pc = "running" /\ pc' = pc /\ req_index <= Len(running) /\ req_index' = req_index + 1
      /\ UNCHANGED <<kvars, request_vars, queue_vars, token_budget, cur, preempted_reqs,
                     scheduled, batch_queue, output_vars, ghost_vars>>
  BY DEF running_skip, MoreRunning
<1> USE DEF request_vars, queue_vars, output_vars, ghost_vars
<1>1. SameTables
  BY <1>0, NoEffect DEF SchedInv
<1>2. Shapes'
  <2>1. req_index' \in Nat \ {0}
    BY <1>0 DEF SchedInv, Shapes
  <2> QED  BY <1>0, <2>1 DEF SchedInv, Shapes
<1>3. Lists' /\ Counts' /\ Batches' /\ Flights'
  BY <1>0, <1>1, ListsFrame, CountsFrame, BatchesFrame, FlightsFrame
<1>4. Len(running) <= Cardinality(Reqs) /\ Cardinality(Reqs) \in Nat
  BY DistinctLength DEF SchedInv, Shapes, Lists
<1>5. Loop'
  <2>1. scheduled' = scheduled /\ running' = running
    BY <1>0
  <2>2. req_index \in Nat \ {0} /\ Len(running) \in Nat
    BY DEF SchedInv, Shapes
  <2>3. req_index' \in Nat /\ req_index' <= Cardinality(Reqs) + 1
    BY <1>0, <1>4, <2>2
  <2>4. \A i \in 1 .. Len(running) : i >= req_index' => i >= req_index
    BY <1>0, <2>2
  <2> QED  BY <1>0, <2>1, <2>3, <2>4 DEF SchedInv, Loop, Scheduling
<1> QED  BY <1>1, <1>2, <1>3, <1>5 DEF SchedInv, SameTables

LEMMA RunningDoneStep ==
  ASSUME SchedInv, running_done
  PROVE  SchedInv' /\ [KVNext]_kvars
<1> USE DEF running_done, request_vars, queue_vars, local_vars, output_vars, ghost_vars
<1>1. SameTables
  BY NoEffect DEF SchedInv
<1>2. Shapes'
  BY DEF SchedInv, Shapes
<1>3. Lists' /\ Counts' /\ Batches' /\ Flights'
  BY <1>1, ListsFrame, CountsFrame, BatchesFrame, FlightsFrame
<1>4. Loop'
  BY DEF SchedInv, Loop, Scheduling
<1> QED  BY <1>1, <1>2, <1>3, <1>4 DEF SchedInv, SameTables

LEMMA AwaitBeginStep ==
  ASSUME SchedInv, await_begin
  PROVE  SchedInv' /\ [KVNext]_kvars
<1> USE DEF await_begin, request_vars, queue_vars, local_vars, output_vars, ghost_vars
<1>1. SameTables
  BY NoEffect DEF SchedInv
<1>2. Shapes'
  BY DEF SchedInv, Shapes
<1>3. Lists' /\ Counts' /\ Flights'
  BY <1>1, ListsFrame, CountsFrame, FlightsFrame
<1>4. Loop'
  BY DEF SchedInv, Loop, Scheduling
<1>5. Batches'
  BY DEF SchedInv, Batches
<1> QED  BY <1>1, <1>2, <1>3, <1>4, <1>5 DEF SchedInv, SameTables

-----------------------------------------------------------------------------
(* Client calls.                                                           *)

(* Taking requests out of a list does not make it longer.                  *)
LEMMA RemoveLength ==
  ASSUME NEW s \in Seq(Reqs), NEW S
  PROVE  Len(Keep(s, Reqs \ S)) \in Nat /\ Len(Keep(s, Reqs \ S)) <= Len(s)
<1> DEFINE I == {i \in 1 .. Len(s) : s[i] \in Reqs \ S}
<1>1. Len(Keep(s, Reqs \ S)) = Cardinality(I)
  BY KeepFacts
<1>0. Len(s) \in Nat
  OBVIOUS
<1>2. IsFiniteSet(1 .. Len(s)) /\ Cardinality(1 .. Len(s)) = Len(s)
  <2>1. PICK n \in Nat : n = Len(s)
    BY <1>0
  <2>2. IsFiniteSet(1 .. n) /\ Cardinality(1 .. n) = n
    BY FS_Interval
  <2> QED  BY <2>1, <2>2
<1>3. I \subseteq 1 .. Len(s)
  OBVIOUS
<1> HIDE DEF I
<1>4. Cardinality(I) <= Len(s) /\ Cardinality(I) \in Nat
  BY <1>0, <1>2, <1>3, FS_Subset, FS_CardinalityType
<1> QED  BY <1>1, <1>4

(* Popping the last request.                                               *)
LEMMA FrontFacts ==
  ASSUME NEW s \in Seq(Reqs), s # <<>>, Distinct(s)
  PROVE  LET front == SubSeq(s, 1, Len(s) - 1)
         IN  /\ front \in Seq(Reqs) /\ Len(front) = Len(s) - 1 /\ Distinct(front)
             /\ Elems(front) = Elems(s) \ {s[Len(s)]}
<1> DEFINE L     == Len(s)
           front == SubSeq(s, 1, L - 1)
<1>0. L \in Nat \ {0} /\ L - 1 \in 0 .. Len(s)
  OBVIOUS
<1>1. /\ L \in Nat \ {0} /\ front \in Seq(Reqs) /\ Len(front) = L - 1
      /\ \A i \in 1 .. L - 1 : front[i] = s[i]
  <2> DEFINE n == L - 1
  <2>1. n \in 0 .. Len(s) /\ front = SubSeq(s, 1, n)
    BY <1>0
  <2> HIDE DEF n
  <2>2. /\ SubSeq(s, 1, n) \in Seq(Reqs) /\ Len(SubSeq(s, 1, n)) = n
        /\ \A i \in 1 .. n : SubSeq(s, 1, n)[i] = s[i]
    BY <2>1, SplitFacts
  <2> QED  BY <1>0, <2>1, <2>2 DEF n
<1> HIDE DEF front, L
<1>2. Distinct(front)
  BY <1>1 DEF Distinct, L
<1>3. \A i \in 1 .. Len(front) : front[i] \in Elems(s) /\ front[i] # s[L]
  BY <1>1 DEF Distinct, Elems, L
<1>4. \A i \in 1 .. Len(s) : s[i] = s[L] \/ s[i] \in Elems(front)
  <2> SUFFICES ASSUME NEW i \in 1 .. Len(s), i # L PROVE s[i] \in Elems(front)
    OBVIOUS
  <2>1. i \in 1 .. Len(front) /\ front[i] = s[i]
    BY <1>1 DEF L
  <2> QED  BY <2>1 DEF Elems
<1>5. Elems(front) = Elems(s) \ {s[L]}
  BY <1>3, <1>4 DEF Elems
<1> QED  BY <1>1, <1>2, <1>5 DEF front, L

LEMMA AddStep ==
  ASSUME SchedInv, NEW r \in Reqs, add_request(r)
  PROVE  SchedInv' /\ [KVNext]_kvars
<1>0. /\ pc = "idle" /\ status[r] = "new" /\ status' = [status EXCEPT ![r] = "WAITING"]
      /\ waiting' = add_to_queue(waiting, r) /\ UNCHANGED kvars
      /\ UNCHANGED <<num_computed_tokens, num_output_tokens, num_output_placeholders,
                     discard_latest_async_tokens, running, finished_req_ids, pc>>
      /\ UNCHANGED <<token_budget, req_index, cur, preempted_reqs, scheduled, batch_queue>>
      /\ UNCHANGED <<output, stopped_running_reqs, stopped_preempted_reqs, forced_resets>>
  BY DEF add_request, local_vars, output_vars
<1>1. SameTables
  BY <1>0, NoEffect DEF SchedInv
<1>2. Inserted(waiting, r, waiting')
  BY <1>0, AddInserted DEF SchedInv, Shapes
<1>3. /\ waiting' \in Seq(Reqs) /\ Elems(waiting') = Elems(waiting) \cup {r}
      /\ r \notin Elems(waiting) /\ r \notin Elems(running)
  <2>1. r \notin Elems(waiting) /\ r \notin Elems(running)
    BY <1>0 DEF SchedInv, Lists, Placed
  <2> QED  BY <1>2, <2>1 DEF Inserted
<1>4. /\ status'[r] = "WAITING" /\ \A q \in Reqs : q # r => status'[q] = status[q]
      /\ status' \in [Reqs -> {"new", "WAITING", "RUNNING", "PREEMPTED", "FINISHED"}]
  BY <1>0 DEF SchedInv, Shapes
<1>5. Shapes'
  BY <1>0, <1>3, <1>4 DEF SchedInv, Shapes
<1>6. Lists'
  <2>1. Distinct(waiting')
    BY <1>2, <1>3 DEF Inserted, SchedInv, Lists
  <2>2. ASSUME NEW q \in Reqs PROVE Placed(q)'
    <3>1. Placed(q)
      BY DEF SchedInv, Lists
    <3>2. Len(req_to_blocks'[q]) = Len(req_to_blocks[q])
      BY <1>1 DEF SameTables
    <3>3. CASE q = r
      BY <1>0, <1>3, <1>4, <3>1, <3>2, <3>3 DEF Placed
    <3>4. CASE q # r
      BY <1>0, <1>3, <1>4, <3>1, <3>2, <3>4 DEF Placed
    <3> QED  BY <3>3, <3>4
  <2> QED  BY <1>0, <2>1, <2>2 DEF SchedInv, Lists
<1>7. Loop'
  BY <1>0 DEF SchedInv, Loop, Scheduling
<1>8. Counts'
  <2> SUFFICES ASSUME NEW q \in Reqs PROVE CountsOK(q)'
    BY DEF Counts
  <2>1. CountsOK(q) /\ CountsOK(r)
    BY DEF SchedInv, Counts
  <2> QED  BY <1>0, <1>1, <1>4, <2>1 DEF CountsOK, RunningOK, Target, num_tokens, SameTables
<1>9. Batches'
  BY <1>0, BatchesFrame
<1>10. Flights'
  <2> SUFFICES ASSUME NEW q \in Reqs PROVE FlightsOK(q)'
    BY DEF Flights
  <2>1. FlightsOK(q)
    BY DEF SchedInv, Flights
  <2> QED  BY <1>0, <1>4, <2>1 DEF FlightsOK, Discards
<1> QED  BY <1>1, <1>5, <1>6, <1>7, <1>8, <1>9, <1>10 DEF SchedInv, SameTables

LEMMA FinishStep ==
  ASSUME SchedInv, NEW r \in Reqs, finish_requests(r)
  PROVE  SchedInv' /\ [KVNext]_kvars
<1>0. /\ pc \in {"idle", "await"} /\ status' = [status EXCEPT ![r] = "FINISHED"]
      /\ running' = Keep(running, Reqs \ {r}) /\ waiting' = Keep(waiting, Reqs \ {r})
      /\ finished_req_ids' = finished_req_ids \cup {r} /\ free(r)
      /\ UNCHANGED <<num_computed_tokens, num_output_tokens, num_output_placeholders,
                     discard_latest_async_tokens, pc>>
      /\ UNCHANGED <<token_budget, req_index, cur, preempted_reqs, scheduled, batch_queue>>
      /\ UNCHANGED <<output, stopped_running_reqs, stopped_preempted_reqs, forced_resets>>
  BY DEF finish_requests, remove_all, remove_requests, local_vars, output_vars, ghost_vars
<1>1. KVEffect(r, 0, 0)
  BY <1>0, FreeEffect DEF SchedInv
<1>2. /\ running' \in Seq(Reqs) /\ Elems(running') = Elems(running) \ {r} /\ Distinct(running')
      /\ waiting' \in Seq(Reqs) /\ Elems(waiting') = Elems(waiting) \ {r} /\ Distinct(waiting')
  BY <1>0, RemoveFacts DEF SchedInv, Shapes, Lists
<1>3. Len(running') \in Nat /\ Len(running') <= Len(running)
  BY <1>0, RemoveLength DEF SchedInv, Shapes
<1>4. /\ status'[r] = "FINISHED" /\ \A q \in Reqs : q # r => status'[q] = status[q]
      /\ status' \in [Reqs -> {"new", "WAITING", "RUNNING", "PREEMPTED", "FINISHED"}]
  BY <1>0 DEF SchedInv, Shapes
<1>5. Shapes'
  BY <1>0, <1>2, <1>4 DEF SchedInv, Shapes
<1>6. Lists'
  <2>1. ASSUME NEW q \in Reqs PROVE Placed(q)'
    <3>1. Placed(q) /\ stopped_running_reqs = {} /\ stopped_preempted_reqs = {}
      BY <1>0 DEF SchedInv, Lists
    <3>2. CASE q = r
      BY <1>0, <1>1, <1>2, <1>4, <3>1, <3>2 DEF Placed, KVEffect
    <3>3. CASE q # r
      BY <1>0, <1>1, <1>2, <1>4, <3>1, <3>3 DEF Placed, KVEffect
    <3> QED  BY <3>2, <3>3
  <2> QED  BY <1>0, <1>2, <2>1 DEF SchedInv, Lists
<1>7. Loop'
  <2>1. scheduled = <<>> /\ scheduled' = <<>>
    BY <1>0 DEF SchedInv, Loop, Scheduling
  <2>2. Len(running') <= MaxNumRunningReqs
    BY <1>3, SizeFacts DEF SchedInv, Loop, Shapes
  <2> QED  BY <1>0, <2>1, <2>2, EmptyFacts DEF SchedInv, Loop, Scheduling
<1>8. Counts'
  <2> SUFFICES ASSUME NEW q \in Reqs PROVE CountsOK(q)'
    BY DEF Counts
  <2>1. CountsOK(q)
    BY DEF SchedInv, Counts
  <2> QED  BY <1>0, <1>1, <1>4, <2>1 DEF CountsOK, RunningOK, Target, num_tokens, KVEffect
<1>9. Batches'
  BY <1>0 DEF SchedInv, Batches
<1>10. Flights'
  <2> SUFFICES ASSUME NEW q \in Reqs PROVE FlightsOK(q)'
    BY DEF Flights
  <2>1. FlightsOK(q)
    BY DEF SchedInv, Flights
  <2> QED  BY <1>0, <1>4, <2>1 DEF FlightsOK, Discards
<1> QED  BY <1>1, <1>5, <1>6, <1>7, <1>8, <1>9, <1>10 DEF SchedInv, KVEffect

(* A batch owes a request one output or none.                              *)
LEMMA OwedFacts ==
  /\ \A b, r : Owed(b, r) \in {0, 1}
  /\ \A q, k, r : OwedAt(q, k, r) \in {0, 1}
BY DEF Owed, OwedAt

LEMMA ResetPreemptStep ==
  ASSUME SchedInv, reset_preempt
  PROVE  SchedInv' /\ [KVNext]_kvars
<1> DEFINE r == running[Len(running)]
<1>0. /\ pc = "resetting" /\ running # <<>> /\ running' = SubSeq(running, 1, Len(running) - 1)
      /\ free(r) /\ status' = [status EXCEPT ![r] = "PREEMPTED"]
      /\ num_computed_tokens' = [num_computed_tokens EXCEPT ![r] = 0]
      /\ waiting' = prepend_request(waiting, r)
      /\ num_output_placeholders' = [num_output_placeholders EXCEPT ![r] = 0]
      /\ discard_latest_async_tokens' = [discard_latest_async_tokens EXCEPT ![r] = TRUE]
      /\ UNCHANGED <<num_output_tokens, finished_req_ids, pc>>
      /\ UNCHANGED <<token_budget, req_index, cur, preempted_reqs, scheduled, batch_queue>>
      /\ UNCHANGED <<output, stopped_running_reqs, stopped_preempted_reqs, forced_resets>>
  BY DEF reset_preempt, _preempt_request, local_vars, output_vars, ghost_vars
<1>r. r \in Reqs /\ r \in Elems(running)
  <2>1. Len(running) \in 1 .. Len(running) /\ running \in Seq(Reqs)
    BY <1>0 DEF SchedInv, Shapes
  <2>2. running[Len(running)] \in Reqs
    BY <2>1
  <2> QED  BY <2>1, <2>2 DEF Elems
<1>f. /\ running' \in Seq(Reqs) /\ Elems(running') = Elems(running) \ {r} /\ Distinct(running')
      /\ Len(running') = Len(running) - 1 /\ Len(running) \in Nat
  <2>1. running \in Seq(Reqs) /\ Distinct(running) /\ running # <<>> /\ Len(running) \in Nat
    BY <1>0 DEF SchedInv, Shapes, Lists
  <2> QED  BY <1>0, <2>1, FrontFacts
<1> HIDE DEF r
<1>1. KVEffect(r, 0, 0)
  BY <1>0, <1>r, FreeEffect DEF SchedInv
<1>2. /\ status[r] = "RUNNING" /\ r \notin Elems(waiting)
      /\ stopped_running_reqs = {} /\ stopped_preempted_reqs = {}
  BY <1>0, <1>r DEF SchedInv, Lists, Placed
<1>3. waiting' \in Seq(Reqs) /\ Elems(waiting') = Elems(waiting) \cup {r} /\ Distinct(waiting')
  <2>1. Inserted(waiting, r, waiting')
    BY <1>0, <1>r, PrependInserted DEF SchedInv, Shapes
  <2> QED  BY <1>2, <2>1 DEF Inserted, SchedInv, Lists
<1>4. /\ status'[r] = "PREEMPTED" /\ num_computed_tokens'[r] = 0
      /\ num_output_placeholders'[r] = 0 /\ discard_latest_async_tokens'[r] = TRUE
      /\ \A q \in Reqs : q # r =>
           /\ status'[q] = status[q] /\ num_computed_tokens'[q] = num_computed_tokens[q]
           /\ num_output_placeholders'[q] = num_output_placeholders[q]
           /\ discard_latest_async_tokens'[q] = discard_latest_async_tokens[q]
  BY <1>0, <1>r DEF SchedInv, Shapes
<1>5. Shapes'
  <2>1. /\ status' \in [Reqs -> {"new", "WAITING", "RUNNING", "PREEMPTED", "FINISHED"}]
        /\ num_computed_tokens' \in [Reqs -> Nat] /\ num_output_placeholders' \in [Reqs -> Nat]
        /\ discard_latest_async_tokens' \in [Reqs -> BOOLEAN]
    BY <1>0 DEF SchedInv, Shapes
  <2> QED  BY <1>0, <1>3, <1>f, <2>1 DEF SchedInv, Shapes
<1>6. Lists'
  <2>1. ASSUME NEW q \in Reqs PROVE Placed(q)'
    <3>1. Placed(q)
      BY <1>0 DEF SchedInv, Lists
    <3>2. CASE q = r
      BY <1>0, <1>1, <1>2, <1>3, <1>4, <1>f, <3>1, <3>2 DEF Placed, KVEffect
    <3>3. CASE q # r
      BY <1>0, <1>1, <1>2, <1>3, <1>4, <1>f, <3>1, <3>3 DEF Placed, KVEffect
    <3> QED  BY <3>2, <3>3
  <2> QED  BY <1>0, <1>3, <1>f, <2>1 DEF SchedInv, Lists
<1>7. Loop'
  <2>1. scheduled = <<>> /\ scheduled' = <<>>
    BY <1>0 DEF SchedInv, Loop, Scheduling
  <2>2. Len(running') <= MaxNumRunningReqs
    BY <1>f, SizeFacts DEF SchedInv, Loop, Shapes
  <2> QED  BY <1>0, <2>1, <2>2, EmptyFacts DEF SchedInv, Loop, Scheduling
<1>8. Counts'
  <2> SUFFICES ASSUME NEW q \in Reqs PROVE CountsOK(q)'
    BY DEF Counts
  <2>1. CountsOK(q) /\ Planned(scheduled, q) = 0 /\ scheduled' = scheduled
    BY <1>0, EmptyFacts DEF SchedInv, Counts, Loop, Scheduling
  <2>2. CASE q # r
    BY <1>0, <1>1, <1>4, <2>1, <2>2 DEF CountsOK, RunningOK, Target, num_tokens, KVEffect
  <2>3. CASE q = r
    BY <1>0, <1>1, <1>2, <1>4, <2>1, <2>3, SizeFacts DEF CountsOK, Target, num_tokens
  <2> QED  BY <2>2, <2>3
<1>9. Batches'
  BY <1>0, BatchesFrame
<1>10. Flights'
  <2> SUFFICES ASSUME NEW q \in Reqs PROVE FlightsOK(q)'
    BY DEF Flights
  <2>1. FlightsOK(q) /\ forced_resets # 0
    BY <1>0 DEF SchedInv, Flights, Loop
  <2>2. CASE q # r
    BY <1>0, <1>4, <2>1, <2>2 DEF FlightsOK, Discards
  <2>3. CASE q = r
    <3>1. Async => Pending(output, batch_queue, r) <= 1
      <4> SUFFICES ASSUME Async PROVE Pending(output, batch_queue, r) <= 1
        OBVIOUS
      <4>1. output = <<>> /\ Len(batch_queue) < 2 /\ Len(batch_queue) \in Nat
        BY <1>0, SchedulerAssumption DEF SchedInv, Batches, Shapes
      <4>2. Owed(output, r) = 0 /\ OwedAt(batch_queue, 2, r) = 0
        BY <4>1, EmptyFacts DEF OwedAt
      <4>3. OwedAt(batch_queue, 1, r) \in {0, 1}
        BY OwedFacts
      <4> QED  BY <4>2, <4>3 DEF Pending
    <3> QED  BY <1>0, <1>4, <2>1, <2>3, <3>1 DEF FlightsOK, Discards
  <2> QED  BY <2>2, <2>3
<1> QED  BY <1>1, <1>5, <1>6, <1>7, <1>8, <1>9, <1>10 DEF SchedInv, KVEffect

LEMMA ResetEndStep ==
  ASSUME SchedInv, reset_end
  PROVE  SchedInv' /\ [KVNext]_kvars
<1> USE DEF reset_end, request_vars, queue_vars, local_vars, output_vars, ghost_vars
<1>1. SameTables
  BY ResetEffect DEF SchedInv
<1>2. Shapes'
  BY DEF SchedInv, Shapes
<1>3. Lists' /\ Counts' /\ Batches' /\ Flights'
  BY <1>1, ListsFrame, CountsFrame, BatchesFrame, FlightsFrame
<1>4. Loop'
  BY DEF SchedInv, Loop, Scheduling
<1> QED  BY <1>1, <1>2, <1>3, <1>4 DEF SchedInv, SameTables

-----------------------------------------------------------------------------
(* The loop over the running requests.                                     *)

(* The number of tokens picked for a running request.                      *)
LEMMA PickFacts ==
  ASSUME SchedInv, NEW r \in Reqs, status[r] = "RUNNING", r \notin ReqsOf(scheduled),
         token_budget > 0, NumNewRunning(r) # 0
  PROVE  /\ NumNewRunning(r) \in Nat \ {0} /\ NumNewRunning(r) <= token_budget
         /\ num_computed_tokens[r] + NumNewRunning(r) <= MaxModelLen - 1
         /\ num_computed_tokens[r] + NumNewRunning(r) <=
              num_tokens(r) + num_output_placeholders[r]
<1> DEFINE c == num_computed_tokens[r]
           a == num_tokens(r) + num_output_placeholders[r] - c
           l == MaxModelLen - 1 - c
<1>1. /\ c \in Nat /\ num_output_tokens[r] \in Nat /\ num_output_placeholders[r] \in Nat
      /\ token_budget \in Nat /\ PromptLen[r] \in Nat /\ MaxModelLen \in Nat
  BY SizeFacts DEF SchedInv, Shapes
<1>2. num_tokens(r) \in Nat
  BY <1>1 DEF num_tokens
<1>3. Planned(scheduled, r) = 0
  BY PlannedFacts DEF SchedInv, Shapes, Loop
<1>4. CountsOK(r)
  BY DEF SchedInv, Counts
<1>5. c <= num_tokens(r) + num_output_placeholders[r] /\ c <= MaxModelLen - 1
  BY <1>1, <1>3, <1>4 DEF CountsOK, RunningOK, Target
<1>6. a \in Int /\ l \in Int /\ a >= 0 /\ l >= 0
  BY <1>1, <1>2, <1>5
<1>7. NumNewRunning(r) = Capped(a, {l})
  BY DEF NumNewRunning
<1> DEFINE n == Capped(a, {l})
<1> HIDE DEF a, l
<1>8. n \in Int /\ n <= a /\ n <= token_budget /\ n <= l /\ n >= 0
  BY <1>1, <1>6, CappedFacts
<1> HIDE DEF n
<1>9. n # 0 /\ NumNewRunning(r) = n
  BY <1>7 DEF n
<1> QED  BY <1>1, <1>2, <1>8, <1>9 DEF a, l

LEMMA RunningPickStep ==
  ASSUME SchedInv, running_pick
  PROVE  SchedInv' /\ [KVNext]_kvars
<1>r. PICK r : r = running[req_index]
  OBVIOUS
<1>n. PICK n : n = NumNewRunning(r)
  OBVIOUS
<1>0. /\ pc = "running" /\ req_index <= Len(running) /\ token_budget > 0 /\ n # 0
      /\ cur' = [req |-> r, n |-> n] /\ pc' = "allocate"
      /\ UNCHANGED <<kvars, request_vars, queue_vars, token_budget, req_index, preempted_reqs,
                     scheduled, batch_queue, output_vars, ghost_vars>>
  BY <1>r, <1>n DEF running_pick, MoreRunning
<1>u. /\ scheduled' = scheduled /\ running' = running /\ req_index' = req_index
      /\ token_budget' = token_budget /\ num_computed_tokens' = num_computed_tokens
      /\ num_output_tokens' = num_output_tokens /\ forced_resets' = forced_resets
      /\ num_output_placeholders' = num_output_placeholders
  BY <1>0 DEF request_vars, queue_vars, ghost_vars
<1>1. SameTables
  BY <1>0, NoEffect DEF SchedInv
<1>2. Shapes'
  BY <1>0 DEF SchedInv, Shapes, request_vars, queue_vars, output_vars, ghost_vars
<1>3. Lists' /\ Counts' /\ Batches' /\ Flights'
  BY <1>0, <1>1, ListsFrame, CountsFrame, BatchesFrame, FlightsFrame
     DEF request_vars, queue_vars, output_vars, ghost_vars
<1>4. req_index \in 1 .. Len(running) /\ running \in Seq(Reqs) /\ Distinct(running)
  BY <1>0 DEF SchedInv, Shapes, Lists
<1>5. r \in Reqs /\ r \in Elems(running) /\ r \notin ReqsOf(scheduled)
  <2>1. r \in Reqs /\ r \in Elems(running)
    BY <1>4, <1>r DEF Elems
  <2>2. r \notin ReqsOf(scheduled)
    BY <1>0, <1>4, <1>r DEF SchedInv, Loop
  <2> QED  BY <2>1, <2>2
<1>6. \A i \in 1 .. Len(running) : i > req_index => running[i] # r
  BY <1>4, <1>r DEF Distinct
<1>7. status[r] = "RUNNING"
  BY <1>0, <1>5 DEF SchedInv, Lists, Placed
<1>8. /\ n \in Nat \ {0} /\ n <= token_budget
      /\ num_computed_tokens[r] + n <= MaxModelLen - 1
      /\ num_computed_tokens[r] + n <= num_tokens(r) + num_output_placeholders[r]
  BY <1>0, <1>5, <1>7, <1>n, PickFacts
<1>9. Len(running) <= Cardinality(Reqs) /\ Cardinality(Reqs) \in Nat
  BY <1>4, DistinctLength
<1>10. Current'
  <2>1. cur'.req = r /\ cur'.n = n /\ cur' \in Entries
    BY <1>0, <1>5, <1>8 DEF Entries
  <2>2. req_index' <= Cardinality(Reqs)
    BY <1>4, <1>9, <1>u
  <2>4. /\ cur'.req \in Elems(running') /\ cur'.req \notin ReqsOf(scheduled')
        /\ \A i \in 1 .. Len(running') : i > req_index' => running'[i] # cur'.req
    BY <1>5, <1>6, <1>u, <2>1
  <2>5. cur'.n <= token_budget'
    BY <1>8, <1>u, <2>1
  <2>6. /\ num_computed_tokens'[cur'.req] + cur'.n <= MaxModelLen - 1
        /\ num_computed_tokens'[cur'.req] + cur'.n <=
             (PromptLen[cur'.req] + num_output_tokens'[cur'.req])
               + num_output_placeholders'[cur'.req]
    BY <1>8, <1>u, <2>1 DEF num_tokens
  <2> QED  BY <2>1, <2>2, <2>4, <2>5, <2>6, <1>u DEF Current, num_tokens
<1>11. Loop'
  BY <1>0, <1>u, <1>10 DEF SchedInv, Loop, Scheduling
<1> QED  BY <1>1, <1>2, <1>3, <1>11 DEF SchedInv, SameTables

(* What allocate_slots may cache: full blocks of tokens that are known.    *)
LEMMA ToCacheFacts ==
  ASSUME NEW r \in Reqs, NEW c \in Nat, NEW n \in Nat \ {0}, c + n <= MaxModelLen,
         num_tokens(r) \in Nat
  PROVE  /\ BlocksNeeded(c, n) = cdiv(c + n, BlockSize)
         /\ BlocksNeeded(c, n) \in 1 .. MaxReqBlocks
         /\ BlocksToCache(r, c, n) \in 0 .. BlocksNeeded(c, n)
         /\ BlocksToCache(r, c, n) * BlockSize <= num_tokens(r)
         /\ BlocksToCache(r, c, n) * BlockSize <= c + n
<1> DEFINE t == num_tokens(r)
           y == Least({c + n, t})
<1> HIDE DEF t
<1>0. t \in Nat /\ BlockSize \in Nat \ {0}
  BY SizeFacts DEF t
<1>1. y \in Nat /\ y <= c + n /\ y <= t
  <2>1. HasLeast({c + n, t})
    <3>1. CASE c + n <= t
      BY <1>0, <3>1 DEF HasLeast
    <3>2. CASE t <= c + n
      BY <1>0, <3>2 DEF HasLeast
    <3> QED  BY <1>0, <3>1, <3>2
  <2>2. y \in {c + n, t} /\ \A x \in {c + n, t} : y <= x
    <3> DEFINE S == {c + n, t}
    <3> HIDE DEF S
    <3>1. Least(S) \in S /\ \A x \in S : Least(S) <= x
      BY <2>1, LeastFacts DEF S
    <3> QED  BY <3>1 DEF S
  <2> QED  BY <1>0, <2>2
<1>2. BlocksNeeded(c, n) = cdiv(c + n, BlockSize) /\ BlocksToCache(r, c, n) = y \div BlockSize
  BY DEF BlocksNeeded, BlocksToCache, t
<1> HIDE DEF y
<1>3. /\ cdiv(c + n, BlockSize) \in 1 .. MaxReqBlocks
      /\ y \div BlockSize \in 0 .. cdiv(c + n, BlockSize)
  BY <1>1, NeedFacts
<1>4. (y \div BlockSize) * BlockSize <= y /\ (y \div BlockSize) \in Int
  BY <1>0, <1>1, DivFacts
<1>5. (y \div BlockSize) * BlockSize <= t /\ (y \div BlockSize) * BlockSize <= c + n
  <2>1. PICK z : z = (y \div BlockSize) * BlockSize
    OBVIOUS
  <2>2. z \in Int /\ z <= y
    BY <1>0, <1>4, <2>1
  <2>3. z <= t /\ z <= c + n
    BY <1>0, <1>1, <2>2
  <2> QED  BY <2>1, <2>3
<1> QED  BY <1>2, <1>3, <1>5 DEF t

LEMMA FullAfterFacts ==
  ASSUME NEW done \in Nat, NEW full \in Nat, NEW t \in Nat,
         done * BlockSize <= t, full * BlockSize <= t
  PROVE  FullAfter(done, full) * BlockSize <= t
BY DEF FullAfter

(* What is known when a running request gets its blocks.                   *)
Growing(r, n, c, nb, nf) ==
  /\ r = cur.req /\ n = cur.n /\ c = num_computed_tokens[r]
  /\ nb = BlocksNeeded(c, n) /\ nf = BlocksToCache(r, c, n)
  /\ pc = "allocate" /\ allocate_slots(r, <<>>, nb, nf)
  /\ scheduled' = Append(scheduled, cur) /\ token_budget' = token_budget - n
  /\ req_index' = req_index + 1 /\ pc' = "running"
  /\ UNCHANGED <<status, num_computed_tokens, num_output_tokens, num_output_placeholders,
                 discard_latest_async_tokens, running, waiting, finished_req_ids>>
  /\ UNCHANGED <<batch_queue, output, stopped_running_reqs, stopped_preempted_reqs,
                 forced_resets, kv_data>>
  /\ Current /\ scheduled \in Seq(Entries) /\ OncePer(scheduled)
  /\ cur \in Entries /\ r \in Elems(running) /\ r \notin ReqsOf(scheduled)
  /\ \A i \in 1 .. Len(running) : i > req_index => running[i] # r
  /\ n <= token_budget /\ req_index <= Cardinality(Reqs)
  /\ c + n <= MaxModelLen - 1 /\ c + n <= num_tokens(r) + num_output_placeholders[r]
  /\ r \in Reqs /\ n \in Nat \ {0} /\ c \in Nat /\ num_tokens(r) \in Nat
  /\ status[r] = "RUNNING"
  /\ Append(scheduled, cur) \in Seq(Entries) /\ OncePer(Append(scheduled, cur))
  /\ ReqsOf(Append(scheduled, cur)) = ReqsOf(scheduled) \cup {r}
  /\ \A q : Planned(Append(scheduled, cur), q) = IF q = r THEN n ELSE Planned(scheduled, q)
  /\ Planned(scheduled, r) = 0 /\ CountsOK(r) /\ RunningOK(r)
  /\ nb = cdiv(c + n, BlockSize) /\ nb \in 1 .. MaxReqBlocks /\ nf \in 0 .. nb
  /\ nf * BlockSize <= num_tokens(r) /\ nf * BlockSize <= c + n
  /\ Target(r) = c /\ c >= 1 /\ Len(req_to_blocks[r]) = cdiv(c, BlockSize)
  /\ num_cached_block[r] * BlockSize <= num_tokens(r)
  /\ Len(req_to_blocks[r]) # 0 /\ nb >= Len(req_to_blocks[r])

LEMMA AllocateStart ==
  ASSUME SchedInv, running_allocate
  PROVE  \E r, n, c, nb, nf : Growing(r, n, c, nb, nf)
<1>r. PICK r, n : r = cur.req /\ n = cur.n
  OBVIOUS
<1>c. PICK c : c = num_computed_tokens[r]
  OBVIOUS
<1>b. PICK nb, nf : nb = BlocksNeeded(c, n) /\ nf = BlocksToCache(r, c, n)
  OBVIOUS
<1>0. /\ pc = "allocate" /\ allocate_slots(r, <<>>, nb, nf)
      /\ scheduled' = Append(scheduled, cur) /\ token_budget' = token_budget - n
      /\ req_index' = req_index + 1 /\ pc' = "running"
      /\ UNCHANGED <<status, num_computed_tokens, num_output_tokens, num_output_placeholders,
                     discard_latest_async_tokens, running, waiting, finished_req_ids>>
      /\ UNCHANGED <<batch_queue, output, stopped_running_reqs, stopped_preempted_reqs,
                     forced_resets, kv_data>>
  BY <1>r, <1>c, <1>b DEF running_allocate, request_vars, queue_vars, output_vars, ghost_vars
<1>1. Current /\ scheduled \in Seq(Entries) /\ OncePer(scheduled)
  BY <1>0 DEF SchedInv, Loop, Shapes
<1>2. /\ cur \in Entries /\ r \in Elems(running) /\ r \notin ReqsOf(scheduled)
      /\ \A i \in 1 .. Len(running) : i > req_index => running[i] # r
      /\ n <= token_budget /\ req_index <= Cardinality(Reqs)
      /\ c + n <= MaxModelLen - 1 /\ c + n <= num_tokens(r) + num_output_placeholders[r]
  BY <1>1, <1>r, <1>c DEF Current
<1>3. r \in Reqs /\ n \in Nat \ {0} /\ c \in Nat /\ num_tokens(r) \in Nat
  <2>1. r \in Reqs /\ n \in Nat \ {0}
    BY <1>2, <1>r DEF Entries
  <2>2. PromptLen[r] \in Nat /\ num_output_tokens[r] \in Nat /\ num_computed_tokens[r] \in Nat
    BY <2>1, SizeFacts DEF SchedInv, Shapes
  <2> QED  BY <1>c, <2>1, <2>2 DEF num_tokens
<1>4. status[r] = "RUNNING"
  BY <1>0, <1>2, <1>3 DEF SchedInv, Lists, Placed
<1>5. /\ Append(scheduled, cur) \in Seq(Entries) /\ OncePer(Append(scheduled, cur))
      /\ ReqsOf(Append(scheduled, cur)) = ReqsOf(scheduled) \cup {r}
      /\ \A q : Planned(Append(scheduled, cur), q) = IF q = r THEN n ELSE Planned(scheduled, q)
  BY <1>1, <1>2, <1>r, PlannedAppend
<1>6. Planned(scheduled, r) = 0 /\ CountsOK(r) /\ RunningOK(r)
  BY <1>1, <1>2, <1>3, <1>4, PlannedFacts DEF SchedInv, Counts, CountsOK
<1>7. /\ nb = cdiv(c + n, BlockSize) /\ nb \in 1 .. MaxReqBlocks /\ nf \in 0 .. nb
      /\ nf * BlockSize <= num_tokens(r) /\ nf * BlockSize <= c + n
  <2>1. c + n <= MaxModelLen
    BY <1>2, <1>3, SizeFacts
  <2> QED  BY <1>3, <1>b, <2>1, ToCacheFacts
<1>8. Target(r) = c /\ c >= 1 /\ Len(req_to_blocks[r]) = cdiv(c, BlockSize)
      /\ num_cached_block[r] * BlockSize <= num_tokens(r)
  BY <1>3, <1>6, <1>c DEF Target, RunningOK
<1>9. Len(req_to_blocks[r]) # 0 /\ nb >= Len(req_to_blocks[r])
  <2>0. BlockSize \in Nat \ {0} /\ c + n \in Nat /\ nb \in Nat
    BY <1>3, <1>7, SizeFacts
  <2>1. /\ cdiv(c, BlockSize) \in Nat /\ \A k \in Nat : k * BlockSize < c => k < cdiv(c, BlockSize)
        /\ \A k \in Nat : c <= k * BlockSize => cdiv(c, BlockSize) <= k
    BY <1>3, <2>0, CdivFacts
  <2>2. c + n <= nb * BlockSize
    BY <1>7, <2>0, CdivFacts
  <2>3. 0 < cdiv(c, BlockSize)
    BY <1>3, <1>8, <2>0, <2>1
  <2>4. c <= nb * BlockSize
    BY <1>3, <2>0, <2>2
  <2>5. cdiv(c, BlockSize) <= nb
    BY <2>0, <2>1, <2>4
  <2> QED  BY <1>8, <2>0, <2>1, <2>3, <2>5
<1> QED  BY <1>r, <1>c, <1>b, <1>0, <1>1, <1>2, <1>3, <1>4, <1>5, <1>6, <1>7, <1>8, <1>9
            DEF Growing

LEMMA RunningAllocateStep ==
  ASSUME SchedInv, running_allocate
  PROVE  SchedInv' /\ [KVNext]_kvars
<1>a. PICK r, n, c, nb, nf : Growing(r, n, c, nb, nf)
  BY AllocateStart
<1>r. r = cur.req /\ n = cur.n
  BY <1>a DEF Growing
<1>c. c = num_computed_tokens[r]
  BY <1>a DEF Growing
<1>b. nb = BlocksNeeded(c, n) /\ nf = BlocksToCache(r, c, n)
  BY <1>a DEF Growing
<1>0. /\ pc = "allocate" /\ allocate_slots(r, <<>>, nb, nf)
      /\ scheduled' = Append(scheduled, cur) /\ token_budget' = token_budget - n
      /\ req_index' = req_index + 1 /\ pc' = "running"
      /\ UNCHANGED <<status, num_computed_tokens, num_output_tokens, num_output_placeholders,
                     discard_latest_async_tokens, running, waiting, finished_req_ids>>
      /\ UNCHANGED <<batch_queue, output, stopped_running_reqs, stopped_preempted_reqs,
                     forced_resets, kv_data>>
  BY <1>a DEF Growing
<1>1. Current /\ scheduled \in Seq(Entries) /\ OncePer(scheduled)
  BY <1>a DEF Growing
<1>2. /\ cur \in Entries /\ r \in Elems(running) /\ r \notin ReqsOf(scheduled)
      /\ \A i \in 1 .. Len(running) : i > req_index => running[i] # r
      /\ n <= token_budget /\ req_index <= Cardinality(Reqs)
      /\ c + n <= MaxModelLen - 1 /\ c + n <= num_tokens(r) + num_output_placeholders[r]
  BY <1>a DEF Growing
<1>3. r \in Reqs /\ n \in Nat \ {0} /\ c \in Nat /\ num_tokens(r) \in Nat
  BY <1>a DEF Growing
<1>4. status[r] = "RUNNING"
  BY <1>a DEF Growing
<1>5. /\ Append(scheduled, cur) \in Seq(Entries) /\ OncePer(Append(scheduled, cur))
      /\ ReqsOf(Append(scheduled, cur)) = ReqsOf(scheduled) \cup {r}
      /\ \A q : Planned(Append(scheduled, cur), q) = IF q = r THEN n ELSE Planned(scheduled, q)
  BY <1>a DEF Growing
<1>6. Planned(scheduled, r) = 0 /\ CountsOK(r) /\ RunningOK(r)
  BY <1>a DEF Growing
<1>7. /\ nb = cdiv(c + n, BlockSize) /\ nb \in 1 .. MaxReqBlocks /\ nf \in 0 .. nb
      /\ nf * BlockSize <= num_tokens(r) /\ nf * BlockSize <= c + n
  BY <1>a DEF Growing
<1>8. Target(r) = c /\ c >= 1 /\ Len(req_to_blocks[r]) = cdiv(c, BlockSize)
      /\ num_cached_block[r] * BlockSize <= num_tokens(r)
  BY <1>a DEF Growing
<1>9. Len(req_to_blocks[r]) # 0 /\ nb >= Len(req_to_blocks[r])
  BY <1>a DEF Growing
<1>10. KVEffect(r, nb, FullAfter(num_cached_block[r], nf))
  BY <1>0, <1>3, <1>7, <1>9, GrowEffect DEF SchedInv
<1>11. Shapes'
  <2>1. token_budget' \in Nat /\ req_index' \in Nat \ {0} /\ scheduled' \in Seq(Entries)
    BY <1>0, <1>2, <1>3, <1>5 DEF SchedInv, Shapes
  <2> QED  BY <1>0, <2>1 DEF SchedInv, Shapes
<1>12. Lists'
  <2>1. ASSUME NEW q \in Reqs PROVE Placed(q)'
    <3>1. Placed(q)
      BY DEF SchedInv, Lists
    <3>2. CASE q = r
      BY <1>0, <1>4, <3>1, <3>2 DEF Placed
    <3>3. CASE q # r
      BY <1>0, <1>10, <3>1, <3>3 DEF Placed, KVEffect
    <3> QED  BY <3>2, <3>3
  <2> QED  BY <1>0, <2>1 DEF SchedInv, Lists
<1>13. Loop'
  <2>1. OncePer(scheduled') /\ ReqsOf(scheduled') = ReqsOf(scheduled) \cup {r}
    BY <1>0, <1>5
  <2>2. req_index \in Nat /\ Len(running) \in Nat /\ Cardinality(Reqs) \in Nat
    BY ConstAssumption, FS_CardinalityType DEF SchedInv, Shapes
  <2>3. ASSUME NEW i \in 1 .. Len(running), i >= req_index'
        PROVE  running[i] \notin ReqsOf(scheduled')
    <3>1. i >= req_index /\ i > req_index
      BY <1>0, <2>2, <2>3
    <3>2. running[i] \notin ReqsOf(scheduled)
      BY <1>0, <3>1 DEF SchedInv, Loop
    <3> QED  BY <1>2, <2>1, <3>1, <3>2
  <2>4. req_index' <= Cardinality(Reqs) + 1
    BY <1>0, <1>2, <2>2
  <2> QED  BY <1>0, <1>2, <2>1, <2>3, <2>4 DEF SchedInv, Loop, Scheduling
<1>14. Counts'
  <2> SUFFICES ASSUME NEW q \in Reqs PROVE CountsOK(q)'
    BY DEF Counts
  <2>1. CountsOK(q)
    BY DEF SchedInv, Counts
  <2>2. CASE q # r
    BY <1>0, <1>5, <1>10, <2>1, <2>2
       DEF CountsOK, RunningOK, Target, num_tokens, KVEffect
  <2>3. CASE q = r
    <3>1. Target(r)' = c + n /\ num_tokens(r)' = num_tokens(r)
      BY <1>0, <1>3, <1>5, <1>c DEF Target, num_tokens
    <3>2. FullAfter(num_cached_block[r], nf) * BlockSize <= num_tokens(r)
      <4>1. num_cached_block[r] \in Nat /\ nf \in Nat
        BY <1>3, <1>7, TableFacts DEF SchedInv
      <4> QED  BY <1>3, <1>7, <1>8, <4>1, FullAfterFacts
    <3>3. Len(req_to_blocks'[r]) = cdiv(Target(r)', BlockSize)
          /\ num_cached_block'[r] * BlockSize <= num_tokens(r)'
      BY <1>7, <1>3, <1>10, <3>1, <3>2 DEF KVEffect
    <3>4. Target(r)' >= 1 /\ Target(r)' <= num_tokens(r)' + num_output_placeholders'[r]
          /\ Target(r)' <= MaxModelLen - 1
      BY <1>0, <1>2, <1>3, <3>1
    <3>5. RunningOK(r)'
      BY <3>3, <3>4 DEF RunningOK
    <3> QED  BY <1>0, <1>4, <1>c, <2>1, <2>3, <3>1, <3>4, <3>5 DEF CountsOK
  <2> QED  BY <2>2, <2>3
<1>15. Batches' /\ Flights'
  BY <1>0, BatchesFrame, FlightsFrame
<1> QED  BY <1>10, <1>11, <1>12, <1>13, <1>14, <1>15 DEF SchedInv, KVEffect

(* What un-scheduling a request gives back.                                *)
LEMMA BackFacts ==
  ASSUME NEW s \in Seq(Entries), OncePer(s), NEW v
  PROVE  LET back == {e \in Elems(s) : e.req = v}
         IN  /\ TokensBack(back) = Planned(s, v)
             /\ Cardinality(back) = IF v \in ReqsOf(s) THEN 1 ELSE 0
<1> DEFINE back == {e \in Elems(s) : e.req = v}
<1>1. TokensBack(back) = Planned(s, v)
  BY DEF TokensBack, Planned, TokensOf
<1>2. CASE v \in ReqsOf(s)
  <2>1. PICK i \in 1 .. Len(s) : s[i].req = v
    BY <1>2 DEF ReqsOf, Elems
  <2>2. back = {s[i]}
    BY <2>1 DEF OncePer, Elems
  <2> HIDE DEF back
  <2>3. Cardinality(back) = 1
    BY <2>2, FS_Singleton
  <2> QED  BY <1>1, <1>2, <2>3 DEF back
<1>3. CASE v \notin ReqsOf(s)
  <2>1. back = {}
    BY <1>3 DEF ReqsOf, Elems
  <2> HIDE DEF back
  <2>2. Cardinality(back) = 0
    BY <2>1, FS_EmptySet
  <2> QED  BY <1>1, <1>3, <2>2 DEF back
<1> QED  BY <1>2, <1>3

LEMMA RunningPreemptStep ==
  ASSUME SchedInv, running_preempt
  PROVE  SchedInv' /\ [KVNext]_kvars
<1>v. PICK v : v = Victim
  OBVIOUS
<1>b. PICK back : back = {e \in Elems(scheduled) : e.req = v}
  OBVIOUS
<1>0. /\ pc = "allocate" /\ running' = Keep(running, Reqs \ {v})
      /\ scheduled' = Keep(scheduled, Elems(scheduled) \ back)
      /\ token_budget' = token_budget + TokensBack(back)
      /\ req_index' = req_index - Cardinality(back)
      /\ free(v) /\ status' = [status EXCEPT ![v] = "PREEMPTED"]
      /\ num_computed_tokens' = [num_computed_tokens EXCEPT ![v] = 0]
      /\ waiting' = prepend_request(waiting, v)
      /\ IF v = cur.req THEN pc' = "waiting" ELSE pc' = pc /\ cur' = cur
      /\ UNCHANGED <<num_output_tokens, num_output_placeholders, discard_latest_async_tokens,
                     finished_req_ids, batch_queue>>
      /\ UNCHANGED <<output, stopped_running_reqs, stopped_preempted_reqs, forced_resets>>
  BY <1>v, <1>b DEF running_preempt, ScheduledNow, _preempt_request, remove_all, output_vars,
                    ghost_vars
<1>1. /\ Current /\ scheduled \in Seq(Entries) /\ OncePer(scheduled)
      /\ running \in Seq(Reqs) /\ Distinct(running) /\ Len(running) \in Nat
      /\ req_index \in Nat \ {0} /\ token_budget \in Nat /\ Cardinality(Reqs) \in Nat
      /\ Len(running) <= MaxNumRunningReqs /\ ReqsOf(scheduled) \subseteq Elems(running)
      /\ req_index <= Cardinality(Reqs)
  BY <1>0, ConstAssumption, FS_CardinalityType DEF SchedInv, Loop, Shapes, Lists, Current
<1>2. v \in Elems(running) /\ v \in Reqs
  <2>1. running # <<>>
    BY <1>1, EmptyFacts DEF Current
  <2>2. v \in Elems(running)
    BY <1>1, <1>v, <2>1, VictimRuns
  <2> QED  BY <1>1, <2>2 DEF Elems
<1>3. PICK j \in 1 .. Len(running) : running[j] = v
  BY <1>2 DEF Elems
<1>4. /\ Len(running') = Len(running) - 1
      /\ \A k \in 1 .. Len(running) - 1 :
           running'[k] = IF k < j THEN running[k] ELSE running[k + 1]
  <2>1. \A i \in 1 .. Len(running) : running[i] \in Reqs \ {v} <=> i # j
    BY <1>1, <1>3 DEF Distinct
  <2> DEFINE S == Reqs \ {v}
  <2>2. \A i \in 1 .. Len(running) : running[i] \in S <=> i # j
    BY <2>1
  <2>3. running' = Keep(running, S)
    BY <1>0
  <2> HIDE DEF S
  <2> QED  BY <1>1, <2>2, <2>3, RemoveOne
<1>5. running' \in Seq(Reqs) /\ Elems(running') = Elems(running) \ {v} /\ Distinct(running')
  BY <1>0, <1>1, RemoveFacts
<1>6. /\ scheduled' \in Seq(Entries) /\ OncePer(scheduled')
      /\ ReqsOf(scheduled') = ReqsOf(scheduled) \ {v}
      /\ \A r : Planned(scheduled', r) = IF r = v THEN 0 ELSE Planned(scheduled, r)
  <2>1. \A e : e \in back <=> e \in Elems(scheduled) /\ e.req = v
    BY <1>b
  <2>2. PICK k : k = Keep(scheduled, Elems(scheduled) \ back)
    OBVIOUS
  <2>3. scheduled \in Seq(Entries) /\ OncePer(scheduled)
    BY <1>1
  <2>4. Unscheduled(scheduled, v, k)
    BY <2>1, <2>2, <2>3, PlannedRemove
  <2>5. scheduled' = k
    BY <1>0, <2>2
  <2> QED  BY <2>4, <2>5 DEF Unscheduled
<1>7. /\ token_budget' = token_budget + Planned(scheduled, v) /\ Planned(scheduled, v) \in Nat
      /\ req_index' = IF v \in ReqsOf(scheduled) THEN req_index - 1 ELSE req_index
  <2>1. /\ TokensBack(back) = Planned(scheduled, v)
        /\ Cardinality(back) = IF v \in ReqsOf(scheduled) THEN 1 ELSE 0
    BY <1>1, <1>b, BackFacts
  <2>2. Planned(scheduled, v) \in Nat
    BY <1>1, PlannedFacts
  <2> QED  BY <1>0, <1>1, <2>1, <2>2
<1>8. v \in ReqsOf(scheduled) => j < req_index
  BY <1>0, <1>1, <1>3 DEF SchedInv, Loop
<1>9. req_index' \in Nat \ {0} /\ req_index' <= req_index
  BY <1>1, <1>3, <1>7, <1>8
<1>10. ASSUME NEW k \in 1 .. Len(running'), k >= req_index'
       PROVE  \E i \in 1 .. Len(running) :
                /\ running'[k] = running[i] /\ i >= req_index
                /\ k > req_index' => i > req_index
  <2>1. k \in 1 .. Len(running) - 1
    BY <1>1, <1>4
  <2>2. CASE k < j
    <3>1. running'[k] = running[k] /\ k \in 1 .. Len(running)
      BY <1>1, <1>4, <2>1, <2>2
    <3>2. v \notin ReqsOf(scheduled)
      BY <1>1, <1>3, <1>7, <1>8, <1>10, <2>2
    <3> QED  BY <1>7, <1>10, <3>1, <3>2
  <2>3. CASE ~(k < j)
    <3>1. running'[k] = running[k + 1] /\ k + 1 \in 1 .. Len(running)
      BY <1>1, <1>4, <2>1, <2>3
    <3>2. k + 1 >= req_index /\ (k > req_index' => k + 1 > req_index)
      BY <1>1, <1>7, <1>9, <1>10, <2>1
    <3> QED  BY <3>1, <3>2
  <2> QED  BY <2>2, <2>3
<1>11. KVEffect(v, 0, 0)
  BY <1>0, <1>2, FreeEffect DEF SchedInv
<1>12. /\ status[v] = "RUNNING" /\ v \notin Elems(waiting)
       /\ stopped_running_reqs = {} /\ stopped_preempted_reqs = {}
  BY <1>0, <1>2 DEF SchedInv, Lists, Placed
<1>13. waiting' \in Seq(Reqs) /\ Elems(waiting') = Elems(waiting) \cup {v} /\ Distinct(waiting')
  <2>1. Inserted(waiting, v, waiting')
    BY <1>0, <1>2, PrependInserted DEF SchedInv, Shapes
  <2> QED  BY <1>12, <2>1 DEF Inserted, SchedInv, Lists
<1>14. /\ status'[v] = "PREEMPTED" /\ num_computed_tokens'[v] = 0
       /\ \A q \in Reqs : q # v =>
            status'[q] = status[q] /\ num_computed_tokens'[q] = num_computed_tokens[q]
  BY <1>0, <1>2 DEF SchedInv, Shapes
<1>15. Shapes'
  <2>1. /\ status' \in [Reqs -> {"new", "WAITING", "RUNNING", "PREEMPTED", "FINISHED"}]
        /\ num_computed_tokens' \in [Reqs -> Nat]
    BY <1>0 DEF SchedInv, Shapes
  <2>2. token_budget' \in Nat /\ pc' \in {"allocate", "waiting"}
    BY <1>0, <1>1, <1>7
  <2> QED  BY <1>0, <1>5, <1>6, <1>9, <1>13, <2>1, <2>2 DEF SchedInv, Shapes
<1>16. Lists'
  <2>1. ASSUME NEW q \in Reqs PROVE Placed(q)'
    <3>1. Placed(q)
      BY <1>0 DEF SchedInv, Lists
    <3>2. CASE q = v
      BY <1>0, <1>5, <1>11, <1>12, <1>13, <1>14, <3>1, <3>2 DEF Placed, KVEffect
    <3>3. CASE q # v
      BY <1>0, <1>5, <1>11, <1>12, <1>13, <1>14, <3>1, <3>3 DEF Placed, KVEffect
    <3> QED  BY <3>2, <3>3
  <2> QED  BY <1>0, <1>5, <1>12, <1>13, <2>1 DEF SchedInv, Lists
<1>17. Loop'
  <2>1. Len(running') <= MaxNumRunningReqs /\ req_index' <= Cardinality(Reqs)
    BY <1>1, <1>4, <1>9, SizeFacts
  <2>2. ASSUME NEW k \in 1 .. Len(running'), k >= req_index'
        PROVE  running'[k] \notin ReqsOf(scheduled')
    <3>1. PICK i \in 1 .. Len(running) : running'[k] = running[i] /\ i >= req_index
      BY <1>10, <2>2
    <3>2. running[i] \notin ReqsOf(scheduled)
      BY <1>0, <3>1 DEF SchedInv, Loop
    <3> QED  BY <1>6, <3>1, <3>2
  <2>3. ASSUME v # cur.req PROVE Current'
    <3>1. PICK r : r = cur.req
      OBVIOUS
    <3>2. /\ cur' = cur /\ r # v /\ r \in Elems(running) /\ r \notin ReqsOf(scheduled)
          /\ r \in Reqs /\ cur.n <= token_budget /\ cur.n \in Nat /\ cur \in Entries
      BY <1>0, <1>1, <2>3, <3>1 DEF Current, Entries
    <3>3. num_computed_tokens'[r] = num_computed_tokens[r]
      BY <1>14, <3>2
    <3>4. r \in Elems(running') /\ r \notin ReqsOf(scheduled')
      BY <1>5, <1>6, <3>2
    <3>5. cur.n <= token_budget'
      BY <1>1, <1>7, <3>2
    <3>6. ASSUME NEW k \in 1 .. Len(running'), k > req_index' PROVE running'[k] # r
      <4>1. k >= req_index'
        BY <1>9, <3>6
      <4>2. PICK i \in 1 .. Len(running) : running'[k] = running[i] /\ i > req_index
        BY <1>10, <3>6, <4>1
      <4> QED  BY <1>1, <3>1, <4>2 DEF Current
    <3>7. num_output_tokens' = num_output_tokens
          /\ num_output_placeholders' = num_output_placeholders
      BY <1>0
    <3> QED  BY <1>1, <2>1, <3>1, <3>2, <3>3, <3>4, <3>5, <3>6, <3>7 DEF Current, num_tokens
  <2>4. ReqsOf(scheduled') \subseteq Elems(running')
    BY <1>1, <1>5, <1>6
  <2>5. req_index' <= Cardinality(Reqs) + 1
    BY <1>1, <1>9, <2>1
  <2>6. pc' \in {"allocate", "waiting"} /\ (pc' = "allocate" => v # cur.req)
    BY <1>0
  <2> QED  BY <1>6, <2>1, <2>2, <2>3, <2>4, <2>5, <2>6 DEF Loop, Scheduling
<1>18. Counts'
  <2> SUFFICES ASSUME NEW q \in Reqs PROVE CountsOK(q)'
    BY DEF Counts
  <2>1. CountsOK(q)
    BY DEF SchedInv, Counts
  <2>2. CASE q # v
    BY <1>0, <1>6, <1>11, <1>14, <2>1, <2>2 DEF CountsOK, RunningOK, Target, num_tokens, KVEffect
  <2>3. CASE q = v
    <3>1. Target(q)' = 0
      BY <1>6, <1>14, <2>3 DEF Target
    <3>2. status[q] # "FINISHED" /\ status'[q] = "PREEMPTED" /\ num_computed_tokens'[q] = 0
      BY <1>12, <1>14, <2>3
    <3>3. num_output_tokens' = num_output_tokens /\ MaxModelLen \in Nat \ {0}
      BY <1>0, SizeFacts
    <3>4. 0 <= MaxModelLen - 1
      BY <3>3
    <3> QED  BY <2>1, <3>1, <3>2, <3>3, <3>4 DEF CountsOK, num_tokens
  <2> QED  BY <2>2, <2>3
<1>19. Batches'
  <2>1. pc # "await" /\ pc' # "await" /\ pc \notin {"update", "stopped"}
    BY <1>0
  <2> QED  BY <1>0, <2>1, BatchesFrame
<1>20. Flights'
  <2> SUFFICES ASSUME NEW q \in Reqs PROVE FlightsOK(q)'
    BY DEF Flights
  <2>1. FlightsOK(q)
    BY DEF SchedInv, Flights
  <2> QED  BY <1>0, <1>12, <1>14, <2>1 DEF FlightsOK, Discards
<1> QED  BY <1>11, <1>15, <1>16, <1>17, <1>18, <1>19, <1>20 DEF SchedInv, KVEffect

-----------------------------------------------------------------------------
(* The loop over the waiting requests.                                     *)
LEMMA ScaleMono ==
  ASSUME NEW a \in Int, NEW c \in Int, NEW b \in Nat \ {0}, a <= c
  PROVE  a * b <= c * b
<1>1. a * b \in Int /\ c * b \in Int
  OBVIOUS
<1> QED  BY <1>1, ScaleStrict

(* The prefix found in the cache leaves at least the last token to         *)
(* compute, and the blocks for the rest are more than the cached ones.     *)
LEMMA AdmitFacts ==
  ASSUME NEW t \in Nat \ {0}, t < MaxModelLen, NEW h \in Nat, h <= (t - 1) \div BlockSize
  PROVE  /\ (t - 1) \div BlockSize \in 0 .. MaxReqBlocks - 1
         /\ h * BlockSize \in Nat /\ h * BlockSize < t
         /\ \A x \in Nat : h * BlockSize < x => h < cdiv(x, BlockSize)
<1> DEFINE m == (t - 1) \div BlockSize
<1>0. BlockSize \in Nat \ {0} /\ MaxReqBlocks \in Nat /\ MaxModelLen \in Nat
      /\ MaxModelLen <= MaxReqBlocks * BlockSize
  BY SizeFacts
<1>1. m \in Int /\ m * BlockSize <= t - 1 /\ m >= 0
  BY <1>0, DivFacts
<1> HIDE DEF m
<1>2. m * BlockSize \in Int /\ MaxReqBlocks * BlockSize \in Int /\ h * BlockSize \in Nat
  BY <1>0, <1>1
<1>3. m * BlockSize < MaxReqBlocks * BlockSize
  BY <1>0, <1>1, <1>2
<1>4. m < MaxReqBlocks
  BY <1>0, <1>1, <1>3, ScaleStrict
<1>5. h * BlockSize <= m * BlockSize
  <2>1. h <= m /\ h \in Int
    BY DEF m
  <2> QED  BY <1>0, <1>1, <2>1, ScaleMono
<1>6. h * BlockSize < t
  BY <1>1, <1>2, <1>5
<1>7. \A x \in Nat : h * BlockSize < x => h < cdiv(x, BlockSize)
  BY <1>0, CdivFacts
<1> QED  BY <1>0, <1>1, <1>2, <1>4, <1>6, <1>7 DEF m

(* What is known when a waiting request is admitted.                       *)
Admitting(r, t, m, hits, h, c, n, nb, nf, e) ==
  /\ t = num_tokens(r) /\ hits = get_computed_blocks(r, m) /\ h = Len(hits)
  /\ c = h * BlockSize /\ e = [req |-> r, n |-> n]
  /\ pc = "waiting" /\ waiting # <<>> /\ token_budget > 0 /\ Len(running) # MaxNumRunningReqs
  /\ allocate_slots(r, hits, nb, nf)
  /\ waiting' = Tail(waiting) /\ running' = Append(running, r)
  /\ status' = [status EXCEPT ![r] = "RUNNING"]
  /\ num_computed_tokens' = [num_computed_tokens EXCEPT ![r] = c]
  /\ scheduled' = Append(scheduled, e) /\ token_budget' = token_budget - n
  /\ UNCHANGED <<num_output_tokens, num_output_placeholders, discard_latest_async_tokens,
                 finished_req_ids, pc, req_index>>
  /\ UNCHANGED <<batch_queue, output, stopped_running_reqs, stopped_preempted_reqs,
                 forced_resets, kv_data>>
  /\ scheduled \in Seq(Entries) /\ OncePer(scheduled)
  /\ running \in Seq(Reqs) /\ Distinct(running) /\ Len(running) \in Nat
  /\ waiting \in Seq(Reqs) /\ Distinct(waiting) /\ token_budget \in Nat
  /\ Len(running) <= MaxNumRunningReqs /\ ReqsOf(scheduled) \subseteq Elems(running)
  /\ stopped_running_reqs = {} /\ stopped_preempted_reqs = {}
  /\ r \in Reqs /\ r \in Elems(waiting) /\ waiting' \in Seq(Reqs) /\ Distinct(waiting')
  /\ Elems(waiting') = Elems(waiting) \ {r}
  /\ status[r] \in {"WAITING", "PREEMPTED"} /\ r \notin Elems(running)
  /\ Len(req_to_blocks[r]) = 0
  /\ r \notin ReqsOf(scheduled)
  /\ t \in Nat \ {0} /\ t < MaxModelLen
  /\ m \in 0 .. MaxReqBlocks - 1 /\ h \in 0 .. m
  /\ c \in Nat /\ c < t /\ h \in Nat
  /\ \A x \in Nat : c < x => h < cdiv(x, BlockSize)
  /\ n \in Nat \ {0} /\ n <= t - c /\ n <= token_budget
  /\ c + n \in Nat \ {0} /\ c + n <= t /\ c + n <= MaxModelLen - 1
  /\ nb = cdiv(c + n, BlockSize) /\ nb \in 1 .. MaxReqBlocks /\ nf \in 0 .. nb
  /\ nf * BlockSize <= t /\ nf * BlockSize <= c + n /\ nb > h /\ nb \in Nat

LEMMA AdmitStart ==
  ASSUME SchedInv, waiting_admit
  PROVE  \E r, t, m, hits, h, c, n, nb, nf, e : Admitting(r, t, m, hits, h, c, n, nb, nf, e)
<1>r. PICK r : r = waiting[1]
  OBVIOUS
<1>t. PICK t : t = num_tokens(r)
  OBVIOUS
<1>m. PICK m : m = (t - 1) \div BlockSize
  OBVIOUS
<1>h. PICK hits, h : hits = get_computed_blocks(r, m) /\ h = Len(hits)
  OBVIOUS
<1>n. PICK c, n : c = h * BlockSize /\ n = Capped(t - c, {})
  OBVIOUS
<1>b. PICK nb, nf : nb = BlocksNeeded(c, n) /\ nf = BlocksToCache(r, c, n)
  OBVIOUS
<1>e. PICK e : e = [req |-> r, n |-> n]
  OBVIOUS
<1>i. hits = NextHits /\ h = Len(NextHits) /\ Remaining(r, c) = t - c
  BY <1>r, <1>t, <1>m, <1>h DEF NextHits, Remaining
<1>0. /\ pc = "waiting" /\ waiting # <<>> /\ token_budget > 0 /\ Len(running) # MaxNumRunningReqs
      /\ allocate_slots(r, hits, nb, nf)
      /\ waiting' = Tail(waiting) /\ running' = Append(running, r)
      /\ status' = [status EXCEPT ![r] = "RUNNING"]
      /\ num_computed_tokens' = [num_computed_tokens EXCEPT ![r] = c]
      /\ scheduled' = Append(scheduled, e) /\ token_budget' = token_budget - n
      /\ UNCHANGED <<num_output_tokens, num_output_placeholders, discard_latest_async_tokens,
                     finished_req_ids, pc, req_index>>
      /\ UNCHANGED <<batch_queue, output, stopped_running_reqs, stopped_preempted_reqs,
                     forced_resets, kv_data>>
  BY <1>r, <1>i, <1>n, <1>b, <1>e
     DEF waiting_admit, CanAdmit, MoreWaiting, output_vars, ghost_vars
<1>1. /\ scheduled \in Seq(Entries) /\ OncePer(scheduled)
      /\ running \in Seq(Reqs) /\ Distinct(running) /\ Len(running) \in Nat
      /\ waiting \in Seq(Reqs) /\ Distinct(waiting) /\ token_budget \in Nat
      /\ Len(running) <= MaxNumRunningReqs /\ ReqsOf(scheduled) \subseteq Elems(running)
      /\ stopped_running_reqs = {} /\ stopped_preempted_reqs = {}
  <2>1. /\ scheduled \in Seq(Entries) /\ running \in Seq(Reqs) /\ waiting \in Seq(Reqs)
        /\ token_budget \in Nat
    BY DEF SchedInv, Shapes
  <2>2. /\ OncePer(scheduled) /\ Len(running) <= MaxNumRunningReqs
        /\ ReqsOf(scheduled) \subseteq Elems(running)
    BY DEF SchedInv, Loop
  <2>3. /\ Distinct(running) /\ Distinct(waiting)
        /\ stopped_running_reqs = {} /\ stopped_preempted_reqs = {}
    BY <1>0 DEF SchedInv, Lists
  <2>4. Len(running) \in Nat
    BY <2>1
  <2> QED  BY <2>1, <2>2, <2>3, <2>4
<1>2. /\ r \in Reqs /\ r \in Elems(waiting) /\ waiting' \in Seq(Reqs) /\ Distinct(waiting')
      /\ Elems(waiting') = Elems(waiting) \ {r}
  BY <1>0, <1>1, <1>r, TailFacts
<1>3. /\ status[r] \in {"WAITING", "PREEMPTED"} /\ r \notin Elems(running)
      /\ Len(req_to_blocks[r]) = 0
  BY <1>0, <1>1, <1>2 DEF SchedInv, Lists, Placed
<1>4. r \notin ReqsOf(scheduled)
  BY <1>1, <1>3
<1>5. t \in Nat \ {0} /\ t < MaxModelLen
  <2>1. CountsOK(r)
    BY <1>2 DEF SchedInv, Counts
  <2>2. PromptLen[r] \in Nat \ {0} /\ num_output_tokens[r] \in Nat
    BY <1>2, SizeFacts DEF SchedInv, Shapes
  <2> QED  BY <1>3, <1>t, <2>1, <2>2 DEF CountsOK, num_tokens
<1>6. m \in 0 .. MaxReqBlocks - 1 /\ h \in 0 .. m
  <2>1. m \in 0 .. MaxReqBlocks - 1
    <3>1. BlockSize \in Nat \ {0} /\ 0 \in Nat /\ t - 1 \in Int /\ t - 1 >= 0
      BY <1>5, SizeFacts
    <3>2. 0 <= (t - 1) \div BlockSize
      BY <3>1, DivFacts
    <3> QED  BY <1>5, <1>m, <3>1, <3>2, AdmitFacts
  <2>2. m \in Nat
    BY <2>1
  <2> QED  BY <1>2, <1>h, <2>1, <2>2, HitLength
<1>7. /\ c \in Nat /\ c < t /\ h \in Nat
      /\ \A x \in Nat : c < x => h < cdiv(x, BlockSize)
  <2>1. h \in Nat /\ h <= (t - 1) \div BlockSize
    BY <1>6, <1>m, SizeFacts
  <2> QED  BY <1>5, <1>n, <2>1, AdmitFacts
<1>8. n \in Nat \ {0} /\ n <= t - c /\ n <= token_budget
  <2>1. t - c \in Int /\ t - c > 0 /\ {} \in SUBSET Int /\ token_budget \in Int
    BY <1>1, <1>5, <1>7
  <2>2. Capped(t - c, {}) \in Int /\ Capped(t - c, {}) <= t - c /\ Capped(t - c, {}) <= token_budget
        /\ Capped(t - c, {}) > 0
    <3>1. PICK L : L = {}
      OBVIOUS
    <3>2. L \in SUBSET Int /\ \A l \in L : l > 0
      BY <3>1
    <3>3. PICK d \in Int : d = t - c
      BY <2>1
    <3>4. Capped(d, L) \in Int /\ Capped(d, L) <= d /\ Capped(d, L) <= token_budget
          /\ Capped(d, L) > 0
      BY <1>0, <2>1, <3>1, <3>2, <3>3, CappedFacts
    <3> QED  BY <3>1, <3>3, <3>4
  <2> QED  BY <1>n, <2>1, <2>2
<1>9. c + n \in Nat \ {0} /\ c + n <= t /\ c + n <= MaxModelLen - 1
  BY <1>5, <1>7, <1>8, SizeFacts
<1>10. /\ nb = cdiv(c + n, BlockSize) /\ nb \in 1 .. MaxReqBlocks /\ nf \in 0 .. nb
       /\ nf * BlockSize <= t /\ nf * BlockSize <= c + n /\ nb > h /\ nb \in Nat
  <2>1. c + n <= MaxModelLen /\ num_tokens(r) \in Nat
    BY <1>5, <1>9, <1>t, SizeFacts
  <2>2. /\ nb = cdiv(c + n, BlockSize) /\ nb \in 1 .. MaxReqBlocks /\ nf \in 0 .. nb
        /\ nf * BlockSize <= t /\ nf * BlockSize <= c + n
    BY <1>2, <1>7, <1>8, <1>b, <1>t, <2>1, ToCacheFacts
  <2>3. c < c + n
    BY <1>7, <1>8
  <2>4. h < cdiv(c + n, BlockSize)
    BY <1>7, <1>9, <2>3
  <2>5. nb > h
    <3>1. h < nb /\ nb \in 1 .. MaxReqBlocks
      BY <2>2, <2>4
    <3> QED  BY <1>7, <3>1
  <2>6. nb \in Nat
    <3>1. PICK M : M = MaxReqBlocks /\ M \in Nat
      BY SizeFacts
    <3>2. nb \in 1 .. M
      BY <2>2, <3>1
    <3> QED  BY <3>1, <3>2
  <2> QED  BY <2>2, <2>5, <2>6
<1>11. Admitting(r, t, m, hits, h, c, n, nb, nf, e)
  BY <1>t, <1>h, <1>n, <1>e, <1>0, <1>1, <1>2, <1>3, <1>4, <1>5, <1>6, <1>7, <1>8, <1>9,
     <1>10, Zenon DEF Admitting
<1> QED  BY <1>11

LEMMA WaitingAdmitStep ==
  ASSUME SchedInv, waiting_admit
  PROVE  SchedInv' /\ [KVNext]_kvars
<1>a. PICK r, t, m, hits, h, c, n, nb, nf, e : Admitting(r, t, m, hits, h, c, n, nb, nf, e)
  BY AdmitStart
<1>t. t = num_tokens(r)
  BY <1>a DEF Admitting
<1>h. hits = get_computed_blocks(r, m) /\ h = Len(hits)
  BY <1>a DEF Admitting
<1>n. c = h * BlockSize
  BY <1>a DEF Admitting
<1>e. e = [req |-> r, n |-> n]
  BY <1>a DEF Admitting
<1>0. /\ pc = "waiting" /\ waiting # <<>> /\ token_budget > 0 /\ Len(running) # MaxNumRunningReqs
      /\ allocate_slots(r, hits, nb, nf)
      /\ waiting' = Tail(waiting) /\ running' = Append(running, r)
      /\ status' = [status EXCEPT ![r] = "RUNNING"]
      /\ num_computed_tokens' = [num_computed_tokens EXCEPT ![r] = c]
      /\ scheduled' = Append(scheduled, e) /\ token_budget' = token_budget - n
      /\ UNCHANGED <<num_output_tokens, num_output_placeholders, discard_latest_async_tokens,
                     finished_req_ids, pc, req_index>>
      /\ UNCHANGED <<batch_queue, output, stopped_running_reqs, stopped_preempted_reqs,
                     forced_resets, kv_data>>
  BY <1>a DEF Admitting
<1>1. /\ scheduled \in Seq(Entries) /\ OncePer(scheduled)
      /\ running \in Seq(Reqs) /\ Distinct(running) /\ Len(running) \in Nat
      /\ waiting \in Seq(Reqs) /\ Distinct(waiting) /\ token_budget \in Nat
      /\ Len(running) <= MaxNumRunningReqs /\ ReqsOf(scheduled) \subseteq Elems(running)
      /\ stopped_running_reqs = {} /\ stopped_preempted_reqs = {}
  BY <1>a DEF Admitting
<1>2. /\ r \in Reqs /\ r \in Elems(waiting) /\ waiting' \in Seq(Reqs) /\ Distinct(waiting')
      /\ Elems(waiting') = Elems(waiting) \ {r}
  BY <1>a DEF Admitting
<1>3. /\ status[r] \in {"WAITING", "PREEMPTED"} /\ r \notin Elems(running)
      /\ Len(req_to_blocks[r]) = 0
  BY <1>a DEF Admitting
<1>4. r \notin ReqsOf(scheduled)
  BY <1>a DEF Admitting
<1>5. t \in Nat \ {0} /\ t < MaxModelLen
  BY <1>a DEF Admitting
<1>6. m \in 0 .. MaxReqBlocks - 1 /\ h \in 0 .. m
  BY <1>a DEF Admitting
<1>7. /\ c \in Nat /\ c < t /\ h \in Nat
      /\ \A x \in Nat : c < x => h < cdiv(x, BlockSize)
  BY <1>a DEF Admitting
<1>8. n \in Nat \ {0} /\ n <= t - c /\ n <= token_budget
  BY <1>a DEF Admitting
<1>9. c + n \in Nat \ {0} /\ c + n <= t /\ c + n <= MaxModelLen - 1
  BY <1>a DEF Admitting
<1>10. /\ nb = cdiv(c + n, BlockSize) /\ nb \in 1 .. MaxReqBlocks /\ nf \in 0 .. nb
       /\ nf * BlockSize <= t /\ nf * BlockSize <= c + n /\ nb > h /\ nb \in Nat
  BY <1>a DEF Admitting
<1>11. KVEffect(r, nb, FullAfter(h, nf))
  <2>1. Len(req_to_blocks[r]) = 0 /\ nb > Len(get_computed_blocks(r, m))
        /\ allocate_slots(r, get_computed_blocks(r, m), nb, nf)
    BY <1>0, <1>3, <1>10, <1>h
  <2>2. KVEffect(r, nb, FullAfter(Len(get_computed_blocks(r, m)), nf))
    BY <1>2, <1>6, <1>10, <2>1, AdmitEffect DEF SchedInv
  <2> QED  BY <1>h, <2>2
<1>12. /\ e \in Entries /\ e.req = r /\ e.n = n
  BY <1>2, <1>8, <1>e DEF Entries
<1>13. /\ scheduled' \in Seq(Entries) /\ OncePer(scheduled')
       /\ ReqsOf(scheduled') = ReqsOf(scheduled) \cup {r}
       /\ \A q : Planned(scheduled', q) = IF q = r THEN n ELSE Planned(scheduled, q)
  BY <1>0, <1>1, <1>4, <1>12, PlannedAppend
<1>14. /\ running' \in Seq(Reqs) /\ Elems(running') = Elems(running) \cup {r}
       /\ Distinct(running') /\ Len(running') = Len(running) + 1
  <2>1. Len(Append(running, r)) = Len(running) + 1
    BY <1>1, <1>2
  <2>2. /\ Append(running, r) \in Seq(Reqs) /\ Elems(Append(running, r)) = Elems(running) \cup {r}
        /\ Distinct(Append(running, r))
    BY <1>1, <1>2, <1>3, AppendFacts
  <2> QED  BY <1>0, <2>1, <2>2
<1>15. /\ status'[r] = "RUNNING" /\ num_computed_tokens'[r] = c
       /\ \A q \in Reqs : q # r =>
            status'[q] = status[q] /\ num_computed_tokens'[q] = num_computed_tokens[q]
  BY <1>0, <1>2 DEF SchedInv, Shapes
<1>16. Shapes'
  <2>1. /\ status' \in [Reqs -> {"new", "WAITING", "RUNNING", "PREEMPTED", "FINISHED"}]
        /\ num_computed_tokens' \in [Reqs -> Nat]
    BY <1>0, <1>7 DEF SchedInv, Shapes
  <2>2. token_budget' \in Nat
    BY <1>0, <1>1, <1>8
  <2> QED  BY <1>0, <1>2, <1>13, <1>14, <2>1, <2>2 DEF SchedInv, Shapes
<1>17. Lists'
  <2>1. ASSUME NEW q \in Reqs PROVE Placed(q)'
    <3>1. Placed(q)
      BY <1>0 DEF SchedInv, Lists
    <3>2. CASE q = r
      BY <1>0, <1>1, <1>2, <1>14, <1>15, <3>1, <3>2 DEF Placed
    <3>3. CASE q # r
      BY <1>0, <1>1, <1>2, <1>11, <1>14, <1>15, <3>1, <3>3 DEF Placed, KVEffect
    <3> QED  BY <3>2, <3>3
  <2> QED  BY <1>0, <1>1, <1>2, <1>14, <2>1 DEF SchedInv, Lists
<1>18. Loop'
  <2>1. Len(running') <= MaxNumRunningReqs
    BY <1>0, <1>1, <1>14, SizeFacts
  <2>2. ReqsOf(scheduled') \subseteq Elems(running')
    BY <1>1, <1>13, <1>14
  <2> QED  BY <1>0, <1>13, <2>1, <2>2 DEF SchedInv, Loop, Scheduling
<1>19. Counts'
  <2> SUFFICES ASSUME NEW q \in Reqs PROVE CountsOK(q)'
    BY DEF Counts
  <2>1. CountsOK(q)
    BY DEF SchedInv, Counts
  <2>2. CASE q # r
    BY <1>0, <1>11, <1>13, <1>15, <2>1, <2>2
       DEF CountsOK, RunningOK, Target, num_tokens, KVEffect
  <2>3. CASE q = r
    <3>1. Target(q)' = c + n
      BY <1>13, <1>15, <2>3 DEF Target
    <3>2. num_tokens(q)' = t
      BY <1>0, <1>t, <2>3 DEF num_tokens
    <3>3. num_output_placeholders'[q] \in Nat
      BY <1>16 DEF Shapes
    <3>4. FullAfter(h, nf) * BlockSize <= t
      <4>1. nf \in Nat /\ h * BlockSize <= t
        BY <1>5, <1>7, <1>10, <1>n
      <4> QED  BY <1>5, <1>7, <1>10, <4>1, FullAfterFacts
    <3>5. Target(q)' >= 1 /\ Target(q)' <= num_tokens(q)' + num_output_placeholders'[q]
          /\ Target(q)' <= MaxModelLen - 1
      BY <1>5, <1>9, <3>1, <3>2, <3>3
    <3>6. Len(req_to_blocks'[q]) = nb /\ num_cached_block'[q] = FullAfter(h, nf)
      BY <1>11, <2>3 DEF KVEffect
    <3>7. RunningOK(q)'
      BY <1>10, <3>1, <3>2, <3>4, <3>5, <3>6 DEF RunningOK
    <3>8. status'[q] = "RUNNING" /\ status[q] # "FINISHED" /\ num_output_tokens' = num_output_tokens
      BY <1>0, <1>3, <1>15, <2>3
    <3>9. num_tokens(q)' = num_tokens(q)
      BY <3>8 DEF num_tokens
    <3> QED  BY <2>1, <3>5, <3>7, <3>8, <3>9 DEF CountsOK
  <2> QED  BY <2>2, <2>3
<1>20. Batches'
  BY <1>0, BatchesFrame
<1>21. Flights'
  <2> SUFFICES ASSUME NEW q \in Reqs PROVE FlightsOK(q)'
    BY DEF Flights
  <2>1. FlightsOK(q)
    BY DEF SchedInv, Flights
  <2> QED  BY <1>0, <1>3, <1>15, <2>1 DEF FlightsOK, Discards
<1> QED  BY <1>11, <1>16, <1>17, <1>18, <1>19, <1>20, <1>21 DEF SchedInv, KVEffect

-----------------------------------------------------------------------------
(* The end of schedule().                                                  *)

LEMMA AppendAt ==
  ASSUME NEW T, NEW q \in Seq(T), NEW b \in T
  PROVE  /\ Len(q) \in Nat /\ Len(Append(q, b)) = Len(q) + 1 /\ Append(q, b)[Len(q) + 1] = b
         /\ \A i \in 1 .. Len(q) : Append(q, b)[i] = q[i]
OBVIOUS

(* A batch more owes a request its output on top of those before.          *)
LEMMA PendingAppend ==
  ASSUME NEW T, NEW q \in Seq(T), Len(q) < 2, NEW b \in T, NEW out, NEW r
  PROVE  Pending(out, Append(q, b), r) = Pending(out, q, r) + Owed(b, r)
<1> DEFINE a == Append(q, b)
<1>1. /\ Len(q) \in {0, 1} /\ Len(a) = Len(q) + 1 /\ a[Len(q) + 1] = b
      /\ \A i \in 1 .. Len(q) : a[i] = q[i]
  <2>1. /\ Len(q) \in Nat /\ Len(a) = Len(q) + 1 /\ a[Len(q) + 1] = b
        /\ \A i \in 1 .. Len(q) : a[i] = q[i]
    OBVIOUS
  <2>2. PICK n : n = Len(q)
    OBVIOUS
  <2>3. n \in {0, 1}
    BY <2>1, <2>2
  <2> QED  BY <2>1, <2>2, <2>3
<1> HIDE DEF a
<1>2. Owed(out, r) \in Int /\ Owed(b, r) \in Int
  BY OwedFacts
<1>3. CASE Len(q) = 0
  <2>1. OwedAt(q, 1, r) = 0 /\ OwedAt(q, 2, r) = 0
    BY <1>3 DEF OwedAt
  <2>2. OwedAt(a, 1, r) = Owed(b, r) /\ OwedAt(a, 2, r) = 0
    BY <1>1, <1>3 DEF OwedAt
  <2> QED  BY <1>2, <2>1, <2>2 DEF Pending, a
<1>4. CASE Len(q) = 1
  <2>0. Owed(q[1], r) \in Int /\ a[1] = q[1]
    BY <1>1, <1>4, OwedFacts
  <2>1. OwedAt(q, 1, r) = Owed(q[1], r) /\ OwedAt(q, 2, r) = 0
    BY <1>4 DEF OwedAt
  <2>2. OwedAt(a, 1, r) = Owed(q[1], r) /\ OwedAt(a, 2, r) = Owed(b, r)
    BY <1>1, <1>4, <2>0 DEF OwedAt
  <2> QED  BY <1>2, <2>0, <2>1, <2>2 DEF Pending, a
<1> QED  BY <1>1, <1>3, <1>4

(* The batch being handed out: one output at most for every request in it, *)
(* and none for a request in the middle of its prefill.                    *)
LEMMA BatchFacts ==
  ASSUME SchedInv
  PROVE  /\ Batch \in Seq(Outputs) /\ OncePer(Batch) /\ Len(Batch) = Len(scheduled)
         /\ \A i \in 1 .. Len(scheduled) :
              /\ Batch[i].req = scheduled[i].req
              /\ Batch[i].pos = SampledPosition(scheduled[i].req)
         /\ \A r \in Reqs : Owed(Batch, r) =
              IF r \in ReqsOf(scheduled) /\ ~is_prefill_chunk(r) THEN 1 ELSE 0
<1>0. scheduled \in Seq(Entries) /\ OncePer(scheduled) /\ Len(scheduled) \in Nat
      /\ MaxModelLen \in Nat
  BY SizeFacts DEF SchedInv, Shapes, Loop
<1>1. ASSUME NEW r \in Reqs
      PROVE  /\ SampledPosition(r) \in 0 .. MaxModelLen
             /\ SampledPosition(r) = 0 <=> is_prefill_chunk(r)
  <2>1. Target(r) <= MaxModelLen - 1 /\ NumScheduled(r) = Planned(scheduled, r)
    BY NumScheduledIs DEF SchedInv, Counts, CountsOK
  <2>2. Planned(scheduled, r) \in Nat /\ num_computed_tokens[r] \in Nat
    BY <1>0, PlannedFacts DEF SchedInv, Shapes
  <2> QED  BY <1>0, <2>1, <2>2 DEF SampledPosition, Target
<1>2. \A i \in 1 .. Len(scheduled) : scheduled[i].req \in Reqs
  <2>1. \A i \in 1 .. Len(scheduled) : scheduled[i] \in Entries
    BY <1>0
  <2> QED  BY <2>1 DEF Entries
<1>3. Batch = [i \in 1 .. Len(scheduled) |->
                 [req |-> scheduled[i].req, pos |-> SampledPosition(scheduled[i].req)]]
  BY DEF Batch
<1> DEFINE b == Batch
<1>4. /\ b \in Seq(Outputs) /\ Len(b) = Len(scheduled)
      /\ \A i \in 1 .. Len(scheduled) :
           b[i].req = scheduled[i].req /\ b[i].pos = SampledPosition(scheduled[i].req)
  <2> DEFINE f(i) == [req |-> scheduled[i].req, pos |-> SampledPosition(scheduled[i].req)]
  <2>1. \A i \in 1 .. Len(scheduled) :
          /\ f(i) \in Outputs /\ f(i).req = scheduled[i].req
          /\ f(i).pos = SampledPosition(scheduled[i].req)
    BY <1>1, <1>2 DEF Outputs
  <2>2. b = [i \in 1 .. Len(scheduled) |-> f(i)]
    BY <1>3
  <2> HIDE DEF f, b
  <2>3. b \in Seq(Outputs) /\ Len(b) = Len(scheduled) /\ \A i \in 1 .. Len(scheduled) : b[i] = f(i)
    <3>1. b \in [1 .. Len(scheduled) -> Outputs]
      BY <2>1, <2>2
    <3>2. \A i \in 1 .. Len(scheduled) : b[i] = f(i)
      BY <2>2
    <3>3. b \in Seq(Outputs) /\ Len(b) = Len(scheduled)
      BY <1>0, <3>1
    <3> QED  BY <3>2, <3>3
  <2> QED  BY <2>1, <2>3
<1> HIDE DEF b
<1>5. OncePer(b)
  BY <1>0, <1>4 DEF OncePer
<1>6. ASSUME NEW r \in Reqs
      PROVE  Owed(b, r) = IF r \in ReqsOf(scheduled) /\ ~is_prefill_chunk(r) THEN 1 ELSE 0
  <2>1. (\E i \in 1 .. Len(b) : b[i].req = r /\ b[i].pos # 0)
        <=> r \in ReqsOf(scheduled) /\ ~is_prefill_chunk(r)
    BY <1>1, <1>4 DEF ReqsOf
  <2> QED  BY <2>1 DEF Owed
<1> QED  BY <1>4, <1>5, <1>6 DEF b

LEMMA ScheduleEndStep ==
  ASSUME SchedInv, schedule_end
  PROVE  SchedInv' /\ [KVNext]_kvars
<1>b. PICK b : b = Batch
  OBVIOUS
<1>0. /\ pc = "waiting" /\ UNCHANGED kvars
      /\ num_computed_tokens' = [r \in Reqs |-> num_computed_tokens[r] + NumScheduled(r)]
      /\ num_output_placeholders' = [r \in Reqs |-> PlaceholdersAfterSchedule(r)]
      /\ finished_req_ids' = {} /\ batch_queue' = Append(batch_queue, b)
      /\ pc' \in {"idle", "await"} /\ (pc' = "idle" => Len(batch_queue) + 1 < BatchQueueSize)
      /\ token_budget' = 0 /\ req_index' = 1 /\ scheduled' = <<>>
      /\ UNCHANGED <<status, num_output_tokens, discard_latest_async_tokens, running, waiting>>
      /\ UNCHANGED <<output, stopped_running_reqs, stopped_preempted_reqs, forced_resets>>
  BY <1>b DEF schedule_end, AfterSchedule, output_vars
<1>1. /\ b \in Seq(Outputs) /\ OncePer(b)
      /\ \A r \in Reqs : Owed(b, r) =
           IF r \in ReqsOf(scheduled) /\ ~is_prefill_chunk(r) THEN 1 ELSE 0
  BY <1>b, BatchFacts
<1>2. /\ scheduled \in Seq(Entries) /\ OncePer(scheduled) /\ batch_queue \in Seq(Seq(Outputs))
      /\ output = <<>> /\ Len(batch_queue) \in Nat /\ Len(batch_queue) < BatchQueueSize
      /\ Cardinality(Reqs) \in Nat
  BY <1>0, ConstAssumption, FS_CardinalityType DEF SchedInv, Shapes, Loop, Batches
<1>3. /\ batch_queue' \in Seq(Seq(Outputs)) /\ Len(batch_queue') = Len(batch_queue) + 1
      /\ batch_queue'[Len(batch_queue) + 1] = b
      /\ \A i \in 1 .. Len(batch_queue) : batch_queue'[i] = batch_queue[i]
  BY <1>0, <1>1, <1>2
<1>4. SameTables
  BY <1>0, NoEffect DEF SchedInv
<1>5. ASSUME NEW r \in Reqs
      PROVE  /\ num_computed_tokens[r] \in Nat /\ Planned(scheduled, r) \in Nat
             /\ num_output_placeholders[r] \in Nat
             /\ num_computed_tokens'[r] = num_computed_tokens[r] + Planned(scheduled, r)
             /\ num_output_placeholders'[r] =
                  num_output_placeholders[r] + IF Async THEN Owed(b, r) ELSE 0
  <2>1. /\ num_computed_tokens[r] \in Nat /\ Planned(scheduled, r) \in Nat
        /\ num_output_placeholders[r] \in Nat
    BY <1>2, PlannedFacts DEF SchedInv, Shapes
  <2>2. num_computed_tokens'[r] = num_computed_tokens[r] + Planned(scheduled, r)
    BY <1>0, NumScheduledIs
  <2>3. num_output_placeholders'[r] = PlaceholdersAfterSchedule(r)
    BY <1>0
  <2>4. ScheduledNow(r) # {} <=> r \in ReqsOf(scheduled)
    BY DEF ScheduledNow, ReqsOf, Elems
  <2>5. num_output_placeholders[r] + 0 = num_output_placeholders[r]
    BY <2>1
  <2> QED  BY <1>1, <2>1, <2>2, <2>3, <2>4, <2>5 DEF PlaceholdersAfterSchedule
<1>6. Shapes'
  <2>1. num_computed_tokens' \in [Reqs -> Nat] /\ num_output_placeholders' \in [Reqs -> Nat]
    <3>1. \A r \in Reqs : num_computed_tokens'[r] \in Nat /\ num_output_placeholders'[r] \in Nat
      BY <1>5, OwedFacts
    <3> QED  BY <1>0, <3>1
  <2> QED  BY <1>0, <1>3, <2>1 DEF SchedInv, Shapes
<1>7. Lists'
  BY <1>0, <1>4, ListsFrame
<1>8. Loop'
  BY <1>0, <1>2, EmptyFacts DEF SchedInv, Loop, Scheduling
<1>9. Counts'
  <2> SUFFICES ASSUME NEW q \in Reqs PROVE CountsOK(q)'
    BY DEF Counts
  <2>1. CountsOK(q) /\ num_output_tokens[q] \in Nat
    BY DEF SchedInv, Counts, Shapes
  <2>2. Target(q)' = Target(q)
    <3>1. Planned(scheduled', q) = 0
      BY <1>0, EmptyFacts
    <3> QED  BY <1>5, <3>1 DEF Target
  <2>3. num_output_placeholders[q] <= num_output_placeholders'[q]
        /\ num_output_placeholders'[q] \in Nat
    BY <1>5, OwedFacts
  <2>4. num_tokens(q)' = num_tokens(q) /\ num_tokens(q) \in Nat
    BY <1>0, <2>1, SizeFacts DEF num_tokens
  <2>5. Len(req_to_blocks'[q]) = Len(req_to_blocks[q])
        /\ num_cached_block'[q] = num_cached_block[q]
    BY <1>4 DEF SameTables
  <2>6. Target(q) \in Nat
    BY <1>5 DEF Target
  <2>7. status[q] = "RUNNING" => RunningOK(q)'
    <3>1. PICK x, t, p : /\ x = Target(q) /\ t = num_tokens(q)
                         /\ p = num_output_placeholders[q]
      OBVIOUS
    <3>2. Target(q)' = x /\ num_tokens(q)' = t /\ p \in Nat /\ t \in Nat /\ x \in Nat
      BY <1>5, <2>2, <2>4, <2>6, <3>1
    <3>3. ASSUME status[q] = "RUNNING"
          PROVE  /\ x >= 1 /\ x <= t + p /\ Len(req_to_blocks[q]) = cdiv(x, BlockSize)
                 /\ num_cached_block[q] * BlockSize <= t
      BY <2>1, <3>1, <3>3 DEF CountsOK, RunningOK
    <3>4. x <= t + p => x <= t + num_output_placeholders'[q]
      BY <2>3, <3>1, <3>2
    <3> QED  BY <2>5, <3>2, <3>3, <3>4 DEF RunningOK
  <2>8. status[q] \in {"new", "WAITING", "PREEMPTED"} => num_computed_tokens'[q] = 0
    <3> SUFFICES ASSUME status[q] \in {"new", "WAITING", "PREEMPTED"}
                 PROVE  num_computed_tokens'[q] = 0
      OBVIOUS
    <3>1. q \notin Elems(running)
      BY <1>0 DEF SchedInv, Lists, Placed
    <3>2. Planned(scheduled, q) = 0
      BY <1>2, <3>1, PlannedFacts DEF SchedInv, Loop
    <3> QED  BY <1>5, <2>1, <3>2 DEF CountsOK
  <2> QED  BY <1>0, <2>1, <2>2, <2>4, <2>7, <2>8 DEF CountsOK
<1>10. Batches'
  <2>1. \A k \in 1 .. Len(batch_queue') : OncePer(batch_queue'[k])
    <3> SUFFICES ASSUME NEW k \in 1 .. Len(batch_queue') PROVE OncePer(batch_queue'[k])
      OBVIOUS
    <3>1. k \in 1 .. Len(batch_queue) \/ k = Len(batch_queue) + 1
      BY <1>2, <1>3
    <3> QED  BY <1>1, <1>3, <3>1 DEF SchedInv, Batches
  <2>2. batch_queue' # <<>>
    BY <1>2, <1>3
  <2>3. Len(batch_queue') <= BatchQueueSize
        /\ (pc' # "await" => Len(batch_queue') < BatchQueueSize)
    BY <1>0, <1>2, <1>3, SizeFacts
  <2> QED  BY <1>0, <1>2, <2>1, <2>2, <2>3, EmptyFacts DEF Batches
<1>11. Flights'
  <2> SUFFICES ASSUME NEW q \in Reqs PROVE FlightsOK(q)'
    BY DEF Flights
  <2>1. FlightsOK(q) /\ num_output_placeholders[q] \in Nat
    BY DEF SchedInv, Flights, Shapes
  <2>2. CASE ~Async
    <3>1. num_output_placeholders'[q] = num_output_placeholders[q]
      BY <1>5, <2>2
    <3> QED  BY <2>1, <2>2, <3>1 DEF FlightsOK
  <2>3. CASE Async
    <3>1. num_output_placeholders'[q] = num_output_placeholders[q] + Owed(b, q)
      BY <1>5, <2>3
    <3>2. Pending(output, batch_queue', q) = Pending(output, batch_queue, q) + Owed(b, q)
      <4>1. Len(batch_queue) < 2
        BY <1>2, <2>3, SchedulerAssumption
      <4>2. Pending(output, Append(batch_queue, b), q)
              = Pending(output, batch_queue, q) + Owed(b, q)
        BY <1>1, <1>2, <4>1, PendingAppend
      <4> QED  BY <1>0, <4>2
    <3>3. Owed(b, q) \in Nat /\ Pending(output, batch_queue, q) \in Nat /\ Discards(q) \in Nat
      <4>1. Owed(b, q) \in Nat /\ Owed(output, q) \in Nat /\ OwedAt(batch_queue, 1, q) \in Nat
            /\ OwedAt(batch_queue, 2, q) \in Nat
        BY OwedFacts
      <4> QED  BY <4>1 DEF Pending, Discards
    <3>4. status[q] = "new" => Owed(b, q) = 0
      <4> SUFFICES ASSUME status[q] = "new" PROVE Owed(b, q) = 0
        OBVIOUS
      <4>1. q \notin Elems(running)
        BY <1>0 DEF SchedInv, Lists, Placed
      <4>2. q \notin ReqsOf(scheduled)
        BY <4>1 DEF SchedInv, Loop
      <4> QED  BY <1>1, <4>2
    <3>5. /\ output' = output /\ status' = status /\ forced_resets' = forced_resets
          /\ discard_latest_async_tokens' = discard_latest_async_tokens
      BY <1>0
    <3>6. Discards(q)' = Discards(q)
      BY <3>5 DEF Discards
    <3>7. PICK P, W, D : P = Pending(output, batch_queue, q) /\ W = Owed(b, q) /\ D = Discards(q)
      OBVIOUS
    <3>8. Pending(output, batch_queue, q)' = P + W
      BY <3>2, <3>5, <3>7
    <3> QED  BY <2>1, <2>3, <3>1, <3>3, <3>4, <3>5, <3>6, <3>7, <3>8 DEF FlightsOK
  <2> QED  BY <2>2, <2>3
<1> QED  BY <1>4, <1>6, <1>7, <1>8, <1>9, <1>10, <1>11 DEF SchedInv, SameTables

-----------------------------------------------------------------------------
(* update_from_output().                                                   *)

(* Starting on the oldest batch changes nothing about what is owed.        *)
LEMMA PendingShift ==
  ASSUME NEW q \in Seq(Seq(Outputs)), q # <<>>, Len(q) <= 2, NEW r
  PROVE  Pending(Head(q), Tail(q), r) = Pending(<<>>, q, r)
<1> DEFINE t == Tail(q)
<1>1. /\ Len(q) \in Nat \ {0} /\ Head(q) = q[1] /\ Len(t) = Len(q) - 1
      /\ \A i \in 1 .. Len(q) - 1 : t[i] = q[i + 1]
  BY TailFacts
<1>2. PICK n : n = Len(q)
  OBVIOUS
<1>3. n \in {1, 2}
  <2>1. n \in Nat \ {0} /\ n <= 2
    BY <1>1, <1>2, Zenon
  <2> QED  BY <2>1
<1> HIDE DEF t
<1>4. Owed(q[1], r) \in Int /\ Owed(q[2], r) \in Int /\ Owed(<<>>, r) = 0
  BY OwedFacts, EmptyFacts
<1>5. OwedAt(q, 1, r) = Owed(q[1], r) /\ OwedAt(t, 2, r) = 0
  BY <1>1, <1>2, <1>3 DEF OwedAt
<1>6. OwedAt(t, 1, r) = OwedAt(q, 2, r)
  <2>1. CASE n = 1
    BY <1>1, <1>2, <2>1 DEF OwedAt
  <2>2. CASE n = 2
    <3>1. t[1] = q[2] /\ Len(t) = 1
      BY <1>1, <1>2, <2>2
    <3> QED  BY <1>2, <2>2, <3>1 DEF OwedAt
  <2> QED  BY <1>3, <2>1, <2>2
<1>7. OwedAt(q, 2, r) \in Int
  BY OwedFacts
<1> QED  BY <1>1, <1>4, <1>5, <1>6, <1>7 DEF Pending, t

(* Taking the first output off a batch.                                    *)
LEMMA OwedTail ==
  ASSUME NEW b \in Seq(Outputs), b # <<>>, OncePer(b)
  PROVE  /\ Tail(b) \in Seq(Outputs) /\ OncePer(Tail(b)) /\ Head(b) \in Outputs
         /\ \A r : Owed(b, r) = Owed(Tail(b), r)
                     + IF Head(b).req = r /\ Head(b).pos # 0 THEN 1 ELSE 0
<1> DEFINE t == Tail(b)
<1>1. /\ Len(b) \in Nat \ {0} /\ Head(b) = b[1] /\ b[1] \in Outputs /\ t \in Seq(Outputs)
      /\ Len(t) = Len(b) - 1 /\ \A i \in 1 .. Len(b) - 1 : t[i] = b[i + 1]
  BY TailFacts
<1> HIDE DEF t
<1>2. OncePer(t)
  <2> SUFFICES ASSUME NEW i \in 1 .. Len(t), NEW j \in 1 .. Len(t), t[i].req = t[j].req PROVE i = j
    BY DEF OncePer
  <2>1. /\ i + 1 \in 1 .. Len(b) /\ j + 1 \in 1 .. Len(b)
        /\ t[i] = b[i + 1] /\ t[j] = b[j + 1]
    BY <1>1
  <2>2. i + 1 = j + 1
    BY <2>1 DEF OncePer
  <2> QED  BY <2>2
<1>3. ASSUME NEW r
      PROVE  Owed(b, r) = Owed(t, r) + IF b[1].req = r /\ b[1].pos # 0 THEN 1 ELSE 0
  <2>1. 1 \in 1 .. Len(b) /\ \A i \in 1 .. Len(t) : i + 1 \in 1 .. Len(b) /\ t[i] = b[i + 1]
    BY <1>1
  <2>2. \A i \in 1 .. Len(b) : i = 1 \/ (i - 1 \in 1 .. Len(t) /\ t[i - 1] = b[i])
    BY <1>1
  <2>3. CASE b[1].req = r /\ b[1].pos # 0
    <3>1. Owed(b, r) = 1
      BY <2>1, <2>3 DEF Owed
    <3>2. \A i \in 1 .. Len(t) : t[i].req # r
      <4> SUFFICES ASSUME NEW i \in 1 .. Len(t), t[i].req = r PROVE FALSE
        OBVIOUS
      <4>1. i + 1 \in 1 .. Len(b) /\ b[i + 1].req = b[1].req /\ i \in Nat \ {0}
        BY <1>1, <2>1, <2>3
      <4>2. i + 1 = 1
        BY <2>1, <4>1 DEF OncePer
      <4> QED  BY <4>1, <4>2
    <3>3. Owed(t, r) = 0
      BY <3>2 DEF Owed
    <3> QED  BY <2>3, <3>1, <3>3
  <2>4. CASE ~(b[1].req = r /\ b[1].pos # 0)
    <3>1. (\E i \in 1 .. Len(b) : b[i].req = r /\ b[i].pos # 0)
          <=> (\E i \in 1 .. Len(t) : t[i].req = r /\ t[i].pos # 0)
      <4>1. ASSUME NEW i \in 1 .. Len(b), b[i].req = r /\ b[i].pos # 0
            PROVE  \E k \in 1 .. Len(t) : t[k].req = r /\ t[k].pos # 0
        <5>1. i - 1 \in 1 .. Len(t) /\ t[i - 1] = b[i]
          BY <2>2, <2>4, <4>1
        <5> QED  BY <4>1, <5>1
      <4>2. ASSUME NEW i \in 1 .. Len(t), t[i].req = r /\ t[i].pos # 0
            PROVE  \E k \in 1 .. Len(b) : b[k].req = r /\ b[k].pos # 0
        <5>1. i + 1 \in 1 .. Len(b) /\ t[i] = b[i + 1]
          BY <2>1
        <5> QED  BY <4>2, <5>1
      <4> QED  BY <4>1, <4>2
    <3>2. Owed(b, r) = Owed(t, r)
      BY <3>1 DEF Owed
    <3>3. Owed(t, r) \in Int
      BY OwedFacts
    <3> QED  BY <2>4, <3>2, <3>3
  <2> QED  BY <2>3, <2>4
<1> QED  BY <1>1, <1>2, <1>3 DEF t

LEMMA PendingFacts ==
  ASSUME NEW b \in Seq(Outputs), b # <<>>, OncePer(b), NEW q, NEW r
  PROVE  /\ Pending(b, q, r) \in Nat /\ Pending(Tail(b), q, r) \in Nat
         /\ Pending(b, q, r) = Pending(Tail(b), q, r)
                     + IF Head(b).req = r /\ Head(b).pos # 0 THEN 1 ELSE 0
<1>1. /\ Owed(b, r) \in Nat /\ Owed(Tail(b), r) \in Nat
      /\ OwedAt(q, 1, r) \in Nat /\ OwedAt(q, 2, r) \in Nat
  BY OwedFacts
<1>2. PICK t : t = Tail(b)
  OBVIOUS
<1>3. PICK d : d = IF Head(b).req = r /\ Head(b).pos # 0 THEN 1 ELSE 0
  OBVIOUS
<1>4. Owed(b, r) = Owed(t, r) + d
  BY <1>2, <1>3, OwedTail
<1>5. d \in Nat
  BY <1>3
<1>6. Pending(b, q, r) \in Nat /\ Pending(t, q, r) \in Nat
      /\ Pending(b, q, r) = Pending(t, q, r) + d
  <2>1. PICK x, y, z, w : /\ x = Owed(b, r) /\ y = Owed(t, r)
                          /\ z = OwedAt(q, 1, r) /\ w = OwedAt(q, 2, r)
    OBVIOUS
  <2>2. Pending(b, q, r) = x + z + w /\ Pending(t, q, r) = y + z + w
    BY <2>1 DEF Pending
  <2>3. x \in Nat /\ y \in Nat /\ z \in Nat /\ w \in Nat /\ x = y + d
    BY <1>1, <1>2, <1>4, <2>1
  <2> QED  BY <1>5, <2>2, <2>3
<1> QED  BY <1>2, <1>3, <1>6

LEMMA UpdateBeginStep ==
  ASSUME SchedInv, update_begin
  PROVE  SchedInv' /\ [KVNext]_kvars
<1>0. /\ pc = "await" /\ pc' = "update" /\ UNCHANGED kvars
      /\ output' = Head(batch_queue) /\ batch_queue' = Tail(batch_queue)
      /\ UNCHANGED <<status, num_computed_tokens, num_output_tokens, num_output_placeholders,
                     discard_latest_async_tokens, running, waiting, finished_req_ids>>
      /\ UNCHANGED <<token_budget, req_index, cur, preempted_reqs, scheduled>>
      /\ UNCHANGED <<stopped_running_reqs, stopped_preempted_reqs, forced_resets>>
  BY DEF update_begin, request_vars, queue_vars, local_vars, ghost_vars
<1>1. /\ batch_queue \in Seq(Seq(Outputs)) /\ batch_queue # <<>> /\ output = <<>>
      /\ Len(batch_queue) <= BatchQueueSize /\ \A k \in 1 .. Len(batch_queue) : OncePer(batch_queue[k])
  BY <1>0 DEF SchedInv, Shapes, Batches
<1>2. /\ Len(batch_queue) \in Nat \ {0} /\ Head(batch_queue) = batch_queue[1]
      /\ batch_queue[1] \in Seq(Outputs) /\ Tail(batch_queue) \in Seq(Seq(Outputs))
      /\ Len(Tail(batch_queue)) = Len(batch_queue) - 1
      /\ \A i \in 1 .. Len(batch_queue) - 1 : Tail(batch_queue)[i] = batch_queue[i + 1]
  BY <1>1, TailFacts
<1>3. /\ output' \in Seq(Outputs) /\ batch_queue' \in Seq(Seq(Outputs)) /\ OncePer(output')
      /\ Len(batch_queue') = Len(batch_queue) - 1
      /\ \A i \in 1 .. Len(batch_queue) - 1 : batch_queue'[i] = batch_queue[i + 1]
  <2>1. 1 \in 1 .. Len(batch_queue)
    BY <1>2
  <2> QED  BY <1>0, <1>1, <1>2, <2>1
<1>4. SameTables
  BY <1>0, NoEffect DEF SchedInv
<1>5. Shapes'
  BY <1>0, <1>3 DEF SchedInv, Shapes
<1>6. Lists'
  BY <1>0, <1>4 DEF SchedInv, SameTables, Lists, Placed
<1>7. Counts'
  BY <1>0, <1>4, CountsFrame
<1>8. Loop'
  BY <1>0 DEF SchedInv, Loop, Scheduling
<1>9. Batches'
  <2>1. \A k \in 1 .. Len(batch_queue') : OncePer(batch_queue'[k])
    <3> SUFFICES ASSUME NEW k \in 1 .. Len(batch_queue') PROVE OncePer(batch_queue'[k])
      OBVIOUS
    <3>1. k \in 1 .. Len(batch_queue) - 1 /\ k + 1 \in 1 .. Len(batch_queue)
      BY <1>2, <1>3
    <3> QED  BY <1>1, <1>3, <3>1
  <2>2. Len(batch_queue') < BatchQueueSize
    BY <1>1, <1>2, <1>3, SizeFacts
  <2>3. Len(batch_queue') <= BatchQueueSize
    BY <1>2, <1>3, <2>2, SizeFacts
  <2> QED  BY <1>0, <1>3, <2>1, <2>2, <2>3 DEF Batches
<1>10. Flights'
  <2> SUFFICES ASSUME NEW q \in Reqs PROVE FlightsOK(q)'
    BY DEF Flights
  <2>1. FlightsOK(q)
    BY DEF SchedInv, Flights
  <2>2. ASSUME Async PROVE Pending(output', batch_queue', q) = Pending(output, batch_queue, q)
    <3>1. Len(batch_queue) <= 2
      BY <1>1, <2>2, SchedulerAssumption
    <3>2. Pending(Head(batch_queue), Tail(batch_queue), q) = Pending(<<>>, batch_queue, q)
      BY <1>1, <3>1, PendingShift
    <3> QED  BY <1>0, <1>1, <3>2
  <2> QED  BY <1>0, <2>1, <2>2 DEF FlightsOK, Discards
<1> QED  BY <1>4, <1>5, <1>6, <1>7, <1>8, <1>9, <1>10 DEF SchedInv, SameTables

(* What every step of the loop does to the output, whatever else it does.  *)
LEMMA OutputTaken ==
  ASSUME SchedInv, pc = "update", output # <<>>, output' = Tail(output),
         batch_queue' = batch_queue, pc' \in {"update", "stopped"}
  PROVE  /\ output' \in Seq(Outputs) /\ OncePer(output') /\ Head(output).req \in Reqs /\ Batches'
         /\ scheduled = <<>>
         /\ \A q : /\ Pending(output, batch_queue, q) \in Nat
                   /\ Pending(output', batch_queue', q) \in Nat
                   /\ Pending(output, batch_queue, q) = Pending(output', batch_queue', q)
                        + IF Head(output).req = q /\ Head(output).pos # 0 THEN 1 ELSE 0
<1>1. output \in Seq(Outputs) /\ OncePer(output) /\ scheduled = <<>>
  BY DEF SchedInv, Shapes, Batches, Loop, Scheduling
<1>2. Tail(output) \in Seq(Outputs) /\ OncePer(Tail(output)) /\ Head(output) \in Outputs
  BY <1>1, OwedTail
<1>3. Head(output).req \in Reqs
  BY <1>2 DEF Outputs
<1>4. output' \in Seq(Outputs) /\ OncePer(output')
  BY <1>2
<1>5. Batches'
  BY <1>4 DEF SchedInv, Batches
<1>6. ASSUME NEW q
      PROVE  /\ Pending(output, batch_queue, q) \in Nat
             /\ Pending(output', batch_queue', q) \in Nat
             /\ Pending(output, batch_queue, q) = Pending(output', batch_queue', q)
                  + IF Head(output).req = q /\ Head(output).pos # 0 THEN 1 ELSE 0
  <2>1. PICK d : d = IF Head(output).req = q /\ Head(output).pos # 0 THEN 1 ELSE 0
    OBVIOUS
  <2>2. /\ Pending(output, batch_queue, q) \in Nat /\ Pending(Tail(output), batch_queue, q) \in Nat
        /\ Pending(output, batch_queue, q) = Pending(Tail(output), batch_queue, q) + d
    BY <1>1, <2>1, PendingFacts
  <2> QED  BY <2>1, <2>2
<1> QED  BY <1>1, <1>3, <1>4, <1>5, <1>6

LEMMA UpdateNothingStep ==
  ASSUME SchedInv, update_nothing
  PROVE  SchedInv' /\ [KVNext]_kvars
<1>r. PICK r, p : r = Head(output).req /\ p = Head(output).pos
  OBVIOUS
<1>0. /\ pc = "update" /\ pc' = "update" /\ output # <<>> /\ UNCHANGED kvars
      /\ ~Unfinished(r) \/ p = 0
      /\ output' = Tail(output) /\ batch_queue' = batch_queue
      /\ UNCHANGED <<status, num_computed_tokens, num_output_tokens, num_output_placeholders,
                     discard_latest_async_tokens, running, waiting, finished_req_ids>>
      /\ UNCHANGED <<token_budget, req_index, cur, preempted_reqs, scheduled>>
      /\ UNCHANGED <<stopped_running_reqs, stopped_preempted_reqs, forced_resets>>
  BY <1>r DEF update_nothing, request_vars, queue_vars, local_vars, ghost_vars
<1>1. /\ output' \in Seq(Outputs) /\ r \in Reqs /\ Batches'
      /\ \A q : /\ Pending(output, batch_queue, q) \in Nat
                /\ Pending(output', batch_queue', q) \in Nat
                /\ Pending(output, batch_queue, q) = Pending(output', batch_queue', q)
                     + IF r = q /\ p # 0 THEN 1 ELSE 0
  BY <1>0, <1>r, OutputTaken
<1>2. SameTables
  BY <1>0, NoEffect DEF SchedInv
<1>3. Shapes'
  BY <1>0, <1>1 DEF SchedInv, Shapes
<1>4. Lists'
  BY <1>0, <1>2, ListsFrame
<1>5. Counts'
  BY <1>0, <1>2, CountsFrame
<1>6. Loop'
  BY <1>0 DEF SchedInv, Loop, Scheduling
<1>7. Flights'
  <2> SUFFICES ASSUME NEW q \in Reqs PROVE FlightsOK(q)'
    BY DEF Flights
  <2>1. FlightsOK(q) /\ status \in [Reqs -> {"new", "WAITING", "RUNNING", "PREEMPTED", "FINISHED"}]
    BY DEF SchedInv, Flights, Shapes
  <2>2. ASSUME Async, status[q] # "FINISHED"
        PROVE  Pending(output', batch_queue', q) = Pending(output, batch_queue, q)
    <3>1. CASE r = q /\ p # 0
      <4>1. status[q] = "new"
        BY <1>0, <2>1, <2>2, <3>1 DEF Unfinished
      <4>2. Pending(output, batch_queue, q) = 0
        BY <2>1, <2>2, <4>1 DEF FlightsOK
      <4> QED  BY <1>1, <3>1, <4>2
    <3>2. CASE ~(r = q /\ p # 0)
      BY <1>1, <3>2
    <3> QED  BY <3>1, <3>2
  <2> QED  BY <1>0, <2>1, <2>2 DEF FlightsOK, Discards
<1> QED  BY <1>1, <1>2, <1>3, <1>4, <1>5, <1>6, <1>7 DEF SchedInv, SameTables

LEMMA UpdateDiscardStep ==
  ASSUME SchedInv, update_discard
  PROVE  SchedInv' /\ [KVNext]_kvars
<1>r. PICK r, p : r = Head(output).req /\ p = Head(output).pos
  OBVIOUS
<1>0. /\ pc = "update" /\ pc' = "update" /\ output # <<>> /\ UNCHANGED kvars
      /\ Unfinished(r) /\ p # 0 /\ Async /\ discard_latest_async_tokens[r]
      /\ discard_latest_async_tokens' = [discard_latest_async_tokens EXCEPT ![r] = FALSE]
      /\ output' = Tail(output) /\ batch_queue' = batch_queue
      /\ UNCHANGED <<status, num_computed_tokens, num_output_tokens, num_output_placeholders,
                     running, waiting, finished_req_ids>>
      /\ UNCHANGED <<token_budget, req_index, cur, preempted_reqs, scheduled>>
      /\ UNCHANGED <<stopped_running_reqs, stopped_preempted_reqs, forced_resets>>
  BY <1>r DEF update_discard, queue_vars, local_vars, ghost_vars
<1>1. /\ output' \in Seq(Outputs) /\ r \in Reqs /\ Batches'
      /\ \A q : /\ Pending(output, batch_queue, q) \in Nat
                /\ Pending(output', batch_queue', q) \in Nat
                /\ Pending(output, batch_queue, q) = Pending(output', batch_queue', q)
                     + IF r = q /\ p # 0 THEN 1 ELSE 0
  BY <1>0, <1>r, OutputTaken
<1>2. SameTables
  BY <1>0, NoEffect DEF SchedInv
<1>3. Shapes'
  <2>1. discard_latest_async_tokens' \in [Reqs -> BOOLEAN]
    BY <1>0 DEF SchedInv, Shapes
  <2> QED  BY <1>0, <1>1, <2>1 DEF SchedInv, Shapes
<1>4. Lists'
  BY <1>0, <1>2, ListsFrame
<1>5. Counts'
  BY <1>0, <1>2, CountsFrame
<1>6. Loop'
  BY <1>0 DEF SchedInv, Loop, Scheduling
<1>7. Flights'
  <2> SUFFICES ASSUME NEW q \in Reqs PROVE FlightsOK(q)'
    BY DEF Flights
  <2>1. FlightsOK(q) /\ num_output_placeholders[q] \in Nat
        /\ discard_latest_async_tokens \in [Reqs -> BOOLEAN]
    BY DEF SchedInv, Flights, Shapes
  <2>2. CASE q = r
    <3>1. Discards(q) = 1 /\ forced_resets # 0 /\ status[q] # "FINISHED" /\ status[q] # "new"
      BY <1>0, <2>1, <2>2 DEF Discards, FlightsOK, Unfinished
    <3>2. Discards(q)' = 0
      BY <1>0, <2>1, <2>2 DEF Discards
    <3>3. Pending(output, batch_queue, q) <= num_output_placeholders[q] + 1
      BY <1>0, <2>1, <3>1 DEF FlightsOK
    <3>4. Pending(output', batch_queue', q) <= num_output_placeholders[q] + 0
      BY <1>0, <1>1, <2>1, <2>2, <3>3
    <3> QED  BY <1>0, <3>1, <3>2, <3>4 DEF FlightsOK
  <2>3. CASE q # r
    <3>1. discard_latest_async_tokens'[q] = discard_latest_async_tokens[q]
      BY <1>0, <2>1, <2>3
    <3>2. Pending(output', batch_queue', q) = Pending(output, batch_queue, q)
      BY <1>1, <2>3
    <3> QED  BY <1>0, <2>1, <3>1, <3>2 DEF FlightsOK, Discards
  <2> QED  BY <2>2, <2>3
<1> QED  BY <1>1, <1>2, <1>3, <1>4, <1>5, <1>6, <1>7 DEF SchedInv, SameTables

(* An asynchronous scheduler caches the blocks of the tokens that are      *)
(* known: they are in the table, and no more than the tokens.              *)
LEMMA KnownFacts ==
  ASSUME NEW c \in Nat, NEW p \in Nat \ {0}, NEW t \in Nat, c <= t + p, c <= MaxModelLen, c >= 1,
         NEW k \in Nat, (c - (p - 1)) \div BlockSize > k
  PROVE  LET full == (c - (p - 1)) \div BlockSize
         IN  /\ full \in Nat /\ full <= cdiv(c, BlockSize) /\ full \in 0 .. MaxReqBlocks
             /\ full * BlockSize <= t + 1
<1> DEFINE full == (c - (p - 1)) \div BlockSize
<1>0. BlockSize \in Nat \ {0} /\ MaxReqBlocks \in Nat
  BY SizeFacts
<1>1. full \in Int /\ full * BlockSize <= c - (p - 1)
  BY <1>0, DivFacts
<1>2. full \in Nat
  <2> HIDE DEF full
  <2> SUFFICES full > k
    BY <1>1
  <2> QED  BY DEF full
<1> HIDE DEF full
<1>3. cdiv(c, BlockSize) \in Nat /\ c <= cdiv(c, BlockSize) * BlockSize
      /\ cdiv(c, BlockSize) \in 1 .. MaxReqBlocks
  BY <1>0, CdivFacts, NeedFacts
<1>4. PICK x, y, d : x = full * BlockSize /\ d = cdiv(c, BlockSize) /\ y = d * BlockSize
  OBVIOUS
<1>5. x \in Int /\ y \in Int /\ d \in Nat /\ c <= y /\ x <= c - (p - 1)
  BY <1>0, <1>1, <1>2, <1>3, <1>4
<1>6. x <= y /\ x <= t + 1
  BY <1>5
<1>7. full <= d
  <2> SUFFICES ASSUME d < full PROVE FALSE
    BY <1>2, <1>5
  <2>1. (d + 1) * BlockSize <= full * BlockSize
    BY <1>0, <1>2, <1>5, ScaleMono
  <2>2. (d + 1) * BlockSize = y + BlockSize
    BY <1>0, <1>4, <1>5
  <2>3. y + BlockSize <= y
    BY <1>0, <1>4, <1>5, <1>6, <2>1, <2>2
  <2> QED  BY <1>0, <1>5, <2>3
<1> QED  BY <1>0, <1>2, <1>3, <1>4, <1>6, <1>7 DEF full

LEMMA UpdateTokenStep ==
  ASSUME SchedInv, NEW eos \in BOOLEAN, update_token(eos)
  PROVE  SchedInv' /\ [KVNext]_kvars
<1>r. PICK r, p : r = Head(output).req /\ p = Head(output).pos
  OBVIOUS
<1>n. PICK n, stop, live : /\ n = num_output_tokens[r] + 1 /\ stop = check_stop(r, eos, n)
                           /\ live = (status[r] = "RUNNING")
  OBVIOUS
<1>f. PICK ph : ph = PlaceholdersAfterOutput(r)
  OBVIOUS
<1>0. /\ pc = "update" /\ output # <<>> /\ Unfinished(r) /\ p # 0
      /\ ~(Async /\ discard_latest_async_tokens[r])
      /\ num_output_tokens' = [num_output_tokens EXCEPT ![r] = n]
      /\ num_output_placeholders' = [num_output_placeholders EXCEPT ![r] = ph]
      /\ cache_known_tokens(r) /\ output' = Tail(output)
      /\ UNCHANGED <<num_computed_tokens, discard_latest_async_tokens, running, waiting,
                     finished_req_ids>>
      /\ UNCHANGED <<token_budget, req_index, preempted_reqs, scheduled, batch_queue,
                     forced_resets>>
  BY <1>r, <1>n, <1>f DEF update_token, queue_vars, ghost_vars
<1>s. IF stop
      THEN /\ status' = [status EXCEPT ![r] = "FINISHED"]
           /\ cur' = [req |-> r, n |-> 0] /\ pc' = "stopped"
           /\ stopped_running_reqs' = stopped_running_reqs \cup (IF live THEN {r} ELSE {})
           /\ stopped_preempted_reqs' = stopped_preempted_reqs \cup (IF live THEN {} ELSE {r})
      ELSE UNCHANGED <<status, cur, pc, stopped_running_reqs, stopped_preempted_reqs>>
  BY <1>r, <1>n DEF update_token
<1>1. /\ output' \in Seq(Outputs) /\ r \in Reqs /\ Batches' /\ scheduled = <<>>
      /\ \A q : /\ Pending(output, batch_queue, q) \in Nat
                /\ Pending(output', batch_queue', q) \in Nat
                /\ Pending(output, batch_queue, q) = Pending(output', batch_queue', q)
                     + IF r = q /\ p # 0 THEN 1 ELSE 0
  <2>1. pc' \in {"update", "stopped"} /\ batch_queue' = batch_queue
    BY <1>0, <1>s
  <2> QED  BY <1>0, <1>r, <2>1, OutputTaken
<1>2. /\ num_computed_tokens[r] \in Nat /\ num_output_tokens[r] \in Nat
      /\ num_output_placeholders[r] \in Nat /\ PromptLen[r] \in Nat /\ num_tokens(r) \in Nat
      /\ n \in Nat /\ num_tokens(r) = PromptLen[r] + num_output_tokens[r]
      /\ MaxModelLen \in Nat /\ MaxTokens[r] \in Nat
  <2>1. /\ num_computed_tokens[r] \in Nat /\ num_output_tokens[r] \in Nat
        /\ num_output_placeholders[r] \in Nat
    BY <1>1 DEF SchedInv, Shapes
  <2>2. PromptLen[r] \in Nat /\ MaxModelLen \in Nat /\ MaxTokens[r] \in Nat
    BY <1>1, SizeFacts
  <2> QED  BY <1>n, <2>1, <2>2 DEF num_tokens
<1>3. status[r] \in {"WAITING", "RUNNING", "PREEMPTED"}
  BY <1>0 DEF Unfinished
<1>4. FlightsOK(r) /\ CountsOK(r) /\ Placed(r)
  BY <1>1 DEF SchedInv, Flights, Counts, Lists
<1>5. Async => num_output_placeholders[r] >= 1
  <2> SUFFICES ASSUME Async PROVE num_output_placeholders[r] >= 1
    OBVIOUS
  <2>1. Discards(r) = 0
    BY <1>0 DEF Discards
  <2>2. Pending(output, batch_queue, r) <= num_output_placeholders[r] + 0
    BY <1>3, <1>4, <2>1 DEF FlightsOK
  <2>3. Pending(output, batch_queue, r) >= 1
    BY <1>0, <1>1
  <2> QED  BY <1>1, <1>2, <2>2, <2>3
<1>6. ph \in Nat /\ ph = num_output_placeholders[r] - IF Async THEN 1 ELSE 0
  BY <1>2, <1>5, <1>f DEF PlaceholdersAfterOutput
<1>7. Planned(scheduled, r) = 0 /\ Target(r) = num_computed_tokens[r]
  <2>1. Planned(scheduled, r) = 0
    BY <1>1, EmptyFacts
  <2> QED  BY <1>2, <2>1 DEF Target
<1>8. /\ [KVNext]_kvars /\ KVInv'
      /\ \A q \in Reqs : Len(req_to_blocks'[q]) = Len(req_to_blocks[q])
      /\ \A q \in Reqs : q # r => num_cached_block'[q] = num_cached_block[q]
      /\ status[r] = "RUNNING" => num_cached_block'[r] * BlockSize <= num_tokens(r) + 1
  <2> DEFINE full == (num_computed_tokens[r] - PlaceholdersAfterOutput(r)) \div BlockSize
  <2>1. CASE Async /\ status[r] = "RUNNING" /\ EnableCaching /\ full > num_cached_block[r]
    <3>1. cache_blocks(r, full)
      BY <1>0, <2>1 DEF cache_known_tokens
    <3>2. full = (num_computed_tokens[r] - (num_output_placeholders[r] - 1)) \div BlockSize
      BY <1>6, <1>f, <2>1
    <3>3. /\ num_computed_tokens[r] <= num_tokens(r) + num_output_placeholders[r]
          /\ num_computed_tokens[r] >= 1 /\ num_computed_tokens[r] <= MaxModelLen
          /\ Len(req_to_blocks[r]) = cdiv(num_computed_tokens[r], BlockSize)
      BY <1>2, <1>4, <1>7, <2>1 DEF CountsOK, RunningOK
    <3>4. num_cached_block[r] \in Nat
      BY <1>1, TableFacts DEF SchedInv
    <3>5. PICK c, h, t, k : /\ c = num_computed_tokens[r] /\ h = num_output_placeholders[r]
                            /\ t = num_tokens(r) /\ k = num_cached_block[r]
      OBVIOUS
    <3>6. /\ c \in Nat /\ h \in Nat \ {0} /\ t \in Nat /\ c <= t + h /\ c <= MaxModelLen
          /\ c >= 1 /\ k \in Nat /\ (c - (h - 1)) \div BlockSize > k
      BY <1>2, <1>5, <2>1, <3>2, <3>3, <3>4, <3>5
    <3>7. PICK f : f = (c - (h - 1)) \div BlockSize
      OBVIOUS
    <3>8. /\ f \in Nat /\ f <= cdiv(c, BlockSize) /\ f \in 0 .. MaxReqBlocks
          /\ f * BlockSize <= t + 1
      BY <3>6, <3>7, KnownFacts
    <3>9. cache_blocks(r, f) /\ f <= Len(req_to_blocks[r])
      BY <3>1, <3>2, <3>3, <3>5, <3>7, <3>8
    <3>10. KVEffect(r, Len(req_to_blocks[r]), f)
      BY <1>1, <3>8, <3>9, CommitEffect DEF SchedInv
    <3> QED  BY <3>5, <3>8, <3>10 DEF KVEffect
  <2>2. CASE ~(Async /\ status[r] = "RUNNING" /\ EnableCaching /\ full > num_cached_block[r])
    <3>1. UNCHANGED kvars
      BY <1>0, <2>2 DEF cache_known_tokens
    <3>2. SameTables
      BY <3>1, NoEffect DEF SchedInv
    <3>3. status[r] = "RUNNING" => num_cached_block'[r] * BlockSize <= num_tokens(r) + 1
      <4> SUFFICES ASSUME status[r] = "RUNNING"
                   PROVE  num_cached_block'[r] * BlockSize <= num_tokens(r) + 1
        OBVIOUS
      <4>1. num_cached_block[r] * BlockSize <= num_tokens(r)
        BY <1>4 DEF CountsOK, RunningOK
      <4>2. num_cached_block[r] \in Nat /\ num_cached_block'[r] = num_cached_block[r]
        BY <1>1, <3>2, TableFacts DEF SchedInv, SameTables
      <4>3. num_cached_block[r] * BlockSize \in Nat
        BY <4>2, SizeFacts
      <4> QED  BY <1>2, <4>1, <4>2, <4>3
    <3> QED  BY <3>2, <3>3 DEF SameTables
  <2> QED  BY <2>1, <2>2
<1>9. /\ num_output_tokens'[r] = n /\ num_output_placeholders'[r] = ph
      /\ \A q \in Reqs : q # r => /\ num_output_tokens'[q] = num_output_tokens[q]
                                  /\ num_output_placeholders'[q] = num_output_placeholders[q]
      /\ num_output_tokens' \in [Reqs -> Nat] /\ num_output_placeholders' \in [Reqs -> Nat]
  BY <1>0, <1>1, <1>2, <1>6 DEF SchedInv, Shapes
<1>10. /\ \A q \in Reqs : q # r => status'[q] = status[q]
       /\ status'[r] = IF stop THEN "FINISHED" ELSE status[r]
       /\ status' \in [Reqs -> {"new", "WAITING", "RUNNING", "PREEMPTED", "FINISHED"}]
  BY <1>1, <1>s DEF SchedInv, Shapes
<1>11. Shapes'
  <2>1. /\ stopped_running_reqs' \subseteq Reqs /\ stopped_preempted_reqs' \subseteq Reqs
        /\ pc' \in {"update", "stopped"}
    BY <1>0, <1>1, <1>s DEF SchedInv, Shapes
  <2> QED  BY <1>0, <1>1, <1>9, <1>10, <2>1 DEF SchedInv, Shapes
<1>12. Lists'
  <2>1. CASE ~stop
    <3>1. UNCHANGED <<status, pc, stopped_running_reqs, stopped_preempted_reqs, running, waiting>>
      BY <1>0, <1>s, <2>1
    <3> QED  BY <1>0, <1>8, <3>1 DEF SchedInv, Lists, Placed
  <2>2. CASE stop
    <3>1. cur'.req = r /\ pc' = "stopped" /\ running' = running /\ waiting' = waiting
      BY <1>0, <1>s, <2>2
    <3>2. ASSUME NEW q \in Reqs PROVE Placed(q)'
      <4>1. Placed(q)
        BY DEF SchedInv, Lists
      <4>2. Len(req_to_blocks'[q]) = Len(req_to_blocks[q])
        BY <1>8
      <4>3. CASE q = r
        <5>1. CASE live
          <6>1. stopped_running_reqs' = stopped_running_reqs \cup {r}
                /\ stopped_preempted_reqs' = stopped_preempted_reqs
            BY <1>s, <2>2, <5>1
          <6>2. status[r] = "RUNNING" /\ status'[r] = "FINISHED"
            BY <1>n, <1>10, <2>2, <5>1
          <6> QED  BY <1>4, <3>1, <4>3, <6>1, <6>2 DEF Placed
        <5>2. CASE ~live
          <6>1. stopped_preempted_reqs' = stopped_preempted_reqs \cup {r}
                /\ stopped_running_reqs' = stopped_running_reqs
            BY <1>s, <2>2, <5>2
          <6>2. status[r] \in {"WAITING", "PREEMPTED"} /\ status'[r] = "FINISHED"
            BY <1>3, <1>n, <1>10, <2>2, <5>2
          <6> QED  BY <1>4, <3>1, <4>3, <6>1, <6>2 DEF Placed
        <5> QED  BY <5>1, <5>2
      <4>4. CASE q # r
        <5>1. /\ q \in stopped_running_reqs' <=> q \in stopped_running_reqs
              /\ q \in stopped_preempted_reqs' <=> q \in stopped_preempted_reqs
          BY <1>s, <2>2, <4>4
        <5>2. status'[q] = status[q]
          BY <1>10, <4>4
        <5> QED  BY <1>0, <3>1, <4>1, <4>2, <5>1, <5>2 DEF Placed
      <4> QED  BY <4>3, <4>4
    <3>3. status'[cur'.req] = "FINISHED" /\ cur'.req \in Reqs
      BY <1>1, <1>10, <2>2, <3>1
    <3> QED  BY <3>1, <3>2, <3>3 DEF SchedInv, Lists
  <2> QED  BY <2>1, <2>2
<1>13. Loop'
  <2>1. pc' \in {"update", "stopped"} /\ scheduled' = scheduled /\ running' = running
        /\ req_index' = req_index
    BY <1>0, <1>s
  <2> QED  BY <1>1, <2>1 DEF SchedInv, Loop, Scheduling
<1>14. Counts'
  <2> SUFFICES ASSUME NEW q \in Reqs PROVE CountsOK(q)'
    BY DEF Counts
  <2>1. CountsOK(q)
    BY DEF SchedInv, Counts
  <2>2. num_computed_tokens' = num_computed_tokens /\ scheduled' = scheduled
    BY <1>0
  <2>3. CASE q # r
    <3>1. Len(req_to_blocks'[q]) = Len(req_to_blocks[q]) /\ num_cached_block'[q] = num_cached_block[q]
          /\ status'[q] = status[q] /\ num_output_tokens'[q] = num_output_tokens[q]
          /\ num_output_placeholders'[q] = num_output_placeholders[q]
      BY <1>8, <1>9, <1>10, <2>3
    <3> QED  BY <2>1, <2>2, <3>1 DEF CountsOK, RunningOK, Target, num_tokens
  <2>4. CASE q = r
    <3>1. Target(r)' = num_computed_tokens[r] /\ num_tokens(r)' = num_tokens(r) + 1
      <4>1. Target(r)' = Target(r)
        BY <2>2 DEF Target
      <4>2. PromptLen[r] + n = num_tokens(r) + 1
        BY <1>2, <1>n
      <4> QED  BY <1>7, <1>9, <4>1, <4>2 DEF num_tokens
    <3>2. ASSUME status[r] = "RUNNING" PROVE RunningOK(r)'
      <4>1. /\ num_computed_tokens[r] >= 1
            /\ num_computed_tokens[r] <= num_tokens(r) + num_output_placeholders[r]
            /\ Len(req_to_blocks[r]) = cdiv(num_computed_tokens[r], BlockSize)
        BY <1>4, <1>7, <3>2 DEF CountsOK, RunningOK
      <4>2. num_computed_tokens[r] <= num_tokens(r) + 1 + ph
        BY <1>2, <1>6, <4>1
      <4>3. Len(req_to_blocks'[r]) = Len(req_to_blocks[r])
            /\ num_cached_block'[r] * BlockSize <= num_tokens(r) + 1
        BY <1>1, <1>8, <3>2
      <4> QED  BY <1>9, <3>1, <4>1, <4>2, <4>3 DEF RunningOK
    <3>3. num_tokens(r) < MaxModelLen /\ Target(r) <= MaxModelLen - 1
      BY <1>3, <1>4 DEF CountsOK
    <3>4. ~stop => num_tokens(r) + 1 < MaxModelLen /\ n < MaxTokens[r]
      <4> SUFFICES ASSUME ~stop PROVE num_tokens(r) + 1 < MaxModelLen /\ n < MaxTokens[r]
        OBVIOUS
      <4>1. ~check_stop(r, eos, n)
        BY <1>n
      <4>3. n = num_output_tokens[r] + 1
        BY <1>n
      <4>4. /\ MinTokens[r] \in Nat /\ MinTokens[r] <= MaxTokens[r]
            /\ PromptLen[r] + MinTokens[r] <= MaxModelLen
        BY <1>1, MinTokensFacts
      <4>2. ~(PromptLen[r] + n >= MaxModelLen) /\ ~(n >= MaxTokens[r])
        <5>1. ~(n >= MinTokens[r]) \/ (~(PromptLen[r] + n >= MaxModelLen) /\ ~(n >= MaxTokens[r]))
          BY <4>1, Zenon DEF check_stop
        <5> QED
          BY <1>2, <4>3, <4>4, <5>1
      <4> QED  BY <1>2, <4>2, <4>3
    <3>5. n <= MaxModelLen
      BY <1>2, <1>n, <3>3
    <3>6. status[r] \in {"WAITING", "PREEMPTED"} => num_computed_tokens[r] = 0
      BY <1>4 DEF CountsOK
    <3>7. status'[r] = "FINISHED" \/ (status'[r] = status[r] /\ ~stop)
      BY <1>10
    <3> QED  BY <1>3, <1>7, <1>9, <2>2, <2>4, <3>1, <3>2, <3>3, <3>4, <3>5, <3>6, <3>7
             DEF CountsOK
  <2> QED  BY <2>3, <2>4
<1>15. Flights'
  <2> SUFFICES ASSUME NEW q \in Reqs PROVE FlightsOK(q)'
    BY DEF Flights
  <2>1. FlightsOK(q) /\ num_output_placeholders[q] \in Nat
    BY DEF SchedInv, Flights, Shapes
  <2>2. discard_latest_async_tokens' = discard_latest_async_tokens /\ forced_resets' = forced_resets
    BY <1>0
  <2>3. CASE q # r
    <3>1. Pending(output', batch_queue', q) = Pending(output, batch_queue, q)
      BY <1>1, <2>3
    <3>2. num_output_placeholders'[q] = num_output_placeholders[q] /\ status'[q] = status[q]
      BY <1>9, <1>10, <2>3
    <3> QED  BY <2>1, <2>2, <3>1, <3>2 DEF FlightsOK, Discards
  <2>4. CASE q = r /\ Async
    <3>1. Pending(output, batch_queue, r) = Pending(output', batch_queue', r) + 1
      BY <1>0, <1>1
    <3>2. num_output_placeholders'[r] = num_output_placeholders[r] - 1
      BY <1>6, <1>9, <2>4
    <3>3. Discards(r)' = Discards(r) /\ Discards(r) \in Nat
      BY <2>2 DEF Discards
    <3>4. status[r] # "FINISHED" /\ status'[r] # "new"
      BY <1>3, <1>10
    <3>5. PICK P, Q, x, d : /\ P = Pending(output, batch_queue, r)
                            /\ Q = Pending(output', batch_queue', r)
                            /\ x = num_output_placeholders[r] /\ d = Discards(r)
      OBVIOUS
    <3>6. P \in Nat /\ Q \in Nat /\ P = Q + 1 /\ x \in Nat /\ d \in Nat /\ x >= 1
      BY <1>1, <1>2, <1>5, <2>4, <3>1, <3>3, <3>5
    <3>7. P <= x + d /\ (forced_resets = 0 => ~discard_latest_async_tokens[r] /\ x = P)
      BY <2>1, <2>4, <3>4, <3>5 DEF FlightsOK
    <3>8. Q <= (x - 1) + d /\ (forced_resets = 0 => x - 1 = Q)
      BY <3>6, <3>7
    <3>9. Pending(output, batch_queue, r)' = Q /\ num_output_placeholders'[r] = x - 1
          /\ Discards(r)' = d
      BY <3>2, <3>3, <3>5
    <3> QED  BY <2>2, <2>4, <3>4, <3>7, <3>8, <3>9 DEF FlightsOK
  <2>5. CASE q = r /\ ~Async
    <3>1. num_output_placeholders'[r] = 0
      BY <1>2, <1>4, <1>6, <1>9, <2>5 DEF FlightsOK
    <3> QED  BY <2>5, <3>1 DEF FlightsOK
  <2> QED  BY <2>3, <2>4, <2>5
<1> QED  BY <1>1, <1>8, <1>11, <1>12, <1>13, <1>14, <1>15 DEF SchedInv

LEMMA FreeRequestStep ==
  ASSUME SchedInv, _free_request
  PROVE  SchedInv' /\ [KVNext]_kvars
<1>r. PICK r : r = cur.req
  OBVIOUS
<1>0. /\ pc = "stopped" /\ free(r) /\ finished_req_ids' = finished_req_ids \cup {r}
      /\ pc' = "update"
      /\ UNCHANGED <<status, num_computed_tokens, num_output_tokens, num_output_placeholders,
                     discard_latest_async_tokens, running, waiting>>
      /\ UNCHANGED <<token_budget, req_index, preempted_reqs, scheduled, batch_queue>>
      /\ UNCHANGED <<output, stopped_running_reqs, stopped_preempted_reqs, forced_resets>>
  BY <1>r DEF _free_request, request_vars, output_vars, ghost_vars
<1>1. r \in Reqs /\ status[r] = "FINISHED"
  BY <1>0, <1>r DEF SchedInv, Lists
<1>2. KVEffect(r, 0, 0)
  BY <1>0, <1>1, FreeEffect DEF SchedInv
<1>3. Shapes'
  BY <1>0, <1>1 DEF SchedInv, Shapes
<1>4. Lists'
  <2>1. ASSUME NEW q \in Reqs PROVE Placed(q)'
    <3>1. Placed(q)
      BY DEF SchedInv, Lists
    <3>2. CASE q = r
      BY <1>0, <1>1, <1>2, <3>1, <3>2 DEF Placed, KVEffect
    <3>3. CASE q # r
      BY <1>0, <1>2, <1>r, <3>1, <3>3 DEF Placed, KVEffect
    <3> QED  BY <3>2, <3>3
  <2> QED  BY <1>0, <2>1 DEF SchedInv, Lists
<1>5. Loop'
  BY <1>0 DEF SchedInv, Loop, Scheduling
<1>6. Counts'
  <2> SUFFICES ASSUME NEW q \in Reqs PROVE CountsOK(q)'
    BY DEF Counts
  <2>1. CountsOK(q)
    BY DEF SchedInv, Counts
  <2> QED  BY <1>0, <1>1, <1>2, <2>1 DEF CountsOK, RunningOK, Target, num_tokens, KVEffect
<1>7. Batches' /\ Flights'
  BY <1>0, BatchesFrame, FlightsFrame
<1> QED  BY <1>2, <1>3, <1>4, <1>5, <1>6, <1>7 DEF SchedInv, KVEffect

LEMMA UpdateEndStep ==
  ASSUME SchedInv, update_end
  PROVE  SchedInv' /\ [KVNext]_kvars
<1>0. /\ pc = "update" /\ output = <<>> /\ pc' = "idle" /\ UNCHANGED kvars
      /\ running' = Keep(running, Reqs \ stopped_running_reqs)
      /\ waiting' = Keep(waiting, Reqs \ stopped_preempted_reqs)
      /\ stopped_running_reqs' = {} /\ stopped_preempted_reqs' = {}
      /\ UNCHANGED <<status, num_computed_tokens, num_output_tokens, num_output_placeholders,
                     discard_latest_async_tokens, finished_req_ids>>
      /\ UNCHANGED <<token_budget, req_index, cur, preempted_reqs, scheduled, batch_queue>>
      /\ UNCHANGED <<output, forced_resets>>
  BY DEF update_end, remove_all, remove_requests, request_vars, local_vars, ghost_vars
<1>1. /\ running' \in Seq(Reqs) /\ Elems(running') = Elems(running) \ stopped_running_reqs
      /\ Distinct(running')
      /\ waiting' \in Seq(Reqs) /\ Elems(waiting') = Elems(waiting) \ stopped_preempted_reqs
      /\ Distinct(waiting')
  BY <1>0, RemoveFacts DEF SchedInv, Shapes, Lists
<1>2. Len(running') \in Nat /\ Len(running') <= Len(running)
  BY <1>0, RemoveLength DEF SchedInv, Shapes
<1>3. SameTables
  BY <1>0, NoEffect DEF SchedInv
<1>4. Shapes'
  BY <1>0, <1>1 DEF SchedInv, Shapes
<1>5. Lists'
  <2>1. ASSUME NEW q \in Reqs PROVE Placed(q)'
    <3>1. Placed(q)
      BY DEF SchedInv, Lists
    <3> QED  BY <1>0, <1>1, <1>3, <3>1 DEF Placed, SameTables
  <2> QED  BY <1>0, <1>1, <2>1 DEF Lists
<1>6. Loop'
  <2>1. scheduled = <<>> /\ scheduled' = <<>>
    BY <1>0 DEF SchedInv, Loop, Scheduling
  <2>2. Len(running') <= MaxNumRunningReqs
    BY <1>2, SizeFacts DEF SchedInv, Loop, Shapes
  <2> QED  BY <1>0, <2>1, <2>2, EmptyFacts DEF SchedInv, Loop, Scheduling
<1>7. Counts' /\ Flights'
  BY <1>0, <1>3, CountsFrame, FlightsFrame
<1>8. Batches'
  BY <1>0 DEF SchedInv, Batches
<1> QED  BY <1>3, <1>4, <1>5, <1>6, <1>7, <1>8 DEF SchedInv, SameTables

LEMMA StutterStep ==
  ASSUME SchedInv, UNCHANGED vars
  PROVE  SchedInv' /\ [KVNext]_kvars
<1>0. UNCHANGED kvars /\ UNCHANGED <<request_vars, queue_vars, pc, local_vars, batch_queue>>
      /\ UNCHANGED <<output_vars, ghost_vars>>
  BY DEF vars
<1> USE DEF request_vars, queue_vars, local_vars, output_vars, ghost_vars
<1>1. SameTables
  BY <1>0, NoEffect DEF SchedInv
<1>2. Shapes'
  BY <1>0 DEF SchedInv, Shapes
<1>3. Lists'
  BY <1>0, <1>1 DEF SchedInv, SameTables, Lists, Placed
<1>4. Counts' /\ Flights'
  BY <1>0, <1>1, CountsFrame, FlightsFrame
<1>5. Loop'
  BY <1>0 DEF SchedInv, Loop, Scheduling, Current, num_tokens
<1>6. Batches'
  BY <1>0 DEF SchedInv, Batches
<1> QED  BY <1>1, <1>2, <1>3, <1>4, <1>5, <1>6 DEF SchedInv, SameTables

(* Every step of the scheduler keeps the invariant, and what it does to    *)
(* the KV cache is one of the cache's own steps.                           *)
LEMMA SchedStep ==
  ASSUME SchedInv, [Next]_vars
  PROVE  SchedInv' /\ [KVNext]_kvars
<1>1. CASE ClientStep
  <2>1. CASE \E r \in Reqs : add_request(r)
    BY <2>1, AddStep
  <2>2. CASE \E r \in Reqs : finish_requests(r)
    BY <2>2, FinishStep
  <2>3. CASE reset_prefix_cache_if_unused
    BY <2>3, ResetUnusedStep
  <2>4. CASE reset_begin
    BY <2>4, ResetBeginStep
  <2> QED  BY <1>1, <2>1, <2>2, <2>3, <2>4 DEF ClientStep
<1>2. CASE EngineStep
  <2>1. CASE reset_preempt
    BY <2>1, ResetPreemptStep
  <2>2. CASE reset_end
    BY <2>2, ResetEndStep
  <2>3. CASE schedule_begin
    BY <2>3, ScheduleBeginStep
  <2>4. CASE running_skip
    BY <2>4, RunningSkipStep
  <2>5. CASE running_pick
    BY <2>5, RunningPickStep
  <2>6. CASE running_allocate
    BY <2>6, RunningAllocateStep
  <2>7. CASE running_preempt
    BY <2>7, RunningPreemptStep
  <2>8. CASE running_done
    BY <2>8, RunningDoneStep
  <2>9. CASE waiting_admit
    BY <2>9, WaitingAdmitStep
  <2>10. CASE schedule_end
    BY <2>10, ScheduleEndStep
  <2>11. CASE await_begin
    BY <2>11, AwaitBeginStep
  <2>12. CASE update_begin
    BY <2>12, UpdateBeginStep
  <2>13. CASE update_nothing
    BY <2>13, UpdateNothingStep
  <2>14. CASE update_discard
    BY <2>14, UpdateDiscardStep
  <2>15. CASE \E eos \in BOOLEAN : update_token(eos)
    BY <2>15, UpdateTokenStep
  <2>16. CASE _free_request
    BY <2>16, FreeRequestStep
  <2>17. CASE update_end
    BY <2>17, UpdateEndStep
  <2> QED  BY <1>2, <2>1, <2>2, <2>3, <2>4, <2>5, <2>6, <2>7, <2>8, <2>9, <2>10, <2>11, <2>12,
              <2>13, <2>14, <2>15, <2>16, <2>17 DEF EngineStep
<1>3. CASE UNCHANGED vars
  BY <1>3, StutterStep
<1> QED  BY <1>1, <1>2, <1>3 DEF Next

LEMMA SchedInvHolds == Spec => []SchedInv
<1>1. Init => SchedInv
  BY InitSchedInv
<1>2. SchedInv /\ [Next]_vars => SchedInv'
  BY SchedStep
<1> QED  BY <1>1, <1>2, PTL DEF Spec

-----------------------------------------------------------------------------
(* The scheduler drives the KV cache within its interface: every behaviour *)
(* of Spec, seen through the cache's variables, is one of KVSpec, so that  *)
(* what is proved of the cache alone holds under the scheduler.            *)
THEOREM SchedulerUsesKV == Spec => KVSpec
<1>1. Init => KVInit
  BY DEF Init
<1>2. SchedInv /\ [Next]_vars => [KVNext]_kvars
  BY SchedStep
<1>3. Spec => []SchedInv
  BY SchedInvHolds
<1> QED  BY <1>1, <1>2, <1>3, PTL DEF Spec, KVSpec

(* Under the scheduler, too, a block table only grows at its end until it  *)
(* is freed: what has been handed to the model runner stays in place.      *)
THEOREM TablesGrowUnderScheduler == Spec => AppendOnly
BY SchedulerUsesKV, TablesAppendOnly, PTL

(* And a cached block always has its predecessors in the cache, as long as *)
(* no KV connector evicts blocks on its own.                               *)
THEOREM PrefixesClosedUnderScheduler ==
  ASSUME ~ConnectorEvicts
  PROVE  Spec => []PrefixClosed
<1>1. KVSpec => []PrefixClosed
  BY CachedPrefixesClosed
<1> QED  BY <1>1, SchedulerUsesKV, PTL

(* The types and the ranges the code relies on.                            *)
THEOREM SchedulerTypesHold == Spec => []TypeOK
<1>1. SchedInv => TypeOK
  <2> SUFFICES ASSUME SchedInv PROVE TypeOK
    OBVIOUS
  <2>1. \A r \in Reqs : num_computed_tokens[r] \in 0 .. MaxModelLen
                        /\ num_output_tokens[r] \in 0 .. MaxModelLen
    <3> SUFFICES ASSUME NEW r \in Reqs
                 PROVE  num_computed_tokens[r] \in 0 .. MaxModelLen
                        /\ num_output_tokens[r] \in 0 .. MaxModelLen
      OBVIOUS
    <3>1. CountsOK(r) /\ num_computed_tokens[r] \in Nat /\ num_output_tokens[r] \in Nat
          /\ MaxModelLen \in Nat
      BY SizeFacts DEF SchedInv, Shapes, Counts
    <3>2. Planned(scheduled, r) \in Nat
      BY PlannedFacts DEF SchedInv, Shapes, Loop
    <3>3. num_computed_tokens[r] + Planned(scheduled, r) <= MaxModelLen - 1
          /\ num_output_tokens[r] <= MaxModelLen
      BY <3>1 DEF CountsOK, Target
    <3> QED  BY <3>1, <3>2, <3>3
  <2>2. Elems(running) \cup Elems(waiting) \cup finished_req_ids \subseteq Reqs
    <3>1. /\ \A i \in 1 .. Len(running) : running[i] \in Reqs
          /\ \A i \in 1 .. Len(waiting) : waiting[i] \in Reqs
          /\ finished_req_ids \subseteq Reqs
      BY DEF SchedInv, Shapes
    <3> QED  BY <3>1 DEF Elems
  <2>3. req_index \in 1 .. Cardinality(Reqs) + 1
    <3>1. Cardinality(Reqs) \in Nat
      BY ConstAssumption, FS_CardinalityType
    <3> QED  BY <3>1 DEF SchedInv, Shapes, Loop
  <2>4. ASSUME NEW b \in Elems(batch_queue) \cup {output}
        PROVE  Elems(b) \subseteq [req : Reqs, pos : 0 .. MaxModelLen]
    <3>1. b \in Seq(Outputs)
      <4>1. /\ output \in Seq(Outputs)
            /\ \A i \in 1 .. Len(batch_queue) : batch_queue[i] \in Seq(Outputs)
        BY DEF SchedInv, Shapes
      <4> QED  BY <2>4, <4>1 DEF Elems
    <3>2. \A i \in 1 .. Len(b) : b[i] \in Outputs
      BY <3>1
    <3> QED  BY <3>2 DEF Elems, Outputs
  <2>5. num_computed_tokens \in [Reqs -> 0 .. MaxModelLen]
        /\ num_output_tokens \in [Reqs -> 0 .. MaxModelLen]
    BY <2>1 DEF SchedInv, Shapes
  <2> QED  BY <2>2, <2>3, <2>4, <2>5 DEF SchedInv, Shapes, Batches, TypeOK
<1> QED  BY <1>1, SchedInvHolds, PTL

LEMMA QueuesFollow == SchedInv => QueuesMatchStatus
<1> SUFFICES ASSUME SchedInv, pc \notin {"update", "stopped"}
             PROVE  /\ Distinct(running \o waiting)
                    /\ Elems(running) = {r \in Reqs : status[r] = "RUNNING"}
                    /\ Elems(waiting) = {r \in Reqs : status[r] \in {"WAITING", "PREEMPTED"}}
                    /\ \A r \in Reqs : status[r] # "RUNNING" => req_to_blocks[r] = <<>>
  BY DEF QueuesMatchStatus
<1>1. /\ running \in Seq(Reqs) /\ waiting \in Seq(Reqs) /\ Distinct(running) /\ Distinct(waiting)
      /\ \A r \in Reqs : Placed(r)
      /\ stopped_running_reqs = {} /\ stopped_preempted_reqs = {}
  BY DEF SchedInv, Shapes, Lists
<1>2. Elems(running) \subseteq Reqs /\ Elems(waiting) \subseteq Reqs
  BY <1>1 DEF Elems
<1>3. /\ \A r \in Reqs : r \in Elems(running) <=> status[r] = "RUNNING"
      /\ \A r \in Reqs : r \in Elems(waiting) <=> status[r] \in {"WAITING", "PREEMPTED"}
      /\ \A r \in Reqs : status[r] # "RUNNING" => Len(req_to_blocks[r]) = 0
  BY <1>1 DEF Placed
<1>4. Elems(running) \cap Elems(waiting) = {}
  BY <1>2, <1>3
<1>5. Distinct(running \o waiting)
  BY <1>1, <1>4, ConcatDistinct
<1>6. \A r \in Reqs : status[r] # "RUNNING" => req_to_blocks[r] = <<>>
  BY <1>3, TableFacts DEF SchedInv
<1> QED  BY <1>2, <1>3, <1>5, <1>6

(* Between the engine's updates a request is in the list its status says,  *)
(* once, and only running requests hold blocks.                            *)
THEOREM QueuesAreRight == Spec => []QueuesMatchStatus
BY QueuesFollow, SchedInvHolds, PTL

(* Nothing is computed beyond the tokens known or in flight, and nothing   *)
(* is put in the prefix cache beyond the tokens known.                     *)
THEOREM ComputesKnownTokens == Spec => []NeverAheadOfTokens
<1>1. SchedInv => NeverAheadOfTokens
  <2> SUFFICES ASSUME SchedInv, NEW r \in Reqs, status[r] = "RUNNING"
               PROVE  /\ num_computed_tokens[r] <= num_tokens(r) + num_output_placeholders[r]
                      /\ num_cached_block[r] * BlockSize <= num_tokens(r)
    BY DEF NeverAheadOfTokens
  <2>1. RunningOK(r)
    BY DEF SchedInv, Counts, CountsOK
  <2>2. Planned(scheduled, r) \in Nat /\ num_computed_tokens[r] \in Nat
    BY PlannedFacts DEF SchedInv, Shapes, Loop
  <2>3. num_tokens(r) \in Nat /\ num_output_placeholders[r] \in Nat
    BY SizeFacts DEF SchedInv, Shapes, num_tokens
  <2> QED  BY <2>1, <2>2, <2>3 DEF RunningOK, Target
<1> QED  BY <1>1, SchedInvHolds, PTL

(* A forced reset has freed every block when it comes to the reset.        *)
THEOREM ForcedResetSucceeds == Spec => []ResetSucceeds
<1>1. SchedInv => ResetSucceeds
  <2> SUFFICES ASSUME SchedInv, pc = "resetting", running = <<>> PROVE CanReset
    BY DEF ResetSucceeds
  <2>1. \A r \in Reqs : status[r] # "RUNNING"
    BY EmptyFacts DEF SchedInv, Lists, Placed
  <2>2. \A r \in Reqs : Len(req_to_blocks[r]) = 0
    BY <2>1 DEF SchedInv, Lists, Placed
  <2>3. \A r \in Reqs : req_to_blocks[r] = <<>>
    BY <2>2, TableFacts DEF SchedInv
  <2> QED  BY <2>3, ResetWhenEmpty DEF SchedInv
<1> QED  BY <1>1, SchedInvHolds, PTL
=============================================================================
