----------------------- MODULE SchedulerOutputProofs ------------------------
(***************************************************************************)
(* More proofs about module Scheduler, on top of the inductive invariant   *)
(* SchedInv of SchedulerProofs: the assertions of schedule() (Budget), the *)
(* order of arrival under FCFS (Arrivals and InLine), the placeholders of  *)
(* the asynchronous scheduler, and that every output is for the next token *)
(* of its request and within its limits (Delivery), and that the KV data   *)
(* of computed tokens are where they are read (DataInv and Cursor).  Each  *)
(* of these is inductive relative to SchedInv, the last one together with  *)
(* EvictionOrder of KVCacheManagerProofs.                                  *)
(***************************************************************************)
EXTENDS SchedulerProofs

-----------------------------------------------------------------------------
(* The token budget.                                                       *)

(* One cell for every token scheduled; TokensScheduled counts them.        *)
Cells(s) == {p \in (1 .. Len(s)) \X (1 .. MaxNumScheduledTokens) : p[2] <= s[p[1]].n}
Within(s) == \A i \in 1 .. Len(s) : s[i].n <= MaxNumScheduledTokens
Budget ==
  Scheduling => /\ Within(scheduled)
                /\ Cardinality(Cells(scheduled)) + token_budget = MaxNumScheduledTokens

LEMMA CellsFinite ==
  ASSUME NEW s, Len(s) \in Nat
  PROVE  IsFiniteSet(Cells(s)) /\ Cardinality(Cells(s)) \in Nat
<1> DEFINE A == (1 .. Len(s)) \X (1 .. MaxNumScheduledTokens)
<1>1. IsFiniteSet(1 .. Len(s)) /\ IsFiniteSet(1 .. MaxNumScheduledTokens)
  BY SizeFacts, FS_Interval
<1>2. IsFiniteSet(A)
  BY <1>1, FS_Product
<1>3. Cells(s) \subseteq A
  BY DEF Cells
<1> HIDE DEF A
<1> QED  BY <1>2, <1>3, FS_Subset, FS_CardinalityType

(* The cells of one entry.                                                 *)
Column(j, n) == {j} \X (1 .. n)
LEMMA ColumnFacts ==
  ASSUME NEW j, NEW n \in Nat
  PROVE  IsFiniteSet(Column(j, n)) /\ Cardinality(Column(j, n)) = n
<1>1. IsFiniteSet(1 .. n) /\ Cardinality(1 .. n) = n
  BY FS_Interval
<1>2. IsFiniteSet({j}) /\ Cardinality({j}) = 1
  BY FS_Singleton
<1> DEFINE A == {j}
           B == 1 .. n
<1>3. IsFiniteSet(A) /\ IsFiniteSet(B) /\ Cardinality(A) = 1 /\ Cardinality(B) = n
  BY <1>1, <1>2
<1> HIDE DEF A, B
<1>4. IsFiniteSet(A \X B) /\ Cardinality(A \X B) = 1 * n
  BY <1>3, FS_Product
<1> QED  BY <1>4 DEF Column, A, B

LEMMA DisjointUnion ==
  ASSUME NEW S, NEW T, IsFiniteSet(S), IsFiniteSet(T), S \cap T = {}
  PROVE  Cardinality(S \cup T) = Cardinality(S) + Cardinality(T)
<1>1. Cardinality(S \cup T) = Cardinality(S) + Cardinality(T) - Cardinality(S \cap T)
  BY FS_Union
<1>2. Cardinality(S \cap T) = 0
  BY FS_EmptySet
<1>3. Cardinality(S) \in Nat /\ Cardinality(T) \in Nat
  BY FS_CardinalityType
<1> QED  BY <1>1, <1>2, <1>3

(* Scheduling a request takes its tokens out of the budget.                *)
LEMMA CellsAppend ==
  ASSUME NEW s \in Seq(Entries), Within(s), NEW e \in Entries, e.n <= MaxNumScheduledTokens,
         NEW a, a = Append(s, e)
  PROVE  Within(a) /\ Cardinality(Cells(a)) = Cardinality(Cells(s)) + e.n
<1> DEFINE L == Len(s)
           C == Column(L + 1, e.n)
<1>1. /\ L \in Nat /\ Len(a) = L + 1 /\ a[L + 1] = e
      /\ \A i \in 1 .. L : a[i] = s[i]
  OBVIOUS
<1>2. e.n \in Nat /\ MaxNumScheduledTokens \in Nat
  BY SizeFacts DEF Entries
<1>3. Within(a)
  BY <1>1 DEF Within
<1>4. Cells(a) = Cells(s) \cup C
  <2>1. ASSUME NEW p \in Cells(a) PROVE p \in Cells(s) \cup C
    <3>1. /\ p = <<p[1], p[2]>> /\ p[1] \in 1 .. L + 1 /\ p[2] \in 1 .. MaxNumScheduledTokens
          /\ p[2] <= a[p[1]].n
      BY <1>1, <2>1 DEF Cells
    <3>2. CASE p[1] \in 1 .. L
      <4>1. p \in (1 .. Len(s)) \X (1 .. MaxNumScheduledTokens) /\ p[2] <= s[p[1]].n
        BY <1>1, <3>1, <3>2
      <4> QED  BY <4>1 DEF Cells
    <3>3. CASE p[1] = L + 1
      <4>1. p[2] \in 1 .. e.n
        BY <1>1, <1>2, <3>1, <3>3
      <4> QED  BY <3>1, <3>3, <4>1 DEF Column
    <3> QED  BY <1>1, <3>1, <3>2, <3>3
  <2>2. ASSUME NEW p \in Cells(s) PROVE p \in Cells(a)
    <3>1. p \in (1 .. L) \X (1 .. MaxNumScheduledTokens) /\ p[2] <= s[p[1]].n
      BY <2>2 DEF Cells
    <3>2. p \in (1 .. Len(a)) \X (1 .. MaxNumScheduledTokens) /\ p[2] <= a[p[1]].n
      BY <1>1, <3>1
    <3> QED  BY <3>2 DEF Cells
  <2>3. ASSUME NEW p \in C PROVE p \in Cells(a)
    <3>1. p = <<L + 1, p[2]>> /\ p[1] = L + 1 /\ p[2] \in 1 .. e.n
      BY <2>3 DEF Column
    <3>2. p \in (1 .. Len(a)) \X (1 .. MaxNumScheduledTokens) /\ p[2] <= a[p[1]].n
      BY <1>1, <1>2, <3>1
    <3> QED  BY <3>2 DEF Cells
  <2> QED  BY <2>1, <2>2, <2>3
<1>5. Cells(s) \cap C = {}
  <2> SUFFICES ASSUME NEW p \in Cells(s), p \in C PROVE FALSE
    OBVIOUS
  <2>1. p[1] \in 1 .. L /\ p[1] = L + 1
    BY DEF Cells, Column
  <2> QED  BY <1>1, <2>1
<1>6. IsFiniteSet(C) /\ Cardinality(C) = e.n
  BY <1>2, ColumnFacts
<1>7. IsFiniteSet(Cells(s))
  BY <1>1, CellsFinite
<1> HIDE DEF C
<1> QED  BY <1>3, <1>4, <1>5, <1>6, <1>7, DisjointUnion

(* Un-scheduling a request gives exactly its tokens back.                  *)
LEMMA CellsWithout ==
  ASSUME NEW s \in Seq(Entries), Within(s), NEW j \in 1 .. Len(s), NEW k,
         Len(k) = Len(s) - 1,
         \A i \in 1 .. Len(s) - 1 : k[i] = IF i < j THEN s[i] ELSE s[i + 1]
  PROVE  Within(k) /\ Cardinality(Cells(k)) + s[j].n = Cardinality(Cells(s))
<1> DEFINE L == Len(s)
           M == MaxNumScheduledTokens
           C == Column(j, s[j].n)
           at(i) == IF i < j THEN i ELSE i + 1
           R == {p \in Cells(s) : p[1] # j}
           f == [p \in Cells(k) |-> <<at(p[1]), p[2]>>]
<1>0. /\ L \in Nat \ {0} /\ j \in Nat \ {0} /\ j <= L /\ M \in Nat
      /\ s[j].n \in Nat /\ s[j].n <= M
  <2>1. s[j] \in Entries
    OBVIOUS
  <2> QED  BY <2>1, SizeFacts DEF Entries, Within
<1>1. \A i \in 1 .. L - 1 : /\ at(i) \in 1 .. L /\ at(i) # j /\ k[i] = s[at(i)]
  BY <1>0
<1>2. \A x, y \in 1 .. L - 1 : at(x) = at(y) => x = y
  BY <1>0
<1>3. \A i \in 1 .. L : i # j => \E x \in 1 .. L - 1 : at(x) = i
  <2> SUFFICES ASSUME NEW i \in 1 .. L, i # j PROVE \E x \in 1 .. L - 1 : at(x) = i
    OBVIOUS
  <2>1. CASE i < j
    <3>1. i \in 1 .. L - 1 /\ at(i) = i
      BY <1>0, <2>1
    <3> QED  BY <3>1
  <2>2. CASE i > j
    <3>1. i - 1 \in 1 .. L - 1 /\ at(i - 1) = i
      BY <1>0, <2>2
    <3> QED  BY <3>1
  <2> QED  BY <1>0, <2>1, <2>2
<1> HIDE DEF at
<1>4. Within(k)
  BY <1>0, <1>1 DEF Within
<1>5. ASSUME NEW p PROVE p \in Cells(k) <=> /\ p = <<p[1], p[2]>> /\ p[1] \in 1 .. L - 1
                                            /\ p[2] \in 1 .. M /\ p[2] <= s[at(p[1])].n
  BY <1>1 DEF Cells
<1>6. ASSUME NEW p PROVE p \in R <=> /\ p = <<p[1], p[2]>> /\ p[1] \in 1 .. L /\ p[1] # j
                                     /\ p[2] \in 1 .. M /\ p[2] <= s[p[1]].n
  BY DEF Cells
<1>7. f \in Bijection(Cells(k), R)
  <2>1. \A p \in Cells(k) : f[p] = <<at(p[1]), p[2]>>
    OBVIOUS
  <2>d. DOMAIN f = Cells(k) /\ f = [p \in Cells(k) |-> f[p]]
    OBVIOUS
  <2> HIDE DEF f, R
  <2>2. \A p \in Cells(k) : f[p] \in R
    <3> SUFFICES ASSUME NEW p \in Cells(k) PROVE f[p] \in R
      OBVIOUS
    <3>1. /\ p[1] \in 1 .. L - 1 /\ p[2] \in 1 .. M /\ p[2] <= s[at(p[1])].n
      BY <1>5
    <3>2. PICK x, y : x = at(p[1]) /\ y = p[2]
      OBVIOUS
    <3>3. x \in 1 .. L /\ x # j /\ y \in 1 .. M /\ y <= s[x].n
      BY <1>1, <3>1, <3>2
    <3>4. f[p] = <<x, y>>
      BY <2>1, <3>2
    <3> QED  BY <1>6, <3>3, <3>4
  <2>3. \A p, q \in Cells(k) : f[p] = f[q] => p = q
    <3> SUFFICES ASSUME NEW p \in Cells(k), NEW q \in Cells(k), f[p] = f[q] PROVE p = q
      OBVIOUS
    <3>1. /\ p = <<p[1], p[2]>> /\ p[1] \in 1 .. L - 1
          /\ q = <<q[1], q[2]>> /\ q[1] \in 1 .. L - 1
      BY <1>5
    <3>2. at(p[1]) = at(q[1]) /\ p[2] = q[2]
      BY <2>1
    <3>3. p[1] = q[1]
      BY <1>2, <3>1, <3>2
    <3> QED  BY <3>1, <3>2, <3>3
  <2>4. \A r \in R : \E p \in Cells(k) : f[p] = r
    <3> SUFFICES ASSUME NEW r \in R PROVE \E p \in Cells(k) : f[p] = r
      OBVIOUS
    <3>1. r = <<r[1], r[2]>> /\ r[1] \in 1 .. L /\ r[1] # j /\ r[2] \in 1 .. M /\ r[2] <= s[r[1]].n
      BY <1>6
    <3>2. PICK x \in 1 .. L - 1 : at(x) = r[1]
      BY <1>3, <3>1
    <3>3. PICK p : p = <<x, r[2]>>
      OBVIOUS
    <3>4. p[1] = x /\ p[2] = r[2] /\ p = <<p[1], p[2]>>
      BY <3>3
    <3>5. p \in Cells(k)
      BY <1>5, <3>1, <3>2, <3>4
    <3>6. f[p] = <<r[1], r[2]>>
      BY <2>1, <3>2, <3>4, <3>5
    <3> QED  BY <3>1, <3>5, <3>6
  <2>5. f \in [Cells(k) -> R]
    BY <2>d, <2>2
  <2>6. f \in Injection(Cells(k), R)
    BY <2>3, <2>5 DEF Injection, IsInjective
  <2>7. f \in Surjection(Cells(k), R)
    BY <2>4, <2>5 DEF Surjection
  <2> QED  BY <2>6, <2>7 DEF Bijection
<1>8. IsFiniteSet(Cells(k)) /\ IsFiniteSet(Cells(s))
  <2>1. Len(k) \in Nat
    BY <1>0
  <2> QED  BY <1>0, <2>1, CellsFinite
<1>9. IsFiniteSet(R) /\ Cardinality(R) = Cardinality(Cells(k))
  <2>1. ExistsBijection(Cells(k), R)
    BY <1>7 DEF ExistsBijection
  <2> HIDE DEF R
  <2> QED  BY <1>8, <2>1, FS_Bijection
<1>10. IsFiniteSet(C) /\ Cardinality(C) = s[j].n
  BY <1>0, ColumnFacts
<1>11. Cells(s) = R \cup C
  <2>1. ASSUME NEW p \in Cells(s) PROVE p \in R \cup C
    <3>1. CASE p[1] # j
      BY <2>1, <3>1
    <3>2. CASE p[1] = j
      <4>1. p = <<j, p[2]>> /\ p[2] \in 1 .. M /\ p[2] <= s[j].n
        BY <2>1, <3>2 DEF Cells
      <4>2. p[2] \in 1 .. s[j].n
        BY <1>0, <4>1
      <4> QED  BY <4>1, <4>2 DEF Column
    <3> QED  BY <3>1, <3>2
  <2>2. ASSUME NEW p \in C PROVE p \in Cells(s)
    <3>1. p = <<j, p[2]>> /\ p[1] = j /\ p[2] \in 1 .. s[j].n
      BY <2>2 DEF Column
    <3>2. p[2] \in 1 .. M /\ p[2] <= s[j].n
      BY <1>0, <3>1
    <3>3. p \in (1 .. L) \X (1 .. M)
      BY <3>1, <3>2
    <3> QED  BY <3>1, <3>2, <3>3 DEF Cells
  <2> QED  BY <2>1, <2>2
<1>12. R \cap C = {}
  BY DEF Column
<1> HIDE DEF R, C
<1>13. Cardinality(Cells(s)) = Cardinality(R) + Cardinality(C)
  BY <1>9, <1>10, <1>11, <1>12, DisjointUnion
<1> QED  BY <1>4, <1>9, <1>10, <1>13

-----------------------------------------------------------------------------
(* Lists without repetition and the order of their elements.               *)

(* The order of the elements that are kept is the order they had.          *)
LEMMA KeepOrder ==
  ASSUME NEW T, NEW s \in Seq(T), NEW S, NEW a, NEW b, Precedes(Keep(s, S), a, b)
  PROVE  Precedes(s, a, b)
<1> DEFINE I == {i \in 1 .. Len(s) : s[i] \in S}
           C == Cardinality(I)
           at(k) == CHOOSE i \in I : Rank(I, i) = k
           K == Keep(s, S)
<1>0. Len(s) \in Nat /\ I \in SUBSET (1 .. Len(s))
  OBVIOUS
<1>1. K = [k \in 1 .. C |-> s[at(k)]]
  BY DEF Keep
<1>2. C \in Nat /\ \A c \in 1 .. C : \E i \in I : Rank(I, i) = c
  <2> HIDE DEF I
  <2> QED  BY <1>0, RankBijective
<1>3. Len(K) = C /\ \A k \in 1 .. C : K[k] = s[at(k)]
  BY <1>1, <1>2
<1>4. \A k \in 1 .. C : at(k) \in I /\ Rank(I, at(k)) = k
  BY <1>2
<1>5. PICK x \in 1 .. C, y \in 1 .. C : x < y /\ K[x] = a /\ K[y] = b
  <2> HIDE DEF K
  <2> QED  BY <1>3 DEF Precedes, K
<1> HIDE DEF at
<1>6. at(x) < at(y)
  <2> SUFFICES ASSUME at(y) <= at(x) PROVE FALSE
    BY <1>0, <1>4
  <2>1. Rank(I, at(y)) <= Rank(I, at(x))
    <3> DEFINE A == {j \in I : j <= at(y)}
               B == {j \in I : j <= at(x)}
    <3>1. A \subseteq B
      BY <1>0, <1>4
    <3>2. IsFiniteSet(B)
      <4>1. IsFiniteSet(1 .. Len(s)) /\ B \subseteq 1 .. Len(s)
        BY <1>0, FS_Interval
      <4> HIDE DEF B
      <4> QED  BY <4>1, FS_Subset
    <3>3. Cardinality(A) <= Cardinality(B)
      <4> HIDE DEF A, B
      <4> QED  BY <3>1, <3>2, FS_Subset
    <3> QED  BY <3>3 DEF Rank
  <2> QED  BY <1>2, <1>4, <1>5, <2>1
<1>7. at(x) \in 1 .. Len(s) /\ at(y) \in 1 .. Len(s)
  BY <1>4
<1>8. s[at(x)] = a /\ s[at(y)] = b
  BY <1>3, <1>5
<1> QED  BY <1>6, <1>7, <1>8 DEF Precedes

LEMMA ElemsCount ==
  ASSUME NEW T, NEW s \in Seq(T), Distinct(s)
  PROVE  IsFiniteSet(Elems(s)) /\ Cardinality(Elems(s)) = Len(s)
<1> DEFINE D == 1 .. Len(s)
           E == Elems(s)
<1>0. Len(s) \in Nat
  OBVIOUS
<1>1. Len(s) \in Nat /\ IsFiniteSet(D) /\ Cardinality(D) = Len(s)
  <2>1. PICK n \in Nat : n = Len(s)
    BY <1>0
  <2>2. IsFiniteSet(1 .. n) /\ Cardinality(1 .. n) = n
    <3>1. 1 \in Int /\ n \in Int
      OBVIOUS
    <3>2. /\ IsFiniteSet(1 .. n)
          /\ Cardinality(1 .. n) = IF 1 > n THEN 0 ELSE n - 1 + 1
      BY <3>1, FS_Interval
    <3> QED  BY <3>2
  <2> QED  BY <2>1, <2>2
<1>2. s \in [D -> E]
  BY DEF Elems
<1>3. s \in Injection(D, E)
  BY <1>2 DEF Injection, IsInjective, Distinct
<1>4. s \in Surjection(D, E)
  BY <1>2 DEF Surjection, Elems
<1>5. ExistsBijection(D, E)
  BY <1>3, <1>4 DEF ExistsBijection, Bijection
<1> HIDE DEF D, E
<1>6. IsFiniteSet(E) /\ Cardinality(E) = Cardinality(D)
  BY <1>1, <1>5, FS_Bijection
<1> QED  BY <1>1, <1>6 DEF E

(* The elements and their order determine the list.                        *)
LEMMA SameOrder ==
  ASSUME NEW T, NEW s \in Seq(T), NEW t \in Seq(T), Distinct(s), Distinct(t),
         Elems(s) = Elems(t), \A a, b : Precedes(s, a, b) => Precedes(t, a, b)
  PROVE  s = t
<1>1. Len(s) = Len(t) /\ Len(s) \in Nat
  BY ElemsCount
<1> DEFINE F == {i \in 1 .. Len(s) : s[i] # t[i]}
<1>2. ASSUME F # {} PROVE FALSE
  <2>1. PICK i \in F : \A j \in F : i <= j
    <3>1. F \in SUBSET Nat
      OBVIOUS
    <3> HIDE DEF F
    <3> QED  BY <1>2, <3>1, LeastNatural
  <2>2. i \in 1 .. Len(s) /\ s[i] # t[i] /\ \A j \in 1 .. Len(s) : j < i => s[j] = t[j]
    BY <1>1, <2>1
  <2>3. PICK j \in 1 .. Len(t) : t[j] = s[i]
    BY <1>1, <2>2 DEF Elems
  <2>4. PICK k \in 1 .. Len(s) : s[k] = t[i]
    BY <1>1, <2>2 DEF Elems
  <2>5. j > i
    <3>1. j # i
      BY <2>2, <2>3
    <3>2. ~(j < i)
      <4> SUFFICES ASSUME j < i PROVE FALSE
        OBVIOUS
      <4>1. s[j] = s[i] /\ j \in 1 .. Len(s)
        BY <1>1, <2>2, <2>3
      <4>2. j = i
        BY <2>2, <4>1 DEF Distinct
      <4> QED  BY <3>1, <4>2
    <3> QED  BY <1>1, <2>2, <3>1, <3>2
  <2>6. k > i
    <3>1. k # i
      BY <2>2, <2>4
    <3>2. ~(k < i)
      <4> SUFFICES ASSUME k < i PROVE FALSE
        OBVIOUS
      <4>1. t[k] = t[i] /\ k \in 1 .. Len(t) /\ i \in 1 .. Len(t)
        BY <1>1, <2>2, <2>4
      <4>2. k = i
        BY <4>1 DEF Distinct
      <4> QED  BY <3>1, <4>2
    <3> QED  BY <1>1, <2>2, <3>1, <3>2
  <2>7. Precedes(s, s[i], t[i])
    BY <2>2, <2>4, <2>6 DEF Precedes
  <2>8. PICK x \in 1 .. Len(t), y \in 1 .. Len(t) : x < y /\ t[x] = s[i] /\ t[y] = t[i]
    BY <2>7 DEF Precedes
  <2>9. x = j /\ y = i
    BY <1>1, <2>2, <2>3, <2>8 DEF Distinct
  <2> QED  BY <1>1, <2>2, <2>5, <2>8, <2>9
<1>3. \A i \in 1 .. Len(s) : s[i] = t[i]
  BY <1>2
<1> QED  BY <1>1, <1>3

LEMMA KeepAll ==
  ASSUME NEW T, NEW s \in Seq(T), Distinct(s), NEW S, \A i \in 1 .. Len(s) : s[i] \in S
  PROVE  Keep(s, S) = s
<1>1. Keep(s, S) \in Seq(T) /\ Elems(Keep(s, S)) = Elems(s) \cap S /\ Distinct(Keep(s, S))
  BY KeepFacts
<1>2. Elems(s) \cap S = Elems(s)
  BY DEF Elems
<1>3. \A a, b : Precedes(Keep(s, S), a, b) => Precedes(s, a, b)
  BY KeepOrder
<1> QED  BY <1>1, <1>2, <1>3, SameOrder

LEMMA EmptyCells == Within(<<>>) /\ Cardinality(Cells(<<>>)) = 0
<1>1. Cells(<<>>) = {}
  BY DEF Cells
<1> QED  BY <1>1, FS_EmptySet DEF Within

LEMMA BudgetFrame ==
  ASSUME Budget, Scheduling' => Scheduling /\ scheduled' = scheduled /\ token_budget' = token_budget
  PROVE  Budget'
BY DEF Budget

(* Appending an entry that the budget can pay for.                         *)
LEMMA BudgetSpend ==
  ASSUME SchedInv, SchedInv', Budget, Scheduling, NEW e,
         scheduled' = Append(scheduled, e), token_budget' = token_budget - e.n
  PROVE  Budget'
<1>1. /\ scheduled \in Seq(Entries) /\ token_budget \in Nat /\ Len(scheduled) \in Nat
      /\ scheduled' \in Seq(Entries) /\ token_budget' \in Nat
  BY DEF SchedInv, Shapes
<1>2. e \in Entries
  <2>1. PICK a : a = Append(scheduled, e)
    OBVIOUS
  <2>2. a \in Seq(Entries) /\ Len(a) = Len(scheduled) + 1 /\ a[Len(scheduled) + 1] = e
    BY <1>1, <2>1
  <2>3. Len(scheduled) + 1 \in 1 .. Len(a)
    BY <1>1, <2>2
  <2>4. a[Len(scheduled) + 1] \in Entries
    BY <2>2, <2>3
  <2> QED  BY <2>2, <2>4
<1>3. e.n \in Nat /\ MaxNumScheduledTokens \in Nat
  BY <1>2, SizeFacts DEF Entries
<1>4. Within(scheduled) /\ Cardinality(Cells(scheduled)) + token_budget = MaxNumScheduledTokens
  BY DEF Budget
<1>5. Cardinality(Cells(scheduled)) \in Nat
  BY <1>1, CellsFinite
<1>6. e.n <= MaxNumScheduledTokens
  BY <1>1, <1>3, <1>4, <1>5
<1>7. PICK a : a = Append(scheduled, e)
  OBVIOUS
<1>8. Within(a) /\ Cardinality(Cells(a)) = Cardinality(Cells(scheduled)) + e.n
  BY <1>1, <1>2, <1>4, <1>6, <1>7, CellsAppend
<1>9. scheduled' = a
  BY <1>7
<1>10. Within(scheduled')
       /\ Cardinality(Cells(scheduled')) + token_budget' = MaxNumScheduledTokens
  BY <1>1, <1>3, <1>4, <1>5, <1>8, <1>9
<1> QED  BY <1>10 DEF Budget

LEMMA BudgetPreempt ==
  ASSUME SchedInv, Budget, running_preempt
  PROVE  Budget'
<1>v. PICK v : v = Victim
  OBVIOUS
<1>b. PICK back : back = {e \in Elems(scheduled) : e.req = v}
  OBVIOUS
<1>0. /\ pc = "allocate" /\ scheduled' = Keep(scheduled, Elems(scheduled) \ back)
      /\ token_budget' = token_budget + TokensBack(back)
  BY <1>v, <1>b DEF running_preempt, ScheduledNow
<1>1. /\ scheduled \in Seq(Entries) /\ OncePer(scheduled) /\ Len(scheduled) \in Nat
      /\ token_budget \in Nat /\ MaxNumScheduledTokens \in Nat
  BY SizeFacts DEF SchedInv, Shapes, Loop
<1>2. Within(scheduled) /\ Cardinality(Cells(scheduled)) + token_budget = MaxNumScheduledTokens
  BY <1>0 DEF Budget, Scheduling
<1>3. TokensBack(back) = Planned(scheduled, v) /\ Planned(scheduled, v) \in Nat
  BY <1>1, <1>b, BackFacts, PlannedFacts
<1>d. Distinct(scheduled)
  BY <1>1 DEF OncePer, Distinct
<1> DEFINE S == Elems(scheduled) \ back
<1>4. CASE v \in ReqsOf(scheduled)
  <2>1. PICK j \in 1 .. Len(scheduled) : scheduled[j].req = v
    BY <1>4 DEF ReqsOf
  <2>2. \A i \in 1 .. Len(scheduled) : scheduled[i] \in S <=> i # j
    <3> SUFFICES ASSUME NEW i \in 1 .. Len(scheduled) PROVE scheduled[i] \in S <=> i # j
      OBVIOUS
    <3>1. scheduled[i] \in Elems(scheduled)
      BY DEF Elems
    <3>2. scheduled[i] \in back <=> scheduled[i].req = v
      BY <1>b, <3>1
    <3>3. scheduled[i].req = v <=> i = j
      BY <1>1, <2>1 DEF OncePer
    <3> QED  BY <3>1, <3>2, <3>3
  <2> HIDE DEF S
  <2>3. PICK k : k = Keep(scheduled, S)
    OBVIOUS
  <2>4. Len(k) = Len(scheduled) - 1
        /\ \A i \in 1 .. Len(scheduled) - 1 : k[i] = IF i < j THEN scheduled[i] ELSE scheduled[i + 1]
    BY <1>1, <1>d, <2>2, <2>3, RemoveOne
  <2>5. Within(k) /\ Cardinality(Cells(k)) + scheduled[j].n = Cardinality(Cells(scheduled))
    BY <1>1, <1>2, <2>4, CellsWithout
  <2>6. Planned(scheduled, v) = scheduled[j].n
    BY <1>1, <2>1, PlannedFacts
  <2>7. scheduled' = k
    BY <1>0, <2>3 DEF S
  <2>8. Cardinality(Cells(k)) \in Nat
    <3>1. Len(k) \in Nat
      BY <1>1, <2>4
    <3> QED  BY <3>1, CellsFinite
  <2>9. Cardinality(Cells(k)) + token_budget' = MaxNumScheduledTokens
    BY <1>0, <1>1, <1>2, <1>3, <2>5, <2>6, <2>8
  <2> QED  BY <2>5, <2>7, <2>9 DEF Budget
<1>5. CASE v \notin ReqsOf(scheduled)
  <2>1. \A i \in 1 .. Len(scheduled) : scheduled[i] \in S
    <3> SUFFICES ASSUME NEW i \in 1 .. Len(scheduled) PROVE scheduled[i] \in S
      OBVIOUS
    <3>1. scheduled[i] \in Elems(scheduled) /\ scheduled[i].req # v
      BY <1>5 DEF Elems, ReqsOf
    <3> QED  BY <1>b, <3>1
  <2> HIDE DEF S
  <2>2. PICK k : k = Keep(scheduled, S)
    OBVIOUS
  <2>3. k = scheduled
    BY <1>1, <1>d, <2>1, <2>2, KeepAll
  <2>4. scheduled' = k
    BY <1>0, <2>2 DEF S
  <2>5. Planned(scheduled, v) = 0
    BY <1>1, <1>5, PlannedFacts
  <2>6. scheduled' = scheduled /\ token_budget' = token_budget
    BY <1>0, <1>1, <1>3, <2>3, <2>4, <2>5
  <2> QED  BY <1>2, <2>6 DEF Budget
<1> QED  BY <1>4, <1>5

LEMMA BudgetStep ==
  ASSUME SchedInv, Budget, [Next]_vars
  PROVE  Budget'
<1>s. SchedInv'
  BY SchedStep
<1> USE DEF Scheduling
<1>1. CASE ClientStep \/ reset_preempt \/ reset_end \/ await_begin
  <2>1. pc' \notin {"running", "allocate", "waiting"}
    BY <1>1 DEF ClientStep, add_request, finish_requests, reset_prefix_cache_if_unused, reset_begin,
                reset_preempt, reset_end, await_begin
  <2> QED  BY <2>1, BudgetFrame
<1>2. CASE schedule_begin
  <2>1. scheduled' = <<>> /\ token_budget' = MaxNumScheduledTokens /\ MaxNumScheduledTokens \in Nat
    BY <1>2, SizeFacts DEF schedule_begin
  <2> QED  BY <2>1, EmptyCells DEF Budget
<1>3. CASE running_skip \/ running_pick \/ running_done
  <2>1. scheduled' = scheduled /\ token_budget' = token_budget /\ pc \in {"running", "allocate", "waiting"}
    BY <1>3 DEF running_skip, running_pick, running_done, local_vars
  <2> QED  BY <2>1, BudgetFrame
<1>4. CASE running_allocate
  <2>1. scheduled' = Append(scheduled, cur) /\ token_budget' = token_budget - cur.n /\ Scheduling
    BY <1>4 DEF running_allocate
  <2> QED  BY <1>s, <2>1, BudgetSpend
<1>5. CASE running_preempt
  BY <1>5, BudgetPreempt
<1>6. CASE waiting_admit
  <2>1. PICK e, n : /\ e.n = n /\ scheduled' = Append(scheduled, e)
                    /\ token_budget' = token_budget - n /\ Scheduling
    <3>1. PICK n : n = Capped(Remaining(waiting[1], Len(NextHits) * BlockSize), {})
      OBVIOUS
    <3>2. PICK e : e = [req |-> waiting[1], n |-> n]
      OBVIOUS
    <3>3. scheduled' = Append(scheduled, e) /\ token_budget' = token_budget - n /\ Scheduling
      BY <1>6, <3>1, <3>2 DEF waiting_admit
    <3>4. e.n = n
      BY <3>2
    <3> QED  BY <3>3, <3>4
  <2>2. token_budget' = token_budget - e.n
    BY <2>1
  <2> QED  BY <1>s, <2>1, <2>2, BudgetSpend
<1>7. CASE schedule_end \/ update_begin \/ update_nothing \/ update_discard
           \/ (\E eos \in BOOLEAN : update_token(eos)) \/ _free_request \/ update_end
  <2>1. pc' \notin {"running", "allocate", "waiting"}
    BY <1>7 DEF schedule_end, AfterSchedule, update_begin, update_nothing, update_discard,
                update_token, _free_request, update_end
  <2> QED  BY <2>1, BudgetFrame
<1>8. CASE UNCHANGED vars
  <2>1. scheduled' = scheduled /\ token_budget' = token_budget /\ pc' = pc
    BY <1>8 DEF vars, local_vars
  <2> QED  BY <2>1, BudgetFrame
<1> QED  BY <1>1, <1>2, <1>3, <1>4, <1>5, <1>6, <1>7, <1>8 DEF Next, EngineStep

(* The assertions of schedule(): the tokens scheduled and the budget left  *)
(* always make up max_num_scheduled_tokens, also after a victim that was   *)
(* already scheduled has been taken out; never more than                   *)
(* max_num_running_reqs requests run; and none is scheduled twice.         *)
THEOREM ScheduleAssertsHold == Spec => []ScheduleAsserts
<1>1. Init => Budget
  BY DEF Init, Budget, Scheduling
<1>2. SchedInv /\ Budget /\ [Next]_vars => Budget'
  BY BudgetStep
<1>3. SchedInv /\ Budget => ScheduleAsserts
  <2> SUFFICES ASSUME SchedInv, Budget PROVE ScheduleAsserts
    OBVIOUS
  <2>1. Len(running) <= MaxNumRunningReqs
    BY DEF SchedInv, Loop
  <2>2. ASSUME Scheduling
        PROVE  token_budget >= 0 /\ TokensScheduled + token_budget = MaxNumScheduledTokens
    <3>1. TokensScheduled = Cardinality(Cells(scheduled))
      BY DEF TokensScheduled, Cells
    <3>2. token_budget \in Nat
      BY DEF SchedInv, Shapes
    <3> QED  BY <2>2, <3>1, <3>2 DEF Budget
  <2>3. ASSUME NEW i \in 1 .. Len(scheduled), NEW j \in 1 .. Len(scheduled)
        PROVE  /\ scheduled[i].n > 0 /\ scheduled[i].req \in Elems(running)
               /\ scheduled[i].req = scheduled[j].req => i = j
    <3>1. scheduled[i] \in Entries /\ OncePer(scheduled) /\ ReqsOf(scheduled) \subseteq Elems(running)
      BY DEF SchedInv, Shapes, Loop
    <3>2. scheduled[i].n \in Nat \ {0}
      BY <3>1 DEF Entries
    <3> QED  BY <3>1, <3>2 DEF OncePer, ReqsOf
  <2> QED  BY <2>1, <2>2, <2>3 DEF ScheduleAsserts
<1> QED  BY <1>1, <1>2, <1>3, SchedInvHolds, PTL DEF Spec

-----------------------------------------------------------------------------
(* First come, first served.                                               *)

(* The order of two requests in a list that grows or shrinks at its ends.  *)
LEMMA AppendOrder ==
  ASSUME NEW T, NEW s \in Seq(T), NEW x \in T, NEW a, NEW b, Precedes(Append(s, x), a, b)
  PROVE  Precedes(s, a, b) \/ (a \in Elems(s) /\ b = x)
<1>1. /\ Len(Append(s, x)) = Len(s) + 1 /\ Len(s) \in Nat /\ Append(s, x)[Len(s) + 1] = x
      /\ \A i \in 1 .. Len(s) : Append(s, x)[i] = s[i]
  OBVIOUS
<1>2. PICK i \in 1 .. Len(s) + 1, j \in 1 .. Len(s) + 1 :
        i < j /\ Append(s, x)[i] = a /\ Append(s, x)[j] = b
  BY <1>1 DEF Precedes
<1>3. i \in 1 .. Len(s) /\ s[i] = a
  BY <1>1, <1>2
<1>4. CASE j = Len(s) + 1
  BY <1>1, <1>2, <1>3, <1>4 DEF Elems
<1>5. CASE j # Len(s) + 1
  <2>1. j \in 1 .. Len(s) /\ s[j] = b
    BY <1>1, <1>2, <1>5
  <2> QED  BY <1>2, <1>3, <2>1 DEF Precedes
<1> QED  BY <1>4, <1>5

LEMMA AppendKeepsOrder ==
  ASSUME NEW T, NEW s \in Seq(T), NEW x \in T, NEW a, NEW b,
         Precedes(s, a, b) \/ (a \in Elems(s) /\ b = x)
  PROVE  Precedes(Append(s, x), a, b)
<1> DEFINE t == Append(s, x)
<1>1. /\ Len(t) = Len(s) + 1 /\ Len(s) \in Nat /\ t[Len(s) + 1] = x
      /\ \A i \in 1 .. Len(s) : t[i] = s[i]
  OBVIOUS
<1> HIDE DEF t
<1>2. CASE Precedes(s, a, b)
  <2>1. PICK i \in 1 .. Len(s), j \in 1 .. Len(s) : i < j /\ s[i] = a /\ s[j] = b
    BY <1>2 DEF Precedes
  <2>2. i \in 1 .. Len(t) /\ j \in 1 .. Len(t) /\ t[i] = a /\ t[j] = b
    BY <1>1, <2>1
  <2>3. Precedes(t, a, b)
    BY <2>1, <2>2 DEF Precedes
  <2> QED  BY <2>3 DEF t
<1>3. CASE a \in Elems(s) /\ b = x
  <2>1. PICK i \in 1 .. Len(s) : s[i] = a
    BY <1>3 DEF Elems
  <2>2. i \in 1 .. Len(t) /\ Len(s) + 1 \in 1 .. Len(t) /\ i < Len(s) + 1 /\ t[i] = a
    BY <1>1, <2>1
  <2>3. Precedes(t, a, b)
    BY <1>1, <1>3, <2>2 DEF Precedes
  <2> QED  BY <2>3 DEF t
<1> QED  BY <1>2, <1>3

LEMMA ConcatOrder ==
  ASSUME NEW T, NEW s \in Seq(T), NEW t \in Seq(T), NEW a, NEW b, Precedes(s \o t, a, b)
  PROVE  Precedes(s, a, b) \/ Precedes(t, a, b) \/ (a \in Elems(s) /\ b \in Elems(t))
<1>1. PICK c : c = s \o t
  OBVIOUS
<1>2. /\ Len(c) = Len(s) + Len(t)
      /\ \A i \in 1 .. Len(s) : c[i] = s[i]
      /\ \A i \in 1 .. Len(s) + Len(t) : i > Len(s) =>
           i - Len(s) \in 1 .. Len(t) /\ c[i] = t[i - Len(s)]
  BY <1>1, ConcatFacts
<1>3. Len(s) \in Nat /\ Len(t) \in Nat
  OBVIOUS
<1>4. PICK i \in 1 .. Len(s) + Len(t), j \in 1 .. Len(s) + Len(t) : i < j /\ c[i] = a /\ c[j] = b
  BY <1>1, <1>2 DEF Precedes
<1>5. CASE j <= Len(s)
  <2>1. i \in 1 .. Len(s) /\ j \in 1 .. Len(s) /\ s[i] = a /\ s[j] = b
    BY <1>2, <1>3, <1>4, <1>5
  <2> QED  BY <1>4, <2>1 DEF Precedes
<1>6. CASE i > Len(s)
  <2>1. j > Len(s)
    BY <1>3, <1>4, <1>6
  <2>2. i - Len(s) \in 1 .. Len(t) /\ j - Len(s) \in 1 .. Len(t)
        /\ t[i - Len(s)] = a /\ t[j - Len(s)] = b
    BY <1>2, <1>4, <1>6, <2>1
  <2>3. i - Len(s) < j - Len(s)
    BY <1>3, <1>4
  <2> QED  BY <2>2, <2>3 DEF Precedes
<1>7. CASE i <= Len(s) /\ j > Len(s)
  <2>1. i \in 1 .. Len(s) /\ s[i] = a /\ j - Len(s) \in 1 .. Len(t) /\ t[j - Len(s)] = b
    BY <1>2, <1>3, <1>4, <1>7
  <2> QED  BY <2>1 DEF Elems
<1> QED  BY <1>3, <1>4, <1>5, <1>6, <1>7

LEMMA PrependOrder ==
  ASSUME NEW s \in Seq(Reqs), NEW r \in Reqs, NEW a, NEW b, Precedes(<<r>> \o s, a, b)
  PROVE  Precedes(s, a, b) \/ (a = r /\ b \in Elems(s))
<1>1. PICK one : one = <<r>>
  OBVIOUS
<1>2. one \in Seq(Reqs) /\ Elems(one) = {r} /\ Len(one) = 1
  BY <1>1, OneElement
<1>3. ~Precedes(one, a, b)
  BY <1>2 DEF Precedes
<1>4. Precedes(one, a, b) \/ Precedes(s, a, b) \/ (a \in Elems(one) /\ b \in Elems(s))
  <2>1. Precedes(one \o s, a, b)
    BY <1>1
  <2> QED  BY <1>2, <2>1, ConcatOrder
<1> QED  BY <1>2, <1>3, <1>4

LEMMA TailOrder ==
  ASSUME NEW T, NEW s \in Seq(T), s # <<>>, NEW a, NEW b
  PROVE  /\ Precedes(Tail(s), a, b) => Precedes(s, a, b)
         /\ a = s[1] /\ b \in Elems(Tail(s)) => Precedes(s, a, b)
<1>1. PICK t : t = Tail(s)
  OBVIOUS
<1>2. Len(s) \in Nat \ {0} /\ Len(t) = Len(s) - 1 /\ \A i \in 1 .. Len(s) - 1 : t[i] = s[i + 1]
  BY <1>1, TailFacts
<1>3. ASSUME Precedes(t, a, b) PROVE Precedes(s, a, b)
  <2>1. PICK i \in 1 .. Len(t), j \in 1 .. Len(t) : i < j /\ t[i] = a /\ t[j] = b
    BY <1>3 DEF Precedes
  <2>2. /\ i + 1 \in 1 .. Len(s) /\ j + 1 \in 1 .. Len(s) /\ i + 1 < j + 1
        /\ s[i + 1] = a /\ s[j + 1] = b
    BY <1>2, <2>1
  <2> QED  BY <2>2 DEF Precedes
<1>4. ASSUME a = s[1], b \in Elems(t) PROVE Precedes(s, a, b)
  <2>1. PICK j \in 1 .. Len(t) : t[j] = b
    BY <1>4 DEF Elems
  <2>2. 1 \in 1 .. Len(s) /\ j + 1 \in 1 .. Len(s) /\ 1 < j + 1 /\ s[j + 1] = b
    BY <1>2, <2>1
  <2> QED  BY <1>4, <2>2 DEF Precedes
<1> QED  BY <1>1, <1>3, <1>4

LEMMA LastOrder ==
  ASSUME NEW s \in Seq(Reqs), s # <<>>, NEW a \in Elems(s), a # s[Len(s)]
  PROVE  Precedes(s, a, s[Len(s)])
<1>1. Len(s) \in Nat \ {0}
  OBVIOUS
<1>2. PICK i \in 1 .. Len(s) : s[i] = a
  BY DEF Elems
<1>3. i < Len(s) /\ Len(s) \in 1 .. Len(s)
  BY <1>1, <1>2
<1> QED  BY <1>2, <1>3 DEF Precedes

LEMMA FrontOrder ==
  ASSUME NEW s \in Seq(Reqs), s # <<>>, NEW a, NEW b, Precedes(SubSeq(s, 1, Len(s) - 1), a, b)
  PROVE  Precedes(s, a, b)
<1>1. PICK t : t = SubSeq(s, 1, Len(s) - 1)
  OBVIOUS
<1>2. Len(s) \in Nat \ {0} /\ Len(t) = Len(s) - 1 /\ \A i \in 1 .. Len(s) - 1 : t[i] = s[i]
  <2>1. Len(s) \in Nat \ {0}
    OBVIOUS
  <2>2. PICK n : n = Len(s) - 1
    OBVIOUS
  <2>3. n \in 0 .. Len(s)
    BY <2>1, <2>2
  <2>4. Len(SubSeq(s, 1, n)) = n /\ \A i \in 1 .. n : SubSeq(s, 1, n)[i] = s[i]
    BY <2>3, SplitFacts
  <2> QED  BY <1>1, <2>1, <2>2, <2>4
<1>p. Precedes(t, a, b)
  BY <1>1
<1>3. PICK i \in 1 .. Len(t), j \in 1 .. Len(t) : i < j /\ t[i] = a /\ t[j] = b
  BY <1>p DEF Precedes
<1>4. i \in 1 .. Len(s) /\ j \in 1 .. Len(s) /\ s[i] = a /\ s[j] = b
  BY <1>2, <1>3
<1> QED  BY <1>3, <1>4 DEF Precedes

(* Request a comes before b in the running list followed by the waiting    *)
(* queue.  Under FCFS that is the order in which they arrived.             *)
Ahead(a, b) ==
  \/ Precedes(running, a, b) \/ Precedes(waiting, a, b)
  \/ a \in Elems(running) /\ b \in Elems(waiting)
Arrivals ==
  /\ arrival \in Seq(Reqs) /\ Distinct(arrival)
  /\ \A r \in Reqs : r \in Elems(arrival) <=> status[r] # "new"
InLine == Policy = "fcfs" => \A a, b : Ahead(a, b) => Precedes(arrival, a, b)

(* Nobody gets ahead of anybody in a step that adds no request.            *)
NoOvertaking == Policy = "fcfs" => \A a, b : Ahead(a, b)' => Ahead(a, b)

LEMMA PreemptLast ==
  ASSUME SchedInv, running # <<>>, NEW r, r = running[Len(running)],
         Elems(running') = Elems(running) \ {r},
         \A a, b : Precedes(running', a, b) => Precedes(running, a, b),
         waiting' = prepend_request(waiting, r)
  PROVE  NoOvertaking
<1> SUFFICES ASSUME Policy = "fcfs", NEW a, NEW b, Ahead(a, b)' PROVE Ahead(a, b)
  BY DEF NoOvertaking
<1>1. /\ running \in Seq(Reqs) /\ waiting \in Seq(Reqs) /\ Len(running) \in Nat \ {0}
      /\ r \in Reqs /\ r \in Elems(running)
  <2>1. running \in Seq(Reqs) /\ waiting \in Seq(Reqs)
    BY DEF SchedInv, Shapes
  <2>2. Len(running) \in Nat \ {0}
    BY <2>1
  <2>3. Len(running) \in 1 .. Len(running)
    BY <2>2
  <2> QED  BY <2>1, <2>2, <2>3 DEF Elems
<1>2. PICK w : w = waiting'
  OBVIOUS
<1>3. Elems(w) = Elems(waiting) \cup {r}
  BY <1>1, <1>2, PrependInserted DEF Inserted
<1>4. w = <<r>> \o waiting
  BY <1>2 DEF prepend_request
<1>5. Precedes(running', a, b) \/ Precedes(w, a, b) \/ (a \in Elems(running') /\ b \in Elems(w))
  BY <1>2 DEF Ahead
<1>6. CASE Precedes(running', a, b)
  BY <1>6 DEF Ahead
<1>7. CASE Precedes(w, a, b)
  <2>1. Precedes(waiting, a, b) \/ (a = r /\ b \in Elems(waiting))
    <3>1. Precedes(<<r>> \o waiting, a, b)
      BY <1>4, <1>7
    <3> QED  BY <1>1, <3>1, PrependOrder
  <2> QED  BY <1>1, <2>1 DEF Ahead
<1>8. CASE a \in Elems(running') /\ b \in Elems(w)
  <2>1. a \in Elems(running) /\ a # r
    BY <1>8
  <2>2. CASE b \in Elems(waiting)
    BY <2>1, <2>2 DEF Ahead
  <2>3. CASE b = r
    <3>1. Precedes(running, a, running[Len(running)])
      BY <1>1, <2>1, LastOrder
    <3> QED  BY <2>3, <3>1 DEF Ahead
  <2> QED  BY <1>3, <1>8, <2>2, <2>3
<1> QED  BY <1>5, <1>6, <1>7, <1>8

LEMMA AdmitInOrder ==
  ASSUME SchedInv, waiting # <<>>, waiting' = Tail(waiting), running' = Append(running, waiting[1])
  PROVE  NoOvertaking
<1> SUFFICES ASSUME NEW a, NEW b, Ahead(a, b)' PROVE Ahead(a, b)
  BY DEF NoOvertaking
<1>1. running \in Seq(Reqs) /\ waiting \in Seq(Reqs)
  BY DEF SchedInv, Shapes
<1>2. PICK r, w, u : r = waiting[1] /\ w = Tail(waiting) /\ u = Append(running, r)
  OBVIOUS
<1>3. r \in Reqs /\ r \in Elems(waiting) /\ Elems(waiting) = {r} \cup Elems(w)
  BY <1>1, <1>2, TailFacts
<1>4. Elems(u) = Elems(running) \cup {r}
  BY <1>1, <1>2, <1>3, AppendFacts
<1>5. Precedes(u, a, b) \/ Precedes(w, a, b) \/ (a \in Elems(u) /\ b \in Elems(w))
  BY <1>2 DEF Ahead
<1>6. CASE Precedes(u, a, b)
  <2>1. Precedes(running, a, b) \/ (a \in Elems(running) /\ b = r)
    <3>1. Precedes(Append(running, r), a, b)
      BY <1>2, <1>6
    <3> QED  BY <1>1, <1>3, <3>1, AppendOrder
  <2> QED  BY <1>3, <2>1 DEF Ahead
<1>t. (Precedes(w, a, b) => Precedes(waiting, a, b)) /\ (a = r /\ b \in Elems(w) => Precedes(waiting, a, b))
  BY <1>1, <1>2, TailOrder
<1>7. CASE Precedes(w, a, b)
  BY <1>t, <1>7 DEF Ahead
<1>8. CASE a \in Elems(u) /\ b \in Elems(w)
  <2>1. b \in Elems(waiting)
    BY <1>3, <1>8
  <2>2. a \in Elems(running) \/ a = r
    BY <1>4, <1>8
  <2> QED  BY <1>t, <1>8, <2>1, <2>2 DEF Ahead
<1> QED  BY <1>5, <1>6, <1>7, <1>8

LEMMA RemoveInOrder ==
  ASSUME SchedInv, NEW A, NEW B, running' = Keep(running, A), waiting' = Keep(waiting, B)
  PROVE  NoOvertaking
<1> SUFFICES ASSUME NEW a, NEW b, Ahead(a, b)' PROVE Ahead(a, b)
  BY DEF NoOvertaking
<1>1. running \in Seq(Reqs) /\ waiting \in Seq(Reqs)
  BY DEF SchedInv, Shapes
<1>2. PICK u, w : u = Keep(running, A) /\ w = Keep(waiting, B)
  OBVIOUS
<1>3. Elems(u) = Elems(running) \cap A /\ Elems(w) = Elems(waiting) \cap B
  BY <1>1, <1>2, KeepFacts
<1>4. Precedes(u, a, b) \/ Precedes(w, a, b) \/ (a \in Elems(u) /\ b \in Elems(w))
  BY <1>2 DEF Ahead
<1>5. Precedes(u, a, b) => Precedes(running, a, b)
  <2> SUFFICES ASSUME Precedes(Keep(running, A), a, b) PROVE Precedes(running, a, b)
    BY <1>2
  <2> QED  BY <1>1, KeepOrder
<1>6. Precedes(w, a, b) => Precedes(waiting, a, b)
  <2> SUFFICES ASSUME Precedes(Keep(waiting, B), a, b) PROVE Precedes(waiting, a, b)
    BY <1>2
  <2> QED  BY <1>1, KeepOrder
<1> QED  BY <1>3, <1>4, <1>5, <1>6 DEF Ahead

(* A new request goes to the end of the line.                              *)
LEMMA ArriveLast ==
  ASSUME SchedInv, Arrivals, InLine, NEW r \in Reqs, add_request(r)
  PROVE  Arrivals' /\ InLine'
<1>0. /\ status[r] = "new" /\ status' = [status EXCEPT ![r] = "WAITING"]
      /\ waiting' = add_to_queue(waiting, r) /\ arrival' = Append(arrival, r) /\ running' = running
  BY DEF add_request
<1>1. /\ running \in Seq(Reqs) /\ waiting \in Seq(Reqs)
      /\ status'[r] = "WAITING" /\ \A q \in Reqs : q # r => status'[q] = status[q]
  BY <1>0 DEF SchedInv, Shapes
<1>2. PICK t : t = Append(arrival, r)
  OBVIOUS
<1>3. t \in Seq(Reqs) /\ Elems(t) = Elems(arrival) \cup {r} /\ Distinct(t)
  <2>1. r \notin Elems(arrival)
    BY <1>0 DEF Arrivals
  <2> QED  BY <1>2, <2>1, AppendFacts DEF Arrivals
<1>4. Arrivals'
  <2> SUFFICES ASSUME NEW q \in Reqs PROVE q \in Elems(t) <=> status'[q] # "new"
    BY <1>0, <1>2, <1>3 DEF Arrivals
  <2>1. q \in Elems(arrival) <=> status[q] # "new"
    BY DEF Arrivals
  <2> QED  BY <1>1, <1>3, <2>1
<1>5. ASSUME Policy = "fcfs", NEW a, NEW b, Ahead(a, b)' PROVE Precedes(t, a, b)
  <2>1. PICK w : w = Append(waiting, r)
    OBVIOUS
  <2>2. waiting' = w
    BY <1>0, <1>5, <2>1 DEF add_to_queue
  <2>3. Elems(w) = Elems(waiting) \cup {r}
    BY <1>1, <2>1, AppendFacts
  <2>4. Precedes(running, a, b) \/ Precedes(w, a, b) \/ (a \in Elems(running) /\ b \in Elems(w))
    BY <1>0, <1>5, <2>2 DEF Ahead
  <2>5. Precedes(w, a, b) => Precedes(waiting, a, b) \/ (a \in Elems(waiting) /\ b = r)
    <3> SUFFICES ASSUME Precedes(Append(waiting, r), a, b)
                 PROVE  Precedes(waiting, a, b) \/ (a \in Elems(waiting) /\ b = r)
      BY <2>1
    <3> QED  BY <1>1, AppendOrder
  <2>6. Ahead(a, b) \/ (a \in Elems(running) \cup Elems(waiting) /\ b = r)
    BY <2>3, <2>4, <2>5 DEF Ahead
  <2>7. a \in Elems(running) \cup Elems(waiting) => a \in Elems(arrival)
    <3> SUFFICES ASSUME a \in Elems(running) \cup Elems(waiting) PROVE a \in Elems(arrival)
      OBVIOUS
    <3>1. a \in Reqs
      BY <1>1 DEF Elems
    <3>2. status[a] # "new"
      <4>1. Placed(a)
        BY <3>1 DEF SchedInv, Lists
      <4> QED  BY <4>1 DEF Placed
    <3> QED  BY <3>1, <3>2 DEF Arrivals
  <2>8. Ahead(a, b) => Precedes(arrival, a, b)
    BY <1>5 DEF InLine
  <2>9. Precedes(arrival, a, b) \/ (a \in Elems(arrival) /\ b = r)
    BY <2>6, <2>7, <2>8
  <2>10. Precedes(Append(arrival, r), a, b)
    BY <2>9, AppendKeepsOrder DEF Arrivals
  <2> QED  BY <1>2, <2>10
<1>6. InLine'
  BY <1>0, <1>2, <1>5 DEF InLine
<1> QED  BY <1>4, <1>6

(* Steps that add no request.                                              *)
LEMMA InLineFrame ==
  ASSUME Arrivals, InLine, NoOvertaking, arrival' = arrival,
         \A r \in Reqs : status'[r] = "new" <=> status[r] = "new"
  PROVE  Arrivals' /\ InLine'
<1>1. Arrivals'
  BY DEF Arrivals
<1>2. InLine'
  <2> SUFFICES ASSUME Policy = "fcfs", NEW a, NEW b, Ahead(a, b)' PROVE Precedes(arrival, a, b)
    BY DEF InLine
  <2> QED  BY DEF InLine, NoOvertaking
<1> QED  BY <1>1, <1>2

LEMMA SameQueues ==
  ASSUME running' = running, waiting' = waiting
  PROVE  NoOvertaking
BY DEF NoOvertaking, Ahead

LEMMA InLineStep ==
  ASSUME SchedInv, Arrivals, InLine, [Next]_vars
  PROVE  Arrivals' /\ InLine'
<1>t. /\ running \in Seq(Reqs) /\ waiting \in Seq(Reqs) /\ Distinct(running)
      /\ status \in [Reqs -> {"new", "WAITING", "RUNNING", "PREEMPTED", "FINISHED"}]
  BY DEF SchedInv, Shapes, Lists
<1>p. \A r : r \in Elems(running) => r \in Reqs /\ status[r] # "new"
  <2> SUFFICES ASSUME NEW r \in Elems(running) PROVE r \in Reqs /\ status[r] # "new"
    OBVIOUS
  <2>1. r \in Reqs
    BY <1>t DEF Elems
  <2>2. Placed(r)
    BY <2>1 DEF SchedInv, Lists
  <2> QED  BY <2>1, <2>2 DEF Placed
<1>w. \A r : r \in Elems(waiting) => r \in Reqs /\ status[r] # "new"
  <2> SUFFICES ASSUME NEW r \in Elems(waiting) PROVE r \in Reqs /\ status[r] # "new"
    OBVIOUS
  <2>1. r \in Reqs
    BY <1>t DEF Elems
  <2>2. Placed(r)
    BY <2>1 DEF SchedInv, Lists
  <2> QED  BY <2>1, <2>2 DEF Placed
<1>1. CASE \E r \in Reqs : add_request(r)
  BY <1>1, ArriveLast
<1>2. CASE \E r \in Reqs : finish_requests(r)
  <2>1. PICK r \in Reqs : finish_requests(r)
    BY <1>2
  <2>2. /\ running' = Keep(running, Reqs \ {r}) /\ waiting' = Keep(waiting, Reqs \ {r})
        /\ status' = [status EXCEPT ![r] = "FINISHED"] /\ arrival' = arrival /\ Unfinished(r)
    BY <2>1 DEF finish_requests, remove_all, remove_requests, ghost_vars
  <2>3. NoOvertaking
    BY <2>2, RemoveInOrder
  <2>4. status[r] # "new" /\ status'[r] # "new" /\ \A q \in Reqs : q # r => status'[q] = status[q]
    BY <1>t, <2>2 DEF Unfinished
  <2> QED  BY <2>2, <2>3, <2>4, InLineFrame
<1>3. CASE reset_preempt
  <2>1. PICK r : r = running[Len(running)]
    OBVIOUS
  <2>2. /\ running # <<>> /\ running' = SubSeq(running, 1, Len(running) - 1)
        /\ status' = [status EXCEPT ![r] = "PREEMPTED"] /\ waiting' = prepend_request(waiting, r)
        /\ arrival' = arrival
    BY <1>3, <2>1 DEF reset_preempt, _preempt_request, ghost_vars
  <2>3. PICK f : f = SubSeq(running, 1, Len(running) - 1)
    OBVIOUS
  <2>4. Elems(f) = Elems(running) \ {r}
    BY <1>t, <2>1, <2>2, <2>3, FrontFacts
  <2>5. \A a, b : Precedes(f, a, b) => Precedes(running, a, b)
    BY <1>t, <2>2, <2>3, FrontOrder
  <2>6. running' = f
    BY <2>2, <2>3
  <2>7. NoOvertaking
    BY <2>1, <2>2, <2>4, <2>5, <2>6, PreemptLast
  <2>8. r \in Elems(running)
    <3>1. Len(running) \in 1 .. Len(running)
      BY <1>t, <2>2
    <3> QED  BY <2>1, <3>1 DEF Elems
  <2>9. status[r] # "new" /\ status'[r] # "new" /\ \A q \in Reqs : q # r => status'[q] = status[q]
    BY <1>p, <1>t, <2>2, <2>8
  <2> QED  BY <2>2, <2>7, <2>9, InLineFrame
<1>4. CASE running_preempt
  <2>1. PICK v : v = Victim
    OBVIOUS
  <2>2. /\ running' = Keep(running, Reqs \ {v}) /\ status' = [status EXCEPT ![v] = "PREEMPTED"]
        /\ waiting' = prepend_request(waiting, v) /\ arrival' = arrival /\ pc = "allocate"
    BY <1>4, <2>1 DEF running_preempt, remove_all, _preempt_request, ghost_vars
  <2>n. running # <<>>
    <3>1. cur.req \in Elems(running)
      BY <2>2 DEF SchedInv, Loop, Current
    <3> QED  BY <3>1, EmptyFacts
  <2>3. v \in Elems(running)
    BY <2>1, <2>n, VictimRuns DEF SchedInv, Shapes
  <2>4. NoOvertaking
    <3>1. CASE Policy = "fcfs"
      <4>1. v = running[Len(running)]
        BY <2>1, <3>1 DEF Victim
      <4>2. PICK u : u = Keep(running, Reqs \ {v})
        OBVIOUS
      <4>3. Elems(u) = Elems(running) \ {v}
        BY <1>t, <4>2, RemoveFacts
      <4>4. \A a, b : Precedes(u, a, b) => Precedes(running, a, b)
        BY <1>t, <4>2, KeepOrder
      <4>5. running' = u
        BY <2>2, <4>2
      <4> QED  BY <2>2, <2>n, <4>1, <4>3, <4>4, <4>5, PreemptLast
    <3> QED  BY <3>1 DEF NoOvertaking
  <2>5. status[v] # "new" /\ status'[v] # "new" /\ \A q \in Reqs : q # v => status'[q] = status[q]
    BY <1>p, <1>t, <2>2, <2>3
  <2> QED  BY <2>2, <2>4, <2>5, InLineFrame
<1>5. CASE waiting_admit
  <2>1. PICK r : r = waiting[1]
    OBVIOUS
  <2>2. /\ waiting # <<>> /\ waiting' = Tail(waiting) /\ running' = Append(running, r)
        /\ status' = [status EXCEPT ![r] = "RUNNING"] /\ arrival' = arrival
    BY <1>5, <2>1 DEF waiting_admit, CanAdmit, MoreWaiting, ghost_vars
  <2>3. NoOvertaking
    BY <2>1, <2>2, AdmitInOrder
  <2>4. r \in Elems(waiting)
    BY <1>t, <2>1, <2>2, TailFacts
  <2>5. status[r] # "new" /\ status'[r] # "new" /\ \A q \in Reqs : q # r => status'[q] = status[q]
    BY <1>w, <1>t, <2>2, <2>4
  <2> QED  BY <2>2, <2>3, <2>5, InLineFrame
<1>6. CASE update_end
  <2>1. /\ running' = Keep(running, Reqs \ stopped_running_reqs)
        /\ waiting' = Keep(waiting, Reqs \ stopped_preempted_reqs)
        /\ status' = status /\ arrival' = arrival
    BY <1>6 DEF update_end, remove_all, remove_requests, request_vars, ghost_vars
  <2>2. NoOvertaking
    BY <2>1, RemoveInOrder
  <2> QED  BY <2>1, <2>2, InLineFrame
<1>7. CASE \E eos \in BOOLEAN : update_token(eos)
  <2>1. PICK r : r = Head(output).req
    OBVIOUS
  <2>2. /\ running' = running /\ waiting' = waiting /\ arrival' = arrival /\ Unfinished(r)
        /\ status' = [status EXCEPT ![r] = "FINISHED"] \/ status' = status
    BY <1>7, <2>1 DEF update_token, queue_vars, ghost_vars
  <2>3. \A q \in Reqs : status'[q] = "new" <=> status[q] = "new"
    BY <1>t, <2>2 DEF Unfinished
  <2> QED  BY <2>2, <2>3, SameQueues, InLineFrame
<1>8. CASE reset_prefix_cache_if_unused \/ reset_begin \/ reset_end \/ schedule_begin \/ running_skip
           \/ running_pick \/ running_allocate \/ running_done \/ schedule_end \/ await_begin
           \/ update_begin \/ update_nothing \/ update_discard \/ _free_request \/ UNCHANGED vars
  <2>1. running' = running /\ waiting' = waiting /\ arrival' = arrival /\ status' = status
    BY <1>8 DEF reset_prefix_cache_if_unused, reset_begin, reset_end, schedule_begin, running_skip,
         running_pick, running_allocate, running_done, schedule_end, await_begin, update_begin,
         update_nothing, update_discard, _free_request, vars, request_vars, queue_vars, ghost_vars
  <2> QED  BY <2>1, SameQueues, InLineFrame
<1> QED  BY <1>1, <1>2, <1>3, <1>4, <1>5, <1>6, <1>7, <1>8 DEF Next, ClientStep, EngineStep

(* Under FCFS the running requests and then the waiting ones are in the    *)
(* order of arrival: no preemption, forced reset or abort in any number    *)
(* lets a later request overtake an earlier one.                           *)
THEOREM FirstComeFirstServed == Spec => []FCFSOrder
<1>1. Init => Arrivals /\ InLine
  <2> SUFFICES ASSUME Init PROVE Arrivals /\ InLine
    OBVIOUS
  <2>1. arrival = <<>> /\ running = <<>> /\ waiting = <<>> /\ \A r \in Reqs : status[r] = "new"
    BY DEF Init
  <2>2. Arrivals
    BY <2>1, EmptyFacts DEF Arrivals
  <2>3. \A a, b : ~Ahead(a, b)
    BY <2>1, EmptyFacts DEF Ahead, Precedes
  <2> QED  BY <2>2, <2>3 DEF InLine
<1>2. SchedInv /\ Arrivals /\ InLine /\ [Next]_vars => Arrivals' /\ InLine'
  BY InLineStep
<1>3. SchedInv /\ Arrivals /\ InLine => FCFSOrder
  <2> SUFFICES ASSUME SchedInv, Arrivals, InLine, Policy = "fcfs", pc \notin {"update", "stopped"}
               PROVE  running \o waiting = Keep(arrival, {r \in Reqs : Unfinished(r)})
    BY DEF FCFSOrder
  <2>1. PICK live : live = {r \in Reqs : Unfinished(r)}
    OBVIOUS
  <2>2. PICK s, t : s = running \o waiting /\ t = Keep(arrival, live)
    OBVIOUS
  <2>3. running \in Seq(Reqs) /\ waiting \in Seq(Reqs) /\ arrival \in Seq(Reqs) /\ Distinct(arrival)
    BY DEF SchedInv, Shapes, Arrivals
  <2>4. /\ Distinct(s) /\ Elems(running) = {r \in Reqs : status[r] = "RUNNING"}
        /\ Elems(waiting) = {r \in Reqs : status[r] \in {"WAITING", "PREEMPTED"}}
    BY <2>2, QueuesFollow DEF QueuesMatchStatus
  <2>5. s \in Seq(Reqs) /\ Elems(s) = Elems(running) \cup Elems(waiting)
    BY <2>2, <2>3, ConcatElems
  <2>6. t \in Seq(Reqs) /\ Elems(t) = Elems(arrival) \cap live /\ Distinct(t)
    BY <2>2, <2>3, KeepFacts
  <2>7. Elems(s) = live
    BY <2>1, <2>4, <2>5 DEF Unfinished
  <2>8. Elems(arrival) \cap live = live
    BY <2>1 DEF Arrivals, Unfinished
  <2>9. ASSUME NEW a, NEW b, Precedes(s, a, b) PROVE Precedes(t, a, b)
    <3>1. Precedes(running \o waiting, a, b)
      BY <2>2, <2>9
    <3>2. Ahead(a, b)
      BY <2>3, <3>1, ConcatOrder DEF Ahead
    <3>3. Precedes(arrival, a, b)
      BY <3>2 DEF InLine
    <3>4. a \in live /\ b \in live
      BY <2>7, <2>9 DEF Precedes, Elems
    <3>5. Precedes(Keep(arrival, live), a, b)
      BY <2>3, <3>3, <3>4, KeepPrecedes
    <3> QED  BY <2>2, <3>5
  <2>10. s = t
    BY <2>4, <2>5, <2>6, <2>7, <2>8, <2>9, SameOrder
  <2> QED  BY <2>1, <2>2, <2>10
<1> QED  BY <1>1, <1>2, <1>3, SchedInvHolds, PTL DEF Spec

-----------------------------------------------------------------------------
(* Counting the outputs in flight.                                         *)
Row(k, b, r) ==
  {p \in {k} \X (1 .. Cardinality(Reqs)) : p[2] <= Len(b) /\ b[p[2]].req = r /\ b[p[2]].pos # 0}

LEMMA RowCount ==
  ASSUME NEW b \in Seq(Outputs), OncePer(b), NEW k, NEW r
  PROVE  IsFiniteSet(Row(k, b, r)) /\ Cardinality(Row(k, b, r)) = Owed(b, r)
<1>1. Len(b) \in Nat /\ Len(b) <= Cardinality(Reqs) /\ Cardinality(Reqs) \in Nat
  <2>1. Len(b) \in Nat
    OBVIOUS
  <2>2. PICK s : s = [i \in 1 .. Len(b) |-> b[i].req]
    OBVIOUS
  <2>3. \A i \in 1 .. Len(b) : b[i].req \in Reqs
    <3>1. \A i \in 1 .. Len(b) : b[i] \in Outputs
      OBVIOUS
    <3> QED  BY <3>1 DEF Outputs
  <2>4. s \in Seq(Reqs) /\ Len(s) = Len(b) /\ \A i \in 1 .. Len(b) : s[i] = b[i].req
    <3>1. s \in [1 .. Len(b) -> Reqs]
      BY <2>2, <2>3
    <3>2. s \in Seq(Reqs) /\ Len(s) = Len(b)
      BY <2>1, <3>1
    <3> QED  BY <2>2, <3>2
  <2>5. Distinct(s)
    BY <2>4 DEF OncePer, Distinct
  <2>6. Len(s) <= Cardinality(Reqs) /\ Cardinality(Reqs) \in Nat
    BY <2>4, <2>5, DistinctLength
  <2> QED  BY <2>1, <2>4, <2>6
<1>2. PICK R : R = Row(k, b, r)
  OBVIOUS
<1>3. CASE \E i \in 1 .. Len(b) : b[i].req = r /\ b[i].pos # 0
  <2>1. PICK i \in 1 .. Len(b) : b[i].req = r /\ b[i].pos # 0
    BY <1>3
  <2>2. \A j \in 1 .. Len(b) : b[j].req = r => j = i
    BY <2>1 DEF OncePer
  <2>3. i \in 1 .. Cardinality(Reqs) /\ i <= Len(b)
    BY <1>1, <2>1
  <2>4. <<k, i>> \in R
    BY <1>2, <2>1, <2>3 DEF Row
  <2>5. ASSUME NEW p \in R PROVE p = <<k, i>>
    <3>1. PICK j \in 1 .. Cardinality(Reqs) : p = <<k, j>>
      BY <1>2 DEF Row
    <3>2. j <= Len(b) /\ b[j].req = r
      BY <1>2, <3>1 DEF Row
    <3>3. j \in 1 .. Len(b)
      BY <1>1, <3>1, <3>2
    <3> QED  BY <2>2, <3>1, <3>2, <3>3
  <2>6. R = {<<k, i>>}
    BY <2>4, <2>5
  <2>7. IsFiniteSet({<<k, i>>}) /\ Cardinality({<<k, i>>}) = 1
    BY FS_Singleton
  <2>8. Owed(b, r) = 1
    BY <1>3 DEF Owed
  <2> QED  BY <1>2, <2>6, <2>7, <2>8
<1>4. CASE ~\E i \in 1 .. Len(b) : b[i].req = r /\ b[i].pos # 0
  <2>1. R = {}
    <3> SUFFICES ASSUME NEW p \in R PROVE FALSE
      OBVIOUS
    <3>1. PICK j \in 1 .. Cardinality(Reqs) : p = <<k, j>>
      BY <1>2 DEF Row
    <3>2. j <= Len(b) /\ b[j].req = r /\ b[j].pos # 0
      BY <1>2, <3>1 DEF Row
    <3>3. j \in 1 .. Len(b)
      BY <1>1, <3>1, <3>2
    <3> QED  BY <1>4, <3>2, <3>3
  <2>2. IsFiniteSet({}) /\ Cardinality({}) = 0
    BY FS_EmptySet
  <2>3. Owed(b, r) = 0
    BY <1>4 DEF Owed
  <2> QED  BY <1>2, <2>1, <2>2, <2>3
<1> QED  BY <1>3, <1>4

LEMMA SeqFacts ==
  ASSUME NEW T, NEW s \in Seq(T)
  PROVE  Len(s) \in Nat /\ \A i \in 1 .. Len(s) : s[i] \in T
OBVIOUS

RowAt(q, k, r) == IF Len(q) >= k THEN Row(k, q[k], r) ELSE {}

LEMMA RowAtCount ==
  ASSUME NEW q \in Seq(Seq(Outputs)), \A k \in 1 .. Len(q) : OncePer(q[k]), NEW k \in {1, 2}, NEW r
  PROVE  /\ IsFiniteSet(RowAt(q, k, r)) /\ Cardinality(RowAt(q, k, r)) = OwedAt(q, k, r)
         /\ \A p \in RowAt(q, k, r) : p[1] = k
<1>0. Len(q) \in Nat /\ \A i \in 1 .. Len(q) : q[i] \in Seq(Outputs)
  BY SeqFacts, Zenon
<1>1. CASE Len(q) >= k
  <2>1. k \in 1 .. Len(q)
    BY <1>0, <1>1
  <2>2. q[k] \in Seq(Outputs) /\ OncePer(q[k])
    BY <1>0, <2>1, Zenon
  <2>3. PICK R : R = Row(k, q[k], r)
    OBVIOUS
  <2>4. IsFiniteSet(R) /\ Cardinality(R) = Owed(q[k], r)
    BY <2>2, <2>3, RowCount
  <2>5. RowAt(q, k, r) = R /\ OwedAt(q, k, r) = Owed(q[k], r)
    BY <1>1, <2>3 DEF RowAt, OwedAt
  <2>6. \A p \in R : p[1] = k
    BY <2>3 DEF Row
  <2> QED  BY <2>4, <2>5, <2>6
<1>2. CASE ~(Len(q) >= k)
  <2>1. RowAt(q, k, r) = {} /\ OwedAt(q, k, r) = 0
    BY <1>2 DEF RowAt, OwedAt
  <2> QED  BY <2>1, FS_EmptySet
<1> QED  BY <1>1, <1>2

LEMMA InFlightCount ==
  ASSUME SchedInv, Len(batch_queue) <= 2, NEW r
  PROVE  Cardinality(InFlight(r)) = Pending(output, batch_queue, r)
<1>1. /\ output \in Seq(Outputs) /\ OncePer(output) /\ batch_queue \in Seq(Seq(Outputs))
      /\ \A k \in 1 .. Len(batch_queue) : OncePer(batch_queue[k])
  BY DEF SchedInv, Shapes, Batches
<1>2. PICK q : q = batch_queue
  OBVIOUS
<1>q. Len(q) \in {0, 1, 2}
  <2>1. PICK n : n = Len(q)
    OBVIOUS
  <2>2. n \in Nat /\ n <= 2
    <3>1. Len(batch_queue) \in Nat
      BY <1>1, SeqFacts, Zenon
    <3> QED  BY <1>2, <2>1, <3>1, Zenon
  <2> QED  BY <2>1, <2>2
<1>3. PICK A, B, C : A = Row(0, output, r) /\ B = RowAt(q, 1, r) /\ C = RowAt(q, 2, r)
  OBVIOUS
<1>4. IsFiniteSet(A) /\ Cardinality(A) = Owed(output, r) /\ \A p \in A : p[1] = 0
  <2>1. IsFiniteSet(A) /\ Cardinality(A) = Owed(output, r)
    BY <1>1, <1>3, RowCount
  <2> QED  BY <1>3, <2>1 DEF Row
<1>5. IsFiniteSet(B) /\ Cardinality(B) = OwedAt(q, 1, r) /\ \A p \in B : p[1] = 1
  BY <1>1, <1>2, <1>3, RowAtCount
<1>6. IsFiniteSet(C) /\ Cardinality(C) = OwedAt(q, 2, r) /\ \A p \in C : p[1] = 2
  BY <1>1, <1>2, <1>3, RowAtCount
<1>7. InFlight(r) = (A \cup B) \cup C
  <2> DEFINE N == Cardinality(Reqs)
  <2> HIDE DEF N
  <2>1. ASSUME NEW p
        PROVE  p \in InFlight(r) <=> p \in A \/ p \in B \/ p \in C
    <3>1. p \in InFlight(r) <=>
            \E k \in 0 .. Len(q), j \in 1 .. N :
              /\ p = <<k, j>>
              /\ k = 0 => j <= Len(output) /\ output[j].req = r /\ output[j].pos # 0
              /\ k # 0 => j <= Len(q[k]) /\ q[k][j].req = r /\ q[k][j].pos # 0
      BY <1>2 DEF InFlight, N
    <3>2. p \in A <=> \E j \in 1 .. N : /\ p = <<0, j>>
                                        /\ j <= Len(output) /\ output[j].req = r /\ output[j].pos # 0
      BY <1>3 DEF Row, N
    <3>3. p \in B <=> Len(q) >= 1 /\ \E j \in 1 .. N : /\ p = <<1, j>>
                                        /\ j <= Len(q[1]) /\ q[1][j].req = r /\ q[1][j].pos # 0
      BY <1>3 DEF Row, RowAt, N
    <3>4. p \in C <=> Len(q) >= 2 /\ \E j \in 1 .. N : /\ p = <<2, j>>
                                        /\ j <= Len(q[2]) /\ q[2][j].req = r /\ q[2][j].pos # 0
      BY <1>3 DEF Row, RowAt, N
    <3>5. CASE Len(q) = 0
      BY <3>1, <3>2, <3>3, <3>4, <3>5
    <3>6. CASE Len(q) = 1
      BY <3>1, <3>2, <3>3, <3>4, <3>6
    <3>7. CASE Len(q) = 2
      BY <3>1, <3>2, <3>3, <3>4, <3>7
    <3> QED  BY <1>q, <3>5, <3>6, <3>7
  <2> QED  BY <2>1
<1>8. A \cap B = {} /\ (A \cup B) \cap C = {}
  BY <1>4, <1>5, <1>6
<1>9. PICK D : D = A \cup B
  OBVIOUS
<1>10. IsFiniteSet(D) /\ Cardinality(D) = Cardinality(A) + Cardinality(B)
  BY <1>4, <1>5, <1>8, <1>9, DisjointUnion, FS_Union
<1>11. Cardinality(D \cup C) = Cardinality(D) + Cardinality(C)
  BY <1>6, <1>8, <1>9, <1>10, DisjointUnion
<1>12. Owed(output, r) \in Nat /\ OwedAt(q, 1, r) \in Nat /\ OwedAt(q, 2, r) \in Nat
  BY OwedFacts
<1> QED  BY <1>2, <1>4, <1>5, <1>6, <1>7, <1>9, <1>10, <1>11, <1>12 DEF Pending

NeverForced == forced_resets = 0

(* num_output_placeholders of a live request is exactly the number of its  *)
(* outputs in flight, across preemptions and aborts of any requests, as    *)
(* long as no client forces a reset of running requests: a forced reset    *)
(* clears the count, and the output to discard is known by a flag.         *)
THEOREM PlaceholdersAreExact ==
  ASSUME MaxForcedResets = 0
  PROVE  Spec => []PlaceholdersMatchOutputs
<1>1. Init => NeverForced
  BY DEF Init, NeverForced
<1>2. NeverForced /\ [Next]_vars => NeverForced'
  <2> SUFFICES ASSUME forced_resets = 0, [Next]_vars PROVE forced_resets' = 0
    BY DEF NeverForced
  <2>1. ~reset_begin
    BY DEF reset_begin
  <2>2. forced_resets' = forced_resets
    BY <2>1 DEF Next, ClientStep, EngineStep, add_request, finish_requests, reset_prefix_cache_if_unused,
         reset_preempt, reset_end, schedule_begin, running_skip, running_pick, running_allocate,
         running_preempt, running_done, waiting_admit, schedule_end, await_begin, update_begin,
         update_nothing, update_discard, update_token, _free_request, update_end, vars, ghost_vars
  <2> QED  BY <2>2
<1>3. SchedInv /\ NeverForced => PlaceholdersMatchOutputs
  <2> SUFFICES ASSUME SchedInv, forced_resets = 0, Async, NEW r \in Reqs, Unfinished(r)
               PROVE  num_output_placeholders[r] = Cardinality(InFlight(r))
    BY DEF PlaceholdersMatchOutputs, NeverForced
  <2>1. Len(batch_queue) <= 2
    <3>1. BatchQueueSize = 2
      BY SchedulerAssumption
    <3> QED  BY <3>1 DEF SchedInv, Batches
  <2>2. Cardinality(InFlight(r)) = Pending(output, batch_queue, r)
    BY <2>1, InFlightCount
  <2>3. FlightsOK(r)
    BY DEF SchedInv, Flights
  <2> QED  BY <2>2, <2>3 DEF FlightsOK, Unfinished
<1> QED  BY <1>1, <1>2, <1>3, SchedInvHolds, PTL DEF Spec

-----------------------------------------------------------------------------
(* Delivery: with at most two batches in flight, and no forced reset while *)
(* outputs are in flight, every output is for the token right after those  *)
(* its request will have by then.                                          *)

(* The outputs due to a request, and the positions they were sampled for.  *)
Due(r) == Pending(output, batch_queue, r)
AtPos(b, r, p) == \A i \in 1 .. Len(b) : b[i].req = r /\ b[i].pos # 0 => b[i].pos = p
Positions(r) ==
  /\ AtPos(output, r, num_tokens(r) + 1)
  /\ Len(batch_queue) >= 1 =>
       AtPos(batch_queue[1], r, num_tokens(r) + Owed(output, r) + 1)
  /\ Len(batch_queue) >= 2 =>
       AtPos(batch_queue[2], r, num_tokens(r) + Owed(output, r) + Owed(batch_queue[1], r) + 1)
Limits(r) ==
  /\ num_output_tokens[r] + Due(r) <= MaxTokens[r]
  /\ num_tokens(r) + Due(r) <= MaxModelLen

(* A request preempted with an output in flight is not scheduled again     *)
(* before it has that output: the step that preempts admits nobody, and    *)
(* after it the batch queue is full.                                       *)
Draining(r) ==
  /\ pc \notin {"idle", "resetting"} /\ (Scheduling => preempted_reqs # {})
  /\ OwedAt(batch_queue, 2, r) = 0
  /\ pc \in {"update", "stopped"} => OwedAt(batch_queue, 1, r) = 0
Chosen(r) == r \in ReqsOf(scheduled) \/ (pc = "allocate" /\ cur.req = r)
DueOK(r) ==
  Due(r) > 0 =>
    /\ status[r] # "new"
    /\ status[r] = "RUNNING" => num_computed_tokens[r] = num_tokens(r) + Due(r) - 1
    /\ status[r] # "RUNNING" => Draining(r)
    /\ Chosen(r) => num_output_tokens[r] + 1 < MaxTokens[r]
DeliveryOK(r) == status[r] # "FINISHED" => Positions(r) /\ Limits(r) /\ DueOK(r)
Undisturbed == BatchQueueSize = 1 \/ (BatchQueueSize = 2 /\ forced_resets = 0)
Delivery == Undisturbed /\ \A r \in Reqs : DeliveryOK(r)

LEMMA DueFacts ==
  ASSUME NEW r
  PROVE  Due(r) \in Nat
<1>1. Owed(output, r) \in Nat /\ OwedAt(batch_queue, 1, r) \in Nat /\ OwedAt(batch_queue, 2, r) \in Nat
  BY OwedFacts
<1> QED  BY <1>1 DEF Due, Pending

(* Nothing but the outputs themselves moves positions and limits.          *)
LEMMA DeliverySame ==
  ASSUME NEW r \in Reqs, DeliveryOK(r), status[r] # "FINISHED", output' = output,
         batch_queue' = batch_queue, num_output_tokens'[r] = num_output_tokens[r],
         DueOK(r)'
  PROVE  DeliveryOK(r)'
<1>1. num_tokens(r)' = num_tokens(r)
  BY DEF num_tokens
<1>2. Due(r)' = Due(r)
  BY DEF Due
<1>3. Positions(r)'
  BY <1>1 DEF DeliveryOK, Positions
<1>4. Limits(r)'
  BY <1>1, <1>2 DEF DeliveryOK, Limits
<1> QED  BY <1>3, <1>4 DEF DeliveryOK

LEMMA NothingDue ==
  ASSUME NEW r, Due(r) = 0, output' = output, batch_queue' = batch_queue
  PROVE  DueOK(r)'
<1>1. Due(r)' = 0
  BY DEF Due
<1> QED  BY <1>1 DEF DueOK

LEMMA DeliveryFrame ==
  ASSUME NEW r \in Reqs, DeliveryOK(r), output' = output, batch_queue' = batch_queue,
         num_output_tokens'[r] = num_output_tokens[r], status'[r] = status[r],
         num_computed_tokens'[r] = num_computed_tokens[r],
         Draining(r) => Draining(r)', Chosen(r)' => Chosen(r)
  PROVE  DeliveryOK(r)'
<1> SUFFICES ASSUME status[r] # "FINISHED" PROVE DeliveryOK(r)'
  BY DEF DeliveryOK
<1>1. num_tokens(r)' = num_tokens(r)
  BY DEF num_tokens
<1>2. Due(r)' = Due(r)
  BY DEF Due
<1>3. DueOK(r)
  BY DEF DeliveryOK
<1>4. DueOK(r)'
  BY <1>1, <1>2, <1>3 DEF DueOK
<1> QED  BY <1>4, DeliverySame

(* A running request with outputs due, of an asynchronous scheduler or     *)
(* not: its placeholders are the outputs due, or it has no token left to   *)
(* compute.                                                                *)
LEMMA PlaceholdersDue ==
  ASSUME SchedInv, Undisturbed, NEW r \in Reqs, status[r] # "FINISHED"
  PROVE  /\ Async => num_output_placeholders[r] = Due(r)
         /\ ~Async => num_output_placeholders[r] = 0
         /\ ~(Async /\ discard_latest_async_tokens[r])
<1>1. Async => BatchQueueSize = 2
  BY SchedulerAssumption
<1>2. FlightsOK(r)
  BY DEF SchedInv, Flights
<1>3. CASE Async
  <2>1. forced_resets = 0
    BY <1>1, <1>3 DEF Undisturbed
  <2> QED  BY <1>2, <1>3, <2>1 DEF FlightsOK, Due
<1>4. CASE ~Async
  BY <1>2, <1>4 DEF FlightsOK
<1> QED  BY <1>3, <1>4

LEMMA QueueFacts ==
  ASSUME SchedInv, Undisturbed
  PROVE  /\ batch_queue \in Seq(Seq(Outputs)) /\ Len(batch_queue) \in {0, 1, 2}
         /\ pc # "await" => Len(batch_queue) \in {0, 1} /\ Len(batch_queue) < BatchQueueSize
         /\ BatchQueueSize \in {1, 2}
<1>1. batch_queue \in Seq(Seq(Outputs)) /\ Len(batch_queue) <= BatchQueueSize
      /\ (pc # "await" => Len(batch_queue) < BatchQueueSize)
  BY DEF SchedInv, Shapes, Batches
<1>2. PICK n : n = Len(batch_queue)
  OBVIOUS
<1>3. n \in Nat
  <2>1. Len(batch_queue) \in Nat
    BY <1>1, SeqFacts, Zenon
  <2> QED  BY <1>2, <2>1, Zenon
<1>4. BatchQueueSize \in {1, 2}
  BY DEF Undisturbed
<1>5. n <= BatchQueueSize /\ (pc # "await" => n < BatchQueueSize)
  BY <1>1, <1>2, Zenon
<1>6. n \in {0, 1, 2} /\ (pc # "await" => n \in {0, 1})
  BY <1>3, <1>4, <1>5
<1> QED  BY <1>1, <1>2, <1>4, <1>5, <1>6, Zenon

(* A step of schedule() or a client that changes no request's state.       *)
LEMMA QuietStep ==
  ASSUME SchedInv, Delivery,
         UNCHANGED <<output, batch_queue, num_output_tokens, status, num_computed_tokens>>,
         \A r \in Reqs : Chosen(r)' => Chosen(r),
         \A r \in Reqs : Draining(r) => Draining(r)'
  PROVE  \A r \in Reqs : DeliveryOK(r)'
<1> SUFFICES ASSUME NEW r \in Reqs PROVE DeliveryOK(r)'
  OBVIOUS
<1>1. DeliveryOK(r)
  BY DEF Delivery
<1> QED  BY <1>1, DeliveryFrame

LEMMA DeliverAdd ==
  ASSUME SchedInv, Delivery, NEW r \in Reqs, add_request(r)
  PROVE  \A q \in Reqs : DeliveryOK(q)'
<1>0. /\ pc = "idle" /\ pc' = pc /\ status[r] = "new" /\ status' = [status EXCEPT ![r] = "WAITING"]
      /\ UNCHANGED <<output, batch_queue, num_output_tokens, num_computed_tokens>>
      /\ UNCHANGED <<scheduled, preempted_reqs, cur>>
  BY DEF add_request, local_vars, output_vars
<1> SUFFICES ASSUME NEW q \in Reqs PROVE DeliveryOK(q)'
  OBVIOUS
<1>1. DeliveryOK(q)
  BY DEF Delivery
<1>2. CASE q = r
  <2>1. Due(q) = 0
    BY <1>0, <1>1, <1>2, DueFacts DEF DeliveryOK, DueOK
  <2> QED  BY <1>0, <1>1, <1>2, <2>1, NothingDue, DeliverySame
<1>3. CASE q # r
  <2>1. status'[q] = status[q]
    BY <1>0, <1>3 DEF SchedInv, Shapes
  <2>2. (Draining(q) => Draining(q)') /\ (Chosen(q)' => Chosen(q))
    BY <1>0 DEF Draining, Chosen
  <2> QED  BY <1>0, <1>1, <2>1, <2>2, DeliveryFrame
<1> QED  BY <1>2, <1>3

LEMMA DeliverFinish ==
  ASSUME SchedInv, Delivery, NEW r \in Reqs, finish_requests(r)
  PROVE  \A q \in Reqs : DeliveryOK(q)'
<1>0. /\ pc' = pc /\ status' = [status EXCEPT ![r] = "FINISHED"]
      /\ UNCHANGED <<output, batch_queue, num_output_tokens, num_computed_tokens>>
      /\ UNCHANGED <<scheduled, preempted_reqs, cur>>
  BY DEF finish_requests, local_vars, output_vars
<1> SUFFICES ASSUME NEW q \in Reqs PROVE DeliveryOK(q)'
  OBVIOUS
<1>1. DeliveryOK(q)
  BY DEF Delivery
<1>2. CASE q = r
  <2>1. status'[q] = "FINISHED"
    BY <1>0, <1>2 DEF SchedInv, Shapes
  <2> QED  BY <2>1 DEF DeliveryOK
<1>3. CASE q # r
  <2>1. status'[q] = status[q]
    BY <1>0, <1>3 DEF SchedInv, Shapes
  <2>2. (Draining(q) => Draining(q)') /\ (Chosen(q)' => Chosen(q))
    BY <1>0 DEF Draining, Chosen, Scheduling
  <2> QED  BY <1>0, <1>1, <2>1, <2>2, DeliveryFrame
<1> QED  BY <1>2, <1>3

(* Nothing is in flight when a reset may be forced.                        *)
LEMMA DeliverReset ==
  ASSUME SchedInv, Delivery, reset_preempt
  PROVE  \A q \in Reqs : DeliveryOK(q)'
<1>0. /\ pc = "resetting" /\ UNCHANGED <<output, batch_queue, num_output_tokens>>
  BY DEF reset_preempt, output_vars
<1>1. output = <<>> /\ Len(batch_queue) = 0
  <2>1. forced_resets # 0 /\ output = <<>> /\ Len(batch_queue) < BatchQueueSize
    BY <1>0 DEF SchedInv, Loop, Batches
  <2>2. BatchQueueSize = 1
    BY <2>1 DEF Delivery, Undisturbed
  <2>3. Len(batch_queue) \in {0, 1}
    BY <1>0, QueueFacts DEF Delivery
  <2> QED  BY <2>1, <2>2, <2>3
<1>2. ASSUME NEW q \in Reqs PROVE DeliveryOK(q)'
  <2>1. Due(q) = 0
    <3>1. Owed(output, q) = 0
      BY <1>1, EmptyFacts
    <3>2. OwedAt(batch_queue, 1, q) = 0 /\ OwedAt(batch_queue, 2, q) = 0
      BY <1>1 DEF OwedAt
    <3> QED  BY <3>1, <3>2 DEF Due, Pending
  <2>2. DeliveryOK(q)
    BY DEF Delivery
  <2>3. DueOK(q)'
    BY <1>0, <2>1, NothingDue
  <2>4. CASE status[q] # "FINISHED"
    BY <1>0, <2>2, <2>3, <2>4, DeliverySame
  <2>5. CASE status[q] = "FINISHED"
    <3>1. status'[q] = "FINISHED"
      <4>1. PICK r : r = running[Len(running)]
        OBVIOUS
      <4>2. running # <<>> /\ status' = [status EXCEPT ![r] = "PREEMPTED"]
        BY <4>1 DEF reset_preempt, _preempt_request
      <4>3. r \in Reqs /\ Placed(r) /\ r \in Elems(running) /\ stopped_running_reqs = {}
        <5>1. running \in Seq(Reqs)
          BY DEF SchedInv, Shapes
        <5>2. Len(running) \in 1 .. Len(running)
          BY <4>2, <5>1
        <5>3. r \in Reqs /\ r \in Elems(running)
          BY <4>1, <5>1, <5>2 DEF Elems
        <5> QED  BY <1>0, <5>3 DEF SchedInv, Lists
      <4>4. q # r
        BY <2>5, <4>3 DEF Placed
      <4> QED  BY <2>5, <4>2, <4>4 DEF SchedInv, Shapes
    <3> QED  BY <3>1 DEF DeliveryOK
  <2> QED  BY <2>4, <2>5
<1> QED  BY <1>2

(* Only a request whose outputs due leave room for one more is picked.     *)
LEMMA DeliverPick ==
  ASSUME SchedInv, Delivery, running_pick
  PROVE  \A q \in Reqs : DeliveryOK(q)'
<1>r. PICK r, n : r = running[req_index] /\ n = NumNewRunning(r)
  OBVIOUS
<1>0. /\ pc = "running" /\ pc' = "allocate" /\ cur' = [req |-> r, n |-> n] /\ ~ReachesMaxTokens(r)
      /\ MoreRunning
      /\ UNCHANGED <<output, batch_queue, num_output_tokens, num_computed_tokens, status>>
      /\ UNCHANGED <<scheduled, preempted_reqs, num_output_placeholders>>
  BY <1>r DEF running_pick, request_vars, output_vars
<1>s. SchedInv'
  BY SchedStep DEF Next, EngineStep
<1>1. /\ cur'.req = r /\ cur'.n = n /\ r \in Reqs /\ n \in Nat \ {0}
      /\ num_computed_tokens[r] + n <= num_tokens(r) + num_output_placeholders[r]
  <2>1. Current'
    BY <1>0, <1>s DEF SchedInv, Loop
  <2>2. cur' \in Entries /\ num_computed_tokens'[cur'.req] + cur'.n <=
             PromptLen[cur'.req] + num_output_tokens'[cur'.req] + num_output_placeholders'[cur'.req]
    BY <2>1 DEF Current, num_tokens
  <2>3. cur'.req = r /\ cur'.n = n
    BY <1>0
  <2>4. r \in Reqs /\ n \in Nat \ {0}
    BY <2>2, <2>3 DEF Entries
  <2> QED  BY <1>0, <2>2, <2>3, <2>4 DEF num_tokens
<1> SUFFICES ASSUME NEW q \in Reqs PROVE DeliveryOK(q)'
  OBVIOUS
<1>2. DeliveryOK(q)
  BY DEF Delivery
<1>3. Draining(q) => Draining(q)'
  BY <1>0 DEF Draining, Scheduling
<1>4. CASE q # r
  <2>1. Chosen(q)' => Chosen(q)
    BY <1>0, <1>1, <1>4 DEF Chosen
  <2> QED  BY <1>0, <1>2, <1>3, <2>1, DeliveryFrame
<1>5. CASE q = r
  <2>1. status[r] = "RUNNING"
    <3>1. running \in Seq(Reqs) /\ req_index \in Nat \ {0} /\ stopped_running_reqs = {} /\ Placed(r)
      BY <1>0, <1>1 DEF SchedInv, Shapes, Lists
    <3>2. req_index \in 1 .. Len(running)
      BY <1>0, <3>1 DEF MoreRunning
    <3>3. r \in Elems(running)
      BY <1>r, <3>2 DEF Elems
    <3> QED  BY <3>1, <3>3 DEF Placed
  <2>2. ASSUME Due(r) > 0
        PROVE  /\ num_computed_tokens[r] = num_tokens(r) + Due(r) - 1
               /\ num_output_tokens[r] + 1 < MaxTokens[r]
    <3>1. num_computed_tokens[r] = num_tokens(r) + Due(r) - 1
      BY <1>2, <1>5, <2>1, <2>2 DEF DeliveryOK, DueOK
    <3>2. /\ num_computed_tokens[r] \in Nat /\ num_output_tokens[r] \in Nat /\ PromptLen[r] \in Nat
          /\ MaxTokens[r] \in Nat /\ num_tokens(r) = PromptLen[r] + num_output_tokens[r]
      BY <1>1, SchedulerAssumption DEF SchedInv, Shapes, num_tokens
    <3>3. Due(r) \in Nat
      BY DueFacts
    <3>4. Async /\ num_output_placeholders[r] = Due(r)
      <4>1. /\ Async => num_output_placeholders[r] = Due(r)
            /\ ~Async => num_output_placeholders[r] = 0
        BY <1>1, <2>1, PlaceholdersDue DEF Delivery
      <4>2. CASE ~Async
        BY <1>1, <2>2, <3>1, <3>2, <3>3, <4>1, <4>2
      <4> QED  BY <4>1, <4>2
    <3>5. num_computed_tokens[r] + 2 - Due(r) < PromptLen[r] + MaxTokens[r]
      <4>1. ~(num_computed_tokens[r] + 2 - num_output_placeholders[r] >= PromptLen[r] + MaxTokens[r])
        BY <1>0, <2>2, <3>4 DEF ReachesMaxTokens
      <4> QED  BY <3>2, <3>3, <3>4, <4>1
    <3> QED  BY <3>1, <3>2, <3>3, <3>5
  <2>3. Due(r)' = Due(r) /\ num_tokens(r)' = num_tokens(r) /\ status'[r] = "RUNNING"
        /\ num_computed_tokens'[r] = num_computed_tokens[r]
        /\ num_output_tokens'[r] = num_output_tokens[r]
    BY <1>0, <2>1 DEF Due, num_tokens
  <2>4. DueOK(r)'
    BY <2>2, <2>3 DEF DueOK
  <2> QED  BY <1>0, <1>2, <1>5, <2>1, <2>4, DeliverySame
<1> QED  BY <1>4, <1>5

LEMMA DeliverAllocate ==
  ASSUME SchedInv, Delivery, running_allocate
  PROVE  \A q \in Reqs : DeliveryOK(q)'
<1>0. /\ pc = "allocate" /\ pc' = "running" /\ scheduled' = Append(scheduled, cur)
      /\ UNCHANGED <<output, batch_queue, num_output_tokens, num_computed_tokens, status>>
      /\ UNCHANGED preempted_reqs
  BY DEF running_allocate, request_vars, output_vars
<1>1. \A q \in Reqs : Draining(q) => Draining(q)'
  BY <1>0 DEF Draining, Scheduling
<1>2. ASSUME NEW q \in Reqs, Chosen(q)' PROVE Chosen(q)
  <2>1. scheduled \in Seq(Entries) /\ cur \in Entries
    BY <1>0 DEF SchedInv, Shapes, Loop, Current
  <2>2. PICK s : s = Append(scheduled, cur)
    OBVIOUS
  <2>3. /\ Len(s) = Len(scheduled) + 1 /\ Len(scheduled) \in Nat /\ s[Len(scheduled) + 1] = cur
        /\ \A i \in 1 .. Len(scheduled) : s[i] = scheduled[i]
    BY <2>1, <2>2, AppendAt
  <2>4. PICK i \in 1 .. Len(s) : s[i].req = q
    BY <1>0, <1>2, <2>2 DEF Chosen, ReqsOf
  <2>5. CASE i = Len(s)
    BY <1>0, <2>3, <2>4, <2>5 DEF Chosen
  <2>6. CASE i # Len(s)
    <3>1. i \in 1 .. Len(scheduled) /\ scheduled[i].req = q
      BY <2>3, <2>4, <2>6
    <3> QED  BY <3>1 DEF Chosen, ReqsOf
  <2> QED  BY <2>5, <2>6
<1> QED  BY <1>0, <1>1, <1>2, QuietStep

LEMMA DeliverPreempt ==
  ASSUME SchedInv, Delivery, running_preempt
  PROVE  \A q \in Reqs : DeliveryOK(q)'
<1>v. PICK v, S : v = Victim /\ S = Elems(scheduled) \ ScheduledNow(v)
  OBVIOUS
<1>0. /\ pc = "allocate" /\ pc' \in {"allocate", "waiting"} /\ (pc' = "allocate" => cur' = cur)
      /\ scheduled' = Keep(scheduled, S) /\ status' = [status EXCEPT ![v] = "PREEMPTED"]
      /\ num_computed_tokens' = [num_computed_tokens EXCEPT ![v] = 0]
      /\ preempted_reqs' = preempted_reqs \cup {v}
      /\ UNCHANGED <<output, batch_queue, num_output_tokens>>
  BY <1>v DEF running_preempt, _preempt_request, output_vars
<1>1. v \in Reqs /\ status[v] = "RUNNING" /\ status'[v] = "PREEMPTED"
      /\ \A q \in Reqs : q # v => status'[q] = status[q] /\ num_computed_tokens'[q] = num_computed_tokens[q]
  <2>1. running # <<>> /\ running \in Seq(Reqs) /\ stopped_running_reqs = {}
    <3>1. cur.req \in Elems(running) /\ running \in Seq(Reqs) /\ stopped_running_reqs = {}
      BY <1>0 DEF SchedInv, Shapes, Lists, Loop, Current
    <3> QED  BY <3>1, EmptyFacts
  <2>2. v \in Elems(running)
    BY <1>v, <2>1, VictimRuns
  <2>3. v \in Reqs
    BY <2>1, <2>2 DEF Elems
  <2>4. Placed(v)
    BY <2>3 DEF SchedInv, Lists
  <2> QED  BY <1>0, <2>1, <2>2, <2>3, <2>4 DEF Placed, SchedInv, Shapes
<1>2. \A q : Chosen(q)' => Chosen(q)
  <2> SUFFICES ASSUME NEW q, Chosen(q)' PROVE Chosen(q)
    OBVIOUS
  <2>1. CASE q \in ReqsOf(scheduled')
    <3>1. PICK k : k = Keep(scheduled, S)
      OBVIOUS
    <3>2. Elems(k) = Elems(scheduled) \cap S
      BY <3>1, KeepFacts DEF SchedInv, Shapes
    <3>3. PICK i \in 1 .. Len(k) : k[i].req = q
      BY <1>0, <2>1, <3>1 DEF ReqsOf
    <3>4. k[i] \in Elems(scheduled)
      BY <3>2, <3>3 DEF Elems
    <3>5. PICK j \in 1 .. Len(scheduled) : scheduled[j] = k[i]
      BY <3>4 DEF Elems
    <3> QED  BY <3>3, <3>5 DEF Chosen, ReqsOf
  <2>2. CASE pc' = "allocate" /\ cur'.req = q
    BY <1>0, <2>2 DEF Chosen
  <2> QED  BY <2>1, <2>2 DEF Chosen
<1> SUFFICES ASSUME NEW q \in Reqs PROVE DeliveryOK(q)'
  OBVIOUS
<1>3. DeliveryOK(q)
  BY DEF Delivery
<1>4. CASE q # v
  <2>1. Draining(q) => Draining(q)'
    BY <1>0 DEF Draining, Scheduling
  <2> QED  BY <1>0, <1>1, <1>2, <1>3, <1>4, <2>1, DeliveryFrame
<1>5. CASE q = v
  <2>1. Draining(q)'
    <3>1. Len(batch_queue) \in {0, 1}
      BY <1>0, QueueFacts DEF Delivery
    <3>2. OwedAt(batch_queue, 2, q) = 0
      BY <3>1 DEF OwedAt
    <3> QED  BY <1>0, <3>2 DEF Draining, Scheduling
  <2>2. Due(q)' = Due(q)
    BY <1>0 DEF Due
  <2>3. DueOK(q)
    BY <1>1, <1>3, <1>5 DEF DeliveryOK
  <2>4. DueOK(q)'
    BY <1>0, <1>1, <1>2, <1>5, <2>1, <2>2, <2>3 DEF DueOK
  <2> QED  BY <1>0, <1>1, <1>3, <1>5, <2>4, DeliverySame
<1> QED  BY <1>4, <1>5

(* A request is resumed with nothing in flight.                            *)
LEMMA DeliverAdmit ==
  ASSUME SchedInv, Delivery, waiting_admit
  PROVE  \A q \in Reqs : DeliveryOK(q)'
<1>r. PICK r, c, n : /\ r = waiting[1] /\ c = Len(NextHits) * BlockSize
                     /\ n = Capped(Remaining(r, c), {})
  OBVIOUS
<1>e. PICK e : e = [req |-> r, n |-> n]
  OBVIOUS
<1>0. /\ pc = "waiting" /\ pc' = pc /\ waiting # <<>> /\ preempted_reqs = {}
      /\ scheduled' = Append(scheduled, e) /\ status' = [status EXCEPT ![r] = "RUNNING"]
      /\ num_computed_tokens' = [num_computed_tokens EXCEPT ![r] = c]
      /\ UNCHANGED <<output, batch_queue, num_output_tokens, preempted_reqs>>
  BY <1>e, <1>r DEF waiting_admit, CanAdmit, MoreWaiting, output_vars
<1>1. r \in Reqs /\ status[r] \in {"WAITING", "PREEMPTED"}
      /\ \A q \in Reqs : q # r => status'[q] = status[q] /\ num_computed_tokens'[q] = num_computed_tokens[q]
  <2>1. waiting \in Seq(Reqs) /\ stopped_preempted_reqs = {}
    BY <1>0 DEF SchedInv, Shapes, Lists
  <2>2. r \in Reqs /\ r \in Elems(waiting)
    BY <1>0, <1>r, <2>1, TailFacts
  <2>3. Placed(r)
    BY <2>2 DEF SchedInv, Lists
  <2> QED  BY <1>0, <2>1, <2>2, <2>3 DEF Placed, SchedInv, Shapes
<1> SUFFICES ASSUME NEW q \in Reqs PROVE DeliveryOK(q)'
  OBVIOUS
<1>2. DeliveryOK(q)
  BY DEF Delivery
<1>3. CASE q = r
  <2>1. Due(q) = 0
    <3>1. ~(Due(q) > 0)
      BY <1>0, <1>1, <1>2, <1>3 DEF DeliveryOK, DueOK, Draining, Scheduling
    <3> QED  BY <3>1, DueFacts
  <2> QED  BY <1>0, <1>1, <1>2, <1>3, <2>1, NothingDue, DeliverySame
<1>4. CASE q # r
  <2>1. Draining(q) => Draining(q)'
    BY <1>0 DEF Draining, Scheduling
  <2>2. ASSUME Chosen(q)' PROVE Chosen(q)
    <3>1. scheduled \in Seq(Entries) /\ scheduled' \in Seq(Entries)
      <4>1. SchedInv'
        BY SchedStep DEF Next, EngineStep
      <4> QED  BY <4>1 DEF SchedInv, Shapes
    <3>2. /\ Len(scheduled') = Len(scheduled) + 1 /\ Len(scheduled) \in Nat
          /\ scheduled'[Len(scheduled) + 1] = e
          /\ \A i \in 1 .. Len(scheduled) : scheduled'[i] = scheduled[i]
      BY <1>0, <3>1
    <3>3. PICK i \in 1 .. Len(scheduled') : scheduled'[i].req = q
      BY <1>0, <2>2 DEF Chosen, ReqsOf
    <3>4. i # Len(scheduled) + 1
      BY <1>4, <1>e, <3>2, <3>3
    <3>5. i \in 1 .. Len(scheduled) /\ scheduled[i].req = q
      BY <3>2, <3>3, <3>4
    <3> QED  BY <3>5 DEF Chosen, ReqsOf
  <2> QED  BY <1>0, <1>1, <1>2, <1>4, <2>1, <2>2, DeliveryFrame
<1> QED  BY <1>3, <1>4

(* The batch handed out samples, for every request in it that is done      *)
(* with its prefill, the token after those it has and those it is due.     *)
LEMMA SampledNext ==
  ASSUME SchedInv, Delivery, pc = "waiting", NEW r \in Reqs, status[r] # "FINISHED",
         r \in ReqsOf(scheduled)
  PROVE  /\ status[r] = "RUNNING" /\ num_output_placeholders[r] = Due(r) /\ Due(r) \in {0, 1}
         /\ Due(r) > 0 => ~is_prefill_chunk(r)
         /\ ~is_prefill_chunk(r) => Target(r) = num_tokens(r) + Due(r)
         /\ Due(r) > 0 => num_output_tokens[r] + 1 < MaxTokens[r]
<1>1. status[r] = "RUNNING"
  <2>1. r \in Elems(running) /\ stopped_running_reqs = {} /\ Placed(r)
    BY DEF SchedInv, Loop, Lists
  <2> QED  BY <2>1 DEF Placed
<1>2. DeliveryOK(r) /\ DueOK(r)
  BY DEF Delivery, DeliveryOK
<1>3. /\ num_computed_tokens[r] \in Nat /\ num_output_placeholders[r] \in Nat
      /\ Planned(scheduled, r) \in Nat \ {0} /\ num_tokens(r) \in Nat
  <2>1. scheduled \in Seq(Entries) /\ OncePer(scheduled)
    BY DEF SchedInv, Shapes, Loop
  <2>2. PICK i \in 1 .. Len(scheduled) : scheduled[i].req = r
    BY DEF ReqsOf
  <2>3. scheduled[i] \in Entries
    BY <2>1
  <2>4. Planned(scheduled, r) = scheduled[i].n
    BY <2>1, <2>2, PlannedFacts
  <2>5. Planned(scheduled, r) \in Nat \ {0}
    BY <2>3, <2>4 DEF Entries
  <2> QED  BY <2>5, SizeFacts DEF SchedInv, Shapes, num_tokens
<1>4. /\ Target(r) = num_computed_tokens[r] + Planned(scheduled, r)
      /\ Target(r) <= num_tokens(r) + num_output_placeholders[r]
  BY <1>1 DEF SchedInv, Counts, CountsOK, RunningOK, Target
<1>5. is_prefill_chunk(r) <=> Target(r) < num_tokens(r) + num_output_placeholders[r]
  BY NumScheduledIs DEF is_prefill_chunk, Target
<1>6. Due(r) \in {0, 1}
  <2>1. output = <<>> /\ Len(batch_queue) \in {0, 1}
    BY QueueFacts DEF SchedInv, Batches, Delivery
  <2>2. Owed(output, r) = 0
    BY <2>1, EmptyFacts
  <2>3. OwedAt(batch_queue, 2, r) = 0 /\ OwedAt(batch_queue, 1, r) \in {0, 1}
    BY <2>1, OwedFacts DEF OwedAt
  <2> QED  BY <2>2, <2>3 DEF Due, Pending
<1>7. Due(r) > 0 => num_computed_tokens[r] = num_tokens(r) + Due(r) - 1
  BY <1>1, <1>2 DEF DueOK
<1>8. num_output_placeholders[r] = Due(r)
  <2>1. /\ Async => num_output_placeholders[r] = Due(r)
        /\ ~Async => num_output_placeholders[r] = 0
    BY PlaceholdersDue DEF Delivery
  <2>2. CASE ~Async /\ Due(r) > 0
    BY <1>3, <1>4, <1>6, <1>7, <2>1, <2>2
  <2> QED  BY <1>6, <2>1, <2>2
<1>9. Due(r) > 0 => num_output_tokens[r] + 1 < MaxTokens[r]
  BY <1>2 DEF DueOK, Chosen
<1>10. Due(r) > 0 => ~is_prefill_chunk(r)
  BY <1>3, <1>4, <1>5, <1>6, <1>7, <1>8
<1>11. ~is_prefill_chunk(r) => Target(r) = num_tokens(r) + Due(r)
  BY <1>3, <1>4, <1>5, <1>6, <1>8
<1> QED  BY <1>1, <1>6, <1>8, <1>9, <1>10, <1>11

LEMMA DeliverBatch ==
  ASSUME SchedInv, Delivery, schedule_end
  PROVE  \A q \in Reqs : DeliveryOK(q)'
<1>b. PICK b : b = Batch
  OBVIOUS
<1>0. /\ pc = "waiting" /\ batch_queue' = Append(batch_queue, b) /\ scheduled' = <<>>
      /\ num_computed_tokens' = [r \in Reqs |-> num_computed_tokens[r] + NumScheduled(r)]
      /\ pc' \in {"idle", "await"} /\ (pc' = "idle" => Len(batch_queue) + 1 < BatchQueueSize)
      /\ UNCHANGED <<status, num_output_tokens, output>>
  BY <1>b DEF schedule_end, AfterSchedule, output_vars
<1>1. /\ b \in Seq(Outputs) /\ Len(b) = Len(scheduled)
      /\ \A i \in 1 .. Len(scheduled) :
           b[i].req = scheduled[i].req /\ b[i].pos = SampledPosition(scheduled[i].req)
      /\ \A r \in Reqs : Owed(b, r) =
           IF r \in ReqsOf(scheduled) /\ ~is_prefill_chunk(r) THEN 1 ELSE 0
  BY <1>b, BatchFacts
<1>2. /\ output = <<>> /\ batch_queue \in Seq(Seq(Outputs)) /\ Len(batch_queue) \in {0, 1}
      /\ BatchQueueSize \in {1, 2}
  BY <1>0, QueueFacts DEF SchedInv, Batches, Delivery
<1>3. /\ Len(batch_queue') = Len(batch_queue) + 1 /\ batch_queue'[Len(batch_queue) + 1] = b
      /\ \A i \in 1 .. Len(batch_queue) : batch_queue'[i] = batch_queue[i]
  <2>1. PICK a : a = Append(batch_queue, b)
    OBVIOUS
  <2>2. PICK h, T : h = batch_queue /\ T = Seq(Outputs)
    OBVIOUS
  <2>3. h \in Seq(T) /\ b \in T /\ a = Append(h, b)
    BY <1>1, <1>2, <2>1, <2>2, Zenon
  <2>4. /\ Len(a) = Len(h) + 1 /\ a[Len(h) + 1] = b
        /\ \A i \in 1 .. Len(h) : a[i] = h[i]
    BY <2>3
  <2> QED  BY <1>0, <2>1, <2>2, <2>4
<1>c. \A q : ~Chosen(q)'
  BY <1>0, EmptyFacts DEF Chosen
<1> SUFFICES ASSUME NEW q \in Reqs, status[q] # "FINISHED" PROVE DeliveryOK(q)'
  BY <1>0 DEF DeliveryOK
<1>4. Positions(q) /\ Limits(q) /\ DueOK(q)
  BY DEF Delivery, DeliveryOK
<1>5. /\ num_computed_tokens[q] \in Nat /\ Planned(scheduled, q) \in Nat /\ num_tokens(q) \in Nat
      /\ num_output_tokens[q] \in Nat /\ MaxTokens[q] \in Nat /\ MaxModelLen \in Nat
      /\ num_tokens(q)' = num_tokens(q) /\ num_output_tokens'[q] = num_output_tokens[q]
      /\ num_computed_tokens'[q] = Target(q) /\ Target(q) = num_computed_tokens[q] + Planned(scheduled, q)
  <2>1. num_computed_tokens[q] \in Nat /\ num_output_tokens[q] \in Nat /\ scheduled \in Seq(Entries)
        /\ OncePer(scheduled)
    BY DEF SchedInv, Shapes, Loop
  <2>2. Planned(scheduled, q) \in Nat
    BY <2>1, PlannedFacts
  <2>3. num_tokens(q) \in Nat /\ MaxTokens[q] \in Nat /\ MaxModelLen \in Nat
    BY <2>1, SizeFacts, SchedulerAssumption DEF num_tokens
  <2>4. num_tokens(q)' = num_tokens(q)
    BY <1>0 DEF num_tokens
  <2>5. num_computed_tokens'[q] = num_computed_tokens[q] + Planned(scheduled, q)
    BY <1>0, NumScheduledIs
  <2> QED  BY <1>0, <2>1, <2>2, <2>3, <2>4, <2>5 DEF Target
<1>6. Due(q)' = Due(q) + Owed(b, q) /\ Due(q) \in Nat
  <2>1. Len(batch_queue) < 2
    <3>1. PICK n : n = Len(batch_queue)
      OBVIOUS
    <3>2. n \in {0, 1}
      BY <1>2, <3>1, Zenon
    <3>3. n < 2
      BY <3>2
    <3> QED  BY <3>1, <3>3, Zenon
  <2>2. Pending(output, Append(batch_queue, b), q) = Pending(output, batch_queue, q) + Owed(b, q)
    <3>1. PICK h, T : h = batch_queue /\ T = Seq(Outputs)
      OBVIOUS
    <3>2. h \in Seq(T) /\ b \in T /\ Len(h) < 2
      BY <1>1, <1>2, <2>1, <3>1, Zenon
    <3>3. Pending(output, Append(h, b), q) = Pending(output, h, q) + Owed(b, q)
      BY <3>2, PendingAppend
    <3> QED  BY <3>1, <3>3
  <2>3. Due(q) \in Nat
    BY DueFacts
  <2> QED  BY <1>0, <2>2, <2>3 DEF Due
<1>7. Owed(output, q) = 0 /\ Owed(output, q)' = 0
  BY <1>0, <1>2, EmptyFacts
<1>8. Due(q) = IF Len(batch_queue) = 1 THEN Owed(batch_queue[1], q) ELSE 0
  <2>1. OwedAt(batch_queue, 2, q) = 0
    BY <1>2 DEF OwedAt
  <2>2. OwedAt(batch_queue, 1, q) = IF Len(batch_queue) = 1 THEN Owed(batch_queue[1], q) ELSE 0
    BY <1>2 DEF OwedAt
  <2>3. OwedAt(batch_queue, 1, q) \in Nat
    BY OwedFacts
  <2> QED  BY <1>7, <2>1, <2>2, <2>3 DEF Due, Pending
<1>9. AtPos(b, q, num_tokens(q) + Due(q) + 1)
  <2> SUFFICES ASSUME NEW i \in 1 .. Len(b), b[i].req = q, b[i].pos # 0
               PROVE  b[i].pos = num_tokens(q) + Due(q) + 1
    BY DEF AtPos
  <2>1. scheduled[i].req = q /\ b[i].pos = SampledPosition(q) /\ q \in ReqsOf(scheduled)
    BY <1>1 DEF ReqsOf
  <2>2. ~is_prefill_chunk(q) /\ b[i].pos = num_computed_tokens[q] + NumScheduled(q) + 1
    BY <2>1 DEF SampledPosition
  <2>3. Target(q) = num_tokens(q) + Due(q)
    BY <1>0, <2>1, <2>2, SampledNext
  <2> QED  BY <1>5, <2>2, <2>3, NumScheduledIs
<1>10. Positions(q)'
  <2>1. AtPos(output', q, num_tokens(q)' + 1)
    BY <1>0, <1>4, <1>5 DEF Positions
  <2>2. CASE Len(batch_queue) = 0
    <3>1. Len(batch_queue') = 1 /\ batch_queue'[1] = b
      BY <1>3, <2>2
    <3>2. AtPos(batch_queue'[1], q, num_tokens(q)' + Owed(output', q) + 1)
      BY <1>5, <1>7, <1>8, <1>9, <2>2, <3>1
    <3> QED  BY <2>1, <3>1, <3>2 DEF Positions
  <2>3. CASE Len(batch_queue) = 1
    <3>1. Len(batch_queue') = 2 /\ batch_queue'[1] = batch_queue[1] /\ batch_queue'[2] = b
      BY <1>3, <2>3
    <3>2. AtPos(batch_queue[1], q, num_tokens(q) + Owed(output, q) + 1)
      BY <1>4, <2>3 DEF Positions
    <3>3. AtPos(batch_queue'[1], q, num_tokens(q)' + Owed(output', q) + 1)
      BY <1>0, <1>5, <3>1, <3>2
    <3>4. num_tokens(q)' + Owed(output', q) + Owed(batch_queue'[1], q) + 1 = num_tokens(q) + Due(q) + 1
      BY <1>5, <1>6, <1>7, <1>8, <2>3, <3>1
    <3>5. AtPos(batch_queue'[2], q, num_tokens(q)' + Owed(output', q) + Owed(batch_queue'[1], q) + 1)
      BY <1>9, <3>1, <3>4
    <3> QED  BY <2>1, <3>3, <3>5 DEF Positions
  <2> QED  BY <1>2, <2>2, <2>3
<1>11. CASE Owed(b, q) = 0
  <2>1. Due(q)' = Due(q)
    BY <1>6, <1>11
  <2>2. Limits(q)'
    BY <1>4, <1>5, <2>1 DEF Limits
  <2>3. ASSUME Due(q) > 0, status[q] = "RUNNING" PROVE num_computed_tokens'[q] = num_computed_tokens[q]
    <3>1. q \notin ReqsOf(scheduled)
      <4> SUFFICES ASSUME q \in ReqsOf(scheduled) PROVE FALSE
        OBVIOUS
      <4>1. ~is_prefill_chunk(q)
        BY <1>0, <2>3, SampledNext
      <4> QED  BY <1>1, <1>11, <4>1
    <3>2. Planned(scheduled, q) = 0
      <4>1. scheduled \in Seq(Entries) /\ OncePer(scheduled)
        BY DEF SchedInv, Shapes, Loop
      <4> QED  BY <3>1, <4>1, PlannedFacts
    <3> QED  BY <1>5, <3>2
  <2>4. ASSUME Due(q) > 0 PROVE Draining(q)'
    <3>1. Len(batch_queue) = 1
      BY <1>2, <1>8, <2>4
    <3>2. pc' = "await"
      BY <1>0, <1>2, <3>1
    <3>3. Len(batch_queue') = 2 /\ batch_queue'[2] = b
      BY <1>3, <3>1
    <3>4. OwedAt(batch_queue', 2, q) = 0
      BY <1>11, <3>3 DEF OwedAt
    <3> QED  BY <3>2, <3>4 DEF Draining, Scheduling
  <2>5. DueOK(q)'
    <3>1. status'[q] = status[q]
      BY <1>0
    <3> QED  BY <1>4, <1>5, <1>c, <2>1, <2>3, <2>4, <3>1 DEF DueOK
  <2> QED  BY <1>10, <2>2, <2>5 DEF DeliveryOK
<1>12. CASE Owed(b, q) # 0
  <2>1. Owed(b, q) = 1 /\ q \in ReqsOf(scheduled) /\ ~is_prefill_chunk(q)
    BY <1>1, <1>12
  <2>2. /\ status[q] = "RUNNING" /\ Due(q) \in {0, 1} /\ Target(q) = num_tokens(q) + Due(q)
        /\ Due(q) > 0 => num_output_tokens[q] + 1 < MaxTokens[q]
    BY <1>0, <2>1, SampledNext
  <2>3. Due(q)' = Due(q) + 1
    BY <1>6, <2>1
  <2>4. Target(q) <= MaxModelLen - 1 /\ num_output_tokens[q] < MaxTokens[q]
    BY DEF SchedInv, Counts, CountsOK
  <2>5. Limits(q)'
    <3>1. num_output_tokens[q] + (Due(q) + 1) <= MaxTokens[q]
      BY <1>5, <2>2, <2>4
    <3>2. num_tokens(q) + (Due(q) + 1) <= MaxModelLen
      BY <1>5, <2>2, <2>4
    <3> QED  BY <1>5, <2>3, <3>1, <3>2 DEF Limits
  <2>6. num_computed_tokens'[q] = num_tokens(q)' + Due(q)' - 1
    BY <1>5, <2>2, <2>3
  <2>7. DueOK(q)'
    <3>1. status'[q] = "RUNNING"
      BY <1>0, <2>2
    <3> QED  BY <1>c, <2>6, <3>1 DEF DueOK
  <2> QED  BY <1>10, <2>5, <2>7 DEF DeliveryOK
<1> QED  BY <1>11, <1>12

LEMMA DeliverOldest ==
  ASSUME SchedInv, Delivery, update_begin
  PROVE  \A q \in Reqs : DeliveryOK(q)'
<1>0. /\ pc = "await" /\ pc' = "update"
      /\ output' = Head(batch_queue) /\ batch_queue' = Tail(batch_queue)
      /\ UNCHANGED <<status, num_computed_tokens, num_output_tokens>>
      /\ UNCHANGED <<cur, preempted_reqs, scheduled>>
  BY DEF update_begin, request_vars, local_vars
<1>1. /\ batch_queue \in Seq(Seq(Outputs)) /\ batch_queue # <<>> /\ output = <<>>
      /\ Len(batch_queue) \in {0, 1, 2}
  BY <1>0, QueueFacts DEF SchedInv, Batches, Delivery
<1>2. /\ Len(batch_queue) \in Nat \ {0} /\ output' = batch_queue[1]
      /\ Len(batch_queue') = Len(batch_queue) - 1
      /\ \A i \in 1 .. Len(batch_queue) - 1 : batch_queue'[i] = batch_queue[i + 1]
  <2>1. /\ Len(batch_queue) \in Nat \ {0} /\ Head(batch_queue) = batch_queue[1]
        /\ Len(Tail(batch_queue)) = Len(batch_queue) - 1
        /\ \A i \in 1 .. Len(batch_queue) - 1 : Tail(batch_queue)[i] = batch_queue[i + 1]
    BY <1>1, TailFacts
  <2> QED  BY <1>0, <2>1
<1>n. PICK n : n = Len(batch_queue)
  OBVIOUS
<1>m. n \in {1, 2}
  <2>1. n \in {0, 1, 2} /\ n # 0
    BY <1>1, <1>2, <1>n
  <2> QED  BY <2>1
<1> SUFFICES ASSUME NEW q \in Reqs, status[q] # "FINISHED" PROVE DeliveryOK(q)'
  BY <1>0 DEF DeliveryOK
<1>3. Positions(q) /\ Limits(q) /\ DueOK(q)
  BY DEF Delivery, DeliveryOK
<1>4. /\ num_tokens(q)' = num_tokens(q) /\ num_output_tokens'[q] = num_output_tokens[q]
      /\ num_tokens(q) \in Nat
  BY <1>0, SizeFacts DEF num_tokens, SchedInv, Shapes
<1>5. Due(q)' = Due(q)
  <2>1. Len(batch_queue) <= 2
    BY <1>m, <1>n
  <2>2. Pending(Head(batch_queue), Tail(batch_queue), q) = Pending(<<>>, batch_queue, q)
    BY <1>1, <2>1, PendingShift
  <2> QED  BY <1>0, <1>1, <2>2 DEF Due
<1>6. Owed(output, q) = 0
  BY <1>1, EmptyFacts
<1>7. Owed(output', q) \in Nat
  BY OwedFacts
<1>8. Positions(q)'
  <2>1. AtPos(output', q, num_tokens(q)' + 1)
    <3>1. AtPos(batch_queue[1], q, num_tokens(q) + Owed(output, q) + 1)
      BY <1>3, <1>m, <1>n DEF Positions
    <3>2. num_tokens(q) + Owed(output, q) + 1 = num_tokens(q)' + 1
      BY <1>4, <1>6
    <3> QED  BY <1>2, <3>1, <3>2
  <2>2. CASE n = 1
    <3>1. Len(batch_queue') = 0
      BY <1>2, <1>n, <2>2
    <3> QED  BY <2>1, <3>1 DEF Positions
  <2>3. CASE n = 2
    <3>1. Len(batch_queue') = 1 /\ batch_queue'[1] = batch_queue[2]
      BY <1>2, <1>n, <2>3
    <3>2. AtPos(batch_queue[2], q, num_tokens(q) + Owed(output, q) + Owed(batch_queue[1], q) + 1)
      BY <1>3, <1>n, <2>3 DEF Positions
    <3>3. num_tokens(q) + Owed(output, q) + Owed(batch_queue[1], q) + 1
            = num_tokens(q)' + Owed(output', q) + 1
      BY <1>2, <1>4, <1>6, <1>7
    <3>4. AtPos(batch_queue'[1], q, num_tokens(q)' + Owed(output', q) + 1)
      BY <3>1, <3>2, <3>3
    <3> QED  BY <2>1, <3>1, <3>4 DEF Positions
  <2> QED  BY <1>m, <2>2, <2>3
<1>9. Limits(q)'
  BY <1>3, <1>4, <1>5 DEF Limits
<1>10. Draining(q) => Draining(q)'
  <2> SUFFICES ASSUME OwedAt(batch_queue, 2, q) = 0
               PROVE  OwedAt(batch_queue', 1, q) = 0 /\ OwedAt(batch_queue', 2, q) = 0
    BY <1>0 DEF Draining, Scheduling
  <2>1. CASE n = 1
    <3>1. Len(batch_queue') = 0
      BY <1>2, <1>n, <2>1
    <3> QED  BY <3>1 DEF OwedAt
  <2>2. CASE n = 2
    <3>1. Len(batch_queue') = 1 /\ batch_queue'[1] = batch_queue[2]
      BY <1>2, <1>n, <2>2
    <3>2. Owed(batch_queue[2], q) = 0
      BY <1>n, <2>2 DEF OwedAt
    <3> QED  BY <3>1, <3>2 DEF OwedAt
  <2> QED  BY <1>m, <2>1, <2>2
<1>11. Chosen(q)' => Chosen(q)
  BY <1>0 DEF Chosen
<1>12. DueOK(q)'
  <2>1. status'[q] = status[q] /\ num_computed_tokens'[q] = num_computed_tokens[q]
    BY <1>0
  <2> QED  BY <1>3, <1>4, <1>5, <1>10, <1>11, <2>1 DEF DueOK
<1> QED  BY <1>8, <1>9, <1>12 DEF DeliveryOK

(* Taking one output off: what it means for the requests it is not for.    *)
LEMMA DeliverOthers ==
  ASSUME SchedInv, Delivery, pc = "update", pc' \in {"update", "stopped"}, output # <<>>,
         output' = Tail(output), batch_queue' = batch_queue, scheduled' = scheduled,
         NEW q \in Reqs, ~(Head(output).req = q /\ Head(output).pos # 0),
         status'[q] = status[q], num_computed_tokens'[q] = num_computed_tokens[q],
         num_output_tokens'[q] = num_output_tokens[q]
  PROVE  DeliveryOK(q)'
<1> SUFFICES ASSUME status[q] # "FINISHED" PROVE DeliveryOK(q)'
  BY DEF DeliveryOK
<1>1. Positions(q) /\ Limits(q) /\ DueOK(q)
  BY DEF Delivery, DeliveryOK
<1>2. num_tokens(q)' = num_tokens(q)
  BY DEF num_tokens
<1>3. output \in Seq(Outputs) /\ OncePer(output)
  BY DEF SchedInv, Shapes, Batches
<1>d. PICK d : d = IF Head(output).req = q /\ Head(output).pos # 0 THEN 1 ELSE 0
  OBVIOUS
<1>e. d = 0
  BY <1>d
<1>4. Owed(output', q) = Owed(output, q) /\ Owed(output, q) \in Nat
  <2>1. Owed(output, q) = Owed(Tail(output), q) + d
    BY <1>3, <1>d, OwedTail
  <2>2. Owed(Tail(output), q) \in Nat /\ Owed(output, q) \in Nat
    BY OwedFacts
  <2>3. Owed(Tail(output), q) = Owed(output, q)
    BY <1>e, <2>1, <2>2
  <2> QED  BY <2>2, <2>3
<1>5. Due(q)' = Due(q)
  BY <1>4 DEF Due, Pending
<1>6. AtPos(output', q, num_tokens(q)' + 1)
  <2>1. PICK t : t = Tail(output)
    OBVIOUS
  <2>2. Len(output) \in Nat \ {0} /\ Len(t) = Len(output) - 1
        /\ \A i \in 1 .. Len(output) - 1 : t[i] = output[i + 1]
    BY <1>3, <2>1, TailFacts
  <2>3. AtPos(output, q, num_tokens(q) + 1)
    BY <1>1 DEF Positions
  <2>4. AtPos(t, q, num_tokens(q) + 1)
    <3> SUFFICES ASSUME NEW i \in 1 .. Len(t), t[i].req = q, t[i].pos # 0
                 PROVE  t[i].pos = num_tokens(q) + 1
      BY DEF AtPos
    <3>1. i + 1 \in 1 .. Len(output) /\ t[i] = output[i + 1]
      BY <2>2
    <3> QED  BY <2>3, <3>1 DEF AtPos
  <2> QED  BY <1>2, <2>1, <2>4
<1>7. Positions(q)'
  BY <1>1, <1>2, <1>4, <1>6 DEF Positions
<1>8. Limits(q)'
  BY <1>1, <1>2, <1>5 DEF Limits
<1>9. DueOK(q)'
  <2>1. Draining(q) => Draining(q)'
    BY DEF Draining, Scheduling
  <2>2. Chosen(q)' => Chosen(q)
    BY DEF Chosen
  <2> QED  BY <1>1, <1>2, <1>5, <2>1, <2>2 DEF DueOK
<1> QED  BY <1>7, <1>8, <1>9 DEF DeliveryOK

LEMMA DeliverNothing ==
  ASSUME SchedInv, Delivery, update_nothing
  PROVE  \A q \in Reqs : DeliveryOK(q)'
<1>0. /\ pc = "update" /\ pc' = "update" /\ output # <<>> /\ output' = Tail(output)
      /\ ~Unfinished(Head(output).req) \/ Head(output).pos = 0
      /\ UNCHANGED <<batch_queue, scheduled, status, num_computed_tokens, num_output_tokens>>
  BY DEF update_nothing, request_vars, local_vars
<1> SUFFICES ASSUME NEW q \in Reqs, status[q] # "FINISHED" PROVE DeliveryOK(q)'
  BY <1>0 DEF DeliveryOK
<1>1. ~(Head(output).req = q /\ Head(output).pos # 0)
  <2> SUFFICES ASSUME Head(output).req = q, Head(output).pos # 0 PROVE FALSE
    OBVIOUS
  <2>1. status[q] = "new"
    BY <1>0 DEF Unfinished, SchedInv, Shapes
  <2>2. Due(q) > 0
    <3>1. output \in Seq(Outputs) /\ OncePer(output)
      BY DEF SchedInv, Shapes, Batches
    <3>2. PICK t : t = Tail(output)
      OBVIOUS
    <3>3. PICK d : d = IF Head(output).req = q /\ Head(output).pos # 0 THEN 1 ELSE 0
      OBVIOUS
    <3>4. Pending(t, batch_queue, q) \in Nat /\ Pending(output, batch_queue, q) = Pending(t, batch_queue, q) + d
      BY <1>0, <3>1, <3>2, <3>3, PendingFacts
    <3>5. d = 1
      BY <3>3
    <3> QED  BY <3>4, <3>5 DEF Due
  <2>3. DueOK(q)
    BY DEF Delivery, DeliveryOK
  <2> QED  BY <2>1, <2>2, <2>3 DEF DueOK
<1> QED  BY <1>0, <1>1, DeliverOthers

(* A token delivered: it is the next one of its request.                   *)
LEMMA NextToken ==
  ASSUME SchedInv, Delivery, NEW eos, update_token(eos)
  PROVE  /\ Head(output).req \in Reqs
         /\ Head(output).pos = num_tokens(Head(output).req) + 1
<1>r. PICK r : r = Head(output).req
  OBVIOUS
<1>0. output # <<>> /\ Unfinished(r) /\ Head(output).pos # 0
  BY <1>r DEF update_token
<1>1. output \in Seq(Outputs)
  BY DEF SchedInv, Shapes
<1>2. Head(output) = output[1] /\ 1 \in 1 .. Len(output) /\ Head(output) \in Outputs
  <2>1. Len(output) \in Nat \ {0} /\ output[1] \in Outputs /\ Head(output) = output[1]
    BY <1>0, <1>1, TailFacts
  <2> QED  BY <2>1
<1>3. r \in Reqs
  BY <1>2, <1>r DEF Outputs
<1>4. AtPos(output, r, num_tokens(r) + 1)
  BY <1>0, <1>3 DEF Delivery, DeliveryOK, Positions, Unfinished
<1>5. output[1].pos = num_tokens(r) + 1
  BY <1>0, <1>2, <1>4, <1>r DEF AtPos
<1> QED  BY <1>2, <1>3, <1>5, <1>r

LEMMA DeliverToken ==
  ASSUME SchedInv, Delivery, NEW eos, update_token(eos)
  PROVE  \A q \in Reqs : DeliveryOK(q)'
<1>r. PICK r, p : r = Head(output).req /\ p = Head(output).pos
  OBVIOUS
<1>0. /\ pc = "update" /\ output # <<>> /\ Unfinished(r) /\ p # 0
      /\ num_output_tokens' = [num_output_tokens EXCEPT ![r] = num_output_tokens[r] + 1]
      /\ output' = Tail(output)
      /\ \/ status' = [status EXCEPT ![r] = "FINISHED"] /\ pc' = "stopped"
         \/ status' = status /\ pc' = pc
      /\ UNCHANGED <<batch_queue, scheduled, num_computed_tokens>>
  BY <1>r DEF update_token
<1>1. r \in Reqs
  BY <1>r, NextToken
<1>2. /\ \A q \in Reqs : q # r => status'[q] = status[q] /\ num_output_tokens'[q] = num_output_tokens[q]
      /\ num_output_tokens'[r] = num_output_tokens[r] + 1 /\ num_output_tokens[r] \in Nat
      /\ status'[r] = "FINISHED" \/ status' = status
  BY <1>0, <1>1 DEF SchedInv, Shapes
<1> SUFFICES ASSUME NEW q \in Reqs PROVE DeliveryOK(q)'
  OBVIOUS
<1>3. CASE q # r
  <2>1. ~(Head(output).req = q /\ Head(output).pos # 0)
    BY <1>3, <1>r
  <2> QED  BY <1>0, <1>2, <1>3, <2>1, DeliverOthers
<1>4. CASE q = r /\ status'[r] = "FINISHED"
  BY <1>4 DEF DeliveryOK
<1>5. CASE q = r /\ status' = status
  <2>0. status[r] # "FINISHED" /\ status[r] # "new" /\ pc' \in {"update", "stopped"}
    BY <1>0 DEF Unfinished
  <2>1. Positions(r) /\ Limits(r) /\ DueOK(r)
    BY <1>1, <2>0 DEF Delivery, DeliveryOK
  <2>2. num_tokens(r)' = num_tokens(r) + 1 /\ num_tokens(r) \in Nat
    BY <1>1, <1>2, SizeFacts DEF num_tokens
  <2>3. output \in Seq(Outputs) /\ OncePer(output) /\ scheduled = <<>>
    BY <1>0 DEF SchedInv, Shapes, Batches, Loop, Scheduling
  <2>4. Owed(output, r) = 1 /\ Owed(output', r) = 0
    <3>1. PICK d : d = IF Head(output).req = r /\ Head(output).pos # 0 THEN 1 ELSE 0
      OBVIOUS
    <3>2. PICK t : t = Tail(output)
      OBVIOUS
    <3>3. Owed(output, r) = Owed(t, r) + d
      BY <1>0, <2>3, <3>1, <3>2, OwedTail
    <3>4. Owed(output, r) \in {0, 1} /\ Owed(t, r) \in {0, 1}
      BY OwedFacts
    <3>5. d = 1
      BY <1>0, <1>r, <3>1
    <3>6. Owed(output, r) = 1 /\ Owed(t, r) = 0
      BY <3>3, <3>4, <3>5
    <3> QED  BY <1>0, <3>2, <3>6
  <2>5. Due(r)' = Due(r) - 1 /\ Due(r) \in Nat \ {0}
    <3>1. OwedAt(batch_queue, 1, r) \in Nat /\ OwedAt(batch_queue, 2, r) \in Nat
      BY OwedFacts
    <3>2. Due(r) = 1 + OwedAt(batch_queue, 1, r) + OwedAt(batch_queue, 2, r)
      BY <2>4 DEF Due, Pending
    <3>3. Due(r)' = 0 + OwedAt(batch_queue, 1, r) + OwedAt(batch_queue, 2, r)
      BY <1>0, <2>4 DEF Due, Pending
    <3> QED  BY <3>1, <3>2, <3>3
  <2>6. AtPos(output', r, num_tokens(r)' + 1)
    BY <2>4 DEF Owed, AtPos
  <2>7. Positions(r)'
    <3>1. Len(batch_queue) >= 1 => AtPos(batch_queue[1], r, num_tokens(r)' + Owed(output', r) + 1)
      <4>1. num_tokens(r) + Owed(output, r) + 1 = num_tokens(r)' + Owed(output', r) + 1
        BY <2>2, <2>4
      <4> QED  BY <2>1, <4>1 DEF Positions
    <3>2. Len(batch_queue) >= 2 =>
            AtPos(batch_queue[2], r, num_tokens(r)' + Owed(output', r) + Owed(batch_queue[1], r) + 1)
      <4>1. Owed(batch_queue[1], r) \in Nat
        BY OwedFacts
      <4>2. num_tokens(r) + Owed(output, r) + Owed(batch_queue[1], r) + 1
              = num_tokens(r)' + Owed(output', r) + Owed(batch_queue[1], r) + 1
        BY <2>2, <2>4, <4>1
      <4> QED  BY <2>1, <4>2 DEF Positions
    <3> QED  BY <1>0, <2>6, <3>1, <3>2 DEF Positions
  <2>8. Limits(r)'
    <3>1. MaxTokens[r] \in Nat /\ MaxModelLen \in Nat
      BY <1>1, SchedulerAssumption
    <3> QED  BY <1>2, <2>1, <2>2, <2>5, <3>1 DEF Limits
  <2>9. ~Chosen(r)'
    BY <1>0, <2>0, <2>3, EmptyFacts DEF Chosen
  <2>10. Draining(r) => Draining(r)'
    BY <1>0, <2>0 DEF Draining, Scheduling
  <2>11. status[r] = "RUNNING" => num_computed_tokens'[r] = num_tokens(r)' + Due(r)' - 1
    <3> SUFFICES ASSUME status[r] = "RUNNING" PROVE num_computed_tokens'[r] = num_tokens(r)' + Due(r)' - 1
      OBVIOUS
    <3>1. num_computed_tokens[r] = num_tokens(r) + Due(r) - 1
      BY <2>1, <2>5 DEF DueOK
    <3> QED  BY <1>0, <2>2, <2>5, <3>1
  <2>12. status[r] # "RUNNING" => Draining(r)
    BY <2>1, <2>5 DEF DueOK
  <2>13. DueOK(r)'
    <3>1. status'[r] = status[r]
      BY <1>5
    <3> QED  BY <2>0, <2>9, <2>10, <2>11, <2>12, <3>1 DEF DueOK
  <2> QED  BY <1>5, <2>7, <2>8, <2>13 DEF DeliveryOK
<1> QED  BY <1>2, <1>3, <1>4, <1>5

LEMMA DeliverEnd ==
  ASSUME SchedInv, Delivery, update_end
  PROVE  \A q \in Reqs : DeliveryOK(q)'
<1>0. /\ pc = "update" /\ pc' = "idle" /\ output = <<>>
      /\ UNCHANGED <<output, batch_queue, scheduled, status, num_computed_tokens, num_output_tokens>>
  BY DEF update_end, request_vars, local_vars
<1> SUFFICES ASSUME NEW q \in Reqs, status[q] # "FINISHED" PROVE DeliveryOK(q)'
  BY <1>0 DEF DeliveryOK
<1>1. DeliveryOK(q) /\ DueOK(q)
  BY DEF Delivery, DeliveryOK
<1>2. CASE Draining(q)
  <2>1. Owed(output, q) = 0
    BY <1>0, EmptyFacts
  <2>2. Due(q) = 0
    BY <1>0, <1>2, <2>1 DEF Draining, Due, Pending
  <2> QED  BY <1>0, <1>1, <2>2, NothingDue, DeliverySame
<1>3. CASE ~Draining(q)
  <2>1. Chosen(q)' => Chosen(q)
    BY <1>0 DEF Chosen
  <2> QED  BY <1>0, <1>1, <1>3, <2>1, DeliveryFrame
<1> QED  BY <1>2, <1>3

(* The other steps change no request's state.                              *)
LEMMA DeliverQuiet ==
  ASSUME SchedInv, Delivery,
         \/ reset_prefix_cache_if_unused \/ reset_begin \/ reset_end \/ schedule_begin
         \/ running_skip \/ running_done \/ await_begin \/ _free_request \/ UNCHANGED vars
  PROVE  \A q \in Reqs : DeliveryOK(q)'
<1>1. UNCHANGED <<output, batch_queue, num_output_tokens, status, num_computed_tokens>>
  BY DEF reset_prefix_cache_if_unused, reset_begin, reset_end, schedule_begin, running_skip,
         running_done, await_begin, _free_request, vars, request_vars, output_vars
<1>2. \/ pc' # "allocate" /\ (scheduled' = scheduled \/ scheduled' = <<>>)
      \/ UNCHANGED <<pc, scheduled, cur>>
  BY DEF reset_prefix_cache_if_unused, reset_begin, reset_end, schedule_begin, running_skip,
         running_done, await_begin, _free_request, vars, local_vars
<1>3. \A r \in Reqs : Chosen(r)' => Chosen(r)
  BY <1>2, EmptyFacts DEF Chosen
<1>4. \/ pc \in {"idle", "resetting"}
      \/ pc \in {"running", "waiting"} /\ pc' \in {"running", "waiting"} /\ UNCHANGED preempted_reqs
      \/ pc \in {"update", "stopped"} /\ pc' \in {"update", "stopped"}
      \/ UNCHANGED <<pc, preempted_reqs>>
  BY DEF reset_prefix_cache_if_unused, reset_begin, reset_end, schedule_begin, running_skip,
         running_done, await_begin, _free_request, vars, local_vars
<1>5. \A r \in Reqs : Draining(r) => Draining(r)'
  BY <1>1, <1>4 DEF Draining, Scheduling
<1> QED  BY <1>1, <1>3, <1>5, QuietStep

LEMMA DeliveryStep ==
  ASSUME BatchQueueSize <= 2, MaxForcedResets = 0 \/ BatchQueueSize = 1,
         SchedInv, Delivery, [Next]_vars
  PROVE  Delivery'
<1>u. Undisturbed'
  <2>1. CASE BatchQueueSize = 1
    BY <2>1 DEF Undisturbed
  <2>2. CASE BatchQueueSize # 1
    <3>1. ~reset_begin
      BY <2>2 DEF reset_begin, Delivery, Undisturbed
    <3>2. forced_resets' = forced_resets
      BY <3>1 DEF Next, ClientStep, EngineStep, add_request, finish_requests,
           reset_prefix_cache_if_unused, reset_preempt, reset_end, schedule_begin, running_skip,
           running_pick, running_allocate, running_preempt, running_done, waiting_admit, schedule_end,
           await_begin, update_begin, update_nothing, update_discard, update_token, _free_request,
           update_end, vars, ghost_vars
    <3> QED  BY <3>2 DEF Delivery, Undisturbed
  <2> QED  BY <2>1, <2>2
<1>d. ~update_discard
  <2> SUFFICES ASSUME update_discard PROVE FALSE
    OBVIOUS
  <2>1. PICK r : r = Head(output).req
    OBVIOUS
  <2>2. output # <<>> /\ Unfinished(r) /\ Async /\ discard_latest_async_tokens[r]
    BY <2>1 DEF update_discard
  <2>3. r \in Reqs
    <3>1. output \in Seq(Outputs)
      BY DEF SchedInv, Shapes
    <3>2. Head(output) \in Outputs
      BY <2>2, <3>1, TailFacts
    <3> QED  BY <2>1, <3>2 DEF Outputs
  <2> QED  BY <2>2, <2>3, PlaceholdersDue DEF Delivery, Unfinished
<1>1. \A q \in Reqs : DeliveryOK(q)'
  <2>1. CASE \E r \in Reqs : add_request(r)
    BY <2>1, DeliverAdd
  <2>2. CASE \E r \in Reqs : finish_requests(r)
    BY <2>2, DeliverFinish
  <2>3. CASE reset_preempt
    BY <2>3, DeliverReset
  <2>4. CASE running_pick
    BY <2>4, DeliverPick
  <2>5. CASE running_allocate
    BY <2>5, DeliverAllocate
  <2>6. CASE running_preempt
    BY <2>6, DeliverPreempt
  <2>7. CASE waiting_admit
    BY <2>7, DeliverAdmit
  <2>8. CASE schedule_end
    BY <2>8, DeliverBatch
  <2>9. CASE update_begin
    BY <2>9, DeliverOldest
  <2>10. CASE update_nothing
    BY <2>10, DeliverNothing
  <2>11. CASE \E eos \in BOOLEAN : update_token(eos)
    BY <2>11, DeliverToken
  <2>12. CASE update_end
    BY <2>12, DeliverEnd
  <2>13. CASE \/ reset_prefix_cache_if_unused \/ reset_begin \/ reset_end \/ schedule_begin
              \/ running_skip \/ running_done \/ await_begin \/ _free_request \/ UNCHANGED vars
    BY <2>13, DeliverQuiet
  <2> QED  BY <1>d, <2>1, <2>2, <2>3, <2>4, <2>5, <2>6, <2>7, <2>8, <2>9, <2>10, <2>11, <2>12, <2>13
              DEF Next, ClientStep, EngineStep
<1> QED  BY <1>u, <1>1 DEF Delivery

LEMMA InitDelivery ==
  ASSUME BatchQueueSize <= 2, Init
  PROVE  Delivery
<1>1. /\ output = <<>> /\ batch_queue = <<>> /\ forced_resets = 0
      /\ \A r \in Reqs : num_output_tokens[r] = 0
  BY DEF Init
<1>2. Undisturbed
  BY <1>1, SchedulerAssumption DEF Undisturbed
<1>3. ASSUME NEW r \in Reqs PROVE DeliveryOK(r)
  <2>1. Len(batch_queue) = 0
    BY <1>1
  <2>2. Due(r) = 0
    <3>1. OwedAt(batch_queue, 1, r) = 0 /\ OwedAt(batch_queue, 2, r) = 0
      BY <2>1 DEF OwedAt
    <3>2. Owed(output, r) = 0
      BY <1>1, EmptyFacts
    <3> QED  BY <3>1, <3>2 DEF Due, Pending
  <2>3. Positions(r)
    <3>1. Len(output) = 0
      BY <1>1
    <3> QED  BY <2>1, <3>1 DEF Positions, AtPos
  <2>4. Limits(r)
    BY <1>1, <2>2, SchedulerAssumption DEF Limits, num_tokens
  <2>5. DueOK(r)
    BY <2>2 DEF DueOK
  <2> QED  BY <2>3, <2>4, <2>5 DEF DeliveryOK
<1> QED  BY <1>2, <1>3 DEF Delivery

(* No step is spent on a token beyond max_tokens or max_model_len: what a  *)
(* live request has and what is in flight for it stay within both limits.  *)
(* For the engine's step(), for asynchronous scheduling and for two        *)
(* pipeline stages.                                                        *)
THEOREM LimitsHold ==
  ASSUME BatchQueueSize <= 2, MaxForcedResets = 0 \/ BatchQueueSize = 1
  PROVE  Spec => []OutputsWithinLimits
<1>1. Init => Delivery
  BY InitDelivery
<1>2. SchedInv /\ Delivery /\ [Next]_vars => Delivery'
  BY DeliveryStep
<1>3. SchedInv /\ Delivery => OutputsWithinLimits
  <2> SUFFICES ASSUME SchedInv, Delivery, NEW r \in Reqs, Unfinished(r)
               PROVE  /\ num_output_tokens[r] + Cardinality(InFlight(r)) <= MaxTokens[r]
                      /\ PromptLen[r] + (num_output_tokens[r] + Cardinality(InFlight(r))) <= MaxModelLen
    BY DEF OutputsWithinLimits
  <2>1. Len(batch_queue) <= 2
    <3>1. PICK n : n = Len(batch_queue)
      OBVIOUS
    <3>2. n \in {0, 1, 2}
      BY <3>1, QueueFacts, Zenon DEF Delivery
    <3>3. n <= 2
      BY <3>2
    <3> QED  BY <3>1, <3>3, Zenon
  <2>2. Cardinality(InFlight(r)) = Due(r)
    BY <2>1, InFlightCount DEF Due
  <2>3. Limits(r)
    BY DEF Delivery, DeliveryOK, Unfinished
  <2>4. Due(r) \in Nat /\ num_output_tokens[r] \in Nat /\ PromptLen[r] \in Nat
    BY DueFacts, SchedulerAssumption DEF SchedInv, Shapes
  <2> QED  BY <2>2, <2>3, <2>4 DEF Limits, num_tokens
<1> QED  BY <1>1, <1>2, <1>3, SchedInvHolds, PTL DEF Spec

(* Every token is appended at the position it was sampled for: none is     *)
(* lost, doubled or out of order, whatever is preempted, resumed or        *)
(* aborted while batches are in flight.                                    *)
THEOREM TokensInOrder ==
  ASSUME BatchQueueSize <= 2, MaxForcedResets = 0 \/ BatchQueueSize = 1
  PROVE  Spec => OutputInOrder
<1>1. Init => Delivery
  BY InitDelivery
<1>2. SchedInv /\ Delivery /\ [Next]_vars => Delivery'
  BY DeliveryStep
<1>3. SchedInv /\ Delivery /\ [Next]_vars =>
        [\A r \in Reqs : num_output_tokens'[r] # num_output_tokens[r] =>
           /\ Head(output).req = r
           /\ Head(output).pos = PromptLen[r] + num_output_tokens'[r]]_vars
  <2> SUFFICES ASSUME SchedInv, Delivery, Next, NEW r \in Reqs,
                      num_output_tokens'[r] # num_output_tokens[r]
               PROVE  /\ Head(output).req = r
                      /\ Head(output).pos = PromptLen[r] + num_output_tokens'[r]
    OBVIOUS
  <2>1. PICK eos \in BOOLEAN : update_token(eos)
    BY DEF Next, ClientStep, EngineStep, add_request, finish_requests,
           reset_prefix_cache_if_unused, reset_begin, reset_preempt, reset_end, schedule_begin,
           running_skip, running_pick, running_allocate, running_preempt, running_done, waiting_admit,
           schedule_end, await_begin, update_begin, update_nothing, update_discard, _free_request,
           update_end, request_vars
  <2>2. PICK h : h = Head(output).req
    OBVIOUS
  <2>3. num_output_tokens' = [num_output_tokens EXCEPT ![h] = num_output_tokens[h] + 1]
    BY <2>1, <2>2 DEF update_token
  <2>4. h = r /\ num_output_tokens'[r] = num_output_tokens[r] + 1 /\ num_output_tokens[r] \in Nat
        /\ PromptLen[r] \in Nat
    BY <2>3, SchedulerAssumption DEF SchedInv, Shapes
  <2>5. Head(output).pos = num_tokens(h) + 1
    BY <2>1, <2>2, NextToken
  <2> QED  BY <2>2, <2>4, <2>5 DEF num_tokens
<1> QED  BY <1>1, <1>2, <1>3, SchedInvHolds, PTL DEF Spec, OutputInOrder

-----------------------------------------------------------------------------
(* The KV data.                                                            *)

(* Where the tokens of a request are: token Pos(i, o) is in slot o of the  *)
(* i-th block of its table.                                                *)
Pos(i, o) == (i - 1) * BlockSize + o
Offsets == 0 .. BlockSize - 1

(* The batch being put together will write slot o of block b.              *)
WritesTo(q, j, b, o) ==
  /\ j <= Len(req_to_blocks[q]) /\ req_to_blocks[q][j] = b
  /\ Pos(j, o) >= num_computed_tokens[q] /\ Pos(j, o) < Target(q)
Planning(b, o) == \E q \in Reqs, j \in 1 .. MaxReqBlocks : WritesTo(q, j, b, o)

(* A slot holds what it should, or the batch is going to put it there.     *)
Filled(b, o, h) == kv_data[b][o] = h \/ Planning(b, o)
CachedFilled ==
  \A b \in Blocks : block_hash[b] # NoHash => \A o \in Offsets : Filled(b, o, block_hash[b])
ComputedFilled ==
  \A r \in Reqs : status[r] = "RUNNING" =>
    \A i \in 1 .. Len(req_to_blocks[r]), o \in Offsets :
      Pos(i, o) < num_computed_tokens[r] => Filled(req_to_blocks[r][i], o, block_hashes[r][i])
DataInv == CachedFilled /\ ComputedFilled

(* Under FCFS the loop over running stands at the request it allocates     *)
(* for, so that the victim, the last one, is not scheduled yet.            *)
Cursor ==
  Policy = "fcfs" /\ pc = "allocate" =>
    req_index <= Len(running) /\ running[req_index] = cur.req

(* Slots and positions.                                                    *)
LEMMA PosFacts ==
  ASSUME NEW i \in Nat \ {0}, NEW o \in Offsets
  PROVE  /\ Pos(i, o) \in Nat /\ Pos(i, o) < i * BlockSize
         /\ \A k \in Nat : Pos(i, o) < k * BlockSize => i <= k
         /\ \A k \in Nat : i <= k => Pos(i, o) < k * BlockSize
<1>0. BlockSize \in Nat \ {0} /\ o \in Nat /\ o < BlockSize
  BY SizeFacts DEF Offsets
<1>1. PICK a : a = (i - 1) * BlockSize
  OBVIOUS
<1>2. a \in Nat /\ Pos(i, o) = a + o /\ i * BlockSize = a + BlockSize
  BY <1>0, <1>1 DEF Pos
<1>3. Pos(i, o) \in Nat /\ Pos(i, o) < i * BlockSize
  BY <1>0, <1>2
<1>4. ASSUME NEW k \in Nat, Pos(i, o) < k * BlockSize PROVE i <= k
  <2>1. (i - 1) * BlockSize < k * BlockSize
    <3>1. k * BlockSize \in Nat
      BY <1>0
    <3> QED  BY <1>0, <1>1, <1>2, <1>4, <3>1
  <2>2. i - 1 < k
    BY <1>0, <2>1, ScaleStrict
  <2> QED  BY <2>2
<1>5. ASSUME NEW k \in Nat, i <= k PROVE Pos(i, o) < k * BlockSize
  <2>1. i * BlockSize <= k * BlockSize
    BY <1>0, <1>5, ScaleMono
  <2>2. i * BlockSize \in Nat /\ k * BlockSize \in Nat
    BY <1>0
  <2> QED  BY <1>3, <2>1, <2>2
<1> QED  BY <1>3, <1>4, <1>5

(* The batch writes nothing for a request that is not in it.               *)
LEMMA NoWrites ==
  ASSUME SchedInv, NEW q \in Reqs, q \notin ReqsOf(scheduled), NEW j \in 1 .. MaxReqBlocks,
         NEW b, NEW o \in Offsets
  PROVE  ~WritesTo(q, j, b, o)
<1>1. Planned(scheduled, q) = 0 /\ num_computed_tokens[q] \in Nat
  BY PlannedFacts DEF SchedInv, Shapes, Loop
<1>2. Target(q) = num_computed_tokens[q]
  BY <1>1 DEF Target
<1>3. Pos(j, o) \in Nat
  BY PosFacts
<1> QED  BY <1>1, <1>2, <1>3 DEF WritesTo

(* The blocks of a table.                                                  *)
LEMMA TableBlocks ==
  ASSUME KVInv
  PROVE  \A r \in Reqs : \A i \in 1 .. Len(req_to_blocks[r]) :
           req_to_blocks[r][i] \in Blocks /\ i \in 1 .. MaxReqBlocks /\ i \in Nat \ {0}
<1> TAKE r \in Reqs
<1> TAKE i \in 1 .. Len(req_to_blocks[r])
<1>1. req_to_blocks[r] \in Seq(PoolBlocks) /\ Len(req_to_blocks[r]) \in Nat
      /\ Len(req_to_blocks[r]) <= MaxReqBlocks
  BY TableFacts
<1>2. req_to_blocks[r][i] \in PoolBlocks
  BY <1>1
<1>3. i \in 1 .. MaxReqBlocks
  BY <1>1, SizeFacts
<1> QED  BY <1>1, <1>2, <1>3, BlockFacts

(* Two requests that hold the same block hold it for the same prefix, and  *)
(* for the one whose hash it carries.                                      *)
LEMMA SamePrefix ==
  ASSUME KVInv, CachedHashed, NEW r \in Reqs, NEW q \in Reqs,
         NEW i \in 1 .. Len(req_to_blocks[r]), NEW j \in 1 .. Len(req_to_blocks[q]),
         req_to_blocks[r][i] = req_to_blocks[q][j]
  PROVE  /\ block_hashes[r][i] = block_hashes[q][j]
         /\ block_hash[req_to_blocks[r][i]] \in {NoHash, block_hashes[r][i]}
<1> DEFINE b == req_to_blocks[r][i]
<1>0. /\ Len(req_to_blocks[r]) \in Nat /\ Len(req_to_blocks[q]) \in Nat
      /\ num_cached_block[r] \in Nat /\ num_cached_block[q] \in Nat
  BY TableFacts
<1>1. r \in Holders(b) /\ q \in Holders(b)
  BY DEF Holders, Elems
<1>2. /\ i <= num_cached_block[r] => block_hash[b] = block_hashes[r][i]
      /\ j <= num_cached_block[q] => block_hash[b] = block_hashes[q][j]
  BY <1>0 DEF CachedHashed
<1>3. /\ i > num_cached_block[r] => block_hash[b] = NoHash /\ Holders(b) = {r}
      /\ j > num_cached_block[q] => block_hash[b] = NoHash /\ Holders(b) = {q}
  <2>1. TablesMatchPrefix
    BY DEF KVInv
  <2>2. /\ ~(i <= num_cached_block[r]) => block_hash[b] = NoHash /\ Holders(b) = {r}
        /\ ~(j <= num_cached_block[q]) =>
             block_hash[req_to_blocks[q][j]] = NoHash /\ Holders(req_to_blocks[q][j]) = {q}
    BY <2>1, Zenon DEF TablesMatchPrefix
  <2>3. /\ i > num_cached_block[r] => ~(i <= num_cached_block[r])
        /\ j > num_cached_block[q] => ~(j <= num_cached_block[q])
    BY <1>0
  <2> QED  BY <2>2, <2>3
<1>4. block_hashes[r][i] # NoHash /\ block_hashes[q][j] # NoHash
  <2>1. i \in 1 .. MaxReqBlocks /\ j \in 1 .. MaxReqBlocks
    BY TableBlocks
  <2> QED  BY <2>1, HashFacts, BlockFacts
<1>5. r = q => i = j
  BY DEF KVInv, RefCountsHolders, Distinct
<1> HIDE DEF b
<1>6. CASE i <= num_cached_block[r] /\ j <= num_cached_block[q]
  BY <1>2, <1>6 DEF b
<1>7. CASE i > num_cached_block[r]
  <2>1. q = r /\ block_hash[b] = NoHash
    BY <1>1, <1>3, <1>7
  <2> QED  BY <1>5, <2>1 DEF b
<1>8. CASE j > num_cached_block[q]
  <2>1. q = r /\ block_hash[b] = NoHash
    BY <1>1, <1>3, <1>8
  <2> QED  BY <1>5, <2>1 DEF b
<1> QED  BY <1>0, <1>6, <1>7, <1>8

(* The slots that execute_model writes.                                    *)
LEMMA WritersAre ==
  ASSUME SchedInv, NEW b \in Blocks, NEW o \in Offsets
  PROVE  /\ \A w \in Writers(b, o) : /\ w[1] \in Reqs /\ w[2] \in 1 .. MaxReqBlocks
                                     /\ WritesTo(w[1], w[2], b, o)
         /\ \A q \in Reqs, j \in 1 .. MaxReqBlocks :
              WritesTo(q, j, b, o) => <<q, j>> \in Writers(b, o)
<1>0. scheduled \in Seq(Entries) /\ OncePer(scheduled)
  BY DEF SchedInv, Shapes, Loop
<1>1. {e.req : e \in Elems(scheduled)} = ReqsOf(scheduled)
  BY DEF Elems, ReqsOf
<1>2. ReqsOf(scheduled) \subseteq Reqs
  <2>1. \A i \in 1 .. Len(scheduled) : scheduled[i] \in Entries
    BY <1>0
  <2> QED  BY <2>1 DEF ReqsOf, Entries
<1>3. \A w : w \in Writers(b, o) <=> /\ w \in ReqsOf(scheduled) \X (1 .. MaxReqBlocks)
                                     /\ WritesTo(w[1], w[2], b, o)
  BY <1>1, NumScheduledIs DEF Writers, WritesTo, Pos, Target
<1>4. ASSUME NEW w \in Writers(b, o)
      PROVE  w[1] \in Reqs /\ w[2] \in 1 .. MaxReqBlocks /\ WritesTo(w[1], w[2], b, o)
  <2>1. w \in ReqsOf(scheduled) \X (1 .. MaxReqBlocks) /\ WritesTo(w[1], w[2], b, o)
    BY <1>3, <1>4
  <2> QED  BY <1>2, <2>1
<1>5. ASSUME NEW q \in Reqs, NEW j \in 1 .. MaxReqBlocks, WritesTo(q, j, b, o)
      PROVE  <<q, j>> \in Writers(b, o)
  <2>1. q \in ReqsOf(scheduled)
    BY <1>5, NoWrites
  <2>2. PICK w : w = <<q, j>>
    OBVIOUS
  <2>3. w \in ReqsOf(scheduled) \X (1 .. MaxReqBlocks) /\ w[1] = q /\ w[2] = j
    BY <2>1, <2>2
  <2> QED  BY <1>3, <1>5, <2>2, <2>3
<1> QED  BY <1>4, <1>5

(* Nothing that was going to be written is forgotten.                      *)
WritesKept ==
  \A q \in Reqs, j \in 1 .. MaxReqBlocks, b \in Blocks, o \in Offsets :
    WritesTo(q, j, b, o) => WritesTo(q, j, b, o)'

(* What is filled stays filled while the planned writes stay planned.      *)
LEMMA FilledKept ==
  ASSUME WritesKept, kv_data' = kv_data, NEW b \in Blocks, NEW o \in Offsets, NEW h,
         Filled(b, o, h)
  PROVE  Filled(b, o, h)'
BY DEF Filled, Planning, WritesKept

(* A step that changes no KV data keeps the invariant if what it caches    *)
(* and what it counts as computed is filled.                               *)
LEMMA DataMoves ==
  ASSUME KVInv', WritesKept, kv_data' = kv_data,
         \A b \in Blocks, o \in Offsets : block_hash'[b] # NoHash =>
           Filled(b, o, block_hash'[b]) \/ Planning(b, o)',
         \A r \in Reqs : status'[r] = "RUNNING" =>
           \A i \in 1 .. Len(req_to_blocks'[r]), o \in Offsets :
             Pos(i, o) < num_computed_tokens'[r] =>
               Filled(req_to_blocks'[r][i], o, block_hashes[r][i])
  PROVE  DataInv'
<1>1. CachedFilled'
  <2> SUFFICES ASSUME NEW b \in Blocks, block_hash'[b] # NoHash, NEW o \in Offsets
               PROVE  Filled(b, o, block_hash[b])'
    BY DEF CachedFilled
  <2>1. PICK h : h = block_hash'[b]
    OBVIOUS
  <2>2. CASE Planning(b, o)'
    BY <2>2 DEF Filled
  <2>3. CASE Filled(b, o, h)
    <3>1. Filled(b, o, h)'
      BY <2>3, FilledKept
    <3> QED  BY <2>1, <3>1 DEF Filled
  <2> QED  BY <2>1, <2>2, <2>3
<1>2. ComputedFilled'
  <2> SUFFICES ASSUME NEW r \in Reqs, status'[r] = "RUNNING",
                      NEW i \in 1 .. Len(req_to_blocks'[r]), NEW o \in Offsets,
                      Pos(i, o)' < num_computed_tokens'[r]
               PROVE  Filled(req_to_blocks[r][i], o, block_hashes[r][i])'
    BY DEF ComputedFilled
  <2>1. PICK b, h : b = req_to_blocks'[r][i] /\ h = block_hashes[r][i]
    OBVIOUS
  <2>2. b \in Blocks
    <3>1. req_to_blocks' \in [Reqs -> Seq(PoolBlocks)]
      BY DEF KVInv, KVTypeOK
    <3>2. req_to_blocks'[r] \in Seq(PoolBlocks)
      BY <3>1
    <3> QED  BY <2>1, <3>2, BlockFacts
  <2>3. Filled(b, o, h)
    BY <2>1 DEF Pos
  <2>4. Filled(b, o, h)'
    BY <2>2, <2>3, FilledKept
  <2> QED  BY <2>1, <2>4 DEF Filled
<1> QED  BY <1>1, <1>2 DEF DataInv

(* Steps that leave alone the blocks of whoever goes on running.           *)
LEMMA DataFrame ==
  ASSUME SchedInv, DataInv, KVInv', WritesKept, kv_data' = kv_data,
         \A b \in Blocks : block_hash'[b] \in {NoHash, block_hash[b]},
         \A r \in Reqs : status'[r] = "RUNNING" =>
           /\ status[r] = "RUNNING" /\ req_to_blocks'[r] = req_to_blocks[r]
           /\ num_computed_tokens'[r] = num_computed_tokens[r]
  PROVE  DataInv'
<1>1. ASSUME NEW b \in Blocks, NEW o \in Offsets, block_hash'[b] # NoHash
      PROVE  Filled(b, o, block_hash'[b])
  <2>1. block_hash'[b] = block_hash[b]
    BY <1>1
  <2>2. Filled(b, o, block_hash[b])
    BY <1>1, <2>1 DEF DataInv, CachedFilled
  <2> QED  BY <2>1, <2>2
<1>2. ASSUME NEW r \in Reqs, status'[r] = "RUNNING", NEW i \in 1 .. Len(req_to_blocks'[r]),
             NEW o \in Offsets, Pos(i, o) < num_computed_tokens'[r]
      PROVE  Filled(req_to_blocks'[r][i], o, block_hashes[r][i])
  <2>1. /\ status[r] = "RUNNING" /\ i \in 1 .. Len(req_to_blocks[r])
        /\ Pos(i, o) < num_computed_tokens[r]
    BY <1>2
  <2>2. Filled(req_to_blocks[r][i], o, block_hashes[r][i])
    BY <2>1 DEF DataInv, ComputedFilled
  <2>3. req_to_blocks'[r][i] = req_to_blocks[r][i]
    BY <1>2
  <2> QED  BY <2>2, <2>3
<1> QED  BY <1>1, <1>2, DataMoves

(* Writes stay planned for everybody whose blocks and counts stay.         *)
LEMMA KeptFor ==
  ASSUME SchedInv,
         \A q \in Reqs : q \notin ReqsOf(scheduled)
           \/ /\ num_computed_tokens'[q] = num_computed_tokens[q]
              /\ Planned(scheduled', q) = Planned(scheduled, q)
              /\ req_to_blocks'[q] = req_to_blocks[q]
  PROVE  WritesKept
<1> SUFFICES ASSUME NEW q \in Reqs, NEW j \in 1 .. MaxReqBlocks, NEW b \in Blocks,
                    NEW o \in Offsets, WritesTo(q, j, b, o)
             PROVE  WritesTo(q, j, b, o)'
  BY DEF WritesKept
<1>1. q \in ReqsOf(scheduled)
  BY NoWrites
<1>2. /\ num_computed_tokens'[q] = num_computed_tokens[q]
      /\ Planned(scheduled', q) = Planned(scheduled, q)
      /\ req_to_blocks'[q] = req_to_blocks[q]
  BY <1>1
<1> QED  BY <1>2 DEF WritesTo, Target, Pos

(* A step that leaves everything alone but the statuses of requests that   *)
(* are not running afterwards.                                             *)
LEMMA DataSame ==
  ASSUME SchedInv, SchedInv', DataInv, UNCHANGED <<kvars, num_computed_tokens, kv_data>>,
         \A q \in Reqs : Planned(scheduled', q) = Planned(scheduled, q),
         \A q \in Reqs : status'[q] = "RUNNING" => status[q] = "RUNNING"
  PROVE  DataInv'
<1>1. UNCHANGED <<block_hash, req_to_blocks, num_computed_tokens, kv_data>>
  BY DEF kvars
<1>2. WritesKept
  BY <1>1, KeptFor
<1>3. KVInv'
  BY DEF SchedInv
<1> QED  BY <1>1, <1>2, <1>3, DataFrame

(* A request that is not scheduled gives its blocks back.                  *)
LEMMA DataFree ==
  ASSUME SchedInv, SchedInv', DataInv, NEW v \in Reqs, free(v), v \notin ReqsOf(scheduled),
         status'[v] # "RUNNING", kv_data' = kv_data,
         \A q \in Reqs : q # v => /\ Planned(scheduled', q) = Planned(scheduled, q)
                                  /\ num_computed_tokens'[q] = num_computed_tokens[q]
                                  /\ status'[q] = "RUNNING" => status[q] = "RUNNING"
  PROVE  DataInv'
<1>1. /\ block_hash' = block_hash
      /\ \A q \in Reqs : q # v => req_to_blocks'[q] = req_to_blocks[q]
  <2>1. block_hash' = block_hash /\ req_to_blocks' = [req_to_blocks EXCEPT ![v] = <<>>]
    BY DEF free
  <2> QED  BY <2>1, TableFacts DEF SchedInv
<1>2. WritesKept
  BY <1>1, KeptFor
<1>3. KVInv'
  BY DEF SchedInv
<1>4. \A b \in Blocks : block_hash'[b] \in {NoHash, block_hash[b]}
  BY <1>1
<1> QED  BY <1>1, <1>2, <1>3, <1>4, DataFrame

(* allocate_slots caches a block before the batch has filled it, and only  *)
(* blocks that the batch does fill.                                        *)
LEMMA DataAlloc ==
  ASSUME SchedInv, DataInv, KVInv', kv_data' = kv_data,
         NEW r \in Reqs, NEW hits, NEW nb \in 1 .. MaxReqBlocks, NEW nf \in 0 .. nb,
         HitsOK(r, hits, nb), allocate_slots(r, hits, nb, nf), r \notin ReqsOf(scheduled),
         NEW c \in Nat, NEW n \in Nat, num_computed_tokens'[r] = c, Planned(scheduled', r) = n,
         nf * BlockSize <= c + n, c <= Len(Held(r, hits)) * BlockSize,
         \A i \in 1 .. Len(Held(r, hits)), o \in Offsets :
           Pos(i, o) < c => Filled(Held(r, hits)[i], o, block_hashes[r][i]),
         \A q \in Reqs : q # r => /\ Planned(scheduled', q) = Planned(scheduled, q)
                                  /\ num_computed_tokens'[q] = num_computed_tokens[q]
                                  /\ status'[q] = "RUNNING" => status[q] = "RUNNING"
  PROVE  DataInv'
<1>k. KVInv
  BY DEF SchedInv
<1>0. PICK N, T, full : Allocated(r, hits, nb, N, T, full)
  BY <1>k, AllocFacts
<1>1. PICK done, held : done = Done(r, hits) /\ held = Held(r, hits)
  OBVIOUS
<1>2. /\ done \in Nat /\ full \in Nat /\ done <= full /\ full <= nb
      /\ Len(held) \in Nat /\ Len(held) <= nb
      /\ T \in Seq(PoolBlocks) /\ Len(T) = nb
      /\ \A i \in 1 .. nb : i <= Len(held) => T[i] = held[i]
  BY <1>0, <1>1 DEF Allocated, Taken
<1>3. /\ req_to_blocks' = [req_to_blocks EXCEPT ![r] = T]
      /\ num_cached_block' = [num_cached_block EXCEPT ![r] = full]
      /\ \A i \in done + 1 .. full : block_hash'[T[i]] = block_hashes[r][i]
      /\ \A b \in Blocks : (\A i \in done + 1 .. full : T[i] # b) =>
           block_hash'[b] = IF b \in N THEN NoHash ELSE block_hash[b]
  BY <1>0, <1>1 DEF Allocated
<1>4. /\ req_to_blocks'[r] = T /\ \A q \in Reqs : q # r => req_to_blocks'[q] = req_to_blocks[q]
      /\ num_cached_block'[r] = full
  BY <1>k, <1>3, TableFacts
<1>5. nb \in Nat /\ nb <= MaxReqBlocks /\ MaxReqBlocks \in Nat /\ nf \in Nat
      /\ BlockSize \in Nat \ {0}
  BY SizeFacts
<1>6. full # done => full = nf
  <2>1. num_cached_block' = [num_cached_block EXCEPT ![r] = FullAfter(done, nf)]
    BY <1>1 DEF allocate_slots, Done
  <2>2. num_cached_block'[r] = FullAfter(done, nf)
    BY <1>k, <2>1, TableFacts
  <2> QED  BY <1>4, <2>2 DEF FullAfter
<1>7. \A i \in 1 .. nb, o \in Offsets : Pos(i, o) < c => i <= Len(held)
  <2> TAKE i \in 1 .. nb, o \in Offsets
  <2>1. i \in Nat \ {0} /\ c <= Len(held) * BlockSize /\ Len(held) * BlockSize \in Nat
    BY <1>1, <1>2, <1>5
  <2>2. Pos(i, o) \in Nat /\ (Pos(i, o) < Len(held) * BlockSize => i <= Len(held))
    BY <1>2, <2>1, PosFacts
  <2> QED  BY <2>1, <2>2
<1>8. \A i \in 1 .. nb, o \in Offsets : Pos(i, o) < c => Filled(T[i], o, block_hashes[r][i])
  <2> SUFFICES ASSUME NEW i \in 1 .. nb, NEW o \in Offsets, Pos(i, o) < c
               PROVE  Filled(T[i], o, block_hashes[r][i])
    OBVIOUS
  <2>1. i <= Len(held) /\ i \in 1 .. Len(held)
    BY <1>2, <1>5, <1>7
  <2>2. T[i] = held[i]
    BY <1>2, <2>1
  <2>3. Filled(held[i], o, block_hashes[r][i])
    BY <1>1, <2>1
  <2> QED  BY <2>2, <2>3
<1>9. WritesKept
  BY <1>4, KeptFor
<1>10. ASSUME NEW b \in Blocks, NEW o \in Offsets, block_hash'[b] # NoHash
       PROVE  Filled(b, o, block_hash'[b]) \/ Planning(b, o)'
  <2>1. CASE \E i \in done + 1 .. full : T[i] = b
    <3>1. PICK i \in done + 1 .. full : T[i] = b
      BY <2>1
    <3>2. i \in 1 .. nb /\ i \in Nat \ {0} /\ i <= nf /\ i \in 1 .. MaxReqBlocks
      BY <1>2, <1>5, <1>6
    <3>3. block_hash'[b] = block_hashes[r][i]
      BY <1>3, <3>1
    <3>4. CASE Pos(i, o) < c
      BY <1>8, <3>1, <3>2, <3>3, <3>4
    <3>5. CASE ~(Pos(i, o) < c)
      <4>1. Pos(i, o) \in Nat /\ Pos(i, o) < nf * BlockSize /\ nf * BlockSize \in Nat
        BY <1>5, <3>2, PosFacts
      <4>2. Pos(i, o) >= c /\ Pos(i, o) < c + n
        BY <3>5, <4>1
      <4>3. i <= Len(req_to_blocks'[r]) /\ req_to_blocks'[r][i] = b
        BY <1>2, <1>4, <3>1, <3>2
      <4>4. Target(r)' = c + n
        BY DEF Target
      <4>5. WritesTo(r, i, b, o)'
        BY <4>2, <4>3, <4>4 DEF WritesTo, Pos
      <4> QED  BY <3>2, <4>5 DEF Planning
    <3> QED  BY <3>4, <3>5
  <2>2. CASE ~\E i \in done + 1 .. full : T[i] = b
    <3>1. block_hash'[b] = block_hash[b]
      BY <1>3, <1>10, <2>2
    <3>2. Filled(b, o, block_hash[b])
      BY <1>10, <3>1 DEF DataInv, CachedFilled
    <3> QED  BY <3>1, <3>2
  <2> QED  BY <2>1, <2>2
<1>11. ASSUME NEW q \in Reqs, status'[q] = "RUNNING", NEW i \in 1 .. Len(req_to_blocks'[q]),
              NEW o \in Offsets, Pos(i, o) < num_computed_tokens'[q]
       PROVE  Filled(req_to_blocks'[q][i], o, block_hashes[q][i])
  <2>1. CASE q = r
    <3>1. i \in 1 .. nb /\ Pos(i, o) < c /\ req_to_blocks'[q] = T
      BY <1>2, <1>4, <1>11, <2>1
    <3>2. Filled(T[i], o, block_hashes[r][i])
      BY <1>8, <3>1
    <3> QED  BY <2>1, <3>1, <3>2
  <2>2. CASE q # r
    <3>1. /\ status[q] = "RUNNING" /\ req_to_blocks'[q] = req_to_blocks[q]
          /\ Pos(i, o) < num_computed_tokens[q]
      BY <1>4, <1>11, <2>2
    <3>2. Filled(req_to_blocks[q][i], o, block_hashes[q][i])
      BY <3>1 DEF DataInv, ComputedFilled
    <3> QED  BY <3>1, <3>2
  <2> QED  BY <2>1, <2>2
<1> QED  BY <1>9, <1>10, <1>11, DataMoves

(* A running request gets the blocks for its next tokens.                  *)
LEMMA DataGrow ==
  ASSUME SchedInv, SchedInv', DataInv, running_allocate
  PROVE  DataInv'
<1>a. PICK r, n, c, nb, nf : Growing(r, n, c, nb, nf)
  BY AllocateStart
<1>1. /\ c = num_computed_tokens[r] /\ allocate_slots(r, <<>>, nb, nf)
      /\ scheduled' = Append(scheduled, cur) /\ kv_data' = kv_data
      /\ status' = status /\ num_computed_tokens' = num_computed_tokens
      /\ r \notin ReqsOf(scheduled) /\ r \in Reqs /\ n \in Nat \ {0} /\ c \in Nat
      /\ status[r] = "RUNNING"
  BY <1>a DEF Growing
<1>2. \A q : Planned(Append(scheduled, cur), q) = IF q = r THEN n ELSE Planned(scheduled, q)
  BY <1>a DEF Growing
<1>3. /\ nb \in 1 .. MaxReqBlocks /\ nf \in 0 .. nb /\ nf * BlockSize <= c + n
      /\ Len(req_to_blocks[r]) = cdiv(c, BlockSize) /\ nb >= Len(req_to_blocks[r])
  BY <1>a DEF Growing
<1>4. KVInv /\ KVInv' /\ nb \in Nat
  BY <1>3, SizeFacts DEF SchedInv
<1>5. HitsOK(r, <<>>, nb)
  BY <1>1, <1>3, <1>4, GrowHits
<1>6. Held(r, <<>>) = req_to_blocks[r]
  <2>1. \A s \in Seq(PoolBlocks) : s \o <<>> = s
    OBVIOUS
  <2>2. req_to_blocks[r] \in Seq(PoolBlocks)
    BY <1>1, <1>4, TableFacts
  <2> QED  BY <2>1, <2>2 DEF Held
<1>7. c <= Len(req_to_blocks[r]) * BlockSize
  <2>1. BlockSize \in Nat \ {0}
    BY SizeFacts
  <2> QED  BY <1>1, <1>3, <2>1, CdivFacts
<1>8. \A i \in 1 .. Len(req_to_blocks[r]), o \in Offsets :
        Pos(i, o) < c => Filled(req_to_blocks[r][i], o, block_hashes[r][i])
  BY <1>1 DEF DataInv, ComputedFilled
<1>9. num_computed_tokens'[r] = c /\ Planned(scheduled', r) = n /\ n \in Nat
  BY <1>1, <1>2
<1>10. \A q \in Reqs : q # r => /\ Planned(scheduled', q) = Planned(scheduled, q)
                                /\ num_computed_tokens'[q] = num_computed_tokens[q]
                                /\ status'[q] = "RUNNING" => status[q] = "RUNNING"
  BY <1>1, <1>2
<1>11. PICK hits : hits = <<>>
  OBVIOUS
<1>12. /\ HitsOK(r, hits, nb) /\ allocate_slots(r, hits, nb, nf)
       /\ c <= Len(Held(r, hits)) * BlockSize
       /\ \A i \in 1 .. Len(Held(r, hits)), o \in Offsets :
            Pos(i, o) < c => Filled(Held(r, hits)[i], o, block_hashes[r][i])
  BY <1>1, <1>5, <1>6, <1>7, <1>8, <1>11
<1> QED  BY <1>1, <1>3, <1>4, <1>9, <1>10, <1>12, DataAlloc

(* A waiting request starts with the cached prefix.                        *)
LEMMA DataAdmit ==
  ASSUME SchedInv, SchedInv', DataInv, waiting_admit
  PROVE  DataInv'
<1>a. PICK r, t, m, hits, h, c, n, nb, nf, e : Admitting(r, t, m, hits, h, c, n, nb, nf, e)
  BY AdmitStart
<1>1. /\ hits = get_computed_blocks(r, m) /\ h = Len(hits) /\ c = h * BlockSize
      /\ e = [req |-> r, n |-> n] /\ allocate_slots(r, hits, nb, nf)
      /\ status' = [status EXCEPT ![r] = "RUNNING"]
      /\ num_computed_tokens' = [num_computed_tokens EXCEPT ![r] = c]
      /\ scheduled' = Append(scheduled, e) /\ kv_data' = kv_data
  BY <1>a DEF Admitting
<1>2. /\ scheduled \in Seq(Entries) /\ OncePer(scheduled)
      /\ r \in Reqs /\ Len(req_to_blocks[r]) = 0 /\ r \notin ReqsOf(scheduled)
      /\ c \in Nat /\ n \in Nat \ {0} /\ m \in 0 .. MaxReqBlocks - 1 /\ h \in Nat
  BY <1>a DEF Admitting
<1>3. nb \in 1 .. MaxReqBlocks /\ nf \in 0 .. nb /\ nf * BlockSize <= c + n /\ nb > h /\ nb \in Nat
  BY <1>a DEF Admitting
<1>4. KVInv /\ KVInv'
  BY DEF SchedInv
<1>5. req_to_blocks[r] = <<>>
  BY <1>2, <1>4, TableFacts
<1>6. HitsOK(r, hits, nb)
  BY <1>1, <1>2, <1>3, <1>4, <1>5, AdmitHits
<1>7. hits \in Seq(PoolBlocks) /\ Held(r, hits) = hits
  <2>1. \A s \in Seq(PoolBlocks) : <<>> \o s = s
    OBVIOUS
  <2>2. hits \in Seq(PoolBlocks)
    BY <1>6 DEF HitsOK
  <2> QED  BY <1>5, <2>1, <2>2 DEF Held
<1>8. Done(r, hits) = h
  BY <1>1, <1>2, <1>4, <1>5, TableFacts DEF Done
<1>9. ASSUME NEW i \in 1 .. Len(hits), NEW o \in Offsets
      PROVE  Filled(hits[i], o, block_hashes[r][i])
  <2>1. hits[i] \in PoolBlocks /\ hits[i] \in Blocks /\ hits[i] \in Elems(hits)
    BY <1>7, BlockFacts DEF Elems
  <2>2. block_hash[hits[i]] # NoHash
    BY <1>6, <2>1 DEF HitsOK
  <2>3. i <= Done(r, hits)
    BY <1>1, <1>2, <1>8
  <2>4. block_hash[hits[i]] \in {block_hashes[r][i], NoHash}
    BY <1>6, <1>7, <2>3 DEF HitsOK
  <2>5. block_hash[hits[i]] = block_hashes[r][i]
    BY <2>2, <2>4
  <2>6. Filled(hits[i], o, block_hash[hits[i]])
    BY <2>1, <2>2 DEF DataInv, CachedFilled
  <2> QED  BY <2>5, <2>6
<1>10. c <= Len(Held(r, hits)) * BlockSize
  BY <1>1, <1>2, <1>7
<1>11. \A i \in 1 .. Len(Held(r, hits)), o \in Offsets :
         Pos(i, o) < c => Filled(Held(r, hits)[i], o, block_hashes[r][i])
  BY <1>7, <1>9
<1>12. e \in Entries /\ e.req = r /\ e.n = n
  BY <1>1, <1>2 DEF Entries
<1>13. \A q : Planned(Append(scheduled, e), q) = IF q = r THEN n ELSE Planned(scheduled, q)
  BY <1>2, <1>12, PlannedAppend
<1>14. /\ num_computed_tokens'[r] = c /\ Planned(scheduled', r) = n /\ n \in Nat
       /\ \A q \in Reqs : q # r => /\ Planned(scheduled', q) = Planned(scheduled, q)
                                   /\ num_computed_tokens'[q] = num_computed_tokens[q]
                                   /\ status'[q] = "RUNNING" => status[q] = "RUNNING"
  <2>1. status \in [Reqs -> {"new", "WAITING", "RUNNING", "PREEMPTED", "FINISHED"}]
        /\ num_computed_tokens \in [Reqs -> Nat]
    BY DEF SchedInv, Shapes
  <2> QED  BY <1>1, <1>2, <1>13, <2>1
<1> QED  BY <1>1, <1>2, <1>3, <1>4, <1>6, <1>10, <1>11, <1>14, DataAlloc

(* The batch runs: whoever writes a slot writes what everybody who holds   *)
(* the block expects there.                                                *)
LEMMA DataRun ==
  ASSUME SchedInv, SchedInv', CachedHashed, DataInv, schedule_end
  PROVE  DataInv'
<1>0. /\ UNCHANGED <<block_hash, req_to_blocks, status>> /\ scheduled' = <<>> /\ execute_model
      /\ num_computed_tokens' = [r \in Reqs |-> num_computed_tokens[r] + NumScheduled(r)]
  BY DEF schedule_end, kvars
<1>1. KVInv
  BY DEF SchedInv
<1>2. ASSUME NEW b \in Blocks, NEW o \in Offsets
      PROVE  \/ kv_data'[b][o] = kv_data[b][o] /\ ~Planning(b, o)
             \/ \E q \in Reqs, j \in 1 .. MaxReqBlocks :
                  WritesTo(q, j, b, o) /\ kv_data'[b][o] = block_hashes[q][j]
  <2>1. PICK W : W = Writers(b, o)
    OBVIOUS
  <2>2. kv_data'[b][o] = IF W = {} THEN kv_data[b][o]
                         ELSE LET w == CHOOSE w \in W : TRUE IN block_hashes[w[1]][w[2]]
    <3>1. kv_data' = [x \in Blocks |-> [y \in Offsets |->
            IF Writers(x, y) = {} THEN kv_data[x][y]
            ELSE LET w == CHOOSE w \in Writers(x, y) : TRUE IN block_hashes[w[1]][w[2]]]]
      BY <1>0 DEF execute_model, Offsets
    <3> QED  BY <2>1, <3>1
  <2>3. CASE W = {}
    <3>1. ~Planning(b, o)
      BY <2>1, <2>3, WritersAre DEF Planning
    <3> QED  BY <2>2, <2>3, <3>1
  <2>4. CASE W # {}
    <3>1. PICK w \in W : kv_data'[b][o] = block_hashes[w[1]][w[2]]
      BY <2>2, <2>4
    <3>2. w[1] \in Reqs /\ w[2] \in 1 .. MaxReqBlocks /\ WritesTo(w[1], w[2], b, o)
      BY <2>1, <3>1, WritersAre
    <3>3. PICK q, j : q = w[1] /\ j = w[2]
      OBVIOUS
    <3>4. q \in Reqs /\ j \in 1 .. MaxReqBlocks /\ WritesTo(q, j, b, o)
          /\ kv_data'[b][o] = block_hashes[q][j]
      BY <3>1, <3>2, <3>3
    <3> QED  BY <3>4
  <2> QED  BY <2>3, <2>4
<1>3. ASSUME NEW q \in Reqs, NEW j \in 1 .. MaxReqBlocks, NEW b, NEW o, WritesTo(q, j, b, o)
      PROVE  j \in 1 .. Len(req_to_blocks[q]) /\ req_to_blocks[q][j] = b
  <2>1. Len(req_to_blocks[q]) \in Nat
    BY <1>1, TableFacts
  <2> QED  BY <1>3, <2>1, SizeFacts DEF WritesTo
<1>4. ASSUME NEW b \in Blocks, block_hash[b] # NoHash, NEW o \in Offsets
      PROVE  kv_data'[b][o] = block_hash[b]
  <2>1. CASE kv_data'[b][o] = kv_data[b][o] /\ ~Planning(b, o)
    <3>1. Filled(b, o, block_hash[b])
      BY <1>4 DEF DataInv, CachedFilled
    <3> QED  BY <2>1, <3>1 DEF Filled
  <2>2. CASE \E q \in Reqs, j \in 1 .. MaxReqBlocks :
               WritesTo(q, j, b, o) /\ kv_data'[b][o] = block_hashes[q][j]
    <3>1. PICK q \in Reqs, j \in 1 .. MaxReqBlocks :
            WritesTo(q, j, b, o) /\ kv_data'[b][o] = block_hashes[q][j]
      BY <2>2
    <3>2. j \in 1 .. Len(req_to_blocks[q]) /\ req_to_blocks[q][j] = b
      BY <1>3, <3>1
    <3>3. block_hash[req_to_blocks[q][j]] \in {NoHash, block_hashes[q][j]}
      BY <1>1, <3>2, SamePrefix
    <3> QED  BY <1>4, <3>1, <3>2, <3>3
  <2> QED  BY <1>2, <2>1, <2>2
<1>5. ASSUME NEW r \in Reqs, status[r] = "RUNNING", NEW i \in 1 .. Len(req_to_blocks[r]),
             NEW o \in Offsets, Pos(i, o) < num_computed_tokens'[r]
      PROVE  kv_data'[req_to_blocks[r][i]][o] = block_hashes[r][i]
  <2>1. PICK b : b = req_to_blocks[r][i]
    OBVIOUS
  <2>2. b \in Blocks /\ i \in 1 .. MaxReqBlocks /\ i \in Nat \ {0} /\ i <= Len(req_to_blocks[r])
    BY <1>1, <2>1, TableBlocks, TableFacts
  <2>3. num_computed_tokens'[r] = Target(r) /\ num_computed_tokens[r] \in Nat /\ Pos(i, o) \in Nat
    BY <1>0, <2>2, NumScheduledIs, PosFacts DEF Target, SchedInv, Shapes
  <2>4. CASE kv_data'[b][o] = kv_data[b][o] /\ ~Planning(b, o)
    <3>1. ~WritesTo(r, i, b, o)
      BY <2>2, <2>4 DEF Planning
    <3>2. Pos(i, o) < num_computed_tokens[r]
      BY <1>5, <2>1, <2>2, <2>3, <3>1 DEF WritesTo
    <3>3. Filled(b, o, block_hashes[r][i])
      BY <1>5, <2>1, <3>2 DEF DataInv, ComputedFilled
    <3> QED  BY <2>1, <2>4, <3>3 DEF Filled
  <2>5. CASE \E q \in Reqs, j \in 1 .. MaxReqBlocks :
               WritesTo(q, j, b, o) /\ kv_data'[b][o] = block_hashes[q][j]
    <3>1. PICK q \in Reqs, j \in 1 .. MaxReqBlocks :
            WritesTo(q, j, b, o) /\ kv_data'[b][o] = block_hashes[q][j]
      BY <2>5
    <3>2. j \in 1 .. Len(req_to_blocks[q]) /\ req_to_blocks[q][j] = b
      BY <1>3, <3>1
    <3>3. block_hashes[r][i] = block_hashes[q][j]
      BY <1>1, <2>1, <3>2, SamePrefix
    <3> QED  BY <2>1, <3>1, <3>3
  <2> QED  BY <1>2, <2>2, <2>4, <2>5
<1>6. CachedFilled'
  BY <1>0, <1>4 DEF CachedFilled, Filled
<1>7. ComputedFilled'
  BY <1>0, <1>5 DEF ComputedFilled, Filled, Pos
<1> QED  BY <1>6, <1>7 DEF DataInv

(* Caching the blocks of tokens whose outputs have arrived.                *)
LEMMA DataToken ==
  ASSUME SchedInv, SchedInv', DataInv, NEW eos \in BOOLEAN, update_token(eos)
  PROVE  DataInv'
<1>r. PICK r : r = Head(output).req
  OBVIOUS
<1>0. /\ pc = "update" /\ cache_known_tokens(r) /\ output # <<>>
      /\ UNCHANGED <<num_computed_tokens, scheduled, kv_data>>
      /\ num_output_placeholders' =
           [num_output_placeholders EXCEPT ![r] = PlaceholdersAfterOutput(r)]
      /\ status' = status \/ status' = [status EXCEPT ![r] = "FINISHED"]
  BY <1>r DEF update_token, ghost_vars
<1>1. /\ output \in Seq(Outputs) /\ scheduled = <<>> /\ num_computed_tokens \in [Reqs -> Nat]
      /\ num_output_placeholders \in [Reqs -> Nat]
      /\ num_output_placeholders' \in [Reqs -> Nat]
      /\ status \in [Reqs -> {"new", "WAITING", "RUNNING", "PREEMPTED", "FINISHED"}]
  BY <1>0 DEF SchedInv, Shapes, Loop, Scheduling
<1>2. r \in Reqs
  <2>1. Head(output) \in Outputs
    BY <1>0, <1>1
  <2> QED  BY <1>r, <2>1 DEF Outputs
<1>3. KVInv /\ KVInv'
  BY DEF SchedInv
<1>4. \A q \in Reqs : status'[q] = "RUNNING" => status[q] = "RUNNING"
  BY <1>0, <1>1
<1>5. PICK c, ph : c = num_computed_tokens[r] /\ ph = PlaceholdersAfterOutput(r)
  OBVIOUS
<1>6. c \in Nat /\ ph \in Nat
  <2>1. num_output_placeholders'[r] = ph
    BY <1>0, <1>1, <1>2, <1>5
  <2> QED  BY <1>1, <1>2, <1>5, <2>1
<1>7. PICK full : full = (c - ph) \div BlockSize
  OBVIOUS
<1>8. CASE Async /\ status[r] = "RUNNING" /\ EnableCaching /\ full > num_cached_block[r]
  <2>1. cache_blocks(r, full)
    BY <1>0, <1>5, <1>7, <1>8 DEF cache_known_tokens
  <2>2. num_cached_block' = [num_cached_block EXCEPT ![r] = full] /\ req_to_blocks' = req_to_blocks
    BY <2>1 DEF cache_blocks
  <2>3. num_cached_block'[r] = full
    BY <1>2, <1>3, <2>2, TableFacts
  <2>4. num_cached_block' \in [Reqs -> Nat] /\ num_cached_block'[r] <= Len(req_to_blocks'[r])
        /\ Len(req_to_blocks'[r]) <= MaxReqBlocks
    BY <1>2, <1>3 DEF KVInv, KVTypeOK
  <2>5. full \in Nat /\ full <= Len(req_to_blocks[r]) /\ Len(req_to_blocks[r]) \in Nat
        /\ full \in 0 .. MaxReqBlocks
    <3>1. full \in Nat
      BY <1>2, <2>3, <2>4
    <3>2. Len(req_to_blocks[r]) \in Nat /\ MaxReqBlocks \in Nat
      BY <1>2, <1>3, TableFacts, SizeFacts
    <3> QED  BY <2>2, <2>3, <2>4, <3>1, <3>2
  <2>6. Commit(r, full)
    BY <2>1, <2>5 DEF Commit
  <2>7. PICK k : k = num_cached_block[r]
    OBVIOUS
  <2>8. /\ k \in Nat
        /\ \A i \in k + 1 .. full : block_hash'[req_to_blocks[r][i]] = block_hashes[r][i]
        /\ \A b \in Blocks : (\A i \in k + 1 .. full : req_to_blocks[r][i] # b) =>
             block_hash'[b] = block_hash[b]
    BY <1>2, <1>3, <2>5, <2>6, <2>7, CommitFacts
  <2>9. full * BlockSize <= c
    <3>1. BlockSize \in Nat \ {0} /\ c - ph \in Int
      BY <1>6, SizeFacts
    <3>2. full * BlockSize <= c - ph
      BY <1>7, <3>1, DivFacts
    <3>3. full * BlockSize \in Nat
      BY <2>5, <3>1
    <3> QED  BY <1>6, <3>2, <3>3
  <2>10. WritesKept
    BY <1>0, <2>2, KeptFor
  <2>11. ASSUME NEW b \in Blocks, NEW o \in Offsets, block_hash'[b] # NoHash
         PROVE  Filled(b, o, block_hash'[b])
    <3>1. CASE \E i \in k + 1 .. full : req_to_blocks[r][i] = b
      <4>1. PICK i \in k + 1 .. full : req_to_blocks[r][i] = b
        BY <3>1
      <4>2. i \in Nat \ {0} /\ i <= full /\ i \in 1 .. Len(req_to_blocks[r])
        BY <2>5, <2>8
      <4>3. Pos(i, o) \in Nat /\ Pos(i, o) < full * BlockSize
        BY <2>5, <4>2, PosFacts
      <4>4. full * BlockSize \in Nat
        BY <2>5, SizeFacts
      <4>5. Pos(i, o) < num_computed_tokens[r]
        BY <1>5, <1>6, <2>9, <4>3, <4>4
      <4>6. Filled(req_to_blocks[r][i], o, block_hashes[r][i])
        BY <1>2, <1>8, <4>2, <4>5 DEF DataInv, ComputedFilled
      <4> QED  BY <2>8, <4>1, <4>6
    <3>2. CASE ~\E i \in k + 1 .. full : req_to_blocks[r][i] = b
      <4>1. block_hash'[b] = block_hash[b]
        BY <2>8, <3>2
      <4>2. Filled(b, o, block_hash[b])
        BY <2>11, <4>1 DEF DataInv, CachedFilled
      <4> QED  BY <4>1, <4>2
    <3> QED  BY <3>1, <3>2
  <2>12. ASSUME NEW q \in Reqs, status'[q] = "RUNNING", NEW i \in 1 .. Len(req_to_blocks'[q]),
                NEW o \in Offsets, Pos(i, o) < num_computed_tokens'[q]
         PROVE  Filled(req_to_blocks'[q][i], o, block_hashes[q][i])
    BY <1>0, <1>4, <2>2, <2>12 DEF DataInv, ComputedFilled
  <2> QED  BY <1>0, <1>3, <2>10, <2>11, <2>12, DataMoves
<1>9. CASE ~(Async /\ status[r] = "RUNNING" /\ EnableCaching /\ full > num_cached_block[r])
  <2>1. UNCHANGED kvars
    BY <1>0, <1>5, <1>7, <1>9 DEF cache_known_tokens
  <2> QED  BY <1>0, <1>4, <2>1, DataSame
<1> QED  BY <1>8, <1>9

(* Nothing is scheduled between the steps of schedule().                   *)
LEMMA NothingScheduled ==
  ASSUME SchedInv, ~Scheduling
  PROVE  scheduled = <<>> /\ \A q : q \notin ReqsOf(scheduled) /\ Planned(scheduled, q) = 0
<1>1. scheduled = <<>>
  BY DEF SchedInv, Loop
<1> QED  BY <1>1, EmptyFacts

(* Aborts, the end of a request and a forced reset free blocks of requests *)
(* that are not in any batch under construction.                           *)
LEMMA DataFinish ==
  ASSUME SchedInv, SchedInv', DataInv, NEW r \in Reqs, finish_requests(r)
  PROVE  DataInv'
<1>0. /\ pc \in {"idle", "await"} /\ status' = [status EXCEPT ![r] = "FINISHED"] /\ free(r)
      /\ UNCHANGED <<num_computed_tokens, scheduled, kv_data>>
  BY DEF finish_requests, local_vars, ghost_vars
<1>1. r \notin ReqsOf(scheduled)
  BY <1>0, NothingScheduled DEF Scheduling
<1>2. status'[r] # "RUNNING" /\ \A q \in Reqs : q # r => status'[q] = status[q]
  BY <1>0 DEF SchedInv, Shapes
<1> QED  BY <1>0, <1>1, <1>2, DataFree

LEMMA DataFreeRequest ==
  ASSUME SchedInv, SchedInv', DataInv, _free_request
  PROVE  DataInv'
<1>r. PICK r : r = cur.req
  OBVIOUS
<1>0. /\ pc = "stopped" /\ free(r) /\ UNCHANGED <<status, num_computed_tokens, scheduled, kv_data>>
  BY <1>r DEF _free_request, request_vars, ghost_vars
<1>1. r \in Reqs /\ status[r] = "FINISHED"
  BY <1>0, <1>r DEF SchedInv, Lists
<1>2. r \notin ReqsOf(scheduled)
  BY <1>0, NothingScheduled DEF Scheduling
<1> QED  BY <1>0, <1>1, <1>2, DataFree

LEMMA DataResetPreempt ==
  ASSUME SchedInv, SchedInv', DataInv, reset_preempt
  PROVE  DataInv'
<1>r. PICK r : r = running[Len(running)]
  OBVIOUS
<1>0. /\ pc = "resetting" /\ running # <<>> /\ free(r)
      /\ status' = [status EXCEPT ![r] = "PREEMPTED"]
      /\ num_computed_tokens' = [num_computed_tokens EXCEPT ![r] = 0]
      /\ UNCHANGED <<scheduled, kv_data>>
  BY <1>r DEF reset_preempt, _preempt_request, local_vars, ghost_vars
<1>1. r \in Reqs
  <2>1. Len(running) \in 1 .. Len(running) /\ running \in Seq(Reqs)
    BY <1>0 DEF SchedInv, Shapes
  <2> QED  BY <1>r, <2>1
<1>2. r \notin ReqsOf(scheduled)
  BY <1>0, NothingScheduled DEF Scheduling
<1>3. /\ status'[r] # "RUNNING"
      /\ \A q \in Reqs : q # r => /\ status'[q] = status[q]
                                  /\ num_computed_tokens'[q] = num_computed_tokens[q]
  BY <1>0, <1>1 DEF SchedInv, Shapes
<1> QED  BY <1>0, <1>1, <1>2, <1>3, DataFree

(* Under FCFS a preemption takes nothing back from the batch: the last     *)
(* running request is at or behind the one that needs blocks.              *)
LEMMA DataPreempt ==
  ASSUME SchedInv, SchedInv', DataInv, Cursor, Policy = "fcfs", running_preempt
  PROVE  DataInv' /\ Cursor'
<1>v. PICK v : v = running[Len(running)]
  OBVIOUS
<1>b. PICK back : back = {e \in Elems(scheduled) : e.req = v}
  OBVIOUS
<1>0. /\ pc = "allocate" /\ running' = Keep(running, Reqs \ {v})
      /\ scheduled' = Keep(scheduled, Elems(scheduled) \ back)
      /\ req_index' = req_index - Cardinality(back)
      /\ free(v) /\ status' = [status EXCEPT ![v] = "PREEMPTED"]
      /\ num_computed_tokens' = [num_computed_tokens EXCEPT ![v] = 0]
      /\ IF v = cur.req THEN pc' = "waiting" ELSE pc' = pc /\ cur' = cur
      /\ kv_data' = kv_data
  BY <1>v, <1>b DEF running_preempt, Victim, ScheduledNow, _preempt_request, remove_all, ghost_vars
<1>1. /\ scheduled \in Seq(Entries) /\ OncePer(scheduled)
      /\ running \in Seq(Reqs) /\ Distinct(running) /\ Len(running) \in Nat
      /\ req_index \in Nat \ {0}
  BY <1>0 DEF SchedInv, Loop, Shapes, Lists
<1>2. req_index <= Len(running) /\ running[req_index] = cur.req
  BY <1>0 DEF Cursor
<1>3. v \in Reqs /\ v \notin ReqsOf(scheduled)
  <2>1. Len(running) \in 1 .. Len(running) /\ Len(running) >= req_index
    BY <1>1, <1>2
  <2>2. running[Len(running)] \in Reqs
    BY <1>1, <2>1
  <2>3. running[Len(running)] \notin ReqsOf(scheduled)
    BY <1>0, <2>1 DEF SchedInv, Loop
  <2> QED  BY <1>v, <2>2, <2>3
<1>4. \A q : Planned(scheduled', q) = IF q = v THEN 0 ELSE Planned(scheduled, q)
  <2>1. \A e : e \in back <=> e \in Elems(scheduled) /\ e.req = v
    BY <1>b
  <2>2. PICK k : k = Keep(scheduled, Elems(scheduled) \ back)
    OBVIOUS
  <2>3. Unscheduled(scheduled, v, k)
    BY <1>1, <2>1, <2>2, PlannedRemove
  <2> QED  BY <1>0, <2>2, <2>3 DEF Unscheduled
<1>5. /\ status'[v] # "RUNNING"
      /\ \A q \in Reqs : q # v => /\ status'[q] = status[q]
                                  /\ num_computed_tokens'[q] = num_computed_tokens[q]
  BY <1>0, <1>3 DEF SchedInv, Shapes
<1>6. DataInv'
  BY <1>0, <1>3, <1>4, <1>5, DataFree
<1>7. Cursor'
  <2> SUFFICES ASSUME v # cur.req PROVE req_index' <= Len(running') /\ running'[req_index'] = cur'.req
    BY <1>0 DEF Cursor
  <2>1. req_index < Len(running)
    BY <1>1, <1>2, <1>v
  <2>2. Cardinality(back) = 0
    BY <1>1, <1>3, <1>b, BackFacts
  <2>3. req_index' = req_index /\ cur' = cur
    BY <1>0, <1>1, <2>2
  <2>4. PICK L : L = Len(running)
    OBVIOUS
  <2>5. L \in 1 .. Len(running) /\ running[L] = v
    BY <1>1, <1>v, <2>1, <2>4
  <2>6. PICK S : S = Reqs \ {v}
    OBVIOUS
  <2>7. \A i \in 1 .. Len(running) : running[i] \in S <=> i # L
    BY <1>1, <2>5, <2>6 DEF Distinct
  <2>8. /\ Len(running') = Len(running) - 1
        /\ \A k \in 1 .. Len(running) - 1 :
             running'[k] = IF k < L THEN running[k] ELSE running[k + 1]
    <3>1. running' = Keep(running, S)
      BY <1>0, <2>6
    <3> QED  BY <1>1, <2>5, <2>7, <3>1, RemoveOne
  <2>9. req_index \in 1 .. Len(running) - 1 /\ req_index < L
    BY <1>1, <2>1, <2>4
  <2>10. running'[req_index] = running[req_index]
    BY <2>8, <2>9
  <2> QED  BY <1>1, <1>2, <2>3, <2>8, <2>9, <2>10
<1> QED  BY <1>6, <1>7

(* Emptying the prefix cache.                                              *)
LEMMA DataReset ==
  ASSUME SchedInv, SchedInv', DataInv, reset_prefix_cache,
         UNCHANGED <<status, num_computed_tokens, scheduled, kv_data>>
  PROVE  DataInv'
<1>1. block_hash' = [b \in Blocks |-> NoHash] /\ req_to_blocks' = req_to_blocks
  BY DEF reset_prefix_cache
<1>2. WritesKept
  BY <1>1, KeptFor
<1>3. \A b \in Blocks : block_hash'[b] \in {NoHash, block_hash[b]}
  BY <1>1
<1>4. KVInv'
  BY DEF SchedInv
<1> QED  BY <1>1, <1>2, <1>3, <1>4, DataFrame

LEMMA CursorElsewhere ==
  ASSUME pc' # "allocate"
  PROVE  Cursor'
BY DEF Cursor

(* Every step keeps the data in place.                                     *)
LEMMA DataStep ==
  ASSUME SchedInv, SchedInv', EvictionOrder, DataInv, Cursor, Policy = "fcfs", [Next]_vars
  PROVE  DataInv' /\ Cursor'
<1> USE DEF request_vars, queue_vars, local_vars, output_vars, ghost_vars
<1>1. CASE ClientStep
  <2>1. CASE \E r \in Reqs : add_request(r)
    <3>1. PICK r \in Reqs : add_request(r)
      BY <2>1
    <3>2. /\ UNCHANGED <<kvars, num_computed_tokens, kv_data, scheduled>>
          /\ pc = "idle" /\ pc' = pc /\ status' = [status EXCEPT ![r] = "WAITING"]
      BY <3>1 DEF add_request
    <3>3. \A q \in Reqs : status'[q] = "RUNNING" => status[q] = "RUNNING"
      BY <3>2 DEF SchedInv, Shapes
    <3> QED  BY <3>2, <3>3, DataSame, CursorElsewhere
  <2>2. CASE \E r \in Reqs : finish_requests(r)
    <3>1. pc' # "allocate"
      BY <2>2 DEF finish_requests
    <3> QED  BY <2>2, <3>1, DataFinish, CursorElsewhere
  <2>3. CASE reset_prefix_cache_if_unused
    <3>1. /\ reset_prefix_cache /\ pc = "idle" /\ pc' = pc
          /\ UNCHANGED <<status, num_computed_tokens, scheduled, kv_data>>
      BY <2>3 DEF reset_prefix_cache_if_unused
    <3> QED  BY <3>1, DataReset, CursorElsewhere
  <2>4. CASE reset_begin
    <3>1. UNCHANGED <<kvars, num_computed_tokens, kv_data, scheduled, status>> /\ pc' = "resetting"
      BY <2>4 DEF reset_begin
    <3> QED  BY <3>1, DataSame, CursorElsewhere
  <2> QED  BY <1>1, <2>1, <2>2, <2>3, <2>4 DEF ClientStep
<1>2. CASE EngineStep
  <2>1. CASE reset_preempt
    <3>1. pc = "resetting" /\ pc' = pc
      BY <2>1 DEF reset_preempt
    <3> QED  BY <2>1, <3>1, DataResetPreempt, CursorElsewhere
  <2>2. CASE reset_end
    <3>1. /\ reset_prefix_cache /\ pc' = "idle"
          /\ UNCHANGED <<status, num_computed_tokens, scheduled, kv_data>>
      BY <2>2 DEF reset_end
    <3> QED  BY <3>1, DataReset, CursorElsewhere
  <2>3. CASE schedule_begin
    <3>1. /\ UNCHANGED <<kvars, num_computed_tokens, kv_data, status>>
          /\ pc = "idle" /\ pc' = "running" /\ scheduled' = <<>>
      BY <2>3 DEF schedule_begin
    <3>2. scheduled = <<>>
      BY <3>1, NothingScheduled DEF Scheduling
    <3> QED  BY <3>1, <3>2, DataSame, CursorElsewhere
  <2>4. CASE running_skip
    <3>1. /\ UNCHANGED <<kvars, num_computed_tokens, kv_data, scheduled, status>>
          /\ pc = "running" /\ pc' = pc
      BY <2>4 DEF running_skip
    <3> QED  BY <3>1, DataSame, CursorElsewhere
  <2>5. CASE running_pick
    <3>1. /\ UNCHANGED <<kvars, num_computed_tokens, kv_data, scheduled, status>>
          /\ UNCHANGED <<running, req_index>> /\ req_index <= Len(running)
          /\ cur' = [req |-> running[req_index], n |-> NumNewRunning(running[req_index])]
      BY <2>5 DEF running_pick, MoreRunning
    <3>2. Cursor'
      BY <3>1 DEF Cursor
    <3> QED  BY <3>1, <3>2, DataSame
  <2>6. CASE running_allocate
    <3>1. pc' = "running"
      BY <2>6 DEF running_allocate
    <3> QED  BY <2>6, <3>1, DataGrow, CursorElsewhere
  <2>7. CASE running_preempt
    BY <2>7, DataPreempt
  <2>8. CASE running_done
    <3>1. UNCHANGED <<kvars, num_computed_tokens, kv_data, scheduled, status>> /\ pc' = "waiting"
      BY <2>8 DEF running_done
    <3> QED  BY <3>1, DataSame, CursorElsewhere
  <2>9. CASE waiting_admit
    <3>1. pc = "waiting" /\ pc' = pc
      BY <2>9 DEF waiting_admit
    <3> QED  BY <2>9, <3>1, DataAdmit, CursorElsewhere
  <2>10. CASE schedule_end
    <3>1. pc' # "allocate"
      BY <2>10 DEF schedule_end, AfterSchedule
    <3>2. CachedHashed
      BY DEF EvictionOrder
    <3> QED  BY <2>10, <3>1, <3>2, DataRun, CursorElsewhere
  <2>11. CASE await_begin
    <3>1. UNCHANGED <<kvars, num_computed_tokens, kv_data, scheduled, status>> /\ pc' = "await"
      BY <2>11 DEF await_begin
    <3> QED  BY <3>1, DataSame, CursorElsewhere
  <2>12. CASE update_begin
    <3>1. UNCHANGED <<kvars, num_computed_tokens, kv_data, scheduled, status>> /\ pc' = "update"
      BY <2>12 DEF update_begin
    <3> QED  BY <3>1, DataSame, CursorElsewhere
  <2>13. CASE update_nothing
    <3>1. /\ UNCHANGED <<kvars, num_computed_tokens, kv_data, scheduled, status>>
          /\ pc = "update" /\ pc' = pc
      BY <2>13 DEF update_nothing
    <3> QED  BY <3>1, DataSame, CursorElsewhere
  <2>14. CASE update_discard
    <3>1. /\ UNCHANGED <<kvars, num_computed_tokens, kv_data, scheduled, status>>
          /\ pc = "update" /\ pc' = pc
      BY <2>14 DEF update_discard
    <3> QED  BY <3>1, DataSame, CursorElsewhere
  <2>15. CASE \E eos \in BOOLEAN : update_token(eos)
    <3>1. pc' # "allocate"
      BY <2>15 DEF update_token
    <3> QED  BY <2>15, <3>1, DataToken, CursorElsewhere
  <2>16. CASE _free_request
    <3>1. pc' = "update"
      BY <2>16 DEF _free_request
    <3> QED  BY <2>16, <3>1, DataFreeRequest, CursorElsewhere
  <2>17. CASE update_end
    <3>1. UNCHANGED <<kvars, num_computed_tokens, kv_data, scheduled, status>> /\ pc' = "idle"
      BY <2>17 DEF update_end
    <3> QED  BY <3>1, DataSame, CursorElsewhere
  <2> QED  BY <1>2, <2>1, <2>2, <2>3, <2>4, <2>5, <2>6, <2>7, <2>8, <2>9, <2>10, <2>11, <2>12,
              <2>13, <2>14, <2>15, <2>16, <2>17 DEF EngineStep
<1>3. CASE UNCHANGED vars
  <2>1. /\ UNCHANGED <<kvars, num_computed_tokens, kv_data, scheduled, status>>
        /\ UNCHANGED <<pc, running, req_index, cur>>
    BY <1>3 DEF vars
  <2>2. Cursor'
    BY <2>1 DEF Cursor
  <2> QED  BY <2>1, <2>2, DataSame
<1> QED  BY <1>1, <1>2, <1>3 DEF Next

LEMMA DataInit == Init => DataInv /\ Cursor
<1> SUFFICES ASSUME Init PROVE DataInv /\ Cursor
  OBVIOUS
<1>1. /\ block_hash = [b \in Blocks |-> NoHash] /\ status = [r \in Reqs |-> "new"] /\ pc = "idle"
  BY DEF Init, KVInit
<1> QED  BY <1>1 DEF DataInv, CachedFilled, ComputedFilled, Cursor

(* With no batch under construction nothing is left to be filled.          *)
LEMMA DataCovers ==
  ASSUME SchedInv, DataInv
  PROVE  ComputedTokensHaveKV
<1> SUFFICES ASSUME ~Scheduling, NEW r \in Reqs, status[r] = "RUNNING",
                    NEW p \in 0 .. num_computed_tokens[r] - 1
             PROVE  LET i == p \div BlockSize + 1
                    IN  /\ i <= Len(req_to_blocks[r])
                        /\ kv_data[req_to_blocks[r][i]][p % BlockSize] = block_hashes[r][i]
  BY DEF ComputedTokensHaveKV
<1>1. PICK d, o, i : d = p \div BlockSize /\ o = p % BlockSize /\ i = d + 1
  OBVIOUS
<1>2. \A q : q \notin ReqsOf(scheduled) /\ Planned(scheduled, q) = 0
  BY NothingScheduled
<1>3. KVInv /\ num_computed_tokens[r] \in Nat /\ Len(req_to_blocks[r]) \in Nat
  BY TableFacts DEF SchedInv, Shapes
<1>4. Len(req_to_blocks[r]) = cdiv(num_computed_tokens[r], BlockSize)
  <2>1. RunningOK(r)
    BY DEF SchedInv, Counts, CountsOK
  <2>2. Target(r) = num_computed_tokens[r]
    BY <1>2, <1>3 DEF Target
  <2> QED  BY <2>1, <2>2 DEF RunningOK
<1>5. BlockSize \in Nat \ {0} /\ p \in Nat /\ p < num_computed_tokens[r]
  BY <1>3, SizeFacts
<1>6. d \in Nat /\ d * BlockSize <= p /\ d * BlockSize \in Nat
  <2>1. d \in Int /\ d * BlockSize <= p /\ d >= 0
    BY <1>1, <1>5, DivFacts
  <2> QED  BY <1>5, <2>1
<1>7. o \in Offsets /\ p = d * BlockSize + o
  <2>1. o \in 0 .. BlockSize - 1 /\ p = (p \div BlockSize) * BlockSize + (p % BlockSize)
    BY <1>1, <1>5
  <2> QED  BY <1>1, <2>1 DEF Offsets
<1>8. Pos(i, o) = p /\ i \in Nat \ {0}
  BY <1>1, <1>6, <1>7 DEF Pos
<1>9. i <= Len(req_to_blocks[r]) /\ i \in 1 .. Len(req_to_blocks[r])
  <2>1. d * BlockSize < num_computed_tokens[r]
    BY <1>3, <1>5, <1>6
  <2>2. d < cdiv(num_computed_tokens[r], BlockSize)
    BY <1>3, <1>5, <1>6, <2>1, CdivFacts
  <2> QED  BY <1>1, <1>3, <1>4, <1>6, <2>2
<1>10. Filled(req_to_blocks[r][i], o, block_hashes[r][i])
  BY <1>5, <1>7, <1>8, <1>9 DEF DataInv, ComputedFilled
<1>11. ~Planning(req_to_blocks[r][i], o)
  BY <1>2, <1>7, NoWrites DEF Planning
<1>12. kv_data[req_to_blocks[r][i]][o] = block_hashes[r][i]
  BY <1>10, <1>11 DEF Filled
<1> QED  BY <1>1, <1>9, <1>12

(* Whenever no batch is being put together, every token that schedule()    *)
(* counts as computed for a running request has its KV data in the block   *)
(* and slot where the model runner will read it: a block is published in   *)
(* the prefix cache before it is filled, but the batch that fills it has   *)
(* run before anybody reads it, and no preemption, abort or reset leaves a *)
(* hole.  Under PRIORITY this is false, as run priority_preemption shows:  *)
(* a preemption takes a scheduled request out of the batch and leaves its  *)
(* blocks in the prefix cache, where they are hit although nothing fills   *)
(* them.                                                                   *)
THEOREM ComputedTokensAreStored ==
  ASSUME Policy = "fcfs", ~ConnectorEvicts
  PROVE  Spec => []ComputedTokensHaveKV
<1>1. KVSpec => []EvictionOrder
  <2>1. KVInit => EvictionOrder
    BY OrderInit
  <2>2. KVInv /\ EvictionOrder /\ [KVNext]_kvars => EvictionOrder'
    BY OrderStep
  <2>3. KVSpec => []KVInv
    BY KVCacheCorrect
  <2> QED  BY <2>1, <2>2, <2>3, PTL DEF KVSpec
<1>2. Init => DataInv /\ Cursor
  BY DataInit
<1>3. SchedInv /\ SchedInv' /\ EvictionOrder /\ DataInv /\ Cursor /\ [Next]_vars =>
        DataInv' /\ Cursor'
  BY DataStep
<1>4. SchedInv /\ DataInv => ComputedTokensHaveKV
  BY DataCovers
<1>5. Spec => []SchedInv /\ []EvictionOrder
  BY <1>1, SchedInvHolds, SchedulerUsesKV, PTL
<1> QED  BY <1>2, <1>3, <1>4, <1>5, PTL DEF Spec
=============================================================================
