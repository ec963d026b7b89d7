------------------------ MODULE KVCacheManagerProofs ------------------------
(***************************************************************************)
(* Proof that the bookkeeping of the paged KV cache is right for every     *)
(* number of blocks, every set of requests and every order of calls:       *)
(* KVSpec => []KVInv.  On top of it, what the prefix cache promises beyond *)
(* its books: block tables are append-only, and unless a KV connector      *)
(* disowns blocks, a cached block is never left without the cached block   *)
(* before it.  The last fact is about the order of the free queue, which   *)
(* is the order of eviction; its invariant is EvictionOrder.               *)
(***************************************************************************)
EXTENDS KVCacheManager, FiniteSetTheorems, TLAPS

(* Ranks in a finite set of numbers count from 1 without a gap.            *)
LEMMA RankBijective ==
  ASSUME NEW n \in Nat, NEW I \in SUBSET (1 .. n)
  PROVE  /\ IsFiniteSet(I) /\ Cardinality(I) \in Nat
         /\ \A i \in I : Rank(I, i) \in 1 .. Cardinality(I)
         /\ \A i, k \in I : Rank(I, i) = Rank(I, k) => i = k
         /\ \A c \in 1 .. Cardinality(I) : \E i \in I : Rank(I, i) = c
<1> DEFINE Low(i) == {j \in I : j <= i}
           C == Cardinality(I)
<1>1. IsFiniteSet(1 .. n) /\ Cardinality(1 .. n) = n
  BY FS_Interval
<1>2. IsFiniteSet(I) /\ C \in Nat
  BY <1>1, FS_Subset, FS_CardinalityType
<1>3. \A i \in I : IsFiniteSet(Low(i)) /\ Cardinality(Low(i)) \in Nat /\ Cardinality(Low(i)) <= C
  <2> TAKE i \in I
  <2>1. Low(i) \in SUBSET I
    OBVIOUS
  <2> QED  BY <1>2, <2>1, FS_Subset, FS_CardinalityType
<1>4. \A i \in I : Cardinality(Low(i)) # 0
  <2> TAKE i \in I
  <2>1. i \in Low(i)
    OBVIOUS
  <2>2. Low(i) # {}
    BY <2>1
  <2> QED  BY <1>3, <2>2, FS_EmptySet
<1>5. \A i, k \in I : i < k => Cardinality(Low(i)) < Cardinality(Low(k))
  <2> TAKE i, k \in I
  <2> HAVE i < k
  <2>0. \A j \in I : j \in Int
    OBVIOUS
  <2>1. Low(i) \in SUBSET Low(k)
    <3>1. \A j \in I : j <= i => j <= k
      BY <2>0
    <3> QED  BY <3>1
  <2>2. k \in Low(k) /\ k \notin Low(i)
    OBVIOUS
  <2>3. Low(i) # Low(k)
    BY <2>2
  <2>4. Cardinality(Low(i)) <= Cardinality(Low(k)) /\ Cardinality(Low(k)) # Cardinality(Low(i))
    BY <1>3, <2>1, <2>3, FS_Subset
  <2> HIDE DEF Low
  <2> QED  BY <2>4, <1>3
<1>6. \A i \in I : Rank(I, i) = Cardinality(Low(i))
  BY DEF Rank
<1> HIDE DEF Low, C
<1>7. \A i \in I : Rank(I, i) \in 1 .. C
  BY <1>2, <1>3, <1>4, <1>6
<1>8. \A i, k \in I : Rank(I, i) = Rank(I, k) => i = k
  <2> TAKE i, k \in I
  <2> HAVE Rank(I, i) = Rank(I, k)
  <2>1. i \in Nat /\ k \in Nat
    OBVIOUS
  <2>2. ~(i < k) /\ ~(k < i)
    BY <1>5, <1>6, <1>3
  <2> QED  BY <2>1, <2>2
<1> DEFINE f == [i \in I |-> Rank(I, i)]
<1>9. f \in [I -> 1 .. C] /\ \A i, k \in I : f[i] = f[k] => i = k
  BY <1>7, <1>8
<1>10. f \in Injection(I, 1 .. C)
  BY <1>9 DEF Injection, IsInjective
<1>11. IsFiniteSet(1 .. C) /\ Cardinality(1 .. C) = C
  BY <1>2, FS_Interval
<1> HIDE DEF f
<1>12. f \in Surjection(I, 1 .. C)
  BY <1>10, <1>11, FS_Injection DEF C
<1>13. \A c \in 1 .. C : \E i \in I : f[i] = c
  BY <1>12 DEF Surjection
<1>14. \A c \in 1 .. C : \E i \in I : Rank(I, i) = c
  BY <1>13 DEF f
<1> QED  BY <1>2, <1>7, <1>8, <1>14 DEF C

(* Keep(s, S) is the subsequence of the elements that lie in S.            *)
LEMMA KeepFacts ==
  ASSUME NEW T, NEW s \in Seq(T), NEW S
  PROVE  /\ Keep(s, S) \in Seq(T)
         /\ Elems(Keep(s, S)) = Elems(s) \cap S
         /\ Distinct(s) => Distinct(Keep(s, S))
         /\ Len(Keep(s, S)) = Cardinality({i \in 1 .. Len(s) : s[i] \in S})
<1> DEFINE I == {i \in 1 .. Len(s) : s[i] \in S}
           C == Cardinality(I)
           at(k) == CHOOSE i \in I : Rank(I, i) = k
           K == Keep(s, S)
<1>0. Len(s) \in Nat /\ I \in SUBSET (1 .. Len(s)) /\ \A i \in 1 .. Len(s) : s[i] \in T
  OBVIOUS
<1>1. K = [k \in 1 .. C |-> s[at(k)]]
  BY DEF Keep
<1>2. \A i \in I : i \in 1 .. Len(s) /\ s[i] \in S
  OBVIOUS
<1>2a. \A i \in 1 .. Len(s) : s[i] \in S => i \in I
  OBVIOUS
<1> HIDE DEF I, K
<1>3. /\ C \in Nat
      /\ \A i \in I : Rank(I, i) \in 1 .. C
      /\ \A i, k \in I : Rank(I, i) = Rank(I, k) => i = k
      /\ \A c \in 1 .. C : \E i \in I : Rank(I, i) = c
  BY <1>0, RankBijective
<1>4. \A k \in 1 .. C : at(k) \in I /\ Rank(I, at(k)) = k
  BY <1>3
<1>5. \A i \in I : at(Rank(I, i)) = i
  BY <1>3, <1>4
<1> HIDE DEF at, C
<1>6. K \in Seq(T) /\ Len(K) = C /\ \A k \in 1 .. C : K[k] = s[at(k)]
  <2>1. \A k \in 1 .. C : s[at(k)] \in T
    BY <1>0, <1>2, <1>4
  <2>2. K \in [1 .. C -> T]
    BY <1>1, <2>1
  <2> QED  BY <1>1, <1>3, <2>2
<1>7. Elems(K) = Elems(s) \cap S
  <2>1. ASSUME NEW x \in Elems(K) PROVE x \in Elems(s) \cap S
    <3>1. PICK k \in 1 .. C : x = K[k]
      BY <1>6, <2>1 DEF Elems
    <3> QED  BY <1>2, <1>4, <1>6, <3>1 DEF Elems
  <2>2. ASSUME NEW x \in Elems(s) \cap S PROVE x \in Elems(K)
    <3>1. PICK i \in 1 .. Len(s) : x = s[i]
      BY <2>2 DEF Elems
    <3>2. i \in I
      BY <1>2a, <2>2, <3>1
    <3>3. Rank(I, i) \in 1 .. C /\ K[Rank(I, i)] = x
      BY <1>3, <1>5, <1>6, <3>1, <3>2
    <3> QED  BY <1>6, <3>3 DEF Elems
  <2> QED  BY <2>1, <2>2
<1>8. ASSUME Distinct(s) PROVE Distinct(K)
  <2> SUFFICES ASSUME NEW i \in 1 .. C, NEW j \in 1 .. C, K[i] = K[j] PROVE i = j
    BY <1>6 DEF Distinct
  <2>1. s[at(i)] = s[at(j)] /\ at(i) \in 1 .. Len(s) /\ at(j) \in 1 .. Len(s)
    BY <1>2, <1>4, <1>6
  <2>2. at(i) = at(j)
    BY <1>8, <2>1 DEF Distinct
  <2> QED  BY <1>4, <2>2
<1> QED  BY <1>6, <1>7, <1>8 DEF K, C, I

(* Concatenation, taking a front and a rest, and reversal.                 *)
LEMMA ConcatFacts ==
  ASSUME NEW T, NEW s \in Seq(T), NEW t \in Seq(T)
  PROVE  /\ s \o t \in Seq(T) /\ Len(s \o t) = Len(s) + Len(t)
         /\ Elems(s \o t) = Elems(s) \cup Elems(t)
         /\ \A i \in 1 .. Len(s) : (s \o t)[i] = s[i]
         /\ \A i \in 1 .. Len(t) : (s \o t)[Len(s) + i] = t[i]
         /\ \A i \in 1 .. Len(s) + Len(t) : i > Len(s) =>
              i - Len(s) \in 1 .. Len(t) /\ (s \o t)[i] = t[i - Len(s)]
         /\ Distinct(s) /\ Distinct(t) /\ Elems(s) \cap Elems(t) = {} => Distinct(s \o t)
<1> DEFINE c == s \o t
<1>1. c \in Seq(T) /\ Len(c) = Len(s) + Len(t) /\ Len(s) \in Nat /\ Len(t) \in Nat
  OBVIOUS
<1>2. \A i \in 1 .. Len(s) : c[i] = s[i]
  OBVIOUS
<1>3. \A i \in 1 .. Len(t) : c[Len(s) + i] = t[i]
  OBVIOUS
<1> HIDE DEF c
<1>4. \A i \in 1 .. Len(s) + Len(t) : i > Len(s) =>
         i - Len(s) \in 1 .. Len(t) /\ c[i] = t[i - Len(s)]
  <2> TAKE i \in 1 .. Len(s) + Len(t)
  <2> HAVE i > Len(s)
  <2>1. i - Len(s) \in 1 .. Len(t) /\ Len(s) + (i - Len(s)) = i
    BY <1>1
  <2> QED  BY <1>3, <2>1
<1>5. Elems(c) = Elems(s) \cup Elems(t)
  <2>1. ASSUME NEW x \in Elems(c) PROVE x \in Elems(s) \cup Elems(t)
    <3>1. PICK i \in 1 .. Len(s) + Len(t) : x = c[i]
      BY <1>1, <2>1 DEF Elems
    <3>2. CASE i <= Len(s)
      <4>1. i \in 1 .. Len(s)
        BY <1>1, <3>2
      <4> QED  BY <1>2, <3>1, <4>1 DEF Elems
    <3>3. CASE i > Len(s)
      BY <1>4, <3>1, <3>3 DEF Elems
    <3> QED  BY <1>1, <3>2, <3>3
  <2>2. ASSUME NEW x \in Elems(s) PROVE x \in Elems(c)
    <3>1. PICK i \in 1 .. Len(s) : x = s[i]
      BY <2>2 DEF Elems
    <3>2. i \in 1 .. Len(c) /\ c[i] = x
      BY <1>1, <1>2, <3>1
    <3> QED  BY <3>2 DEF Elems
  <2>3. ASSUME NEW x \in Elems(t) PROVE x \in Elems(c)
    <3>1. PICK i \in 1 .. Len(t) : x = t[i]
      BY <2>3 DEF Elems
    <3>2. Len(s) + i \in 1 .. Len(c) /\ c[Len(s) + i] = x
      BY <1>1, <1>3, <3>1
    <3> QED  BY <3>2 DEF Elems
  <2> QED  BY <2>1, <2>2, <2>3
<1>6. ASSUME Distinct(s), Distinct(t), Elems(s) \cap Elems(t) = {}
      PROVE  Distinct(c)
  <2> SUFFICES ASSUME NEW i \in 1 .. Len(s) + Len(t), NEW j \in 1 .. Len(s) + Len(t), c[i] = c[j]
               PROVE  i = j
    BY <1>1 DEF Distinct
  <2>0. i \in Int /\ j \in Int /\ (i <= Len(s) => i \in 1 .. Len(s)) /\ (j <= Len(s) => j \in 1 .. Len(s))
    BY <1>1
  <2>1. CASE i <= Len(s) /\ j <= Len(s)
    BY <1>2, <1>6, <2>0, <2>1 DEF Distinct
  <2>2. CASE i > Len(s) /\ j > Len(s)
    <3>1. i - Len(s) = j - Len(s)
      BY <1>4, <1>6, <2>2 DEF Distinct
    <3> QED  BY <1>1, <2>0, <3>1
  <2>3. CASE i <= Len(s) /\ j > Len(s)
    <3>1. c[i] \in Elems(s) /\ c[j] \in Elems(t)
      BY <1>2, <1>4, <2>0, <2>3 DEF Elems
    <3> QED  BY <1>6, <3>1
  <2>4. CASE i > Len(s) /\ j <= Len(s)
    <3>1. c[j] \in Elems(s) /\ c[i] \in Elems(t)
      BY <1>2, <1>4, <2>0, <2>4 DEF Elems
    <3> QED  BY <1>6, <3>1
  <2> QED  BY <1>1, <2>0, <2>1, <2>2, <2>3, <2>4
<1> QED  BY <1>1, <1>2, <1>3, <1>4, <1>5, <1>6 DEF c

(* The elements of a concatenation.                                        *)
LEMMA ConcatElems ==
  ASSUME NEW T, NEW s \in Seq(T), NEW t \in Seq(T)
  PROVE  s \o t \in Seq(T) /\ Elems(s \o t) = Elems(s) \cup Elems(t)
BY ConcatFacts

(* Concatenating disjoint sequences repeats nothing.                       *)
LEMMA ConcatDistinct ==
  ASSUME NEW T, NEW s \in Seq(T), NEW t \in Seq(T),
         Distinct(s), Distinct(t), Elems(s) \cap Elems(t) = {}
  PROVE  Distinct(s \o t)
BY ConcatFacts

(* Appending one element.                                                  *)
LEMMA AppendFacts ==
  ASSUME NEW T, NEW s \in Seq(T), NEW x \in T
  PROVE  /\ Append(s, x) \in Seq(T)
         /\ Elems(Append(s, x)) = Elems(s) \cup {x}
         /\ Distinct(s) /\ x \notin Elems(s) => Distinct(Append(s, x))
<1> DEFINE a == Append(s, x)
           L == Len(s)
<1>1. /\ a \in Seq(T) /\ Len(a) = L + 1 /\ L \in Nat
      /\ \A i \in 1 .. L : a[i] = s[i]
      /\ a[L + 1] = x
  OBVIOUS
<1> HIDE DEF a
<1>2. \A i \in 1 .. L + 1 : i = L + 1 \/ i \in 1 .. L
  BY <1>1
<1>3. Elems(a) = Elems(s) \cup {x}
  <2>1. ASSUME NEW y \in Elems(a) PROVE y \in Elems(s) \cup {x}
    BY <1>1, <1>2, <2>1 DEF Elems
  <2>2. ASSUME NEW y \in Elems(s) PROVE y \in Elems(a)
    <3>1. PICK i \in 1 .. L : y = s[i]
      BY <2>2 DEF Elems
    <3>2. i \in 1 .. L + 1 /\ a[i] = y
      BY <1>1, <3>1
    <3> QED  BY <1>1, <3>2 DEF Elems
  <2>3. x \in Elems(a)
    <3>1. L + 1 \in 1 .. L + 1
      BY <1>1
    <3> QED  BY <1>1, <3>1 DEF Elems
  <2> QED  BY <2>1, <2>2, <2>3
<1>4. ASSUME Distinct(s), x \notin Elems(s) PROVE Distinct(a)
  <2> SUFFICES ASSUME NEW i \in 1 .. L + 1, NEW j \in 1 .. L + 1, a[i] = a[j] PROVE i = j
    BY <1>1 DEF Distinct
  <2>1. \A k \in 1 .. L : a[k] \in Elems(s)
    BY <1>1 DEF Elems
  <2>2. CASE i \in 1 .. L /\ j \in 1 .. L
    BY <1>1, <1>4, <2>2 DEF Distinct
  <2>3. CASE i = L + 1
    BY <1>1, <1>2, <1>4, <2>1, <2>3
  <2>4. CASE j = L + 1
    BY <1>1, <1>2, <1>4, <2>1, <2>4
  <2> QED  BY <1>2, <2>2, <2>3, <2>4
<1> QED  BY <1>1, <1>3, <1>4 DEF a

(* Cutting a sequence in two, as popping from the free queue does.         *)
LEMMA SplitFacts ==
  ASSUME NEW T, NEW s \in Seq(T), NEW n \in 0 .. Len(s)
  PROVE  LET front == SubSeq(s, 1, n)
             rest  == SubSeq(s, n + 1, Len(s))
         IN  /\ front \in Seq(T) /\ rest \in Seq(T) /\ Len(front) = n
             /\ \A i \in 1 .. n : front[i] = s[i]
             /\ Elems(front) \cup Elems(rest) = Elems(s)
             /\ Distinct(s) => /\ Distinct(front) /\ Distinct(rest)
                               /\ Elems(front) \cap Elems(rest) = {}
<1> DEFINE front == SubSeq(s, 1, n)
           rest  == SubSeq(s, n + 1, Len(s))
           L     == Len(s)
<1>1. n \in Nat /\ L \in Nat /\ n <= L
  OBVIOUS
<1>2. front \in Seq(T) /\ Len(front) = n /\ \A i \in 1 .. n : front[i] = s[i]
  BY <1>1
<1>3. rest \in Seq(T) /\ Len(rest) = L - n /\ \A i \in 1 .. L - n : rest[i] = s[n + i]
  BY <1>1
<1> HIDE DEF front, rest
<1>4. Elems(front) = {s[i] : i \in 1 .. n}
  <2>1. Elems(front) = {front[i] : i \in 1 .. n}
    BY <1>2 DEF Elems
  <2> QED  BY <1>2, <2>1
<1>5. Elems(rest) = {s[i] : i \in n + 1 .. L}
  <2>1. Elems(rest) = {rest[i] : i \in 1 .. L - n}
    BY <1>3 DEF Elems
  <2>2. ASSUME NEW x \in Elems(rest) PROVE x \in {s[i] : i \in n + 1 .. L}
    <3>1. PICK i \in 1 .. L - n : x = s[n + i]
      BY <1>3, <2>1, <2>2
    <3>2. n + i \in n + 1 .. L
      BY <1>1, <3>1
    <3> QED  BY <3>1, <3>2
  <2>3. ASSUME NEW x \in {s[i] : i \in n + 1 .. L} PROVE x \in Elems(rest)
    <3>1. PICK i \in n + 1 .. L : x = s[i]
      BY <2>3
    <3>2. i - n \in 1 .. L - n /\ n + (i - n) = i
      BY <1>1, <3>1
    <3>3. rest[i - n] = x
      BY <1>3, <3>1, <3>2
    <3> QED  BY <2>1, <3>2, <3>3
  <2> QED  BY <2>2, <2>3
<1>6. Elems(s) = {s[i] : i \in 1 .. L}
  BY DEF Elems
<1>7. \A i : i \in 1 .. L <=> i \in 1 .. n \/ i \in n + 1 .. L
  BY <1>1
<1>8. Elems(front) \cup Elems(rest) = Elems(s)
  BY <1>4, <1>5, <1>6, <1>7
<1>9. ASSUME Distinct(s) PROVE Distinct(front) /\ Distinct(rest) /\ Elems(front) \cap Elems(rest) = {}
  <2>1. Distinct(front)
    <3>1. \A i \in 1 .. n : i \in 1 .. L
      BY <1>1
    <3> QED  BY <1>2, <1>9, <3>1 DEF Distinct
  <2>2. Distinct(rest)
    <3> SUFFICES ASSUME NEW i \in 1 .. L - n, NEW j \in 1 .. L - n, rest[i] = rest[j] PROVE i = j
      BY <1>3 DEF Distinct
    <3>1. n + i \in 1 .. L /\ n + j \in 1 .. L /\ s[n + i] = s[n + j]
      BY <1>1, <1>3
    <3>2. n + i = n + j
      BY <1>9, <3>1 DEF Distinct
    <3> QED  BY <1>1, <3>2
  <2>3. ASSUME NEW x, x \in Elems(front), x \in Elems(rest) PROVE FALSE
    <3>1. PICK i \in 1 .. n : x = s[i]
      BY <1>4, <2>3
    <3>2. PICK j \in n + 1 .. L : x = s[j]
      BY <1>5, <2>3
    <3>3. i = j
      BY <1>7, <1>9, <3>1, <3>2 DEF Distinct
    <3> QED  BY <1>1, <3>1, <3>2, <3>3
  <2> QED  BY <2>1, <2>2, <2>3
<1> QED  BY <1>2, <1>3, <1>8, <1>9 DEF front, rest

(* Reversing keeps the elements and repeats nothing.                       *)
LEMMA ReversedFacts ==
  ASSUME NEW T, NEW s \in Seq(T)
  PROVE  /\ Reversed(s) \in Seq(T)
         /\ Elems(Reversed(s)) = Elems(s)
         /\ Distinct(s) => Distinct(Reversed(s))
<1> DEFINE L == Len(s)
           R == Reversed(s)
<1>1. L \in Nat /\ \A i \in 1 .. L : L + 1 - i \in 1 .. L /\ L + 1 - (L + 1 - i) = i
  OBVIOUS
<1>2. R \in Seq(T) /\ Len(R) = L /\ \A i \in 1 .. L : R[i] = s[L + 1 - i]
  <2>1. R = [i \in 1 .. L |-> s[L + 1 - i]]
    BY DEF Reversed
  <2>2. \A i \in 1 .. L : s[i] \in T
    OBVIOUS
  <2> HIDE DEF L, R
  <2>3. R \in [1 .. L -> T]
    BY <1>1, <2>1, <2>2
  <2> QED  BY <1>1, <2>1, <2>3
<1> HIDE DEF R
<1>3. Elems(R) = Elems(s)
  <2>1. ASSUME NEW x \in Elems(R) PROVE x \in Elems(s)
    BY <1>1, <1>2, <2>1 DEF Elems
  <2>2. ASSUME NEW x \in Elems(s) PROVE x \in Elems(R)
    <3>1. PICK i \in 1 .. L : x = s[i]
      BY <2>2 DEF Elems
    <3>2. L + 1 - i \in 1 .. L /\ R[L + 1 - i] = x
      BY <1>1, <1>2, <3>1
    <3> QED  BY <1>2, <3>2 DEF Elems
  <2> QED  BY <2>1, <2>2
<1>4. ASSUME Distinct(s) PROVE Distinct(R)
  <2> SUFFICES ASSUME NEW i \in 1 .. L, NEW j \in 1 .. L, R[i] = R[j] PROVE i = j
    BY <1>2 DEF Distinct
  <2>1. s[L + 1 - i] = s[L + 1 - j]
    BY <1>2
  <2>2. L + 1 - i = L + 1 - j
    BY <1>1, <1>4, <2>1 DEF Distinct
  <2> QED  BY <1>1, <2>2
<1> QED  BY <1>2, <1>3, <1>4 DEF R

-----------------------------------------------------------------------------
(* What the assumptions say of blocks and hashes.                          *)
LEMMA BlockFacts ==
  /\ NumBlocks \in Nat /\ MaxReqBlocks \in Nat
  /\ PoolBlocks \subseteq Blocks /\ NullBlock \in Blocks /\ NullBlock \notin PoolBlocks
  /\ Blocks = PoolBlocks \cup {NullBlock}
  /\ NoHash \notin Hashes /\ IsFiniteSet(Reqs)
BY ConstAssumption DEF Blocks, PoolBlocks, NullBlock

(* The hashes of one request are all different.                            *)
LEMMA HashFacts ==
  ASSUME NEW r \in Reqs
  PROVE  /\ \A i \in 1 .. MaxReqBlocks : block_hashes[r][i] \in Hashes
         /\ \A i, j \in 1 .. MaxReqBlocks : block_hashes[r][i] = block_hashes[r][j] => i = j
<1>1. block_hashes[r] \in [1 .. MaxReqBlocks -> Hashes]
  BY HashChainAssumption
<1>2. \A i, j \in 1 .. MaxReqBlocks : block_hashes[r][i] = block_hashes[r][j] => i = j
  BY HashChainAssumption
<1> QED  BY <1>1, <1>2

(* What it means for a prefix map to agree with the blocks' hashes.        *)
Agrees(hash, cache) ==
  /\ hash \in [Blocks -> Hashes \cup {NoHash}]
  /\ cache \in [Hashes -> Seq(Blocks)]
  /\ hash[NullBlock] = NoHash
  /\ \A h \in Hashes : Distinct(cache[h])
  /\ \A h \in Hashes, b \in Blocks : b \in Elems(cache[h]) <=> hash[b] = h

(* The invariant contains the agreement of map and hashes.                 *)
LEMMA InvAgrees ==
  ASSUME KVInv PROVE Agrees(block_hash, cached)
BY DEF KVInv, KVTypeOK, CacheMatchesHashes, Agrees

(* Evicting a set of blocks leaves exactly the others' hashes and entries. *)
LEMMA EvictFacts ==
  ASSUME Agrees(block_hash, cached), NEW S \in SUBSET Blocks
  PROVE  /\ Agrees(HashAfterEvict(S), CacheAfterEvict(S))
         /\ \A b \in Blocks : HashAfterEvict(S)[b] = IF b \in S THEN NoHash ELSE block_hash[b]
<1> DEFINE E == Evictable(S)
           H == HashAfterEvict(S)
           C == CacheAfterEvict(S)
<1>1. \A b \in Blocks : b \in E <=> b \in S /\ block_hash[b] # NoHash
  BY DEF Agrees, Evictable
<1>2. H = [b \in Blocks |-> IF b \in E THEN NoHash ELSE block_hash[b]]
  BY DEF HashAfterEvict
<1>3. C = [h \in Hashes |-> Keep(cached[h], Blocks \ E)]
  BY DEF CacheAfterEvict
<1> HIDE DEF E, H, C
<1>4. \A b \in Blocks : H[b] = IF b \in S THEN NoHash ELSE block_hash[b]
  BY <1>1, <1>2
<1>5. H \in [Blocks -> Hashes \cup {NoHash}] /\ H[NullBlock] = NoHash
  BY <1>2, BlockFacts DEF Agrees
<1>6. \A h \in Hashes : /\ C[h] \in Seq(Blocks) /\ Distinct(C[h])
                        /\ Elems(C[h]) = Elems(cached[h]) \cap (Blocks \ E)
  <2> TAKE h \in Hashes
  <2>1. cached[h] \in Seq(Blocks) /\ Distinct(cached[h])
    BY DEF Agrees
  <2>2. C[h] = Keep(cached[h], Blocks \ E)
    BY <1>3
  <2>3. /\ Keep(cached[h], Blocks \ E) \in Seq(Blocks)
        /\ Elems(Keep(cached[h], Blocks \ E)) = Elems(cached[h]) \cap (Blocks \ E)
        /\ Distinct(Keep(cached[h], Blocks \ E))
    <3> DEFINE s == cached[h]
               V == Blocks \ E
    <3>1. s \in Seq(Blocks) /\ Distinct(s)
      BY <2>1
    <3> HIDE DEF s, V
    <3>2. Keep(s, V) \in Seq(Blocks) /\ Elems(Keep(s, V)) = Elems(s) \cap V /\ Distinct(Keep(s, V))
      BY <3>1, KeepFacts
    <3> QED  BY <3>2 DEF s, V
  <2> QED  BY <2>2, <2>3
<1>7. C \in [Hashes -> Seq(Blocks)]
  BY <1>3, <1>6
<1>8. \A h \in Hashes, b \in Blocks : b \in Elems(C[h]) <=> H[b] = h
  <2> TAKE h \in Hashes, b \in Blocks
  <2>1. b \in Elems(C[h]) <=> block_hash[b] = h /\ b \notin E
    BY <1>6 DEF Agrees
  <2>2. h # NoHash
    BY BlockFacts
  <2> QED  BY <1>2, <2>1, <2>2
<1> QED  BY <1>4, <1>5, <1>6, <1>7, <1>8 DEF Agrees, H, C

(* Caching blocks that carry no hash yet: each gets the hash of its        *)
(* position and its entry, nothing else changes.                           *)
Cacheable(hash, cache, r, table, done, full) ==
  /\ Agrees(hash, cache)
  /\ r \in Reqs /\ table \in Seq(PoolBlocks) /\ Distinct(table)
  /\ done \in Nat /\ full \in Nat /\ full <= Len(table) /\ full <= MaxReqBlocks
  /\ \A i \in done + 1 .. full : hash[table[i]] = NoHash
IsCached(hash, r, table, done, full, H, C) ==
  /\ Agrees(H, C)
  /\ \A i \in done + 1 .. full : H[table[i]] = block_hashes[r][i]
  /\ \A b \in Blocks : (\A i \in done + 1 .. full : table[i] # b) => H[b] = hash[b]

(* cache_full_blocks does what IsCached says.                              *)
LEMMA CachingFacts ==
  ASSUME NEW hash, NEW cache, NEW r, NEW table, NEW done, NEW full,
         Cacheable(hash, cache, r, table, done, full)
  PROVE  IsCached(hash, r, table, done, full, HashAfterCaching(hash, r, table, done, full),
                                              CacheAfterCaching(cache, r, table, done, full))
<1> DEFINE H == HashAfterCaching(hash, r, table, done, full)
           C == CacheAfterCaching(cache, r, table, done, full)
           D == done + 1 .. full
           bh == block_hashes[r]
           pos(b) == CHOOSE i \in D : table[i] = b
           idx(h) == CHOOSE i \in D : bh[i] = h
<1>0. /\ Agrees(hash, cache)
      /\ r \in Reqs /\ table \in Seq(PoolBlocks) /\ Distinct(table)
      /\ done \in Nat /\ full \in Nat /\ full <= Len(table) /\ full <= MaxReqBlocks
      /\ \A i \in done + 1 .. full : hash[table[i]] = NoHash
  BY DEF Cacheable
<1> USE <1>0
<1>1. /\ \A i \in D : i \in 1 .. Len(table) /\ i \in 1 .. MaxReqBlocks
      /\ \A i \in D : table[i] \in PoolBlocks
  BY BlockFacts
<1>2. /\ \A i \in D : bh[i] \in Hashes
      /\ \A i, j \in D : bh[i] = bh[j] => i = j
  BY <1>1, HashFacts
<1>3. \A i, j \in D : table[i] = table[j] => i = j
  BY <1>1 DEF Distinct
<1>4. \A i \in D : hash[table[i]] = NoHash
  OBVIOUS
<1>5. H = [b \in Blocks |-> IF \E i \in D : table[i] = b THEN bh[pos(b)] ELSE hash[b]]
  BY DEF HashAfterCaching
<1>6. C = [h \in Hashes |-> IF \E i \in D : bh[i] = h
                            THEN Append(cache[h], table[idx(h)]) ELSE cache[h]]
  BY DEF CacheAfterCaching
<1> HIDE DEF H, C, D, bh
<1>7. \A i \in D : pos(table[i]) = i
  BY <1>3
<1>8. \A i \in D : idx(bh[i]) = i
  BY <1>2
<1> HIDE DEF pos, idx
<1>9. \A i \in D : H[table[i]] = bh[i]
  <2> TAKE i \in D
  <2>1. table[i] \in Blocks
    BY <1>1, BlockFacts
  <2> QED  BY <1>5, <1>7, <2>1
<1>10. \A b \in Blocks : (\A i \in D : table[i] # b) => H[b] = hash[b]
  BY <1>5
<1>11. H \in [Blocks -> Hashes \cup {NoHash}]
  <2> SUFFICES ASSUME NEW b \in Blocks PROVE H[b] \in Hashes \cup {NoHash}
    BY <1>5
  <2>1. CASE \E i \in D : table[i] = b
    BY <1>2, <1>9, <2>1
  <2>2. CASE \A i \in D : table[i] # b
    BY <1>10, <2>2 DEF Agrees
  <2> QED  BY <2>1, <2>2
<1>12. H[NullBlock] = NoHash
  BY <1>1, <1>10, BlockFacts DEF Agrees
<1>13. \A i \in D : C[bh[i]] = Append(cache[bh[i]], table[i])
  BY <1>2, <1>6, <1>8
<1>14. \A h \in Hashes : (\A i \in D : bh[i] # h) => C[h] = cache[h]
  BY <1>6
<1>15. \A i \in D : /\ C[bh[i]] \in Seq(Blocks) /\ Distinct(C[bh[i]])
                    /\ Elems(C[bh[i]]) = Elems(cache[bh[i]]) \cup {table[i]}
  <2> TAKE i \in D
  <2> DEFINE s == cache[bh[i]]
  <2>1. s \in Seq(Blocks) /\ Distinct(s) /\ bh[i] \in Hashes /\ table[i] \in Blocks
    BY <1>1, <1>2, BlockFacts DEF Agrees
  <2>3. table[i] \notin Elems(s)
    <3>1. hash[table[i]] # bh[i]
      BY <1>2, <1>4, BlockFacts
    <3> QED  BY <2>1, <3>1 DEF Agrees
  <2> HIDE DEF s
  <2>4. /\ Append(s, table[i]) \in Seq(Blocks) /\ Distinct(Append(s, table[i]))
        /\ Elems(Append(s, table[i])) = Elems(s) \cup {table[i]}
    BY <2>1, <2>3, AppendFacts
  <2> QED  BY <1>13, <2>4 DEF s
<1>16. ASSUME NEW h \in Hashes
       PROVE  /\ C[h] \in Seq(Blocks) /\ Distinct(C[h])
              /\ \A b \in Blocks : b \in Elems(C[h]) <=> H[b] = h
  <2>1. CASE \E i \in D : bh[i] = h
    <3>1. PICK i \in D : bh[i] = h
      BY <2>1
    <3>2. ASSUME NEW b \in Blocks PROVE b \in Elems(C[h]) <=> H[b] = h
      <4>1. b \in Elems(C[h]) <=> hash[b] = h \/ b = table[i]
        <5>1. Elems(C[h]) = Elems(cache[h]) \cup {table[i]}
          BY <1>15, <3>1
        <5>2. b \in Elems(cache[h]) <=> hash[b] = h
          BY DEF Agrees
        <5> QED  BY <5>1, <5>2
      <4>2. CASE \E j \in D : table[j] = b
        <5>1. PICK j \in D : table[j] = b
          BY <4>2
        <5>2. H[b] = bh[j] /\ hash[b] = NoHash
          BY <1>4, <1>9, <5>1
        <5>3. H[b] = h <=> j = i
          BY <1>2, <3>1, <5>2
        <5>4. b = table[i] <=> j = i
          BY <1>3, <3>1, <5>1
        <5> QED  BY <4>1, <5>2, <5>3, <5>4, BlockFacts
      <4>3. CASE \A j \in D : table[j] # b
        <5>1. H[b] = hash[b] /\ b # table[i]
          BY <1>10, <4>3
        <5> QED  BY <4>1, <5>1
      <4> QED  BY <4>2, <4>3
    <3> QED  BY <1>15, <3>1, <3>2
  <2>2. CASE \A i \in D : bh[i] # h
    <3>1. C[h] = cache[h]
      BY <1>14, <2>2
    <3>2. ASSUME NEW b \in Blocks PROVE hash[b] = h <=> H[b] = h
      <4>1. CASE \E j \in D : table[j] = b
        BY <1>4, <1>9, <2>2, <4>1, BlockFacts
      <4>2. CASE \A j \in D : table[j] # b
        BY <1>10, <4>2
      <4> QED  BY <4>1, <4>2
    <3> QED  BY <3>1, <3>2 DEF Agrees
  <2> QED  BY <2>1, <2>2
<1>17. C \in [Hashes -> Seq(Blocks)]
  BY <1>6, <1>16
<1>18. Agrees(H, C)
  BY <1>11, <1>12, <1>16, <1>17 DEF Agrees
<1> QED  BY <1>9, <1>10, <1>18 DEF H, C, D, bh, IsCached

-----------------------------------------------------------------------------
(* References and holders.                                                 *)
LEMMA HolderFacts ==
  ASSUME KVInv
  PROVE  /\ \A b : IsFiniteSet(Holders(b)) /\ Cardinality(Holders(b)) \in Nat
         /\ \A b \in PoolBlocks : ref_cnt[b] = 0 <=> Holders(b) = {}
         /\ \A r \in Reqs : /\ req_to_blocks[r] \in Seq(PoolBlocks)
                            /\ Elems(req_to_blocks[r]) \subseteq PoolBlocks
         /\ \A r \in Reqs : \A b \in Elems(req_to_blocks[r]) : ref_cnt[b] > 0
<1>1. \A b : IsFiniteSet(Holders(b)) /\ Cardinality(Holders(b)) \in Nat
  <2> TAKE b
  <2>1. Holders(b) \in SUBSET Reqs
    BY DEF Holders
  <2> QED  BY <2>1, BlockFacts, FS_Subset, FS_CardinalityType
<1>2. \A b \in PoolBlocks : ref_cnt[b] = 0 <=> Holders(b) = {}
  BY <1>1, FS_EmptySet DEF KVInv, RefCountsHolders
<1>3. \A r \in Reqs : /\ req_to_blocks[r] \in Seq(PoolBlocks)
                      /\ Elems(req_to_blocks[r]) \subseteq PoolBlocks
  BY DEF KVInv, KVTypeOK, Elems
<1>4. \A r \in Reqs : \A b \in Elems(req_to_blocks[r]) : ref_cnt[b] > 0
  <2> TAKE r \in Reqs
  <2> TAKE b \in Elems(req_to_blocks[r])
  <2>1. b \in PoolBlocks /\ b \in Blocks
    BY <1>3, BlockFacts
  <2>2. Holders(b) # {}
    BY DEF Holders
  <2>3. ref_cnt[b] \in Nat
    BY <2>1 DEF KVInv, KVTypeOK
  <2> QED  BY <1>2, <2>1, <2>2, <2>3
<1> QED  BY <1>1, <1>2, <1>3, <1>4

(* TablesMatchPrefix, entry by entry, with the state it is about as a      *)
(* parameter.                                                              *)
HoldersIn(tables, b) == {r \in Reqs : b \in Elems(tables[r])}
TableEntryOK(tables, ncached, hash, r, i) ==
  IF i <= ncached[r]
  THEN hash[tables[r][i]] \in {block_hashes[r][i], NoHash}
  ELSE hash[tables[r][i]] = NoHash /\ HoldersIn(tables, tables[r][i]) = {r}

(* TablesMatchPrefix, one table entry at a time.                           *)
LEMMA TablesEntrywise ==
  /\ TablesMatchPrefix <=>
       \A r \in Reqs : \A i \in 1 .. Len(req_to_blocks[r]) :
         TableEntryOK(req_to_blocks, num_cached_block, block_hash, r, i)
  /\ TablesMatchPrefix' <=>
       \A r \in Reqs : \A i \in 1 .. Len(req_to_blocks'[r]) :
         TableEntryOK(req_to_blocks', num_cached_block', block_hash', r, i)
BY DEF TablesMatchPrefix, TableEntryOK, Holders, HoldersIn

(* The invariant holds when the engine starts.                             *)
LEMMA InitKVInv == KVInit => KVInv
<1> SUFFICES ASSUME KVInit PROVE KVInv
  OBVIOUS
<1> USE DEF KVInit
<1>0. \A r \in Reqs : req_to_blocks[r] = <<>>
  OBVIOUS
<1>1. free_block_queue = [i \in 1 .. NumBlocks - 1 |-> i] /\ NumBlocks - 1 \in Nat
  BY ConstAssumption
<1>2. /\ free_block_queue \in Seq(PoolBlocks) /\ Len(free_block_queue) = NumBlocks - 1
      /\ \A i \in 1 .. NumBlocks - 1 : free_block_queue[i] = i
  <2>1. \A i \in 1 .. NumBlocks - 1 : i \in PoolBlocks
    BY ConstAssumption DEF PoolBlocks, Blocks, NullBlock
  <2>2. free_block_queue \in [1 .. NumBlocks - 1 -> PoolBlocks]
    BY <1>1, <2>1
  <2>3. PICK f, n, T : f = free_block_queue /\ n = NumBlocks - 1 /\ T = PoolBlocks
    OBVIOUS
  <2>4. f \in [1 .. n -> T] /\ n \in Nat
    BY <1>1, <2>2, <2>3
  <2>5. f \in Seq(T) /\ Len(f) = n
    BY <2>4
  <2> QED  BY <1>1, <2>3, <2>5
<1>3. KVTypeOK
  BY <1>2, BlockFacts DEF KVTypeOK
<1>4. FreeIsUnreferenced
  <2>1. \A b : b \in PoolBlocks <=> b \in 1 .. NumBlocks - 1
    BY ConstAssumption DEF PoolBlocks, Blocks, NullBlock
  <2>2. Elems(free_block_queue) = PoolBlocks
    BY <1>2, <2>1 DEF Elems
  <2>3. Distinct(free_block_queue)
    BY <1>2 DEF Distinct
  <2>4. \A b \in PoolBlocks : ref_cnt[b] = 0
    BY BlockFacts
  <2> QED  BY <2>2, <2>3, <2>4 DEF FreeIsUnreferenced
<1>5. RefCountsHolders
  <2>1. \A b : Holders(b) = {}
    BY <1>0 DEF Holders, Elems
  <2>2. \A r \in Reqs : Distinct(req_to_blocks[r])
    BY <1>0 DEF Distinct
  <2> QED  BY <2>1, <2>2, FS_EmptySet, BlockFacts DEF RefCountsHolders
<1>6. CacheMatchesHashes
  <2>1. \A h \in Hashes : Distinct(cached[h]) /\ Elems(cached[h]) = {}
    BY DEF Distinct, Elems
  <2> QED  BY <2>1, BlockFacts DEF CacheMatchesHashes
<1>7. TablesMatchPrefix
  BY <1>0 DEF TablesMatchPrefix
<1> QED  BY <1>3, <1>4, <1>5, <1>6, <1>7 DEF KVInv

(* free: one reference per block of the table is given back.               *)
LEMMA FreeKVInv ==
  ASSUME KVInv, NEW r \in Reqs, free(r)
  PROVE  KVInv'
<1> DEFINE table == req_to_blocks[r]
           T     == Elems(table)
           zero  == {b \in T : ref_cnt[b] = 1}
           K     == Keep(Reversed(table), zero)
<1>1. /\ ref_cnt' = [b \in Blocks |-> IF b \in T THEN ref_cnt[b] - 1 ELSE ref_cnt[b]]
      /\ free_block_queue' = free_block_queue \o K
      /\ req_to_blocks' = [req_to_blocks EXCEPT ![r] = <<>>]
      /\ num_cached_block' = [num_cached_block EXCEPT ![r] = 0]
      /\ block_hash' = block_hash /\ cached' = cached
  BY DEF free
<1>2. /\ table \in Seq(PoolBlocks) /\ T \subseteq PoolBlocks /\ Distinct(table)
      /\ \A b \in T : ref_cnt[b] > 0
  BY HolderFacts DEF KVInv, RefCountsHolders
<1>3. /\ free_block_queue \in Seq(PoolBlocks) /\ ref_cnt \in [Blocks -> Nat]
      /\ Distinct(free_block_queue)
      /\ Elems(free_block_queue) = {b \in PoolBlocks : ref_cnt[b] = 0}
  BY DEF KVInv, KVTypeOK, FreeIsUnreferenced
<1>4. /\ req_to_blocks \in [Reqs -> Seq(PoolBlocks)] /\ num_cached_block \in [Reqs -> Nat]
      /\ \A q \in Reqs : num_cached_block[q] <= Len(req_to_blocks[q])
                         /\ Len(req_to_blocks[q]) <= MaxReqBlocks
  BY DEF KVInv, KVTypeOK
<1>5. K \in Seq(PoolBlocks) /\ Elems(K) = zero /\ Distinct(K)
  <2>1. /\ Reversed(table) \in Seq(PoolBlocks) /\ Elems(Reversed(table)) = T
        /\ Distinct(Reversed(table))
    BY <1>2, ReversedFacts
  <2> HIDE DEF table, T, zero
  <2>2. /\ Keep(Reversed(table), zero) \in Seq(PoolBlocks)
        /\ Elems(Keep(Reversed(table), zero)) = Elems(Reversed(table)) \cap zero
        /\ Distinct(Keep(Reversed(table), zero))
    BY <2>1, KeepFacts
  <2>3. T \cap zero = zero
    BY DEF zero
  <2> QED  BY <2>1, <2>2, <2>3
<1> HIDE DEF K, T
<1>6. FreeIsUnreferenced' /\ free_block_queue' \in Seq(PoolBlocks)
  <2>1. Elems(free_block_queue) \cap Elems(K) = {}
    BY <1>3, <1>5
  <2>2. /\ free_block_queue' \in Seq(PoolBlocks) /\ Distinct(free_block_queue')
        /\ Elems(free_block_queue') = Elems(free_block_queue) \cup zero
    <3>1. /\ free_block_queue \o K \in Seq(PoolBlocks) /\ Distinct(free_block_queue \o K)
          /\ Elems(free_block_queue \o K) = Elems(free_block_queue) \cup Elems(K)
      BY <1>3, <1>5, <2>1, ConcatElems, ConcatDistinct
    <3> QED  BY <1>1, <1>5, <3>1
  <2>3. \A b \in PoolBlocks : ref_cnt'[b] = 0 <=> ref_cnt[b] = 0 \/ b \in zero
    <3> TAKE b \in PoolBlocks
    <3>1. b \in Blocks /\ ref_cnt[b] \in Nat
      BY <1>3, BlockFacts
    <3>2. ref_cnt'[b] = IF b \in T THEN ref_cnt[b] - 1 ELSE ref_cnt[b]
      BY <1>1, <3>1
    <3> QED  BY <1>2, <3>1, <3>2
  <2>4. zero \subseteq PoolBlocks
    BY <1>2
  <2>5. Elems(free_block_queue') = {b \in PoolBlocks : ref_cnt'[b] = 0}
    BY <1>3, <2>2, <2>3, <2>4
  <2> QED  BY <2>2, <2>5 DEF FreeIsUnreferenced
<1>7. ref_cnt' \in [Blocks -> Nat]
  <2>1. \A b \in Blocks : (IF b \in T THEN ref_cnt[b] - 1 ELSE ref_cnt[b]) \in Nat
    BY <1>2, <1>3
  <2> QED  BY <1>1, <2>1
<1>8. KVTypeOK'
  <2>1. req_to_blocks' \in [Reqs -> Seq(PoolBlocks)]
    BY <1>1, <1>4
  <2>2. num_cached_block' \in [Reqs -> Nat]
    BY <1>1, <1>4
  <2>3. \A q \in Reqs : num_cached_block'[q] <= Len(req_to_blocks'[q])
                        /\ Len(req_to_blocks'[q]) <= MaxReqBlocks
    BY <1>1, <1>4, BlockFacts
  <2> QED  BY <1>1, <1>6, <1>7, <2>1, <2>2, <2>3 DEF KVInv, KVTypeOK
<1>9. /\ \A q \in Reqs \ {r} : req_to_blocks'[q] = req_to_blocks[q]
                               /\ num_cached_block'[q] = num_cached_block[q]
      /\ req_to_blocks'[r] = <<>>
  BY <1>1, <1>4
<1>10. \A b : Holders(b)' = Holders(b) \ {r}
  <2>1. Elems(req_to_blocks'[r]) = {}
    BY <1>9 DEF Elems
  <2> QED  BY <1>9, <2>1 DEF Holders
<1>11. RefCountsHolders'
  <2>1. \A q \in Reqs : Distinct(req_to_blocks'[q])
    <3>1. Distinct(<<>>)
      BY DEF Distinct
    <3> QED  BY <1>9, <3>1 DEF KVInv, RefCountsHolders
  <2>2. ASSUME NEW b \in PoolBlocks PROVE ref_cnt'[b] = Cardinality(Holders(b)')
    <3>1. ref_cnt[b] = Cardinality(Holders(b)) /\ IsFiniteSet(Holders(b)) /\ b \in Blocks
      BY HolderFacts, BlockFacts DEF KVInv, RefCountsHolders
    <3>2. Cardinality(Holders(b) \ {r}) = IF r \in Holders(b) THEN Cardinality(Holders(b)) - 1
                                                             ELSE Cardinality(Holders(b))
      BY <3>1, FS_RemoveElement
    <3>3. r \in Holders(b) <=> b \in T
      BY DEF Holders, T
    <3>4. ref_cnt'[b] = IF b \in T THEN ref_cnt[b] - 1 ELSE ref_cnt[b]
      BY <1>1, <3>1
    <3> QED  BY <1>10, <3>1, <3>2, <3>3, <3>4
  <2> QED  BY <2>1, <2>2 DEF RefCountsHolders
<1>12. CacheMatchesHashes'
  BY <1>1 DEF KVInv, CacheMatchesHashes
<1>13. TablesMatchPrefix'
  <2> SUFFICES ASSUME NEW q \in Reqs, NEW i \in 1 .. Len(req_to_blocks'[q])
               PROVE  TableEntryOK(req_to_blocks', num_cached_block', block_hash', q, i)
    BY TablesEntrywise
  <2>1. q # r
    BY <1>9
  <2>2. q \in Reqs \ {r}
    BY <2>1
  <2>3. req_to_blocks'[q] = req_to_blocks[q] /\ num_cached_block'[q] = num_cached_block[q]
    BY <1>9, <2>2
  <2>4. TableEntryOK(req_to_blocks, num_cached_block, block_hash, q, i)
    BY <2>3, TablesEntrywise DEF KVInv
  <2>5. \A b : HoldersIn(req_to_blocks', b) = HoldersIn(req_to_blocks, b) \ {r}
    BY <1>10 DEF Holders, HoldersIn
  <2>6. {q} \ {r} = {q}
    BY <2>1
  <2> QED  BY <1>1, <2>3, <2>4, <2>5, <2>6 DEF TableEntryOK
<1> QED  BY <1>6, <1>8, <1>11, <1>12, <1>13 DEF KVInv

(* Operations that leave tables, counts and the free queue alone.          *)
LEMMA FrameKVInv ==
  ASSUME KVInv, UNCHANGED <<free_block_queue, ref_cnt, req_to_blocks>>
  PROVE  /\ FreeIsUnreferenced' /\ RefCountsHolders'
         /\ free_block_queue' \in Seq(PoolBlocks) /\ ref_cnt' \in [Blocks -> Nat]
         /\ req_to_blocks' \in [Reqs -> Seq(PoolBlocks)]
         /\ \A r \in Reqs : Len(req_to_blocks'[r]) <= MaxReqBlocks
         /\ \A b : HoldersIn(req_to_blocks', b) = HoldersIn(req_to_blocks, b)
BY DEF KVInv, KVTypeOK, FreeIsUnreferenced, RefCountsHolders, Holders, HoldersIn

(* cache_blocks: full blocks of the table get their hashes.                *)
LEMMA CommitKVInv ==
  ASSUME KVInv, NEW r \in Reqs, NEW full \in 0 .. MaxReqBlocks, Commit(r, full)
  PROVE  KVInv'
<1> DEFINE table == req_to_blocks[r]
           done  == num_cached_block[r]
           D     == done + 1 .. full
<1>1. /\ full <= Len(table) /\ full > done
      /\ block_hash' = HashAfterCaching(block_hash, r, table, done, full)
      /\ cached' = CacheAfterCaching(cached, r, table, done, full)
      /\ num_cached_block' = [num_cached_block EXCEPT ![r] = full]
      /\ UNCHANGED <<free_block_queue, ref_cnt, req_to_blocks>>
  BY DEF Commit, cache_blocks
<1>2. /\ table \in Seq(PoolBlocks) /\ Distinct(table) /\ done \in Nat /\ full \in Nat
      /\ full <= MaxReqBlocks /\ num_cached_block \in [Reqs -> Nat]
  BY HolderFacts, BlockFacts DEF KVInv, KVTypeOK, RefCountsHolders
<1>3. \A q \in Reqs : \A i \in 1 .. Len(req_to_blocks[q]) :
        TableEntryOK(req_to_blocks, num_cached_block, block_hash, q, i)
  BY TablesEntrywise DEF KVInv
<1>4. \A i \in D : /\ i \in 1 .. Len(table) /\ block_hash[table[i]] = NoHash
                   /\ HoldersIn(req_to_blocks, table[i]) = {r}
  <2> TAKE i \in D
  <2>1. i \in 1 .. Len(table) /\ ~(i <= done)
    BY <1>1, <1>2
  <2> QED  BY <1>3, <2>1 DEF TableEntryOK
<1>5. Agrees(block_hash, cached)
  BY InvAgrees
<1> HIDE DEF table, done
<1>6. /\ Agrees(block_hash', cached')
      /\ \A i \in D : block_hash'[table[i]] = block_hashes[r][i]
      /\ \A b \in Blocks : (\A i \in D : table[i] # b) => block_hash'[b] = block_hash[b]
  <2>1. Cacheable(block_hash, cached, r, table, done, full)
    BY <1>1, <1>2, <1>4, <1>5 DEF Cacheable
  <2>2. IsCached(block_hash, r, table, done, full, block_hash', cached')
    BY <1>1, <2>1, CachingFacts
  <2> QED  BY <2>2 DEF IsCached
<1>7. KVTypeOK'
  <2>1. num_cached_block' \in [Reqs -> Nat]
    BY <1>1, <1>2
  <2>2. \A q \in Reqs : num_cached_block'[q] <= Len(req_to_blocks'[q])
    BY <1>1, <1>2 DEF KVInv, KVTypeOK, table
  <2> QED  BY <1>1, <1>6, <2>1, <2>2, FrameKVInv DEF KVTypeOK, Agrees
<1>8. CacheMatchesHashes'
  BY <1>6 DEF Agrees, CacheMatchesHashes
<1>9. TablesMatchPrefix'
  <2> SUFFICES ASSUME NEW q \in Reqs, NEW i \in 1 .. Len(req_to_blocks[q])
               PROVE  TableEntryOK(req_to_blocks', num_cached_block', block_hash', q, i)
    BY <1>1, TablesEntrywise
  <2> DEFINE b == req_to_blocks[q][i]
  <2>1. /\ req_to_blocks' = req_to_blocks
        /\ \A c : HoldersIn(req_to_blocks', c) = HoldersIn(req_to_blocks, c)
    BY <1>1, FrameKVInv
  <2>2. /\ TableEntryOK(req_to_blocks, num_cached_block, block_hash, q, i)
        /\ b \in Blocks /\ q \in HoldersIn(req_to_blocks, b)
    BY <1>3, HolderFacts, BlockFacts DEF HoldersIn, Elems
  <2>3. CASE q # r
    <3>1. \A j \in D : table[j] # b
      <4> SUFFICES ASSUME NEW j \in D, table[j] = b PROVE FALSE
        OBVIOUS
      <4>1. HoldersIn(req_to_blocks, table[j]) = {r}
        BY <1>4
      <4>2. q \in HoldersIn(req_to_blocks, table[j])
        BY <2>2
      <4> QED  BY <2>3, <4>1, <4>2
    <3>2. block_hash'[b] = block_hash[b]
      BY <1>6, <2>2, <3>1
    <3>3. num_cached_block'[q] = num_cached_block[q]
      BY <1>1, <1>2, <2>3
    <3> QED  BY <2>1, <2>2, <3>2, <3>3 DEF TableEntryOK
  <2>4. CASE q = r
    <3>1. num_cached_block'[q] = full /\ num_cached_block[q] = done /\ b = table[i] /\ i \in 1 .. Len(table)
      BY <1>1, <1>2, <2>4 DEF done, table
    <3>2. CASE i \in D
      <4>1. i <= full /\ block_hash'[b] = block_hashes[r][i]
        BY <1>2, <1>6, <3>1, <3>2
      <4> QED  BY <2>1, <2>4, <3>1, <4>1 DEF TableEntryOK
    <3>3. CASE i \notin D
      <4>1. \A j \in D : table[j] # b
        BY <1>2, <1>4, <3>1, <3>3 DEF Distinct
      <4>2. block_hash'[b] = block_hash[b]
        BY <1>6, <2>2, <4>1
      <4>3. i <= full <=> i <= done
        BY <1>1, <1>2, <3>1, <3>3
      <4> QED  BY <2>1, <2>2, <3>1, <4>2, <4>3 DEF TableEntryOK
    <3> QED  BY <3>2, <3>3
  <2> QED  BY <2>3, <2>4
<1> QED  BY <1>1, <1>7, <1>8, <1>9, FrameKVInv DEF KVInv

(* Hashes that only disappear leave every table entry in order.            *)
LEMMA ForgetKVInv ==
  ASSUME KVInv, Agrees(block_hash', cached'),
         \A b \in Blocks : block_hash'[b] \in {block_hash[b], NoHash},
         UNCHANGED <<free_block_queue, ref_cnt, req_to_blocks, num_cached_block>>
  PROVE  KVInv'
<1>1. KVTypeOK' /\ CacheMatchesHashes'
  BY FrameKVInv DEF Agrees, KVInv, KVTypeOK, CacheMatchesHashes
<1>2. TablesMatchPrefix'
  <2> SUFFICES ASSUME NEW q \in Reqs, NEW i \in 1 .. Len(req_to_blocks[q])
               PROVE  TableEntryOK(req_to_blocks', num_cached_block', block_hash', q, i)
    BY TablesEntrywise
  <2>1. TableEntryOK(req_to_blocks, num_cached_block, block_hash, q, i)
    BY TablesEntrywise DEF KVInv
  <2>2. req_to_blocks[q][i] \in Blocks
    BY HolderFacts, BlockFacts
  <2>3. \A c : HoldersIn(req_to_blocks', c) = HoldersIn(req_to_blocks, c)
    BY FrameKVInv
  <2> QED  BY <2>1, <2>2, <2>3 DEF TableEntryOK
<1> QED  BY <1>1, <1>2, FrameKVInv DEF KVInv

(* evict_blocks takes hashes away, from blocks in use too.                 *)
LEMMA EvictKVInv ==
  ASSUME KVInv, NEW S \in SUBSET Blocks, evict_blocks(S)
  PROVE  KVInv'
<1>1. Agrees(block_hash', cached') /\ \A b \in Blocks : block_hash'[b] \in {block_hash[b], NoHash}
  BY InvAgrees, EvictFacts DEF evict_blocks
<1> QED  BY <1>1, ForgetKVInv DEF evict_blocks

(* reset_prefix_cache takes all of them away.                              *)
LEMMA ResetKVInv ==
  ASSUME KVInv, reset_prefix_cache
  PROVE  KVInv'
<1>1. /\ cached' = [h \in Hashes |-> <<>>] /\ block_hash' = [b \in Blocks |-> NoHash]
      /\ UNCHANGED <<free_block_queue, ref_cnt, req_to_blocks, num_cached_block>>
  BY DEF reset_prefix_cache
<1>2. \A h \in Hashes : Distinct(cached'[h]) /\ Elems(cached'[h]) = {}
  BY <1>1 DEF Distinct, Elems
<1>3. Agrees(block_hash', cached')
  BY <1>1, <1>2, BlockFacts DEF Agrees
<1>4. \A b \in Blocks : block_hash'[b] \in {block_hash[b], NoHash}
  BY <1>1
<1> QED  BY <1>1, <1>3, <1>4, ForgetKVInv

-----------------------------------------------------------------------------
(* allocate_slots: what it may assume of the cache hits, given the blocks  *)
(* the request holds already.                                              *)
Held(r, hits) == req_to_blocks[r] \o hits
Done(r, hits) == num_cached_block[r] + Len(hits)
HitsOK(r, hits, num_blocks) ==
  /\ hits \in Seq(PoolBlocks) /\ Distinct(hits)
  /\ \A b \in Elems(hits) : block_hash[b] # NoHash /\ r \notin Holders(b)
  /\ Len(req_to_blocks[r]) + Len(hits) <= num_blocks
  /\ \A i \in 1 .. Len(Held(r, hits)) :
       IF i <= Done(r, hits)
       THEN block_hash[Held(r, hits)[i]] \in {block_hashes[r][i], NoHash}
       ELSE block_hash[Held(r, hits)[i]] = NoHash /\ Holders(Held(r, hits)[i]) \subseteq {r}

(* The capacity check is enough for the new blocks, although touching the  *)
(* hits takes some of them out of the free queue first.                    *)
LEMMA EnoughToTake ==
  ASSUME KVInv, NEW r \in Reqs, NEW hits, NEW num_blocks \in Nat,
         HitsOK(r, hits, num_blocks), CanAllocate(r, hits, num_blocks)
  PROVE  /\ touch(hits) \in Seq(PoolBlocks) /\ Distinct(touch(hits))
         /\ Elems(touch(hits)) = {b \in PoolBlocks : ref_cnt[b] = 0} \ Elems(hits)
         /\ NumNew(r, hits, num_blocks) \in 0 .. Len(touch(hits))
         /\ NumNew(r, hits, num_blocks) = num_blocks - Len(req_to_blocks[r]) - Len(hits)
<1> DEFINE F == free_block_queue
           W == Elems(hits)
           V == Blocks \ W
           L == Len(F)
           J == {i \in 1 .. L : F[i] \in W}
           I == {i \in 1 .. L : F[i] \in V}
           Z == {b \in W : ref_cnt[b] = 0}
           n == NumNew(r, hits, num_blocks)
<1>1. /\ F \in Seq(PoolBlocks) /\ Distinct(F) /\ L \in Nat
      /\ Elems(F) = {b \in PoolBlocks : ref_cnt[b] = 0}
      /\ \A i \in 1 .. L : F[i] \in PoolBlocks /\ F[i] \in Blocks
  BY BlockFacts DEF KVInv, KVTypeOK, FreeIsUnreferenced
<1>2. hits \in Seq(PoolBlocks) /\ Distinct(hits) /\ W \subseteq PoolBlocks
  BY DEF HitsOK, Elems
<1>3. /\ touch(hits) \in Seq(PoolBlocks) /\ Distinct(touch(hits))
      /\ Elems(touch(hits)) = Elems(F) \cap V
      /\ Len(touch(hits)) = Cardinality(I)
  <2> HIDE DEF V
  <2>1. /\ Keep(F, V) \in Seq(PoolBlocks) /\ Distinct(Keep(F, V))
        /\ Elems(Keep(F, V)) = Elems(F) \cap V
        /\ Len(Keep(F, V)) = Cardinality({i \in 1 .. Len(F) : F[i] \in V})
    BY <1>1, KeepFacts
  <2> QED  BY <2>1 DEF touch, V
<1>4. Elems(touch(hits)) = {b \in PoolBlocks : ref_cnt[b] = 0} \ W
  BY <1>1, <1>3, BlockFacts
<1>5. /\ IsFiniteSet(1 .. L) /\ Cardinality(1 .. L) = L
      /\ IsFiniteSet(W)
  <2>1. IsFiniteSet(1 .. L) /\ Cardinality(1 .. L) = L
    <3> HIDE DEF L
    <3>1. L \in Int /\ 1 \in Int /\ (1 > L => L = 0) /\ L - 1 + 1 = L
      BY <1>1
    <3> QED  BY <3>1, FS_Interval
  <2>2. IsFiniteSet(Blocks)
    BY ConstAssumption, FS_Interval DEF Blocks
  <2>3. W \in SUBSET Blocks
    BY <1>2, BlockFacts
  <2> QED  BY <2>1, <2>2, <2>3, FS_Subset
<1>6. Cardinality(J) <= Cardinality(Z) /\ Cardinality(J) \in Nat /\ Cardinality(Z) \in Nat
  <2> DEFINE g == [i \in J |-> F[i]]
  <2>1. IsFiniteSet(Z) /\ Cardinality(Z) \in Nat
    <3>1. Z \in SUBSET W
      OBVIOUS
    <3> QED  BY <1>5, <3>1, FS_Subset, FS_CardinalityType
  <2>2. \A i \in J : F[i] \in Z
    <3> TAKE i \in J
    <3>1. F[i] \in W /\ F[i] \in Elems(F)
      BY DEF Elems
    <3> QED  BY <1>1, <3>1
  <2>3. \A i, k \in J : F[i] = F[k] => i = k
    BY <1>1 DEF Distinct
  <2>4. g \in Injection(J, Z)
    <3>1. g \in [J -> Z] /\ \A i, k \in J : g[i] = g[k] => i = k
      BY <2>2, <2>3
    <3> QED  BY <3>1 DEF Injection, IsInjective
  <2> HIDE DEF g, J, Z
  <2>5. IsFiniteSet(J) /\ Cardinality(J) <= Cardinality(Z)
    BY <2>1, <2>4, FS_Injection
  <2> QED  BY <2>1, <2>5, FS_CardinalityType
<1>7. Cardinality(I) = L - Cardinality(J)
  <2>1. I = (1 .. L) \ J
    BY <1>1
  <2>2. (1 .. L) \cap J = J
    OBVIOUS
  <2>3. Cardinality((1 .. L) \ J) = Cardinality(1 .. L) - Cardinality((1 .. L) \cap J)
    <3> HIDE DEF J
    <3> QED  BY <1>5, FS_Difference
  <2> QED  BY <1>5, <2>1, <2>2, <2>3
<1>8. n = num_blocks - Len(req_to_blocks[r]) - Len(hits) /\ n \in Nat
  <2>1. Len(req_to_blocks[r]) \in Nat /\ Len(hits) \in Nat
        /\ Len(req_to_blocks[r]) + Len(hits) <= num_blocks
    BY <1>2, HolderFacts DEF HitsOK
  <2> DEFINE a == Len(req_to_blocks[r])
             c == Len(hits)
  <2>2. n = IF num_blocks > a + c THEN num_blocks - (a + c) ELSE 0
    BY DEF NumNew
  <2> HIDE DEF n, a, c
  <2>3. a \in Nat /\ c \in Nat /\ a + c <= num_blocks
    BY <2>1 DEF a, c
  <2>4. n = num_blocks - a - c /\ n \in Nat
    BY <2>2, <2>3
  <2> QED  BY <2>4 DEF a, c
<1>9. n + Cardinality(Z) <= L
  BY DEF CanAllocate, get_num_blocks_to_allocate
<1> HIDE DEF n, J, I, Z, L, W
<1>10. n \in 0 .. Len(touch(hits))
  BY <1>1, <1>3, <1>6, <1>7, <1>8, <1>9
<1> QED  BY <1>3, <1>4, <1>8, <1>10 DEF n, W

(* The blocks that allocate_slots takes and the table it builds.           *)
Taken(r, hits, num_blocks, N, T, rest) ==
  /\ N \subseteq PoolBlocks /\ \A b \in N : ref_cnt[b] = 0 /\ b \notin Elems(hits)
  /\ rest \in Seq(PoolBlocks) /\ Distinct(rest)
  /\ Elems(rest) = {b \in PoolBlocks : ref_cnt[b] = 0} \ (Elems(hits) \cup N)
  /\ T \in Seq(PoolBlocks) /\ Distinct(T) /\ Len(T) = num_blocks
  /\ Elems(T) = Elems(req_to_blocks[r]) \cup (Elems(hits) \cup N)
  /\ Len(Held(r, hits)) = Len(req_to_blocks[r]) + Len(hits)
  /\ \A i \in 1 .. num_blocks : IF i <= Len(Held(r, hits)) THEN T[i] = Held(r, hits)[i]
                                                          ELSE T[i] \in N

(* get_new_blocks takes unreferenced blocks that are not among the hits.   *)
LEMMA AllocTaken ==
  ASSUME KVInv, NEW r \in Reqs, NEW hits, NEW num_blocks \in Nat,
         HitsOK(r, hits, num_blocks), CanAllocate(r, hits, num_blocks)
  PROVE  Taken(r, hits, num_blocks, Elems(get_new_blocks(r, hits, num_blocks)),
               TableAfter(r, hits, num_blocks),
               SubSeq(touch(hits), NumNew(r, hits, num_blocks) + 1, Len(touch(hits))))
<1> DEFINE new  == get_new_blocks(r, hits, num_blocks)
           n    == NumNew(r, hits, num_blocks)
           q    == touch(hits)
           rest == SubSeq(q, n + 1, Len(q))
           held == Held(r, hits)
           old  == req_to_blocks[r]
           T    == TableAfter(r, hits, num_blocks)
<1>1. /\ q \in Seq(PoolBlocks) /\ Distinct(q) /\ n \in 0 .. Len(q)
      /\ Elems(q) = {b \in PoolBlocks : ref_cnt[b] = 0} \ Elems(hits)
      /\ n = num_blocks - Len(old) - Len(hits)
  BY EnoughToTake
<1>2. new = SubSeq(q, 1, n) /\ T = held \o new
  BY DEF get_new_blocks, TableAfter, Held
<1>3. /\ new \in Seq(PoolBlocks) /\ rest \in Seq(PoolBlocks) /\ Len(new) = n
      /\ Distinct(new) /\ Distinct(rest)
      /\ Elems(new) \cup Elems(rest) = Elems(q) /\ Elems(new) \cap Elems(rest) = {}
  <2> HIDE DEF q, n, new
  <2>1. /\ SubSeq(q, 1, n) \in Seq(PoolBlocks) /\ rest \in Seq(PoolBlocks)
        /\ Len(SubSeq(q, 1, n)) = n /\ Distinct(SubSeq(q, 1, n)) /\ Distinct(rest)
        /\ Elems(SubSeq(q, 1, n)) \cup Elems(rest) = Elems(q)
        /\ Elems(SubSeq(q, 1, n)) \cap Elems(rest) = {}
    <3>1. q \in Seq(PoolBlocks) /\ n \in 0 .. Len(q) /\ Distinct(q)
      BY <1>1
    <3> QED  BY <3>1, SplitFacts, Zenon
  <2> QED  BY <1>2, <2>1
<1>4. /\ old \in Seq(PoolBlocks) /\ Distinct(old)
      /\ \A b \in Elems(old) : ref_cnt[b] > 0 /\ r \in Holders(b)
      /\ hits \in Seq(PoolBlocks) /\ Distinct(hits)
      /\ \A b \in Elems(hits) : r \notin Holders(b)
      /\ Len(old) \in Nat /\ Len(hits) \in Nat
  <2>1. /\ old \in Seq(PoolBlocks) /\ Distinct(old) /\ Len(old) \in Nat
        /\ \A b \in Elems(old) : ref_cnt[b] > 0
    BY HolderFacts DEF KVInv, RefCountsHolders
  <2>2. \A b \in Elems(old) : r \in Holders(b)
    BY DEF Holders
  <2>3. /\ hits \in Seq(PoolBlocks) /\ Distinct(hits) /\ Len(hits) \in Nat
        /\ \A b \in Elems(hits) : r \notin Holders(b)
    BY DEF HitsOK
  <2> QED  BY <2>1, <2>2, <2>3
<1>5. held = old \o hits
  BY DEF Held
<1> HIDE DEF q, n, new, rest, held, old, T
<1>6. /\ held \in Seq(PoolBlocks) /\ Distinct(held)
      /\ Elems(held) = Elems(old) \cup Elems(hits) /\ Len(held) = Len(old) + Len(hits)
  <2>1. Elems(old) \cap Elems(hits) = {}
    BY <1>4
  <2>2. /\ old \o hits \in Seq(PoolBlocks) /\ Distinct(old \o hits)
        /\ Elems(old \o hits) = Elems(old) \cup Elems(hits)
        /\ Len(old \o hits) = Len(old) + Len(hits)
    BY <1>4, <2>1, ConcatFacts
  <2> QED  BY <1>5, <2>2
<1>7. \A b \in Elems(new) : b \in PoolBlocks /\ ref_cnt[b] = 0 /\ b \notin Elems(hits)
  BY <1>1, <1>3
<1>8. Elems(held) \cap Elems(new) = {}
  <2>1. \A b \in Elems(old) : ref_cnt[b] # 0
    BY <1>4
  <2> QED  BY <1>6, <1>7, <2>1
<1>9. /\ T \in Seq(PoolBlocks) /\ Distinct(T) /\ Elems(T) = Elems(held) \cup Elems(new)
      /\ Len(T) = Len(held) + Len(new)
      /\ \A i \in 1 .. Len(held) : T[i] = held[i]
      /\ \A i \in 1 .. Len(held) + Len(new) : i > Len(held) =>
           i - Len(held) \in 1 .. Len(new) /\ T[i] = new[i - Len(held)]
  <2>1. /\ held \o new \in Seq(PoolBlocks) /\ Distinct(held \o new)
        /\ Elems(held \o new) = Elems(held) \cup Elems(new)
        /\ Len(held \o new) = Len(held) + Len(new)
        /\ \A i \in 1 .. Len(held) : (held \o new)[i] = held[i]
        /\ \A i \in 1 .. Len(held) + Len(new) : i > Len(held) =>
             i - Len(held) \in 1 .. Len(new) /\ (held \o new)[i] = new[i - Len(held)]
    <3>1. held \in Seq(PoolBlocks) /\ new \in Seq(PoolBlocks)
      BY <1>3, <1>6
    <3>2. Distinct(held \o new)
      BY <1>3, <1>6, <1>8, ConcatDistinct
    <3> QED  BY <3>1, <3>2, ConcatFacts
  <2> QED  BY <1>2, <2>1
<1>10. Len(held) + Len(new) = num_blocks /\ Len(held) \in Nat /\ Len(new) \in Nat
  BY <1>1, <1>3, <1>4, <1>6
<1>11. ASSUME NEW i \in 1 .. num_blocks
       PROVE  IF i <= Len(held) THEN T[i] = held[i] ELSE T[i] \in Elems(new)
  <2>1. CASE i <= Len(held)
    <3>1. i \in 1 .. Len(held)
      BY <1>10, <2>1
    <3> QED  BY <1>9, <2>1, <3>1
  <2>2. CASE ~(i <= Len(held))
    <3>1. i \in 1 .. Len(held) + Len(new) /\ i > Len(held)
      BY <1>10, <2>2
    <3>2. i - Len(held) \in 1 .. Len(new) /\ T[i] = new[i - Len(held)]
      BY <1>9, <3>1
    <3> QED  BY <2>2, <3>2 DEF Elems
  <2> QED  BY <2>1, <2>2
<1>12. Elems(T) = Elems(old) \cup (Elems(hits) \cup Elems(new))
  BY <1>6, <1>9
<1>13. Elems(rest) = {b \in PoolBlocks : ref_cnt[b] = 0} \ (Elems(hits) \cup Elems(new))
  BY <1>1, <1>3
<1>14. Taken(r, hits, num_blocks, Elems(new), T, rest)
  BY <1>3, <1>6, <1>7, <1>9, <1>10, <1>11, <1>12, <1>13 DEF Taken, held, old
<1> QED  BY <1>14 DEF new, T, rest, q, n

(* What allocate_slots has done, with N the new blocks, T the table and    *)
(* full the number of cached blocks that it leaves behind.                 *)
Allocated(r, hits, num_blocks, N, T, full) ==
  LET done == Done(r, hits)
      W    == Elems(hits) \cup N
  IN
  /\ Taken(r, hits, num_blocks, N, T, free_block_queue')
  /\ done \in Nat /\ full \in Nat /\ done <= full /\ full <= num_blocks
  /\ done <= Len(Held(r, hits)) /\ Len(Held(r, hits)) \in Nat /\ Len(Held(r, hits)) <= num_blocks
  /\ ref_cnt' = [b \in Blocks |-> IF b \in W THEN ref_cnt[b] + 1 ELSE ref_cnt[b]]
  /\ req_to_blocks' = [req_to_blocks EXCEPT ![r] = T]
  /\ num_cached_block' = [num_cached_block EXCEPT ![r] = full]
  /\ Agrees(block_hash', cached')
  /\ \A i \in 1 .. num_blocks : i > done =>
       (T[i] \in N \/ block_hash[T[i]] = NoHash) /\ Holders(T[i]) \subseteq {r}
  /\ \A i \in done + 1 .. full : block_hash'[T[i]] = block_hashes[r][i]
  /\ \A b \in Blocks : (\A i \in done + 1 .. full : T[i] # b) =>
       block_hash'[b] = IF b \in N THEN NoHash ELSE block_hash[b]

(* allocate_slots does what Allocated says.                                *)
LEMMA AllocFacts ==
  ASSUME KVInv, NEW r \in Reqs, NEW hits, NEW num_blocks \in 1 .. MaxReqBlocks,
         NEW num_full \in 0 .. num_blocks, HitsOK(r, hits, num_blocks),
         allocate_slots(r, hits, num_blocks, num_full)
  PROVE  \E N, T, full : Allocated(r, hits, num_blocks, N, T, full)
<1> DEFINE N    == Elems(get_new_blocks(r, hits, num_blocks))
           T    == TableAfter(r, hits, num_blocks)
           rest == SubSeq(touch(hits), NumNew(r, hits, num_blocks) + 1, Len(touch(hits)))
           done == Done(r, hits)
           full == FullAfter(done, num_full)
           W    == Elems(hits) \cup N
           D    == done + 1 .. full
           H0   == HashAfterEvict(N)
           C0   == CacheAfterEvict(N)
           held == Held(r, hits)
<1>1. /\ CanAllocate(r, hits, num_blocks)
      /\ free_block_queue' = rest
      /\ ref_cnt' = [b \in Blocks |-> IF b \in W THEN ref_cnt[b] + 1 ELSE ref_cnt[b]]
      /\ block_hash' = HashAfterCaching(H0, r, T, done, full)
      /\ cached' = CacheAfterCaching(C0, r, T, done, full)
      /\ req_to_blocks' = [req_to_blocks EXCEPT ![r] = T]
      /\ num_cached_block' = [num_cached_block EXCEPT ![r] = full]
  BY DEF allocate_slots, Done
<1>2. num_blocks \in Nat /\ num_blocks <= MaxReqBlocks /\ MaxReqBlocks \in Nat /\ num_full \in Nat
      /\ num_full <= num_blocks
  BY BlockFacts
<1>3. Taken(r, hits, num_blocks, N, T, rest)
  BY <1>1, <1>2, AllocTaken
<1>4. /\ req_to_blocks \in [Reqs -> Seq(PoolBlocks)] /\ num_cached_block \in [Reqs -> Nat]
      /\ ref_cnt \in [Blocks -> Nat]
      /\ \A q \in Reqs : num_cached_block[q] <= Len(req_to_blocks[q])
                         /\ Len(req_to_blocks[q]) <= MaxReqBlocks
                         /\ Distinct(req_to_blocks[q])
  BY DEF KVInv, KVTypeOK, RefCountsHolders
<1>5. /\ hits \in Seq(PoolBlocks) /\ Len(hits) \in Nat /\ Elems(hits) \subseteq PoolBlocks
      /\ \A b \in Elems(hits) : block_hash[b] # NoHash /\ r \notin Holders(b)
      /\ Len(req_to_blocks[r]) + Len(hits) <= num_blocks
  BY DEF HitsOK, Elems
<1>6. /\ N \subseteq PoolBlocks /\ \A b \in N : ref_cnt[b] = 0 /\ b \notin Elems(hits)
      /\ rest \in Seq(PoolBlocks) /\ Distinct(rest)
      /\ Elems(rest) = {b \in PoolBlocks : ref_cnt[b] = 0} \ W
      /\ T \in Seq(PoolBlocks) /\ Distinct(T) /\ Len(T) = num_blocks
      /\ Elems(T) = Elems(req_to_blocks[r]) \cup W
      /\ Len(held) = Len(req_to_blocks[r]) + Len(hits)
      /\ \A i \in 1 .. num_blocks : IF i <= Len(held) THEN T[i] = held[i] ELSE T[i] \in N
  BY <1>3 DEF Taken
<1>7. done \in Nat /\ full \in Nat /\ done <= Len(held) /\ done <= full /\ full <= num_blocks
      /\ Len(held) \in Nat /\ Len(held) <= num_blocks
  <2>1. done = num_cached_block[r] + Len(hits) /\ num_cached_block[r] \in Nat
        /\ num_cached_block[r] <= Len(req_to_blocks[r]) /\ Len(req_to_blocks[r]) \in Nat
    BY <1>4 DEF Done
  <2>2. full \in {done, num_full} /\ full >= done
    <3> HIDE DEF done
    <3>1. done \in Nat
      BY <1>5, <2>1
    <3> QED  BY <1>2, <3>1 DEF FullAfter
  <2> HIDE DEF done, full, held
  <2>3. /\ Len(held) = Len(req_to_blocks[r]) + Len(hits) /\ Len(hits) \in Nat
        /\ num_blocks \in Nat /\ num_full \in Nat /\ num_full <= num_blocks
        /\ Len(req_to_blocks[r]) + Len(hits) <= num_blocks
    BY <1>2, <1>5, <1>6
  <2>4. PICK a, b, k : a = Len(req_to_blocks[r]) /\ b = Len(hits) /\ k = num_cached_block[r]
    OBVIOUS
  <2>5. /\ Len(held) = a + b /\ done = k + b /\ a \in Nat /\ b \in Nat /\ k \in Nat
        /\ k <= a /\ a + b <= num_blocks
    BY <2>1, <2>3, <2>4
  <2> QED  BY <2>2, <2>3, <2>5
<1>8. \A i \in 1 .. Len(held) :
        IF i <= done THEN block_hash[held[i]] \in {block_hashes[r][i], NoHash}
                     ELSE block_hash[held[i]] = NoHash /\ Holders(held[i]) \subseteq {r}
  BY DEF HitsOK
<1> HIDE DEF N, T, rest, done, full, H0, C0, held
<1>9. W \subseteq PoolBlocks /\ W \subseteq Blocks /\ N \subseteq Blocks
  BY <1>5, <1>6, BlockFacts
<1>10. \A b \in N : Holders(b) = {}
  BY <1>6, HolderFacts
<1>16. /\ Agrees(H0, C0)
       /\ \A b \in Blocks : H0[b] = IF b \in N THEN NoHash ELSE block_hash[b]
  BY <1>9, InvAgrees, EvictFacts DEF H0, C0
<1>17. \A i \in 1 .. num_blocks : T[i] \in PoolBlocks /\ T[i] \in Blocks
  BY <1>6, BlockFacts
<1>18. ASSUME NEW i \in 1 .. num_blocks, i > done
       PROVE  H0[T[i]] = NoHash /\ Holders(T[i]) \subseteq {r}
  <2>1. CASE i <= Len(held)
    <3>1. T[i] = held[i] /\ i \in 1 .. Len(held) /\ ~(i <= done)
      BY <1>6, <1>7, <1>18, <2>1
    <3>2. block_hash[T[i]] = NoHash /\ Holders(T[i]) \subseteq {r}
      BY <1>8, <3>1
    <3> QED  BY <1>16, <1>17, <3>2
  <2>2. CASE ~(i <= Len(held))
    <3>1. T[i] \in N
      BY <1>6, <2>2
    <3> QED  BY <1>10, <1>16, <1>17, <3>1
  <2> QED  BY <2>1, <2>2
<1>19. \A i \in D : i \in 1 .. num_blocks /\ i > done
  BY <1>7
<1>20. /\ Agrees(block_hash', cached')
       /\ \A i \in D : block_hash'[T[i]] = block_hashes[r][i]
       /\ \A b \in Blocks : (\A i \in D : T[i] # b) => block_hash'[b] = H0[b]
  <2>1. \A i \in done + 1 .. full : H0[T[i]] = NoHash
    BY <1>18, <1>19
  <2>2. Cacheable(H0, C0, r, T, done, full)
    BY <1>2, <1>6, <1>7, <1>16, <2>1 DEF Cacheable
  <2>3. IsCached(H0, r, T, done, full, block_hash', cached')
    BY <1>1, <2>2, CachingFacts
  <2> QED  BY <2>3 DEF IsCached
<1>21. ASSUME NEW i \in 1 .. num_blocks, i > done
       PROVE  (T[i] \in N \/ block_hash[T[i]] = NoHash) /\ Holders(T[i]) \subseteq {r}
  BY <1>16, <1>17, <1>18, <1>21
<1>22. \A b \in Blocks : (\A i \in D : T[i] # b) =>
         block_hash'[b] = IF b \in N THEN NoHash ELSE block_hash[b]
  BY <1>16, <1>20
<1>23. Allocated(r, hits, num_blocks, N, T, full)
  BY <1>1, <1>3, <1>7, <1>20, <1>21, <1>22 DEF Allocated, done, held
<1> QED  BY <1>23

(* allocate_slots preserves the invariant.                                 *)
LEMMA AllocKVInv ==
  ASSUME KVInv, NEW r \in Reqs, NEW hits, NEW num_blocks \in 1 .. MaxReqBlocks,
         NEW num_full \in 0 .. num_blocks, HitsOK(r, hits, num_blocks),
         allocate_slots(r, hits, num_blocks, num_full)
  PROVE  KVInv'
<1>0. PICK N, T, full : Allocated(r, hits, num_blocks, N, T, full)
  BY AllocFacts
<1> DEFINE done == Done(r, hits)
           W    == Elems(hits) \cup N
           D    == done + 1 .. full
           held == Held(r, hits)
           rest == free_block_queue'
           H0   == [b \in Blocks |-> IF b \in N THEN NoHash ELSE block_hash[b]]
<1>1. /\ ref_cnt' = [b \in Blocks |-> IF b \in W THEN ref_cnt[b] + 1 ELSE ref_cnt[b]]
      /\ req_to_blocks' = [req_to_blocks EXCEPT ![r] = T]
      /\ num_cached_block' = [num_cached_block EXCEPT ![r] = full]
  BY <1>0 DEF Allocated
<1>2. num_blocks \in Nat /\ num_blocks <= MaxReqBlocks /\ MaxReqBlocks \in Nat /\ num_full \in Nat
      /\ num_full <= num_blocks
  BY BlockFacts
<1>3. Taken(r, hits, num_blocks, N, T, rest)
  BY <1>0 DEF Allocated
<1>4. /\ req_to_blocks \in [Reqs -> Seq(PoolBlocks)] /\ num_cached_block \in [Reqs -> Nat]
      /\ ref_cnt \in [Blocks -> Nat]
      /\ \A q \in Reqs : num_cached_block[q] <= Len(req_to_blocks[q])
                         /\ Len(req_to_blocks[q]) <= MaxReqBlocks
                         /\ Distinct(req_to_blocks[q])
  BY DEF KVInv, KVTypeOK, RefCountsHolders
<1>5. /\ hits \in Seq(PoolBlocks) /\ Len(hits) \in Nat /\ Elems(hits) \subseteq PoolBlocks
      /\ \A b \in Elems(hits) : block_hash[b] # NoHash /\ r \notin Holders(b)
      /\ Len(req_to_blocks[r]) + Len(hits) <= num_blocks
  BY DEF HitsOK, Elems
<1>6. /\ N \subseteq PoolBlocks /\ \A b \in N : ref_cnt[b] = 0 /\ b \notin Elems(hits)
      /\ rest \in Seq(PoolBlocks) /\ Distinct(rest)
      /\ Elems(rest) = {b \in PoolBlocks : ref_cnt[b] = 0} \ W
      /\ T \in Seq(PoolBlocks) /\ Distinct(T) /\ Len(T) = num_blocks
      /\ Elems(T) = Elems(req_to_blocks[r]) \cup W
      /\ Len(held) = Len(req_to_blocks[r]) + Len(hits)
      /\ \A i \in 1 .. num_blocks : IF i <= Len(held) THEN T[i] = held[i] ELSE T[i] \in N
  BY <1>3 DEF Taken
<1>7. done \in Nat /\ full \in Nat /\ done <= Len(held) /\ done <= full /\ full <= num_blocks
      /\ Len(held) \in Nat /\ Len(held) <= num_blocks
  BY <1>0 DEF Allocated
<1>8. \A i \in 1 .. Len(held) :
        IF i <= done THEN block_hash[held[i]] \in {block_hashes[r][i], NoHash}
                     ELSE block_hash[held[i]] = NoHash /\ Holders(held[i]) \subseteq {r}
  BY DEF HitsOK
<1>16. \A b \in Blocks : H0[b] = IF b \in N THEN NoHash ELSE block_hash[b]
  OBVIOUS
<1> HIDE DEF done, held, rest, H0
<1>9. W \subseteq PoolBlocks /\ W \subseteq Blocks /\ N \subseteq Blocks
  BY <1>5, <1>6, BlockFacts
<1>10. \A b \in N : Holders(b) = {}
  BY <1>6, HolderFacts
<1>11. \A b \in W : r \notin Holders(b)
  BY <1>5, <1>10
<1>12. /\ req_to_blocks'[r] = T /\ num_cached_block'[r] = full
       /\ \A q \in Reqs \ {r} : req_to_blocks'[q] = req_to_blocks[q]
                                /\ num_cached_block'[q] = num_cached_block[q]
  BY <1>1, <1>4
<1>13. \A b : HoldersIn(req_to_blocks', b) =
                IF b \in W THEN Holders(b) \cup {r} ELSE Holders(b)
  <2> TAKE b
  <2>1. \A q \in Reqs \ {r} : q \in HoldersIn(req_to_blocks', b) <=> q \in Holders(b)
    BY <1>12 DEF HoldersIn, Holders
  <2>2. r \in HoldersIn(req_to_blocks', b) <=> r \in Holders(b) \/ b \in W
    BY <1>6, <1>12 DEF HoldersIn, Holders
  <2>3. HoldersIn(req_to_blocks', b) \subseteq Reqs /\ Holders(b) \subseteq Reqs
    BY DEF HoldersIn, Holders
  <2> QED  BY <2>1, <2>2, <2>3
<1>14. FreeIsUnreferenced'
  <2>1. \A b \in PoolBlocks : ref_cnt'[b] = 0 <=> ref_cnt[b] = 0 /\ b \notin W
    <3> TAKE b \in PoolBlocks
    <3>1. b \in Blocks /\ ref_cnt[b] \in Nat
      BY <1>4, BlockFacts
    <3>2. ref_cnt'[b] = IF b \in W THEN ref_cnt[b] + 1 ELSE ref_cnt[b]
      BY <1>1, <3>1
    <3> QED  BY <3>1, <3>2
  <2>2. Elems(rest) = {b \in PoolBlocks : ref_cnt'[b] = 0}
    BY <1>6, <2>1
  <2>3. Distinct(free_block_queue') /\ Elems(free_block_queue') = {b \in PoolBlocks : ref_cnt'[b] = 0}
    BY <1>6, <2>2 DEF rest
  <2> QED  BY <2>3 DEF FreeIsUnreferenced
<1>15. RefCountsHolders'
  <2>1. \A q \in Reqs : Distinct(req_to_blocks'[q])
    BY <1>4, <1>6, <1>12
  <2>2. ASSUME NEW b \in PoolBlocks PROVE ref_cnt'[b] = Cardinality(HoldersIn(req_to_blocks', b))
    <3>1. ref_cnt[b] = Cardinality(Holders(b)) /\ IsFiniteSet(Holders(b)) /\ b \in Blocks
      BY HolderFacts, BlockFacts DEF KVInv, RefCountsHolders
    <3>2. ref_cnt'[b] = IF b \in W THEN ref_cnt[b] + 1 ELSE ref_cnt[b]
      BY <1>1, <3>1
    <3>3. r \notin Holders(b) => Cardinality(Holders(b) \cup {r}) = Cardinality(Holders(b)) + 1
      BY <3>1, FS_AddElement
    <3> HIDE DEF W
    <3> QED  BY <1>11, <1>13, <3>1, <3>2, <3>3
  <2>3. \A b \in PoolBlocks : ref_cnt'[b] = Cardinality(Holders(b)')
    BY <2>2 DEF HoldersIn, Holders
  <2> QED  BY <2>1, <2>3 DEF RefCountsHolders
<1>17. \A i \in 1 .. num_blocks : T[i] \in PoolBlocks /\ T[i] \in Blocks
  BY <1>6, BlockFacts
<1>18. ASSUME NEW i \in 1 .. num_blocks, i > done
       PROVE  H0[T[i]] = NoHash /\ Holders(T[i]) \subseteq {r}
  <2>1. (T[i] \in N \/ block_hash[T[i]] = NoHash) /\ Holders(T[i]) \subseteq {r}
    BY <1>0, <1>18 DEF Allocated, done
  <2> QED  BY <1>16, <1>17, <2>1
<1>19. \A i \in D : i \in 1 .. num_blocks /\ i > done
  BY <1>7
<1>20. /\ Agrees(block_hash', cached')
       /\ \A i \in D : block_hash'[T[i]] = block_hashes[r][i]
       /\ \A b \in Blocks : (\A i \in D : T[i] # b) => block_hash'[b] = H0[b]
  BY <1>0, <1>16 DEF Allocated, done
<1>21. KVTypeOK'
  <2>1. ref_cnt' \in [Blocks -> Nat]
    <3>1. \A b \in Blocks : (IF b \in W THEN ref_cnt[b] + 1 ELSE ref_cnt[b]) \in Nat
      BY <1>4
    <3> QED  BY <1>1, <3>1
  <2>2. req_to_blocks' \in [Reqs -> Seq(PoolBlocks)]
    BY <1>1, <1>4, <1>6
  <2>3. num_cached_block' \in [Reqs -> Nat]
    BY <1>1, <1>4, <1>7
  <2>4. \A q \in Reqs : num_cached_block'[q] <= Len(req_to_blocks'[q])
                        /\ Len(req_to_blocks'[q]) <= MaxReqBlocks
    BY <1>2, <1>4, <1>6, <1>7, <1>12
  <2> QED  BY <1>6, <1>20, <2>1, <2>2, <2>3, <2>4 DEF KVTypeOK, Agrees, rest
<1>22. CacheMatchesHashes'
  BY <1>20 DEF Agrees, CacheMatchesHashes
<1>23. ASSUME NEW i \in 1 .. num_blocks
       PROVE  TableEntryOK(req_to_blocks', num_cached_block', block_hash', r, i)
  <2>1. req_to_blocks'[r][i] = T[i] /\ num_cached_block'[r] = full
    BY <1>12
  <2>2. CASE i \in D
    <3>1. i <= full /\ block_hash'[T[i]] = block_hashes[r][i]
      BY <1>7, <1>20, <2>2
    <3> QED  BY <2>1, <3>1 DEF TableEntryOK
  <2>3. CASE i \notin D
    <3>1. \A j \in D : T[j] # T[i]
      BY <1>6, <1>19, <2>3 DEF Distinct
    <3>2. block_hash'[T[i]] = H0[T[i]]
      BY <1>17, <1>20, <3>1
    <3>3. CASE i <= done
      <4>1. i <= full /\ i <= Len(held) /\ i \in 1 .. Len(held)
        BY <1>7, <3>3
      <4>2. T[i] = held[i]
        BY <1>6, <4>1
      <4>3. block_hash[T[i]] \in {block_hashes[r][i], NoHash}
        BY <1>8, <3>3, <4>1, <4>2
      <4>4. block_hash'[T[i]] \in {block_hashes[r][i], NoHash}
        BY <1>16, <1>17, <3>2, <4>3
      <4> QED  BY <2>1, <4>1, <4>4 DEF TableEntryOK
    <3>4. CASE ~(i <= done)
      <4>1. ~(i <= full) /\ i > done
        BY <1>7, <2>3, <3>4
      <4>2. H0[T[i]] = NoHash /\ Holders(T[i]) \subseteq {r}
        BY <1>18, <4>1
      <4>3. T[i] \in Elems(req_to_blocks[r]) \cup W
        BY <1>6 DEF Elems
      <4>4. T[i] \notin W => r \in Holders(T[i])
        BY <4>3 DEF Holders
      <4>5. HoldersIn(req_to_blocks', T[i]) = {r}
        <5> HIDE DEF W
        <5> QED  BY <1>13, <4>2, <4>4
      <4> QED  BY <2>1, <3>2, <4>1, <4>2, <4>5 DEF TableEntryOK
    <3> QED  BY <3>3, <3>4
  <2> QED  BY <2>2, <2>3
<1>24. ASSUME NEW q \in Reqs \ {r}, NEW i \in 1 .. Len(req_to_blocks[q])
       PROVE  TableEntryOK(req_to_blocks', num_cached_block', block_hash', q, i)
  <2> DEFINE b == req_to_blocks[q][i]
  <2>1. req_to_blocks'[q][i] = b /\ num_cached_block'[q] = num_cached_block[q]
    BY <1>12
  <2>2. /\ TableEntryOK(req_to_blocks, num_cached_block, block_hash, q, i)
        /\ b \in PoolBlocks /\ b \in Blocks /\ q \in Holders(b)
    BY TablesEntrywise, HolderFacts, BlockFacts DEF KVInv, Holders, Elems
  <2> HIDE DEF b
  <2>3. b \notin N
    BY <1>10, <2>2
  <2>4. \A j \in D : T[j] # b
    <3> SUFFICES ASSUME NEW j \in D, T[j] = b PROVE FALSE
      OBVIOUS
    <3>1. Holders(T[j]) \subseteq {r}
      BY <1>18, <1>19
    <3> QED  BY <2>2, <3>1
  <2>5. block_hash'[b] = block_hash[b]
    BY <1>16, <1>20, <2>2, <2>3, <2>4
  <2>6. b \in Elems(hits) => block_hash[b] # NoHash
    BY <1>5
  <2>7. b \in W => block_hash[b] # NoHash
    BY <2>3, <2>6
  <2>8. block_hash[b] = NoHash => HoldersIn(req_to_blocks', b) = HoldersIn(req_to_blocks, b)
    <3> HIDE DEF W
    <3> QED  BY <1>13, <2>7 DEF Holders, HoldersIn
  <2> QED  BY <2>1, <2>2, <2>5, <2>8 DEF TableEntryOK, b
<1>25. TablesMatchPrefix'
  <2> SUFFICES ASSUME NEW q \in Reqs, NEW i \in 1 .. Len(req_to_blocks'[q])
               PROVE  TableEntryOK(req_to_blocks', num_cached_block', block_hash', q, i)
    BY TablesEntrywise
  <2>1. CASE q = r
    <3>1. i \in 1 .. num_blocks
      BY <1>6, <1>12, <2>1
    <3> QED  BY <1>23, <2>1, <3>1
  <2>2. CASE q # r
    <3>1. q \in Reqs \ {r} /\ i \in 1 .. Len(req_to_blocks[q])
      BY <1>12, <2>2
    <3> QED  BY <1>24, <3>1
  <2> QED  BY <2>1, <2>2
<1> QED  BY <1>14, <1>15, <1>21, <1>22, <1>25 DEF KVInv

(* A set of lengths that contains every smaller length has a longest one.  *)
LEMMA LongestExists ==
  ASSUME NEW m \in Nat, NEW S \in SUBSET (0 .. m), 0 \in S,
         \A j \in S : \A l \in 0 .. j : l \in S
  PROVE  \E k \in S : \A j \in S : j <= k
<1> DEFINE k == Cardinality(S) - 1
<1>1. IsFiniteSet(S) /\ Cardinality(S) \in Nat
  <2>1. IsFiniteSet(0 .. m)
    BY FS_Interval
  <2>2. IsFiniteSet(S)
    BY <2>1, FS_Subset
  <2> QED  BY <2>2, FS_CardinalityType
<1>2. \A n \in Nat : IsFiniteSet(0 .. n) /\ Cardinality(0 .. n) = n + 1
  <2> TAKE n \in Nat
  <2>1. 0 \in Int /\ n \in Int /\ ~(0 > n) /\ n - 0 + 1 = n + 1
    OBVIOUS
  <2> QED  BY <2>1, FS_Interval
<1>3. Cardinality(S) # 0
  BY <1>1, FS_EmptySet
<1>4. k \in Nat /\ Cardinality(S) = k + 1
  BY <1>1, <1>3
<1> HIDE DEF k
<1>5. \A j \in S : j <= k
  <2> TAKE j \in S
  <2>1. j \in Nat /\ 0 .. j \in SUBSET S
    OBVIOUS
  <2>2. Cardinality(0 .. j) <= Cardinality(S)
    BY <1>1, <2>1, FS_Subset
  <2> QED  BY <1>2, <1>4, <2>1, <2>2
<1>6. k \in S
  <2> SUFFICES ASSUME k \notin S PROVE FALSE
    OBVIOUS
  <2>1. \A j \in S : j \in Nat /\ j < k
    BY <1>4, <1>5
  <2>2. k # 0
    OBVIOUS
  <2>3. k - 1 \in Nat
    BY <1>4, <2>2
  <2>4. S \in SUBSET (0 .. k - 1)
    BY <1>4, <2>1
  <2>5. Cardinality(S) <= Cardinality(0 .. k - 1)
    BY <1>2, <2>3, <2>4, FS_Subset
  <2>6. Cardinality(0 .. k - 1) = (k - 1) + 1
    BY <1>2, <2>3
  <2> QED  BY <1>4, <2>5, <2>6
<1> QED  BY <1>5, <1>6

(* What get_computed_blocks finds for a request without blocks.            *)
LEMMA AdmitHits ==
  ASSUME KVInv, NEW r \in Reqs, NEW m \in 0 .. MaxReqBlocks - 1, NEW num_blocks \in Nat,
         req_to_blocks[r] = <<>>, num_blocks > Len(get_computed_blocks(r, m))
  PROVE  HitsOK(r, get_computed_blocks(r, m), num_blocks)
<1> DEFINE hits == get_computed_blocks(r, m)
           S    == HitLengths(r, m)
           bh   == block_hashes[r]
<1>1. PICK k \in 0 .. m : /\ hits = [i \in 1 .. k |-> cached[bh[i]][1]]
                          /\ \A i \in 1 .. k : cached[bh[i]] # <<>>
  <2>1. CASE ~EnableCaching
    <3>1. hits = <<>>
      BY <2>1 DEF get_computed_blocks
    <3>2. <<>> = [i \in 1 .. 0 |-> cached[bh[i]][1]] /\ \A i \in 1 .. 0 : cached[bh[i]] # <<>>
      OBVIOUS
    <3>3. 0 \in 0 .. m
      BY BlockFacts
    <3> QED  BY <3>1, <3>2, <3>3
  <2>2. CASE EnableCaching
    <3> DEFINE k == CHOOSE j \in S : \A l \in S : l <= j
    <3>1. hits = [i \in 1 .. k |-> cached[bh[i]][1]]
      BY <2>2 DEF get_computed_blocks, find_longest_cache_hit
    <3>2. /\ m \in Nat /\ S \in SUBSET (0 .. m) /\ 0 \in S
          /\ \A j \in S : \A l \in 0 .. j : l \in S
      BY BlockFacts DEF HitLengths
    <3>3. \E j \in S : \A l \in S : l <= j
      <4> HIDE DEF S
      <4> QED  BY <3>2, LongestExists
    <3>4. k \in S
      <4> HIDE DEF S
      <4> QED  BY <3>3
    <3> HIDE DEF k
    <3>5. k \in 0 .. m /\ \A i \in 1 .. k : cached[bh[i]] # <<>>
      BY <3>4 DEF HitLengths
    <3> QED  BY <3>1, <3>5
  <2> QED  BY <2>1, <2>2
<1>2. k \in Nat /\ k <= m /\ m + 1 <= MaxReqBlocks /\ MaxReqBlocks \in Nat
  BY <1>1, BlockFacts
<1> HIDE DEF hits, bh
<1>3. ASSUME NEW i \in 1 .. k
      PROVE  /\ hits[i] \in PoolBlocks /\ block_hash[hits[i]] = bh[i]
             /\ bh[i] \in Hashes /\ bh[i] # NoHash
  <2>1. i \in 1 .. MaxReqBlocks
    BY <1>2
  <2>2. bh[i] \in Hashes /\ bh[i] # NoHash
    BY <2>1, HashFacts, BlockFacts DEF bh
  <2>3. cached[bh[i]] \in Seq(Blocks) /\ cached[bh[i]] # <<>>
    BY <1>1, <2>2 DEF KVInv, KVTypeOK
  <2>4. Len(cached[bh[i]]) \in Nat /\ Len(cached[bh[i]]) >= 1
    BY <2>3
  <2>5. hits[i] = cached[bh[i]][1] /\ 1 \in 1 .. Len(cached[bh[i]])
    BY <1>1, <2>4
  <2>6. hits[i] \in Blocks /\ hits[i] \in Elems(cached[bh[i]])
    BY <2>3, <2>5 DEF Elems
  <2>7. block_hash[hits[i]] = bh[i] /\ block_hash[NullBlock] = NoHash
    BY <2>2, <2>6 DEF KVInv, CacheMatchesHashes
  <2>8. hits[i] \in PoolBlocks
    BY <2>2, <2>6, <2>7, BlockFacts
  <2> QED  BY <2>2, <2>7, <2>8
<1>4. hits \in Seq(PoolBlocks) /\ Len(hits) = k
  <2>1. hits = [i \in 1 .. k |-> hits[i]]
    BY <1>1
  <2> QED  BY <1>2, <1>3, <2>1
<1>5. Distinct(hits)
  <2> SUFFICES ASSUME NEW i \in 1 .. k, NEW j \in 1 .. k, hits[i] = hits[j] PROVE i = j
    BY <1>4 DEF Distinct
  <2>1. bh[i] = bh[j]
    BY <1>3
  <2>2. i \in 1 .. MaxReqBlocks /\ j \in 1 .. MaxReqBlocks
    BY <1>2
  <2> QED  BY <2>1, <2>2, HashFacts DEF bh
<1>6. \A b \in Elems(hits) : block_hash[b] # NoHash
  BY <1>3, <1>4 DEF Elems
<1>7. Elems(req_to_blocks[r]) = {} /\ Len(req_to_blocks[r]) = 0
  BY DEF Elems
<1>8. \A b : r \notin Holders(b)
  BY <1>7 DEF Holders
<1>9. num_cached_block[r] = 0
  BY <1>7 DEF KVInv, KVTypeOK
<1>10. Held(r, hits) = hits
  <2>1. \A s \in Seq(PoolBlocks) : <<>> \o s = s
    OBVIOUS
  <2> QED  BY <1>4, <2>1 DEF Held
<1>11. Done(r, hits) = k
  BY <1>2, <1>4, <1>9 DEF Done
<1>12. 0 + Len(hits) <= num_blocks
  BY <1>2, <1>4 DEF hits
<1>13. \A i \in 1 .. k : i <= k
  BY <1>2
<1>14. HitsOK(r, hits, num_blocks)
  BY <1>3, <1>4, <1>5, <1>6, <1>7, <1>8, <1>10, <1>11, <1>12, <1>13 DEF HitsOK, bh
<1> QED  BY <1>14 DEF hits

(* A request that holds blocks asks for more without looking for hits.     *)
LEMMA GrowHits ==
  ASSUME KVInv, NEW r \in Reqs, NEW num_blocks \in Nat,
         num_blocks >= Len(req_to_blocks[r])
  PROVE  HitsOK(r, <<>>, num_blocks)
<1> DEFINE old == req_to_blocks[r]
<1>1. old \in Seq(PoolBlocks) /\ Len(old) \in Nat /\ num_cached_block[r] \in Nat
  BY HolderFacts DEF KVInv, KVTypeOK
<1>2. <<>> \in Seq(PoolBlocks) /\ Len(<<>>) = 0 /\ Elems(<<>>) = {} /\ Distinct(<<>>)
  BY DEF Elems, Distinct
<1>3. Held(r, <<>>) = old /\ Done(r, <<>>) = num_cached_block[r]
  <2>1. \A s \in Seq(PoolBlocks) : s \o <<>> = s
    OBVIOUS
  <2> QED  BY <1>1, <1>2, <2>1 DEF Held, Done
<1>4. \A i \in 1 .. Len(old) :
        IF i <= num_cached_block[r] THEN block_hash[old[i]] \in {block_hashes[r][i], NoHash}
                                    ELSE block_hash[old[i]] = NoHash /\ Holders(old[i]) \subseteq {r}
  BY DEF KVInv, TablesMatchPrefix
<1>5. Len(old) + Len(<<>>) <= num_blocks
  BY <1>1, <1>2
<1> QED  BY <1>2, <1>3, <1>4, <1>5 DEF HitsOK

-----------------------------------------------------------------------------
(* Every call of the scheduler into the KV cache preserves the invariant.  *)
LEMMA KVInvStep ==
  ASSUME KVInv, [KVNext]_kvars
  PROVE  KVInv'
<1>1. CASE \E r \in Reqs : \E m \in 0 .. MaxReqBlocks - 1, n \in 1 .. MaxReqBlocks :
             \E f \in 0 .. n : Admit(r, m, n, f)
  <2>0. PICK r \in Reqs, m \in 0 .. MaxReqBlocks - 1, n \in 1 .. MaxReqBlocks :
          \E f \in 0 .. n : Admit(r, m, n, f)
    BY <1>1
  <2>1. PICK f \in 0 .. n : Admit(r, m, n, f)
    BY <2>0
  <2>2. n \in Nat
    BY BlockFacts
  <2>3. HitsOK(r, get_computed_blocks(r, m), n)
    BY <2>1, <2>2, AdmitHits DEF Admit
  <2> QED  BY <2>1, <2>3, AllocKVInv DEF Admit
<1>2. CASE \E r \in Reqs : \E n \in 1 .. MaxReqBlocks : \E f \in 0 .. n : Grow(r, n, f)
  <2>0. PICK r \in Reqs, n \in 1 .. MaxReqBlocks : \E f \in 0 .. n : Grow(r, n, f)
    BY <1>2
  <2>1. PICK f \in 0 .. n : Grow(r, n, f)
    BY <2>0
  <2>2. n \in Nat
    BY BlockFacts
  <2>3. HitsOK(r, <<>>, n)
    BY <2>1, <2>2, GrowHits DEF Grow
  <2> QED  BY <2>1, <2>3, AllocKVInv DEF Grow
<1>3. CASE \E r \in Reqs : \E f \in 0 .. MaxReqBlocks : Commit(r, f)
  BY <1>3, CommitKVInv
<1>4. CASE \E r \in Reqs : free(r)
  BY <1>4, FreeKVInv
<1>5. CASE ConnectorEvicts /\ \E S \in SUBSET Blocks : evict_blocks(S)
  BY <1>5, EvictKVInv
<1>6. CASE reset_prefix_cache
  BY <1>6, ResetKVInv
<1>7. CASE UNCHANGED kvars
  BY <1>7 DEF kvars, KVInv, KVTypeOK, FreeIsUnreferenced, RefCountsHolders,
              CacheMatchesHashes, TablesMatchPrefix, Holders
<1> QED  BY <1>1, <1>2, <1>3, <1>4, <1>5, <1>6, <1>7 DEF KVNext

(* The KV cache is sound for any number of requests, blocks and hashes:    *)
(* the free queue and the reference counts account for every block, the    *)
(* prefix map matches the blocks' hashes, and no request's table holds a   *)
(* block cached for another prefix or written to by somebody else.         *)
THEOREM KVCacheCorrect == KVSpec => []KVInv
<1>1. KVInit => KVInv
  BY InitKVInv
<1>2. KVInv /\ [KVNext]_kvars => KVInv'
  BY KVInvStep
<1> QED  BY <1>1, <1>2, PTL DEF KVSpec

-----------------------------------------------------------------------------
(* The prefix cache.                                                       *)

(* b comes before p in s.                                                  *)
Precedes(s, b, p) == \E x, y \in 1 .. Len(s) : x < y /\ s[x] = b /\ s[y] = p

(* Taking elements out of a sequence keeps the order of the others.        *)
LEMMA KeepPrecedes ==
  ASSUME NEW T, NEW s \in Seq(T), NEW S, NEW b \in S, NEW p \in S, Precedes(s, b, p)
  PROVE  Precedes(Keep(s, S), b, p)
<1> DEFINE I == {i \in 1 .. Len(s) : s[i] \in S}
           C == Cardinality(I)
           at(k) == CHOOSE i \in I : Rank(I, i) = k
           K == Keep(s, S)
<1>0. Len(s) \in Nat /\ I \in SUBSET (1 .. Len(s))
  OBVIOUS
<1>1. K = [k \in 1 .. C |-> s[at(k)]]
  BY DEF Keep
<1>2. PICK x, y \in 1 .. Len(s) : x < y /\ s[x] = b /\ s[y] = p
  BY DEF Precedes
<1>3. x \in I /\ y \in I
  BY <1>2
<1> HIDE DEF K
<1>4. Rank(I, x) < Rank(I, y)
  <2> DEFINE Low == {j \in I : j <= x}
             Upto == {j \in I : j <= y}
  <2>1. Low \in SUBSET Upto
    <3>1. \A j \in I : j <= x => j <= y
      BY <1>2
    <3> QED  BY <3>1
  <2>2. y \in Upto /\ y \notin Low
    BY <1>2, <1>3
  <2>3. Low # Upto
    BY <2>2
  <2>4. IsFiniteSet(Upto)
    <3>1. IsFiniteSet(1 .. Len(s))
      BY <1>0, FS_Interval
    <3>2. Upto \in SUBSET (1 .. Len(s))
      OBVIOUS
    <3> QED  BY <3>1, <3>2, FS_Subset
  <2>5. Cardinality(Low) <= Cardinality(Upto) /\ Cardinality(Upto) # Cardinality(Low)
    BY <2>1, <2>3, <2>4, FS_Subset
  <2>6. Cardinality(Low) \in Nat /\ Cardinality(Upto) \in Nat
    BY <2>1, <2>4, FS_Subset, FS_CardinalityType
  <2>7. Rank(I, x) = Cardinality(Low) /\ Rank(I, y) = Cardinality(Upto)
    BY DEF Rank
  <2> HIDE DEF Low, Upto
  <2> QED  BY <2>5, <2>6, <2>7
<1> HIDE DEF I
<1>5. /\ C \in Nat
      /\ \A i \in I : Rank(I, i) \in 1 .. C
      /\ \A i, k \in I : Rank(I, i) = Rank(I, k) => i = k
  BY <1>0, RankBijective
<1>6. Rank(I, x) \in 1 .. C /\ Rank(I, y) \in 1 .. C
  BY <1>3, <1>5
<1>7. at(Rank(I, x)) = x /\ at(Rank(I, y)) = y
  BY <1>3, <1>5
<1> HIDE DEF at, C
<1>8. K[Rank(I, x)] = b /\ K[Rank(I, y)] = p /\ Len(K) = C
  <2>1. K[Rank(I, x)] = b /\ K[Rank(I, y)] = p
    BY <1>1, <1>2, <1>6, <1>7
  <2>2. Len(K) = C
    <3>1. Len(Keep(s, S)) = Cardinality({i \in 1 .. Len(s) : s[i] \in S})
      BY KeepFacts
    <3> QED  BY <3>1 DEF K, C, I
  <2> QED  BY <2>1, <2>2
<1> QED  BY <1>4, <1>6, <1>8 DEF Precedes, K

(* Taking a front off keeps the order of what is left.                     *)
LEMMA RestPrecedes ==
  ASSUME NEW T, NEW s \in Seq(T), NEW n \in 0 .. Len(s), Distinct(s), NEW b, NEW p,
         Precedes(s, b, p), b \in Elems(SubSeq(s, n + 1, Len(s)))
  PROVE  Precedes(SubSeq(s, n + 1, Len(s)), b, p)
<1> DEFINE rest == SubSeq(s, n + 1, Len(s))
           L    == Len(s)
<1>1. n \in Nat /\ L \in Nat /\ n <= L
  OBVIOUS
<1>2. rest \in Seq(T) /\ Len(rest) = L - n /\ \A i \in 1 .. L - n : rest[i] = s[n + i]
  BY <1>1
<1>3. PICK x, y \in 1 .. L : x < y /\ s[x] = b /\ s[y] = p
  BY DEF Precedes
<1>4. PICK z \in 1 .. Len(rest) : rest[z] = b
  BY DEF Elems
<1> HIDE DEF rest, L
<1>5. z \in 1 .. L - n /\ s[n + z] = b /\ n + z \in 1 .. L
  BY <1>1, <1>2, <1>4
<1>6. n + z = x
  BY <1>3, <1>5 DEF Distinct, L
<1>7. y - n \in 1 .. L - n /\ z < y - n /\ n + (y - n) = y
  BY <1>1, <1>3, <1>5, <1>6
<1>8. rest[y - n] = p
  BY <1>2, <1>3, <1>7
<1>9. /\ z \in 1 .. Len(rest) /\ y - n \in 1 .. Len(rest) /\ z < y - n
      /\ rest[z] = b /\ rest[y - n] = p
  BY <1>2, <1>4, <1>7, <1>8
<1>10. Precedes(rest, b, p)
  BY <1>9 DEF Precedes
<1> QED  BY <1>10 DEF rest, L

(* A sequence keeps its order when another one is appended, and comes      *)
(* before it.                                                              *)
LEMMA ConcatPrecedes ==
  ASSUME NEW T, NEW s \in Seq(T), NEW t \in Seq(T), NEW b, NEW p
  PROVE  /\ Precedes(s, b, p) => Precedes(s \o t, b, p)
         /\ Precedes(t, b, p) => Precedes(s \o t, b, p)
         /\ b \in Elems(s) /\ p \in Elems(t) => Precedes(s \o t, b, p)
<1> DEFINE c == s \o t
<1>1. /\ Len(c) = Len(s) + Len(t) /\ Len(s) \in Nat /\ Len(t) \in Nat
      /\ \A i \in 1 .. Len(s) : c[i] = s[i]
      /\ \A i \in 1 .. Len(t) : c[Len(s) + i] = t[i]
  BY ConcatFacts
<1> HIDE DEF c
<1>2. ASSUME Precedes(s, b, p) PROVE Precedes(c, b, p)
  <2>1. PICK x, y \in 1 .. Len(s) : x < y /\ s[x] = b /\ s[y] = p
    BY <1>2 DEF Precedes
  <2>2. x \in 1 .. Len(c) /\ y \in 1 .. Len(c) /\ c[x] = b /\ c[y] = p
    BY <1>1, <2>1
  <2> QED  BY <2>1, <2>2 DEF Precedes
<1>3. ASSUME Precedes(t, b, p) PROVE Precedes(c, b, p)
  <2>1. PICK x, y \in 1 .. Len(t) : x < y /\ t[x] = b /\ t[y] = p
    BY <1>3 DEF Precedes
  <2>2. /\ Len(s) + x \in 1 .. Len(c) /\ Len(s) + y \in 1 .. Len(c)
        /\ c[Len(s) + x] = b /\ c[Len(s) + y] = p /\ Len(s) + x < Len(s) + y
    BY <1>1, <2>1
  <2> QED  BY <2>2 DEF Precedes
<1>4. ASSUME b \in Elems(s), p \in Elems(t) PROVE Precedes(c, b, p)
  <2>1. PICK x \in 1 .. Len(s) : s[x] = b
    BY <1>4 DEF Elems
  <2>2. PICK y \in 1 .. Len(t) : t[y] = p
    BY <1>4 DEF Elems
  <2>3. /\ x \in 1 .. Len(c) /\ Len(s) + y \in 1 .. Len(c)
        /\ c[x] = b /\ c[Len(s) + y] = p /\ x < Len(s) + y
    BY <1>1, <2>1, <2>2
  <2> QED  BY <2>3 DEF Precedes
<1> QED  BY <1>2, <1>3, <1>4 DEF c

(* Reversing turns the order round.                                        *)
LEMMA ReversedPrecedes ==
  ASSUME NEW T, NEW s \in Seq(T), NEW i \in 1 .. Len(s), NEW j \in 1 .. Len(s), i < j
  PROVE  Precedes(Reversed(s), s[j], s[i])
<1> DEFINE L == Len(s)
           R == Reversed(s)
<1>1. L \in Nat /\ Len(R) = L /\ \A k \in 1 .. L : R[k] = s[L + 1 - k]
  <2>1. R = [k \in 1 .. L |-> s[L + 1 - k]] /\ L \in Nat
    BY DEF Reversed
  <2>2. R \in Seq(T)
    BY ReversedFacts
  <2>3. DOMAIN R = 1 .. L
    BY <2>1
  <2> HIDE DEF R, L
  <2>4. Len(R) = L
    BY <2>1, <2>2, <2>3
  <2> QED  BY <2>1, <2>4
<1> HIDE DEF R
<1>2. /\ L + 1 - i \in 1 .. L /\ L + 1 - j \in 1 .. L /\ L + 1 - j < L + 1 - i
      /\ L + 1 - (L + 1 - i) = i /\ L + 1 - (L + 1 - j) = j
  BY <1>1
<1>3. R[L + 1 - j] = s[j] /\ R[L + 1 - i] = s[i]
  BY <1>1, <1>2
<1> QED  BY <1>1, <1>2, <1>3 DEF Precedes, R

-----------------------------------------------------------------------------
(* The pool is all free exactly when no request holds a block: what        *)
(* BlockPool.reset_prefix_cache tests by counting.                         *)
LEMMA ResetWhenEmpty ==
  ASSUME KVInv
  PROVE  CanReset <=> \A r \in Reqs : req_to_blocks[r] = <<>>
<1> DEFINE F == free_block_queue
           L == Len(F)
<1>1. /\ F \in Seq(PoolBlocks) /\ Distinct(F) /\ L \in Nat
      /\ Elems(F) = {b \in PoolBlocks : ref_cnt[b] = 0}
  BY DEF KVInv, KVTypeOK, FreeIsUnreferenced
<1>2. /\ IsFiniteSet(PoolBlocks) /\ Cardinality(PoolBlocks) = NumBlocks - 1
      /\ IsFiniteSet(1 .. L) /\ Cardinality(1 .. L) = L
  <2>1. PoolBlocks = 1 .. NumBlocks - 1 /\ NumBlocks - 1 \in Nat
    BY ConstAssumption DEF PoolBlocks, Blocks, NullBlock
  <2>2. \A n \in Nat : IsFiniteSet(1 .. n) /\ Cardinality(1 .. n) = n
    <3> TAKE n \in Nat
    <3>1. n \in Int /\ 1 \in Int /\ (1 > n => n = 0) /\ n - 1 + 1 = n
      OBVIOUS
    <3> QED  BY <3>1, FS_Interval
  <2> QED  BY <1>1, <2>1, <2>2
<1>3. \A i \in 1 .. L : F[i] \in PoolBlocks
  BY <1>1
<1>4. F \in Injection(1 .. L, PoolBlocks)
  <2>1. F \in [1 .. L -> PoolBlocks]
    BY <1>1
  <2> QED  BY <1>1, <2>1 DEF Injection, IsInjective, Distinct
<1>5. CanReset <=> L = NumBlocks - 1
  BY <1>1, BlockFacts DEF CanReset
<1>6. \A r \in Reqs : req_to_blocks[r] = <<>> <=> Elems(req_to_blocks[r]) = {}
  <2> TAKE r \in Reqs
  <2>1. req_to_blocks[r] \in Seq(PoolBlocks)
    BY HolderFacts
  <2>2. req_to_blocks[r] # <<>> => req_to_blocks[r][1] \in Elems(req_to_blocks[r])
    BY <2>1 DEF Elems
  <2>3. req_to_blocks[r] = <<>> => Elems(req_to_blocks[r]) = {}
    BY DEF Elems
  <2> QED  BY <2>2, <2>3
<1>7. Elems(F) = PoolBlocks <=> \A r \in Reqs : Elems(req_to_blocks[r]) = {}
  <2>1. Elems(F) = PoolBlocks <=> \A b \in PoolBlocks : Holders(b) = {}
    BY <1>1, HolderFacts
  <2>2. ASSUME \A b \in PoolBlocks : Holders(b) = {}, NEW r \in Reqs
        PROVE  Elems(req_to_blocks[r]) = {}
    BY <2>2, HolderFacts DEF Holders
  <2>3. ASSUME \A r \in Reqs : Elems(req_to_blocks[r]) = {}, NEW b \in PoolBlocks
        PROVE  Holders(b) = {}
    BY <2>3 DEF Holders
  <2> QED  BY <2>1, <2>2, <2>3
<1> HIDE DEF F, L
<1>8. ASSUME L = NumBlocks - 1 PROVE Elems(F) = PoolBlocks
  <2>1. F \in Surjection(1 .. L, PoolBlocks)
    BY <1>2, <1>4, <1>8, FS_Injection
  <2>2. \A b \in PoolBlocks : \E i \in 1 .. L : F[i] = b
    BY <2>1 DEF Surjection
  <2> QED  BY <1>3, <2>2 DEF Elems, L
<1>9. ASSUME Elems(F) = PoolBlocks PROVE L = NumBlocks - 1
  <2>1. F \in Surjection(1 .. L, PoolBlocks)
    BY <1>4, <1>9 DEF Surjection, Injection, Elems, L
  <2>2. F \in Bijection(1 .. L, PoolBlocks)
    BY <1>4, <2>1 DEF Bijection
  <2>3. Cardinality(1 .. L) = Cardinality(PoolBlocks)
    <3>1. ExistsBijection(1 .. L, PoolBlocks)
      BY <2>2 DEF ExistsBijection
    <3> QED  BY <1>2, <3>1, FS_Bijection
  <2> QED  BY <1>2, <2>3
<1> QED  BY <1>5, <1>6, <1>7, <1>8, <1>9

-----------------------------------------------------------------------------
(* Block tables are append-only.                                           *)
TableExtended(r) ==
  req_to_blocks'[r] # <<>> =>
    /\ Len(req_to_blocks[r]) <= Len(req_to_blocks'[r])
    /\ \A i \in 1 .. Len(req_to_blocks[r]) :
         /\ req_to_blocks'[r][i] = req_to_blocks[r][i]
         /\ ConnectorEvicts \/ block_hash[req_to_blocks[r][i]] \in
              {NoHash, block_hash'[req_to_blocks[r][i]]}

(* allocate_slots extends one table and gives no block in use a new hash.  *)
LEMMA AllocExtends ==
  ASSUME KVInv, NEW r \in Reqs, NEW hits, NEW num_blocks \in 1 .. MaxReqBlocks,
         NEW num_full \in 0 .. num_blocks, HitsOK(r, hits, num_blocks),
         allocate_slots(r, hits, num_blocks, num_full), NEW q \in Reqs
  PROVE  TableExtended(q)
<1>0. PICK N, T, full : Allocated(r, hits, num_blocks, N, T, full)
  BY AllocFacts
<1> DEFINE done == Done(r, hits)
           held == Held(r, hits)
           D    == done + 1 .. full
           old  == req_to_blocks[r]
<1>1. /\ Taken(r, hits, num_blocks, N, T, free_block_queue')
      /\ done \in Nat /\ full \in Nat /\ done <= full /\ full <= num_blocks
      /\ done <= Len(held) /\ Len(held) \in Nat /\ Len(held) <= num_blocks
      /\ req_to_blocks' = [req_to_blocks EXCEPT ![r] = T]
  BY <1>0 DEF Allocated
<1>2. /\ \A i \in 1 .. num_blocks : i > done =>
           (T[i] \in N \/ block_hash[T[i]] = NoHash) /\ Holders(T[i]) \subseteq {r}
      /\ \A b \in Blocks : (\A i \in D : T[i] # b) =>
           block_hash'[b] = IF b \in N THEN NoHash ELSE block_hash[b]
  BY <1>0 DEF Allocated
<1>3. /\ N \subseteq PoolBlocks /\ \A b \in N : ref_cnt[b] = 0
      /\ T \in Seq(PoolBlocks) /\ Distinct(T) /\ Len(T) = num_blocks
      /\ Len(held) = Len(old) + Len(hits)
      /\ \A i \in 1 .. num_blocks : IF i <= Len(held) THEN T[i] = held[i] ELSE T[i] \in N
  BY <1>1 DEF Taken
<1>4. /\ old \in Seq(PoolBlocks) /\ Len(old) \in Nat /\ hits \in Seq(PoolBlocks)
      /\ Len(hits) \in Nat /\ req_to_blocks \in [Reqs -> Seq(PoolBlocks)]
  BY DEF KVInv, KVTypeOK, HitsOK
<1>5. \A i \in 1 .. Len(old) : held[i] = old[i]
  BY <1>4, ConcatFacts DEF Held
<1>6. /\ req_to_blocks'[r] = T
      /\ \A p \in Reqs : p # r => req_to_blocks'[p] = req_to_blocks[p]
  BY <1>1, <1>4
<1>7. \A i \in D : i \in 1 .. num_blocks /\ i > done
  BY <1>1
<1> HIDE DEF done, held, old
<1>8. \A b \in N : Holders(b) = {}
  BY <1>3, HolderFacts
<1>9. ASSUME NEW b \in Elems(req_to_blocks[q])
      PROVE  block_hash[b] \in {NoHash, block_hash'[b]}
  <2>1. b \in PoolBlocks /\ b \in Blocks /\ q \in Holders(b)
    BY <1>9, HolderFacts, BlockFacts DEF Holders
  <2>2. b \notin N
    BY <1>8, <2>1
  <2>3. CASE \A i \in D : T[i] # b
    BY <1>2, <2>1, <2>2, <2>3
  <2>4. CASE \E i \in D : T[i] = b
    BY <1>2, <1>7, <2>2, <2>4
  <2> QED  BY <2>3, <2>4
<1>10. CASE q = r
  <2>1. Len(old) <= num_blocks
    BY <1>1, <1>3, <1>4
  <2>2. \A i \in 1 .. Len(old) : T[i] = old[i]
    <3> TAKE i \in 1 .. Len(old)
    <3>1. i \in 1 .. num_blocks /\ i <= Len(held)
      BY <1>1, <1>3, <1>4, <2>1
    <3> QED  BY <1>3, <1>5, <3>1
  <2>3. \A i \in 1 .. Len(old) : old[i] \in Elems(req_to_blocks[q])
    BY <1>10 DEF Elems, old
  <2>4. \A i \in 1 .. Len(old) : block_hash[old[i]] \in {NoHash, block_hash'[old[i]]}
    BY <1>9, <2>3
  <2> QED  BY <1>3, <1>6, <1>10, <2>1, <2>2, <2>4 DEF TableExtended, old
<1>11. CASE q # r
  <2>1. req_to_blocks'[q] = req_to_blocks[q] /\ Len(req_to_blocks[q]) \in Nat
    BY <1>4, <1>6, <1>11
  <2>2. \A i \in 1 .. Len(req_to_blocks[q]) : req_to_blocks[q][i] \in Elems(req_to_blocks[q])
    BY DEF Elems
  <2>3. \A i \in 1 .. Len(req_to_blocks[q]) : block_hash[req_to_blocks[q][i]] \in
          {NoHash, block_hash'[req_to_blocks[q][i]]}
    BY <1>9, <2>2
  <2> QED  BY <2>1, <2>3 DEF TableExtended
<1> QED  BY <1>10, <1>11

(* Caching full blocks gives hashes only to blocks that had none.          *)
LEMMA CommitFacts ==
  ASSUME KVInv, NEW r \in Reqs, NEW full \in 0 .. MaxReqBlocks, Commit(r, full)
  PROVE  /\ num_cached_block[r] \in Nat /\ full > num_cached_block[r] /\ full \in Nat
         /\ full <= Len(req_to_blocks[r])
         /\ num_cached_block' = [num_cached_block EXCEPT ![r] = full]
         /\ UNCHANGED <<free_block_queue, ref_cnt, req_to_blocks>>
         /\ \A i \in num_cached_block[r] + 1 .. full :
              /\ block_hash[req_to_blocks[r][i]] = NoHash
              /\ block_hash'[req_to_blocks[r][i]] = block_hashes[r][i]
         /\ \A b \in Blocks :
              (\A i \in num_cached_block[r] + 1 .. full : req_to_blocks[r][i] # b) =>
                block_hash'[b] = block_hash[b]
<1> DEFINE table == req_to_blocks[r]
           done  == num_cached_block[r]
           D     == done + 1 .. full
<1>1. /\ full <= Len(table) /\ full > done
      /\ block_hash' = HashAfterCaching(block_hash, r, table, done, full)
      /\ cached' = CacheAfterCaching(cached, r, table, done, full)
      /\ num_cached_block' = [num_cached_block EXCEPT ![r] = full]
      /\ UNCHANGED <<free_block_queue, ref_cnt, req_to_blocks>>
  BY DEF Commit, cache_blocks
<1>2. /\ table \in Seq(PoolBlocks) /\ Distinct(table) /\ done \in Nat /\ full \in Nat
      /\ full <= MaxReqBlocks
  BY HolderFacts, BlockFacts DEF KVInv, KVTypeOK, RefCountsHolders
<1>3. \A i \in D : block_hash[table[i]] = NoHash
  <2> TAKE i \in D
  <2>1. i \in 1 .. Len(table) /\ ~(i <= done)
    BY <1>1, <1>2
  <2> QED  BY <2>1 DEF KVInv, TablesMatchPrefix
<1>4. Agrees(block_hash, cached)
  BY InvAgrees
<1> HIDE DEF table, done
<1>5. Cacheable(block_hash, cached, r, table, done, full)
  BY <1>1, <1>2, <1>3, <1>4 DEF Cacheable
<1>6. IsCached(block_hash, r, table, done, full, block_hash', cached')
  BY <1>1, <1>5, CachingFacts
<1>7. /\ \A i \in D : block_hash'[table[i]] = block_hashes[r][i]
      /\ \A b \in Blocks : (\A i \in D : table[i] # b) => block_hash'[b] = block_hash[b]
  BY <1>6 DEF IsCached
<1> QED  BY <1>1, <1>2, <1>3, <1>7 DEF table, done

(* No call of the scheduler changes a table but to extend or to free it.   *)
LEMMA StepExtends ==
  ASSUME KVInv, [KVNext]_kvars, NEW q \in Reqs
  PROVE  TableExtended(q)
<1>0. /\ req_to_blocks[q] \in Seq(PoolBlocks) /\ Len(req_to_blocks[q]) \in Nat
      /\ \A i \in 1 .. Len(req_to_blocks[q]) : req_to_blocks[q][i] \in Blocks
  BY HolderFacts, BlockFacts
<1>a. ASSUME req_to_blocks'[q] = req_to_blocks[q],
             \A b \in Blocks : block_hash[b] \in {NoHash, block_hash'[b]} \/ ConnectorEvicts
      PROVE  TableExtended(q)
  BY <1>0, <1>a DEF TableExtended
<1>1. CASE \E r \in Reqs : \E m \in 0 .. MaxReqBlocks - 1, n \in 1 .. MaxReqBlocks :
             \E f \in 0 .. n : Admit(r, m, n, f)
  <2>0. PICK r \in Reqs, m \in 0 .. MaxReqBlocks - 1, n \in 1 .. MaxReqBlocks :
          \E f \in 0 .. n : Admit(r, m, n, f)
    BY <1>1
  <2>1. PICK f \in 0 .. n : Admit(r, m, n, f)
    BY <2>0
  <2>2. n \in Nat
    BY BlockFacts
  <2>3. HitsOK(r, get_computed_blocks(r, m), n)
    BY <2>1, <2>2, AdmitHits DEF Admit
  <2> QED  BY <2>1, <2>3, AllocExtends DEF Admit
<1>2. CASE \E r \in Reqs : \E n \in 1 .. MaxReqBlocks : \E f \in 0 .. n : Grow(r, n, f)
  <2>0. PICK r \in Reqs, n \in 1 .. MaxReqBlocks : \E f \in 0 .. n : Grow(r, n, f)
    BY <1>2
  <2>1. PICK f \in 0 .. n : Grow(r, n, f)
    BY <2>0
  <2>2. n \in Nat
    BY BlockFacts
  <2>3. HitsOK(r, <<>>, n)
    BY <2>1, <2>2, GrowHits DEF Grow
  <2> QED  BY <2>1, <2>3, AllocExtends DEF Grow
<1>3. CASE \E r \in Reqs : \E f \in 0 .. MaxReqBlocks : Commit(r, f)
  <2>0. PICK r \in Reqs, f \in 0 .. MaxReqBlocks : Commit(r, f)
    BY <1>3
  <2>1. /\ req_to_blocks' = req_to_blocks
        /\ \A b \in Blocks : block_hash[b] \in {NoHash, block_hash'[b]}
    BY <2>0, CommitFacts
  <2> QED  BY <1>a, <2>1
<1>4. CASE \E r \in Reqs : free(r)
  <2>0. PICK r \in Reqs : free(r)
    BY <1>4
  <2>1. req_to_blocks' = [req_to_blocks EXCEPT ![r] = <<>>] /\ block_hash' = block_hash
    BY <2>0 DEF free
  <2>2. CASE q = r
    BY <2>1, <2>2 DEF KVInv, KVTypeOK, TableExtended
  <2>3. CASE q # r
    <3>1. req_to_blocks'[q] = req_to_blocks[q]
      BY <2>1, <2>3 DEF KVInv, KVTypeOK
    <3> QED  BY <1>a, <2>1, <3>1
  <2> QED  BY <2>2, <2>3
<1>5. CASE ConnectorEvicts /\ \E S \in SUBSET Blocks : evict_blocks(S)
  <2>1. req_to_blocks' = req_to_blocks /\ ConnectorEvicts
    BY <1>5 DEF evict_blocks
  <2> QED  BY <1>a, <2>1
<1>6. CASE reset_prefix_cache
  <2>1. CanReset /\ req_to_blocks' = req_to_blocks
    BY <1>6 DEF reset_prefix_cache
  <2>2. req_to_blocks'[q] = <<>>
    BY <2>1, ResetWhenEmpty
  <2> QED  BY <2>2 DEF TableExtended
<1>7. CASE UNCHANGED kvars
  BY <1>7, <1>a DEF kvars
<1> QED  BY <1>1, <1>2, <1>3, <1>4, <1>5, <1>6, <1>7 DEF KVNext

(* AppendOnly holds of every behaviour of the KV cache: whatever the       *)
(* scheduler calls, a request that keeps its blocks keeps them in place,   *)
(* and a block in use keeps its hash unless a connector disowns it.        *)
THEOREM TablesAppendOnly == KVSpec => AppendOnly
<1>1. KVInv /\ [KVNext]_kvars =>
        [\A r \in Reqs :
           req_to_blocks'[r] # <<>> =>
             /\ Len(req_to_blocks[r]) <= Len(req_to_blocks'[r])
             /\ \A i \in 1 .. Len(req_to_blocks[r]) :
                  /\ req_to_blocks'[r][i] = req_to_blocks[r][i]
                  /\ ConnectorEvicts \/ block_hash[req_to_blocks[r][i]] \in
                       {NoHash, block_hash'[req_to_blocks[r][i]]}]_kvars
  BY StepExtends DEF TableExtended
<1> QED  BY <1>1, KVCacheCorrect, PTL DEF KVSpec, AppendOnly

-----------------------------------------------------------------------------
(* The order of eviction.                                                  *)
CachedHashed ==
  \A r \in Reqs : \A i \in 1 .. num_cached_block[r] :
    block_hash[req_to_blocks[r][i]] = block_hashes[r][i]

Covered(hash, cnt, queue, b, h) ==
  \E p \in PoolBlocks : hash[p] = h /\ (cnt[p] # 0 \/ Precedes(queue, b, p))

ParentsLater ==
  \A b \in Elems(free_block_queue), r \in Reqs : \A i \in 2 .. MaxReqBlocks :
    block_hash[b] = block_hashes[r][i] =>
      Covered(block_hash, ref_cnt, free_block_queue, b, block_hashes[r][i - 1])

EvictionOrder == CachedHashed /\ ParentsLater

(* Hashes of a chain: different from NoHash, and equal ones are at the     *)
(* same place with equal ones before them.                                 *)
LEMMA ChainFacts ==
  ASSUME NEW r \in Reqs, NEW q \in Reqs, NEW i \in 1 .. MaxReqBlocks,
         NEW j \in 1 .. MaxReqBlocks
  PROVE  /\ block_hashes[r][i] # NoHash /\ block_hashes[r][i] \in Hashes
         /\ block_hashes[r][i] = block_hashes[q][j] =>
              i = j /\ \A k \in 1 .. i : block_hashes[r][k] = block_hashes[q][k]
<1>1. block_hashes[r][i] \in Hashes
  BY HashFacts
<1>2. block_hashes[r][i] # NoHash
  BY <1>1, BlockFacts
<1>3. block_hashes[r][i] = block_hashes[q][j] =>
        i = j /\ \A k \in 1 .. i : block_hashes[r][k] = block_hashes[q][k]
  BY HashChainAssumption
<1> QED  BY <1>1, <1>2, <1>3

(* A block in use that is cached for a prefix is at the prefix's end in    *)
(* the table of whoever uses it, and the block before it is cached too.    *)
LEMMA ParentInUse ==
  ASSUME KVInv, CachedHashed, NEW q \in Reqs, NEW j \in 1 .. Len(req_to_blocks[q]),
         NEW r \in Reqs, NEW i \in 2 .. MaxReqBlocks,
         block_hash[req_to_blocks[q][j]] = block_hashes[r][i]
  PROVE  /\ j = i /\ i - 1 \in 1 .. Len(req_to_blocks[q])
         /\ req_to_blocks[q][i - 1] \in PoolBlocks
         /\ block_hash[req_to_blocks[q][i - 1]] = block_hashes[r][i - 1]
<1> DEFINE table == req_to_blocks[q]
           done  == num_cached_block[q]
<1>0. /\ table \in Seq(PoolBlocks) /\ Len(table) \in Nat /\ Len(table) <= MaxReqBlocks
      /\ done \in Nat /\ done <= Len(table) /\ MaxReqBlocks \in Nat
  BY HolderFacts, BlockFacts DEF KVInv, KVTypeOK
<1>1. i \in 1 .. MaxReqBlocks /\ i - 1 \in 1 .. MaxReqBlocks
  BY <1>0
<1>2. j \in 1 .. MaxReqBlocks
  BY <1>0
<1>3. block_hash[table[j]] # NoHash
  BY <1>1, ChainFacts
<1>4. j <= done /\ block_hash[table[j]] = block_hashes[q][j]
  BY <1>3 DEF KVInv, TablesMatchPrefix
<1>5. i = j /\ \A k \in 1 .. i : block_hashes[r][k] = block_hashes[q][k]
  <2>1. block_hashes[r][i] = block_hashes[q][j]
    BY <1>4
  <2> QED  BY <1>1, <1>2, <2>1, HashChainAssumption
<1> HIDE DEF table, done
<1>6. i - 1 \in 1 .. done /\ i - 1 \in 1 .. Len(table) /\ i - 1 \in 1 .. i
  BY <1>0, <1>4, <1>5
<1>7. block_hash[table[i - 1]] = block_hashes[q][i - 1]
  BY <1>6 DEF CachedHashed, table, done
<1>8. table[i - 1] \in PoolBlocks
  BY <1>0, <1>6
<1>9. block_hash[table[i - 1]] = block_hashes[r][i - 1]
  BY <1>5, <1>6, <1>7
<1> QED  BY <1>5, <1>6, <1>8, <1>9 DEF table

(* What EvictionOrder is for.                                              *)
LEMMA OrderImpliesClosed ==
  ASSUME KVInv, EvictionOrder
  PROVE  PrefixClosed
<1> SUFFICES ASSUME NEW r \in Reqs, NEW i \in 2 .. MaxReqBlocks,
                    cached[block_hashes[r][i]] # <<>>
             PROVE  cached[block_hashes[r][i - 1]] # <<>>
  BY DEF PrefixClosed
<1>1. i \in 1 .. MaxReqBlocks /\ i - 1 \in 1 .. MaxReqBlocks
  BY BlockFacts
<1>2. /\ block_hashes[r][i] \in Hashes /\ block_hashes[r][i] # NoHash
      /\ block_hashes[r][i - 1] \in Hashes
  BY <1>1, ChainFacts
<1>3. PICK b \in Blocks : block_hash[b] = block_hashes[r][i]
  <2>1. cached[block_hashes[r][i]] \in Seq(Blocks)
    BY <1>2 DEF KVInv, KVTypeOK
  <2>2. cached[block_hashes[r][i]][1] \in Elems(cached[block_hashes[r][i]]) /\
        cached[block_hashes[r][i]][1] \in Blocks
    BY <2>1 DEF Elems
  <2> QED  BY <1>2, <2>2 DEF KVInv, CacheMatchesHashes
<1>4. b \in PoolBlocks
  BY <1>2, <1>3, BlockFacts DEF KVInv, CacheMatchesHashes
<1>5. \E p \in PoolBlocks : block_hash[p] = block_hashes[r][i - 1]
  <2>1. CASE ref_cnt[b] = 0
    <3>1. b \in Elems(free_block_queue)
      BY <1>4, <2>1 DEF KVInv, FreeIsUnreferenced
    <3>2. Covered(block_hash, ref_cnt, free_block_queue, b, block_hashes[r][i - 1])
      BY <1>3, <3>1 DEF EvictionOrder, ParentsLater
    <3> QED  BY <3>2 DEF Covered
  <2>2. CASE ref_cnt[b] # 0
    <3>1. PICK q \in Reqs : b \in Elems(req_to_blocks[q])
      BY <1>4, <2>2, HolderFacts DEF Holders
    <3>2. PICK j \in 1 .. Len(req_to_blocks[q]) : req_to_blocks[q][j] = b
      BY <3>1 DEF Elems
    <3> QED  BY <1>3, <3>2, ParentInUse DEF EvictionOrder
  <2> QED  BY <2>1, <2>2
<1>6. PICK p \in PoolBlocks : block_hash[p] = block_hashes[r][i - 1]
  BY <1>5
<1>7. p \in Elems(cached[block_hashes[r][i - 1]])
  BY <1>2, <1>6, BlockFacts DEF KVInv, CacheMatchesHashes
<1> QED  BY <1>7 DEF Elems

(* The queue starts without a cached block.                                *)
LEMMA OrderInit == KVInit => EvictionOrder
<1> SUFFICES ASSUME KVInit PROVE EvictionOrder
  OBVIOUS
<1>1. CachedHashed
  BY DEF KVInit, CachedHashed
<1>2. KVInv
  BY InitKVInv
<1>3. \A b \in Elems(free_block_queue) : block_hash[b] = NoHash
  BY <1>2, BlockFacts DEF KVInit, KVInv, FreeIsUnreferenced
<1>4. ParentsLater
  <2> SUFFICES ASSUME NEW b \in Elems(free_block_queue), NEW r \in Reqs,
                      NEW i \in 2 .. MaxReqBlocks, block_hash[b] = block_hashes[r][i]
               PROVE  FALSE
    BY DEF ParentsLater
  <2>1. i \in 1 .. MaxReqBlocks
    BY BlockFacts
  <2> QED  BY <1>3, <2>1, ChainFacts
<1> QED  BY <1>1, <1>4 DEF EvictionOrder

(* allocate_slots evicts from the front of the queue, where whatever is    *)
(* left has its parent behind it.                                          *)
LEMMA OrderAlloc ==
  ASSUME KVInv, EvictionOrder, NEW r \in Reqs, NEW hits, NEW num_blocks \in 1 .. MaxReqBlocks,
         NEW num_full \in 0 .. num_blocks, HitsOK(r, hits, num_blocks),
         req_to_blocks[r] = <<>> \/ hits = <<>>,
         allocate_slots(r, hits, num_blocks, num_full)
  PROVE  EvictionOrder'
<1>0. PICK N, T, full : Allocated(r, hits, num_blocks, N, T, full)
  BY AllocFacts
<1> DEFINE done == Done(r, hits)
           held == Held(r, hits)
           D    == done + 1 .. full
           old  == req_to_blocks[r]
           n    == NumNew(r, hits, num_blocks)
           Q    == touch(hits)
<1>1. /\ Taken(r, hits, num_blocks, N, T, free_block_queue')
      /\ done \in Nat /\ full \in Nat /\ done <= full /\ full <= num_blocks
      /\ done <= Len(held) /\ Len(held) \in Nat /\ Len(held) <= num_blocks
      /\ ref_cnt' = [b \in Blocks |->
                       IF b \in Elems(hits) \cup N THEN ref_cnt[b] + 1 ELSE ref_cnt[b]]
      /\ req_to_blocks' = [req_to_blocks EXCEPT ![r] = T]
      /\ num_cached_block' = [num_cached_block EXCEPT ![r] = full]
  BY <1>0 DEF Allocated
<1>2. /\ \A i \in 1 .. num_blocks : i > done =>
           (T[i] \in N \/ block_hash[T[i]] = NoHash) /\ Holders(T[i]) \subseteq {r}
      /\ \A i \in D : block_hash'[T[i]] = block_hashes[r][i]
      /\ \A b \in Blocks : (\A i \in D : T[i] # b) =>
           block_hash'[b] = IF b \in N THEN NoHash ELSE block_hash[b]
  BY <1>0 DEF Allocated
<1>3. /\ N \subseteq PoolBlocks /\ \A b \in N : ref_cnt[b] = 0 /\ b \notin Elems(hits)
      /\ Elems(free_block_queue') =
           {b \in PoolBlocks : ref_cnt[b] = 0} \ (Elems(hits) \cup N)
      /\ T \in Seq(PoolBlocks) /\ Distinct(T) /\ Len(T) = num_blocks
      /\ Elems(T) = Elems(old) \cup (Elems(hits) \cup N)
      /\ Len(held) = Len(old) + Len(hits)
      /\ \A i \in 1 .. num_blocks : IF i <= Len(held) THEN T[i] = held[i] ELSE T[i] \in N
  BY <1>1 DEF Taken
<1>4. /\ old \in Seq(PoolBlocks) /\ Len(old) \in Nat /\ hits \in Seq(PoolBlocks)
      /\ Len(hits) \in Nat /\ req_to_blocks \in [Reqs -> Seq(PoolBlocks)]
      /\ num_cached_block \in [Reqs -> Nat] /\ num_cached_block[r] <= Len(old)
      /\ ref_cnt \in [Blocks -> Nat] /\ num_blocks \in Nat
  <2>1. /\ req_to_blocks \in [Reqs -> Seq(PoolBlocks)] /\ num_cached_block \in [Reqs -> Nat]
        /\ num_cached_block[r] <= Len(old) /\ ref_cnt \in [Blocks -> Nat]
    BY DEF KVInv, KVTypeOK
  <2>2. old \in Seq(PoolBlocks) /\ hits \in Seq(PoolBlocks)
    BY <2>1 DEF HitsOK
  <2>3. Len(old) \in Nat /\ Len(hits) \in Nat
    BY <2>2
  <2>4. num_blocks \in Nat
    BY BlockFacts
  <2> QED  BY <2>1, <2>2, <2>3, <2>4
<1>5. /\ \A i \in 1 .. Len(old) : held[i] = old[i]
      /\ \A i \in 1 .. Len(old) + Len(hits) : i > Len(old) =>
           i - Len(old) \in 1 .. Len(hits) /\ held[i] = hits[i - Len(old)]
  BY <1>4, ConcatFacts DEF Held
<1>6. /\ req_to_blocks'[r] = T /\ num_cached_block'[r] = full
      /\ \A p \in Reqs : p # r => /\ req_to_blocks'[p] = req_to_blocks[p]
                                  /\ num_cached_block'[p] = num_cached_block[p]
  BY <1>1, <1>4
<1>7. \A i \in D : i \in 1 .. num_blocks /\ i > done
  BY <1>1
<1>8. /\ Q \in Seq(PoolBlocks) /\ Distinct(Q) /\ n \in 0 .. Len(Q)
      /\ free_block_queue' = SubSeq(Q, n + 1, Len(Q))
      /\ Q = Keep(free_block_queue, Blocks \ Elems(hits))
      /\ free_block_queue \in Seq(PoolBlocks)
  <2>1. /\ CanAllocate(r, hits, num_blocks)
        /\ free_block_queue' = SubSeq(touch(hits), NumNew(r, hits, num_blocks) + 1,
                                      Len(touch(hits)))
    BY DEF allocate_slots
  <2>2. free_block_queue \in Seq(PoolBlocks)
    BY DEF KVInv, KVTypeOK
  <2> QED  BY <1>4, <2>1, <2>2, EnoughToTake DEF touch
<1>9. \A i \in 1 .. Len(held) : i <= done =>
        block_hash[held[i]] = block_hashes[r][i] /\ held[i] \notin N
  <2> SUFFICES ASSUME NEW i \in 1 .. Len(held), i <= done
               PROVE  block_hash[held[i]] = block_hashes[r][i] /\ held[i] \notin N
    OBVIOUS
  <2>0. done = num_cached_block[r] + Len(hits)
    BY DEF Done
  <2>1. CASE i <= Len(old)
    <3>1. Len(hits) = 0 /\ i \in 1 .. Len(old)
      <4>1. Len(old) # 0
        BY <1>4, <2>1
      <4>2. hits = <<>>
        BY <4>1
      <4> QED  BY <1>4, <2>1, <4>2
    <3>2. i \in 1 .. num_cached_block[r] /\ held[i] = old[i]
      BY <1>4, <1>5, <2>0, <3>1
    <3>3. held[i] \in Elems(old)
      BY <3>1, <3>2 DEF Elems
    <3>4. held[i] \notin N
      BY <1>3, <3>3, HolderFacts
    <3> QED  BY <3>2, <3>4 DEF EvictionOrder, CachedHashed
  <2>2. CASE i > Len(old)
    <3>1. held[i] \in Elems(hits)
      BY <1>3, <1>5, <2>2 DEF Elems
    <3>2. block_hash[held[i]] # NoHash /\ block_hash[held[i]] \in {block_hashes[r][i], NoHash}
      BY <3>1 DEF HitsOK
    <3> QED  BY <1>3, <3>1, <3>2
  <2> QED  BY <1>4, <2>1, <2>2
<1> HIDE DEF done, held, old, n, Q
<1>10. \A b \in N : Holders(b) = {}
  BY <1>3, HolderFacts
<1>11. CachedHashed'
  <2> SUFFICES ASSUME NEW q \in Reqs, NEW i \in 1 .. num_cached_block'[q]
               PROVE  block_hash'[req_to_blocks'[q][i]] = block_hashes[q][i]
    BY DEF CachedHashed
  <2>1. CASE q = r
    <3>1. i \in 1 .. full /\ req_to_blocks'[q][i] = T[i]
      BY <1>6, <2>1
    <3>2. i \in 1 .. num_blocks /\ T[i] \in Blocks
      BY <1>1, <1>3, <3>1, BlockFacts
    <3>3. CASE i > done
      <4>1. i \in D
        BY <1>1, <3>1, <3>3
      <4> QED  BY <1>2, <2>1, <3>1, <4>1
    <3>4. CASE i <= done
      <4>1. T[i] = held[i] /\ i \in 1 .. Len(held)
        BY <1>1, <1>3, <3>2, <3>4
      <4>2. \A j \in D : T[j] # T[i]
        BY <1>1, <1>3, <1>7, <3>2, <3>4 DEF Distinct
      <4>3. block_hash'[T[i]] = block_hash[T[i]]
        BY <1>2, <1>9, <3>2, <3>4, <4>1, <4>2
      <4> QED  BY <1>9, <2>1, <3>1, <3>4, <4>1, <4>3
    <3> QED  BY <1>1, <3>2, <3>3, <3>4
  <2>2. CASE q # r
    <3> DEFINE b == req_to_blocks[q][i]
    <3>1. req_to_blocks'[q][i] = b /\ i \in 1 .. num_cached_block[q]
      BY <1>6, <2>2
    <3>2. i \in 1 .. Len(req_to_blocks[q])
      BY <3>1 DEF KVInv, KVTypeOK
    <3>3. b \in Elems(req_to_blocks[q])
      BY <3>2 DEF Elems
    <3>4. b \in Blocks /\ q \in Holders(b)
      BY <3>3, HolderFacts, BlockFacts DEF Holders
    <3>5. b \notin N /\ \A j \in D : T[j] # b
      <4> HIDE DEF b
      <4>1. b \notin N
        BY <1>10, <3>4
      <4>2. ASSUME NEW j \in D, T[j] = b
            PROVE  FALSE
        <5>1. j \in 1 .. num_blocks /\ j > done
          BY <1>7
        <5>2. Holders(T[j]) \subseteq {r}
          BY <1>2, <5>1
        <5>3. q \in Holders(T[j])
          BY <3>4, <4>2
        <5> QED  BY <2>2, <5>2, <5>3
      <4> QED  BY <4>1, <4>2
    <3>6. block_hash'[b] = block_hash[b]
      BY <1>2, <3>4, <3>5
    <3> QED  BY <3>1, <3>6 DEF EvictionOrder, CachedHashed
  <2> QED  BY <2>1, <2>2
<1>12. ParentsLater'
  <2> SUFFICES ASSUME NEW b \in Elems(free_block_queue'), NEW q \in Reqs,
                      NEW i \in 2 .. MaxReqBlocks, block_hash'[b] = block_hashes[q][i]
               PROVE  Covered(block_hash', ref_cnt', free_block_queue', b, block_hashes[q][i - 1])
    BY DEF ParentsLater
  <2> DEFINE h == block_hashes[q][i - 1]
  <2>0. h # NoHash
    <3>1. i - 1 \in 1 .. MaxReqBlocks
      BY BlockFacts
    <3> QED  BY <3>1, ChainFacts
  <2>1. b \in PoolBlocks /\ b \in Blocks /\ ref_cnt[b] = 0 /\ b \notin Elems(hits) /\ b \notin N
    BY <1>3, BlockFacts
  <2>2. b \notin Elems(old)
    BY <2>1, HolderFacts DEF old
  <2>3. \A j \in D : T[j] # b
    <3>1. b \notin Elems(T)
      BY <1>3, <2>1, <2>2
    <3> QED  BY <1>3, <1>7, <3>1 DEF Elems
  <2>4. block_hash[b] = block_hashes[q][i]
    BY <1>2, <2>1, <2>3
  <2>5. b \in Elems(free_block_queue)
    BY <2>1 DEF KVInv, FreeIsUnreferenced
  <2>6. Covered(block_hash, ref_cnt, free_block_queue, b, h)
    BY <2>4, <2>5 DEF EvictionOrder, ParentsLater
  <2> HIDE DEF h
  <2>7. PICK p \in PoolBlocks : block_hash[p] = h /\ (ref_cnt[p] # 0 \/ Precedes(free_block_queue, b, p))
    BY <2>6 DEF Covered
  <2>8. p \in Blocks /\ ref_cnt[p] \in Nat
    BY <1>4, BlockFacts
  <2>9. /\ ref_cnt[p] # 0 \/ p \in Elems(hits) => ref_cnt'[p] # 0
        /\ ref_cnt[p] = 0 /\ p \notin Elems(hits) => Precedes(free_block_queue', b, p)
    <3>1. ref_cnt'[p] = IF p \in Elems(hits) \cup N THEN ref_cnt[p] + 1 ELSE ref_cnt[p]
      BY <1>1, <2>8
    <3>2. ref_cnt[p] # 0 \/ p \in Elems(hits) => ref_cnt'[p] # 0
      BY <2>8, <3>1
    <3>3. ASSUME ref_cnt[p] = 0, p \notin Elems(hits) PROVE Precedes(free_block_queue', b, p)
      <4> DEFINE V == Blocks \ Elems(hits)
      <4>1. b \in V /\ p \in V /\ Precedes(free_block_queue, b, p)
        BY <2>1, <2>7, <2>8, <3>3
      <4>2. Q = Keep(free_block_queue, V)
        BY <1>8
      <4> HIDE DEF V
      <4>3. Precedes(Q, b, p)
        BY <1>8, <4>1, <4>2, KeepPrecedes
      <4>4. Precedes(SubSeq(Q, n + 1, Len(Q)), b, p)
        BY <1>8, <4>3, RestPrecedes
      <4> QED  BY <1>8, <4>4
    <3> QED  BY <3>2, <3>3
  <2>10. p \notin N
    <3> SUFFICES ASSUME p \in N PROVE FALSE
      OBVIOUS
    <3>1. Precedes(free_block_queue', b, p)
      BY <1>3, <2>9
    <3>2. p \in Elems(free_block_queue')
      BY <3>1 DEF Precedes, Elems
    <3> QED  BY <1>3, <3>2
  <2>11. \A j \in D : T[j] # p
    BY <1>2, <1>7, <2>0, <2>7, <2>10
  <2>12. block_hash'[p] = h
    BY <1>2, <2>7, <2>8, <2>10, <2>11
  <2> QED  BY <2>9, <2>12 DEF Covered, h
<1> QED  BY <1>11, <1>12 DEF EvictionOrder

(* Caching full blocks changes no hash that is there.                      *)
LEMMA OrderCommit ==
  ASSUME KVInv, EvictionOrder, NEW r \in Reqs, NEW full \in 0 .. MaxReqBlocks, Commit(r, full)
  PROVE  EvictionOrder'
<1> DEFINE table == req_to_blocks[r]
           done  == num_cached_block[r]
           D     == done + 1 .. full
<1>1. /\ done \in Nat /\ full > done /\ full \in Nat /\ full <= Len(table)
      /\ num_cached_block' = [num_cached_block EXCEPT ![r] = full]
      /\ free_block_queue' = free_block_queue /\ ref_cnt' = ref_cnt
      /\ req_to_blocks' = req_to_blocks
      /\ \A i \in D : block_hash[table[i]] = NoHash /\ block_hash'[table[i]] = block_hashes[r][i]
      /\ \A b \in Blocks : (\A i \in D : table[i] # b) => block_hash'[b] = block_hash[b]
  BY CommitFacts
<1>2. \A b \in Blocks : block_hash[b] # NoHash => block_hash'[b] = block_hash[b]
  BY <1>1
<1>3. \A q \in Reqs : /\ req_to_blocks[q] \in Seq(PoolBlocks) /\ num_cached_block[q] \in Nat
                      /\ num_cached_block[q] <= Len(req_to_blocks[q])
                      /\ Len(req_to_blocks[q]) <= MaxReqBlocks /\ Len(req_to_blocks[q]) \in Nat
  BY DEF KVInv, KVTypeOK
<1>4. ASSUME NEW q \in Reqs, NEW i \in 1 .. num_cached_block[q]
      PROVE  block_hash'[req_to_blocks[q][i]] = block_hashes[q][i]
  <2>1. i \in 1 .. Len(req_to_blocks[q]) /\ i \in 1 .. MaxReqBlocks
    BY <1>3, BlockFacts
  <2>2. req_to_blocks[q][i] \in Blocks
    BY <1>3, <2>1, BlockFacts
  <2>3. block_hash[req_to_blocks[q][i]] = block_hashes[q][i]
    BY DEF EvictionOrder, CachedHashed
  <2>4. block_hashes[q][i] # NoHash
    BY <2>1, ChainFacts
  <2> QED  BY <1>2, <2>2, <2>3, <2>4
<1>5. CachedHashed'
  <2> SUFFICES ASSUME NEW q \in Reqs, NEW i \in 1 .. num_cached_block'[q]
               PROVE  block_hash'[req_to_blocks[q][i]] = block_hashes[q][i]
    BY <1>1 DEF CachedHashed
  <2>0. num_cached_block'[q] = IF q = r THEN full ELSE num_cached_block[q]
    BY <1>1 DEF KVInv, KVTypeOK
  <2>1. CASE q = r /\ i \in D
    BY <1>1, <2>1
  <2>2. CASE ~(q = r /\ i \in D)
    <3>1. i \in 1 .. num_cached_block[q]
      BY <1>1, <1>3, <2>0, <2>2
    <3> QED  BY <1>4, <3>1
  <2> QED  BY <2>1, <2>2
<1>6. ParentsLater'
  <2> SUFFICES ASSUME NEW b \in Elems(free_block_queue), NEW q \in Reqs,
                      NEW i \in 2 .. MaxReqBlocks, block_hash'[b] = block_hashes[q][i]
               PROVE  Covered(block_hash', ref_cnt, free_block_queue, b, block_hashes[q][i - 1])
    BY <1>1 DEF ParentsLater
  <2>1. b \in PoolBlocks /\ b \in Blocks /\ ref_cnt[b] = 0
    BY BlockFacts DEF KVInv, FreeIsUnreferenced
  <2>2. \A j \in D : table[j] # b
    <3> SUFFICES ASSUME NEW j \in D, table[j] = b PROVE FALSE
      OBVIOUS
    <3>1. j \in 1 .. Len(table)
      BY <1>1, <1>3
    <3>2. b \in Elems(table)
      BY <3>1 DEF Elems
    <3> QED  BY <2>1, <3>2, HolderFacts
  <2>3. block_hash[b] = block_hashes[q][i]
    BY <1>1, <2>1, <2>2
  <2>4. Covered(block_hash, ref_cnt, free_block_queue, b, block_hashes[q][i - 1])
    BY <2>3 DEF EvictionOrder, ParentsLater
  <2>5. block_hashes[q][i - 1] # NoHash
    <3>1. i - 1 \in 1 .. MaxReqBlocks
      BY BlockFacts
    <3> QED  BY <3>1, ChainFacts
  <2> QED  BY <1>2, <2>4, <2>5, BlockFacts DEF Covered
<1> QED  BY <1>5, <1>6 DEF EvictionOrder

(* free returns a table last block first.                                  *)
LEMMA OrderFree ==
  ASSUME KVInv, EvictionOrder, NEW r \in Reqs, free(r)
  PROVE  EvictionOrder'
<1> DEFINE table == req_to_blocks[r]
           T     == Elems(table)
           zero  == {b \in T : ref_cnt[b] = 1}
           R     == Reversed(table)
           K     == Keep(R, zero)
<1>1. /\ ref_cnt' = [b \in Blocks |-> IF b \in T THEN ref_cnt[b] - 1 ELSE ref_cnt[b]]
      /\ free_block_queue' = free_block_queue \o K
      /\ req_to_blocks' = [req_to_blocks EXCEPT ![r] = <<>>]
      /\ num_cached_block' = [num_cached_block EXCEPT ![r] = 0]
      /\ block_hash' = block_hash
  BY DEF free
<1>2. /\ table \in Seq(PoolBlocks) /\ T \subseteq PoolBlocks /\ Distinct(table)
      /\ \A b \in T : ref_cnt[b] > 0
  BY HolderFacts DEF KVInv, RefCountsHolders
<1>3. free_block_queue \in Seq(PoolBlocks) /\ ref_cnt \in [Blocks -> Nat]
  BY DEF KVInv, KVTypeOK
<1>4. R \in Seq(PoolBlocks) /\ Elems(R) = T
  BY <1>2, ReversedFacts
<1>r. \A i, j \in 1 .. Len(table) : i < j => Precedes(R, table[j], table[i])
  BY <1>2, ReversedPrecedes
<1>z. zero \subseteq T /\ \A b \in T : ref_cnt[b] = 1 <=> b \in zero
  OBVIOUS
<1> HIDE DEF R, zero
<1>5. K \in Seq(PoolBlocks) /\ Elems(K) = zero
  <2>1. K \in Seq(PoolBlocks) /\ Elems(K) = Elems(R) \cap zero
    BY <1>4, KeepFacts
  <2>2. Elems(R) \cap zero = zero
    BY <1>4, <1>z
  <2> QED  BY <2>1, <2>2
<1>6. \A b \in zero, p \in zero : Precedes(R, b, p) => Precedes(K, b, p)
  BY <1>4, KeepPrecedes
<1> HIDE DEF K, T
<1>7. /\ Elems(free_block_queue') = Elems(free_block_queue) \cup zero
      /\ \A b, p : Precedes(free_block_queue, b, p) => Precedes(free_block_queue', b, p)
      /\ \A b, p : Precedes(K, b, p) => Precedes(free_block_queue', b, p)
      /\ \A b, p : b \in Elems(free_block_queue) /\ p \in zero =>
           Precedes(free_block_queue', b, p)
  BY <1>1, <1>3, <1>5, ConcatElems, ConcatPrecedes
<1>8. \A p \in PoolBlocks : ref_cnt[p] # 0 => ref_cnt'[p] # 0 \/ p \in zero
  <2> TAKE p \in PoolBlocks
  <2>1. p \in Blocks /\ ref_cnt[p] \in Nat
    BY <1>3, BlockFacts
  <2>2. ref_cnt'[p] = IF p \in T THEN ref_cnt[p] - 1 ELSE ref_cnt[p]
    BY <1>1, <2>1
  <2> QED  BY <1>z, <2>1, <2>2
<1>9. CachedHashed'
  <2> SUFFICES ASSUME NEW q \in Reqs, NEW i \in 1 .. num_cached_block'[q]
               PROVE  block_hash[req_to_blocks'[q][i]] = block_hashes[q][i]
    BY <1>1 DEF CachedHashed
  <2>1. q # r
    BY <1>1 DEF KVInv, KVTypeOK
  <2>2. req_to_blocks'[q] = req_to_blocks[q] /\ num_cached_block'[q] = num_cached_block[q]
    BY <1>1, <2>1 DEF KVInv, KVTypeOK
  <2> QED  BY <2>2 DEF EvictionOrder, CachedHashed
<1>10. ParentsLater'
  <2> SUFFICES ASSUME NEW b \in Elems(free_block_queue'), NEW q \in Reqs,
                      NEW i \in 2 .. MaxReqBlocks, block_hash[b] = block_hashes[q][i]
               PROVE  Covered(block_hash, ref_cnt', free_block_queue', b, block_hashes[q][i - 1])
    BY <1>1 DEF ParentsLater
  <2>1. CASE b \in Elems(free_block_queue)
    <3>1. Covered(block_hash, ref_cnt, free_block_queue, b, block_hashes[q][i - 1])
      BY <2>1 DEF EvictionOrder, ParentsLater
    <3>2. PICK p \in PoolBlocks :
            /\ block_hash[p] = block_hashes[q][i - 1]
            /\ ref_cnt[p] # 0 \/ Precedes(free_block_queue, b, p)
      BY <3>1 DEF Covered
    <3>3. ref_cnt'[p] # 0 \/ Precedes(free_block_queue', b, p)
      BY <1>7, <1>8, <2>1, <3>2
    <3> QED  BY <3>2, <3>3 DEF Covered
  <2>2. CASE b \in zero
    <3>1. PICK j \in 1 .. Len(table) : table[j] = b
      BY <1>z, <2>2 DEF T, Elems
    <3> DEFINE p == table[i - 1]
    <3>2. /\ j = i /\ i - 1 \in 1 .. Len(table) /\ p \in PoolBlocks
          /\ block_hash[p] = block_hashes[q][i - 1]
      BY <3>1, ParentInUse DEF EvictionOrder
    <3>3. Precedes(R, b, p) /\ p \in T
      <4>1. i - 1 < i
        BY BlockFacts
      <4>2. Precedes(R, table[i], table[i - 1])
        BY <1>r, <3>1, <3>2, <4>1
      <4> QED  BY <3>1, <3>2, <4>2 DEF T, Elems
    <3> HIDE DEF p
    <3>4. ref_cnt[p] # 0
      BY <1>2, <3>3
    <3>5. ref_cnt'[p] # 0 \/ Precedes(free_block_queue', b, p)
      BY <1>6, <1>7, <1>8, <2>2, <3>2, <3>3, <3>4
    <3> QED  BY <3>2, <3>5 DEF Covered
  <2> QED  BY <1>7, <2>1, <2>2
<1> QED  BY <1>9, <1>10 DEF EvictionOrder

(* Nothing is cached after a reset.                                        *)
LEMMA OrderReset ==
  ASSUME KVInv, EvictionOrder, reset_prefix_cache
  PROVE  EvictionOrder'
<1>1. /\ CanReset /\ block_hash' = [b \in Blocks |-> NoHash]
      /\ free_block_queue' = free_block_queue /\ num_cached_block' = num_cached_block
  BY DEF reset_prefix_cache
<1>2. \A r \in Reqs : num_cached_block[r] = 0
  BY <1>1, ResetWhenEmpty DEF KVInv, KVTypeOK
<1>3. CachedHashed'
  BY <1>1, <1>2 DEF CachedHashed
<1>4. ParentsLater'
  <2> SUFFICES ASSUME NEW b \in Elems(free_block_queue), NEW r \in Reqs,
                      NEW i \in 2 .. MaxReqBlocks, block_hash'[b] = block_hashes[r][i]
               PROVE  FALSE
    BY <1>1 DEF ParentsLater
  <2>1. i \in 1 .. MaxReqBlocks
    BY BlockFacts
  <2>2. b \in Blocks
    BY BlockFacts DEF KVInv, FreeIsUnreferenced
  <2>3. block_hash'[b] = NoHash
    BY <1>1, <2>2
  <2> QED  BY <2>1, <2>3, ChainFacts
<1> QED  BY <1>3, <1>4 DEF EvictionOrder

(* Every call keeps the order, unless a connector evicts blocks.           *)
LEMMA OrderStep ==
  ASSUME ~ConnectorEvicts, KVInv, EvictionOrder, [KVNext]_kvars
  PROVE  EvictionOrder'
<1>1. CASE \E r \in Reqs : \E m \in 0 .. MaxReqBlocks - 1, n \in 1 .. MaxReqBlocks :
             \E f \in 0 .. n : Admit(r, m, n, f)
  <2>0. PICK r \in Reqs, m \in 0 .. MaxReqBlocks - 1, n \in 1 .. MaxReqBlocks :
          \E f \in 0 .. n : Admit(r, m, n, f)
    BY <1>1
  <2>1. PICK f \in 0 .. n : Admit(r, m, n, f)
    BY <2>0
  <2>2. n \in Nat
    BY BlockFacts
  <2>3. HitsOK(r, get_computed_blocks(r, m), n)
    BY <2>1, <2>2, AdmitHits DEF Admit
  <2> QED  BY <2>1, <2>3, OrderAlloc DEF Admit
<1>2. CASE \E r \in Reqs : \E n \in 1 .. MaxReqBlocks : \E f \in 0 .. n : Grow(r, n, f)
  <2>0. PICK r \in Reqs, n \in 1 .. MaxReqBlocks : \E f \in 0 .. n : Grow(r, n, f)
    BY <1>2
  <2>1. PICK f \in 0 .. n : Grow(r, n, f)
    BY <2>0
  <2>2. n \in Nat
    BY BlockFacts
  <2>3. HitsOK(r, <<>>, n)
    BY <2>1, <2>2, GrowHits DEF Grow
  <2> QED  BY <2>1, <2>3, OrderAlloc DEF Grow
<1>3. CASE \E r \in Reqs : \E f \in 0 .. MaxReqBlocks : Commit(r, f)
  BY <1>3, OrderCommit
<1>4. CASE \E r \in Reqs : free(r)
  BY <1>4, OrderFree
<1>5. CASE reset_prefix_cache
  BY <1>5, OrderReset
<1>6. CASE UNCHANGED kvars
  BY <1>6 DEF kvars, EvictionOrder, CachedHashed, ParentsLater
<1> QED  BY <1>1, <1>2, <1>3, <1>4, <1>5, <1>6 DEF KVNext

(* PrefixClosed always holds unless a connector evicts blocks: whatever is *)
(* admitted, grown, committed, freed and evicted, the prefix cache never   *)
(* holds a block without the one before it, which is what                  *)
(* find_longest_cache_hit relies on when it stops at the first miss.       *)
THEOREM CachedPrefixesClosed ==
  ASSUME ~ConnectorEvicts
  PROVE  KVSpec => []PrefixClosed
<1>1. KVInit => EvictionOrder
  BY OrderInit
<1>2. KVInv /\ EvictionOrder /\ [KVNext]_kvars => EvictionOrder'
  BY OrderStep
<1>3. KVInv /\ EvictionOrder => PrefixClosed
  BY OrderImpliesClosed
<1> QED  BY <1>1, <1>2, <1>3, KVCacheCorrect, PTL DEF KVSpec
=============================================================================
