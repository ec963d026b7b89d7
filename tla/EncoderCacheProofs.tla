------------------------- MODULE EncoderCacheProofs -------------------------
(***************************************************************************)
(* The safety invariants of EncoderCacheManager hold for every set of      *)
(* requests, every assignment of multimodal items and every size of the    *)
(* cache, of the budgets and of the batch queue.                           *)
(*                                                                         *)
(* The inductive invariant EncInv relates the manager's books, the         *)
(* scheduler's lists, the step in the making and the worker's cache with   *)
(* all batches in flight.  Its parts are named and explained where they    *)
(* are defined; what one iteration of the scheduler may do to the books is *)
(* Moved.  Loops over sequences are reasoned about position by position:   *)
(* Fold is a recursive function, and the induction over positions is a     *)
(* least counterexample (SetInduction).                                    *)
(***************************************************************************)
EXTENDS EncoderCacheManager, FiniteSetTheorems, WellFoundedInduction, TLAPS

(* A set of naturals has a least element: the induction of this module.    *)
LEMMA LeastNatural ==
  ASSUME NEW T \in SUBSET Nat, T # {}
  PROVE  \E x \in T : \A y \in T : x <= y
<1>1. \E R : IsWellFoundedOn(R, Nat) /\ \A x, y \in Nat : x < y => <<x, y>> \in R
  <2> DEFINE R == OpToRel(<, Nat)
  <2>1. IsWellFoundedOn(R, Nat)
    BY NatLessThanWellFounded
  <2>2. \A x, y \in Nat : x < y => <<x, y>> \in R
    BY Zenon DEF OpToRel
  <2> HIDE DEF R
  <2> QED  BY <2>1, <2>2
<1>2. PICK R : IsWellFoundedOn(R, Nat) /\ \A x, y \in Nat : x < y => <<x, y>> \in R
  BY <1>1
<1>3. T \subseteq Nat
  OBVIOUS
<1>4. PICK x \in T : \A y \in T : ~ (<<y, x>> \in R)
  <2>1. IsWellFoundedOn(R, Nat)
    BY <1>2
  <2>2. T # {}
    OBVIOUS
  <2> HIDE <1>2
  <2>3. \E x \in T : \A y \in T : ~ (<<y, x>> \in R)
    BY <1>3, <2>1, <2>2, WFMin
  <2> QED  BY <2>3
<1>5. \A y \in T : ~(y < x)
  BY <1>2, <1>4
<1> QED  BY <1>5

(* Induction over the positions of a sequence: K holds the good ones.      *)
LEMMA SetInduction ==
  ASSUME NEW n \in Nat, NEW K, 0 \in K, \A i \in 1 .. n : i - 1 \in K => i \in K
  PROVE  \A i \in 0 .. n : i \in K
<1> DEFINE Bad == {i \in 0 .. n : i \notin K}
<1> SUFFICES ASSUME Bad # {} PROVE FALSE
  OBVIOUS
<1>0. Bad \in SUBSET Nat
  OBVIOUS
<1>1. PICK x \in Bad : \A y \in Bad : x <= y
  <2> HIDE DEF Bad
  <2> QED  BY <1>0, LeastNatural
<1>2. x \in 1 .. n /\ x \notin K
  BY <1>1
<1>3. x - 1 \notin Bad
  <2>1. ~(x <= x - 1)
    BY <1>2
  <2> QED  BY <1>1, <2>1
<1>4. x - 1 \in K
  BY <1>2, <1>3
<1> QED  BY <1>2, <1>4

LEMMA MinOfTwo ==
  ASSUME NEW a \in Int, NEW b \in Int
  PROVE  Min({a, b}) = IF a <= b THEN a ELSE b
<1> DEFINE S == {a, b}
<1>1. \E x \in S : \A y \in S : x <= y
  <2>1. CASE a <= b
    BY <2>1
  <2>2. CASE ~(a <= b)
    <3>1. b <= a
      BY <2>2
    <3> QED  BY <3>1
  <2> QED  BY <2>1, <2>2
<1>2. Min(S) \in S /\ \A y \in S : Min(S) <= y
  <2> HIDE DEF S
  <2> QED  BY <1>1 DEF Min
<1>3. Min(S) <= a /\ Min(S) <= b
  BY <1>2
<1>4. Min(S) = a \/ Min(S) = b
  BY <1>2
<1> QED  BY <1>3, <1>4

LEMMA MaxOfTwo ==
  ASSUME NEW a \in Int, NEW b \in Int
  PROVE  Max({a, b}) = IF a <= b THEN b ELSE a
<1> DEFINE S == {a, b}
<1>1. \E x \in S : \A y \in S : x >= y
  <2>1. CASE a <= b
    BY <2>1
  <2>2. CASE ~(a <= b)
    <3>1. b <= a
      BY <2>2
    <3> QED  BY <3>1
  <2> QED  BY <2>1, <2>2
<1>2. Max(S) \in S /\ \A y \in S : Max(S) >= y
  <2> HIDE DEF S
  <2> QED  BY <1>1 DEF Max
<1>3. Max(S) >= a /\ Max(S) >= b
  BY <1>2
<1>4. Max(S) = a \/ Max(S) = b
  BY <1>2
<1> QED  BY <1>3, <1>4

-----------------------------------------------------------------------------
(* Sequences.                                                              *)

LEMMA ToSetFacts ==
  ASSUME NEW T, NEW s \in Seq(T)
  PROVE  /\ ToSet(s) \in SUBSET T
         /\ \A x : x \in ToSet(s) <=> \E i \in 1 .. Len(s) : s[i] = x
         /\ ToSet(s) = {} <=> s = << >>
         /\ \A i \in 1 .. Len(s) : s[i] \in ToSet(s)
<1>1. DOMAIN s = 1 .. Len(s) /\ Len(s) \in Nat /\ \A i \in 1 .. Len(s) : s[i] \in T
  OBVIOUS
<1>2. \A x : x \in ToSet(s) <=> \E i \in 1 .. Len(s) : s[i] = x
  BY <1>1, Zenon DEF ToSet
<1>3. ToSet(s) \in SUBSET T
  BY <1>1, <1>2
<1>4. ToSet(s) = {} <=> s = << >>
  <2>1. Len(s) = 0 <=> s = << >>
    OBVIOUS
  <2>2. ASSUME Len(s) # 0 PROVE ToSet(s) # {}
    <3>1. 1 \in 1 .. Len(s)
      BY <1>1, <2>2
    <3> QED  BY <3>1, <1>2
  <2>3. ASSUME Len(s) = 0 PROVE ToSet(s) = {}
    <3>1. \A i : i \notin 1 .. Len(s)
      BY <2>3
    <3> QED  BY <3>1, <1>2
  <2> QED  BY <2>1, <2>2, <2>3
<1> QED  BY <1>2, <1>3, <1>4

(* No element occurs twice.                                                *)
Distinct(s) == \A i, j \in 1 .. Len(s) : s[i] = s[j] => i = j

LEMMA InjectiveDistinct ==
  ASSUME NEW T, NEW s \in Seq(T)
  PROVE  IsInjective(s) <=> Distinct(s)
<1>1. DOMAIN s = 1 .. Len(s)
  OBVIOUS
<1> QED  BY <1>1, Zenon DEF IsInjective, Distinct

LEMMA AppendFacts ==
  ASSUME NEW T, NEW s \in Seq(T), NEW e \in T
  PROVE  /\ Append(s, e) \in Seq(T) /\ Len(Append(s, e)) = Len(s) + 1
         /\ \A i \in 1 .. Len(s) : Append(s, e)[i] = s[i]
         /\ Append(s, e)[Len(s) + 1] = e
         /\ ToSet(Append(s, e)) = ToSet(s) \cup {e}
         /\ Distinct(s) /\ e \notin ToSet(s) => Distinct(Append(s, e))
<1>1. Append(s, e) \in Seq(T) /\ Len(s) \in Nat /\ Len(Append(s, e)) = Len(s) + 1
  OBVIOUS
<1>2. \A i \in 1 .. Len(s) : Append(s, e)[i] = s[i]
  OBVIOUS
<1>3. Append(s, e)[Len(s) + 1] = e
  OBVIOUS
<1> DEFINE a == Append(s, e)
<1> HIDE DEF a
<1>4. a \in Seq(T) /\ Len(a) = Len(s) + 1 /\ (\A i \in 1 .. Len(s) : a[i] = s[i]) /\ a[Len(s) + 1] = e
  BY <1>1, <1>2, <1>3 DEF a
<1>5. \A i : i \in 1 .. Len(a) <=> i \in 1 .. Len(s) \/ i = Len(s) + 1
  BY <1>1, <1>4
<1>6. \A x : x \in ToSet(a) <=> x \in ToSet(s) \/ x = e
  <2>1. \A x : x \in ToSet(a) <=> \E i \in 1 .. Len(a) : a[i] = x
    BY <1>4, ToSetFacts
  <2>2. \A x : x \in ToSet(s) <=> \E i \in 1 .. Len(s) : s[i] = x
    BY ToSetFacts
  <2> QED  BY <2>1, <2>2, <1>4, <1>5
<1>7. ASSUME Distinct(s), e \notin ToSet(s) PROVE Distinct(a)
  <2>1. \A i \in 1 .. Len(s) : s[i] # e
    BY <1>7, ToSetFacts
  <2> QED  BY <1>7, <2>1, <1>4, <1>5 DEF Distinct
<1> QED  BY <1>1, <1>2, <1>3, <1>6, <1>7 DEF a

LEMMA SubSeqFacts ==
  ASSUME NEW T, NEW s \in Seq(T), NEW k \in 0 .. Len(s)
  PROVE  /\ SubSeq(s, 1, k) \in Seq(T) /\ Len(SubSeq(s, 1, k)) = k
         /\ \A i \in 1 .. k : SubSeq(s, 1, k)[i] = s[i]
         /\ SubSeq(s, k + 1, Len(s)) \in Seq(T) /\ Len(SubSeq(s, k + 1, Len(s))) = Len(s) - k
         /\ \A i \in 1 .. Len(s) - k : SubSeq(s, k + 1, Len(s))[i] = s[k + i]
         /\ ToSet(s) = ToSet(SubSeq(s, 1, k)) \cup ToSet(SubSeq(s, k + 1, Len(s)))
         /\ Distinct(s) => /\ ToSet(SubSeq(s, 1, k)) \cap ToSet(SubSeq(s, k + 1, Len(s))) = {}
                           /\ Distinct(SubSeq(s, 1, k)) /\ Distinct(SubSeq(s, k + 1, Len(s)))
<1> DEFINE n == Len(s)
           a == SubSeq(s, 1, k)
           b == SubSeq(s, k + 1, Len(s))
<1>0. n \in Nat /\ k \in Nat /\ k <= n
  OBVIOUS
<1>1. a \in Seq(T) /\ Len(a) = k
  OBVIOUS
<1>2. \A i \in 1 .. k : a[i] = s[i]
  OBVIOUS
<1>3. b \in Seq(T) /\ Len(b) = n - k
  OBVIOUS
<1>4. \A i \in 1 .. n - k : b[i] = s[k + i]
  OBVIOUS
<1> HIDE DEF a, b
<1>5. \A x : x \in ToSet(a) <=> \E i \in 1 .. k : s[i] = x
  <2>1. \A x : x \in ToSet(a) <=> \E i \in 1 .. Len(a) : a[i] = x
    BY <1>1, ToSetFacts
  <2> QED  BY <2>1, <1>1, <1>2
<1>6. \A x : x \in ToSet(b) <=> \E i \in k + 1 .. n : s[i] = x
  <2>1. \A x : x \in ToSet(b) <=> \E i \in 1 .. n - k : b[i] = x
    BY <1>3, ToSetFacts
  <2>2. ASSUME NEW i \in k + 1 .. n PROVE i - k \in 1 .. n - k /\ b[i - k] = s[i]
    <3>1. i - k \in 1 .. n - k /\ k + (i - k) = i
      BY <1>0
    <3> QED  BY <3>1, <1>4
  <2>3. ASSUME NEW i \in 1 .. n - k PROVE k + i \in k + 1 .. n /\ b[i] = s[k + i]
    BY <1>0, <1>4
  <2> QED  BY <2>1, <2>2, <2>3
<1>7. \A x : x \in ToSet(s) <=> \E i \in 1 .. n : s[i] = x
  BY ToSetFacts
<1>8. \A i : i \in 1 .. n <=> i \in 1 .. k \/ i \in k + 1 .. n
  BY <1>0
<1>9. ToSet(s) = ToSet(a) \cup ToSet(b)
  BY <1>5, <1>6, <1>7, <1>8
<1>10. ASSUME Distinct(s) PROVE ToSet(a) \cap ToSet(b) = {} /\ Distinct(a) /\ Distinct(b)
  <2>0. \A i, j \in 1 .. n : s[i] = s[j] => i = j
    BY <1>10 DEF Distinct
  <2>1. \A i \in 1 .. k, j \in k + 1 .. n : s[i] # s[j]
    BY <2>0, <1>0
  <2>2. ToSet(a) \cap ToSet(b) = {}
    BY <2>1, <1>5, <1>6
  <2>3. Distinct(a)
    BY <2>0, <1>0, <1>1, <1>2 DEF Distinct
  <2>4. Distinct(b)
    <3> SUFFICES ASSUME NEW i \in 1 .. n - k, NEW j \in 1 .. n - k, b[i] = b[j] PROVE i = j
      BY <1>3 DEF Distinct
    <3>1. s[k + i] = s[k + j] /\ k + i \in 1 .. n /\ k + j \in 1 .. n
      BY <1>4, <1>0
    <3>2. k + i = k + j
      BY <3>1, <2>0
    <3> QED  BY <3>2, <1>0
  <2> QED  BY <2>2, <2>3, <2>4
<1> QED  BY <1>1, <1>2, <1>3, <1>4, <1>9, <1>10 DEF a, b

LEMMA ConcatFacts ==
  ASSUME NEW T, NEW a \in Seq(T), NEW b \in Seq(T)
  PROVE  /\ a \o b \in Seq(T) /\ Len(a \o b) = Len(a) + Len(b)
         /\ ToSet(a \o b) = ToSet(a) \cup ToSet(b)
         /\ Distinct(a) /\ Distinct(b) /\ ToSet(a) \cap ToSet(b) = {} => Distinct(a \o b)
<1> DEFINE c == a \o b
           n == Len(a)
           l == Len(b)
<1>0. n \in Nat /\ l \in Nat
  OBVIOUS
<1>1. c \in Seq(T) /\ Len(c) = n + l
  OBVIOUS
<1>2. \A i \in 1 .. n : c[i] = a[i]
  OBVIOUS
<1>3. \A i \in 1 .. l : c[n + i] = b[i]
  OBVIOUS
<1> HIDE DEF c
<1>4. \A i \in n + 1 .. n + l : i - n \in 1 .. l /\ c[i] = b[i - n]
  <2> TAKE i \in n + 1 .. n + l
  <2>1. i - n \in 1 .. l /\ n + (i - n) = i
    BY <1>0
  <2> QED  BY <2>1, <1>3
<1>5. \A i : i \in 1 .. n + l <=> i \in 1 .. n \/ i \in n + 1 .. n + l
  BY <1>0
<1>6. \A x : x \in ToSet(a) <=> \E i \in 1 .. n : a[i] = x
  BY ToSetFacts
<1>7. \A x : x \in ToSet(b) <=> \E i \in 1 .. l : b[i] = x
  BY ToSetFacts
<1>8. \A x : x \in ToSet(c) <=> \E i \in 1 .. n + l : c[i] = x
  BY <1>1, ToSetFacts
<1>9. ToSet(c) = ToSet(a) \cup ToSet(b)
  <2>1. ASSUME NEW x \in ToSet(c) PROVE x \in ToSet(a) \cup ToSet(b)
    BY <1>2, <1>4, <1>5, <1>6, <1>7, <1>8
  <2>2. ASSUME NEW x \in ToSet(a) PROVE x \in ToSet(c)
    BY <1>2, <1>5, <1>6, <1>8
  <2>3. ASSUME NEW x \in ToSet(b) PROVE x \in ToSet(c)
    <3>1. PICK i \in 1 .. l : b[i] = x
      BY <1>7
    <3>2. n + i \in 1 .. n + l
      BY <1>0
    <3> QED  BY <3>1, <3>2, <1>3, <1>8
  <2> QED  BY <2>1, <2>2, <2>3
<1>10. ASSUME Distinct(a), Distinct(b), ToSet(a) \cap ToSet(b) = {} PROVE Distinct(c)
  <2> SUFFICES ASSUME NEW i \in 1 .. n + l, NEW j \in 1 .. n + l, c[i] = c[j] PROVE i = j
    BY <1>1 DEF Distinct
  <2>0. \A u \in 1 .. n, v \in 1 .. l : a[u] # b[v]
    BY <1>10, <1>6, <1>7
  <2>1. CASE i \in 1 .. n /\ j \in 1 .. n
    BY <2>1, <1>2, <1>10 DEF Distinct
  <2>2. CASE i \in n + 1 .. n + l /\ j \in n + 1 .. n + l
    <3>1. i - n = j - n
      BY <2>2, <1>4, <1>10 DEF Distinct
    <3> QED  BY <3>1, <2>2, <1>0
  <2>3. CASE i \in 1 .. n /\ j \in n + 1 .. n + l
    BY <2>3, <2>0, <1>2, <1>4
  <2>4. CASE i \in n + 1 .. n + l /\ j \in 1 .. n
    BY <2>4, <2>0, <1>2, <1>4
  <2> QED  BY <2>1, <2>2, <2>3, <2>4, <1>5
<1> QED  BY <1>1, <1>9, <1>10 DEF c

LEMMA RemoveFirstFacts ==
  ASSUME NEW T, NEW s \in Seq(T), NEW e, Distinct(s)
  PROVE  /\ RemoveFirst(s, e) \in Seq(T) /\ Distinct(RemoveFirst(s, e))
         /\ ToSet(RemoveFirst(s, e)) = ToSet(s) \ {e}
<1>1. CASE ~\E i \in 1 .. Len(s) : s[i] = e
  <2>1. RemoveFirst(s, e) = s
    BY <1>1, Zenon DEF RemoveFirst
  <2>2. e \notin ToSet(s)
    BY <1>1, ToSetFacts
  <2> QED  BY <2>1, <2>2
<1>2. CASE \E i \in 1 .. Len(s) : s[i] = e
  <2>1. PICK p \in 1 .. Len(s) : s[p] = e
    BY <1>2
  <2>2. SelectInSeq(s, LAMBDA v : v = e) = p
    <3> DEFINE I == {i \in 1 .. Len(s) : s[i] = e}
    <3>1. I = {p}
      BY <2>1 DEF Distinct
    <3>2. Min({p}) = p
      BY DEF Min
    <3>3. SelectInSeq(s, LAMBDA v : v = e) = IF I # {} THEN Min(I) ELSE 0
      BY Zenon DEF SelectInSeq
    <3>4. {p} # {}
      OBVIOUS
    <3> HIDE DEF I
    <3> QED  BY <3>1, <3>2, <3>3, <3>4, Zenon
  <2>3. RemoveFirst(s, e) = SubSeq(s, 1, p - 1) \o SubSeq(s, p + 1, Len(s))
    BY <1>2, <2>2, Zenon DEF RemoveFirst, RemoveAt
  <2> DEFINE a == SubSeq(s, 1, p - 1)
             b == SubSeq(s, p + 1, Len(s))
  <2>4. p \in 0 .. Len(s) /\ p - 1 \in 0 .. Len(s) /\ Len(s) \in Nat
    OBVIOUS
  <2>5. a \in Seq(T) /\ Distinct(a) /\ Len(a) = p - 1 /\ \A i \in 1 .. p - 1 : a[i] = s[i]
    BY <2>4, SubSeqFacts
  <2>6. b \in Seq(T) /\ Distinct(b) /\ Len(b) = Len(s) - p /\ \A i \in 1 .. Len(s) - p : b[i] = s[p + i]
    BY <2>4, SubSeqFacts
  <2> HIDE DEF a, b
  <2>7. \A x : x \in ToSet(a) <=> \E i \in 1 .. p - 1 : s[i] = x
    <3>1. \A x : x \in ToSet(a) <=> \E i \in 1 .. Len(a) : a[i] = x
      BY <2>5, ToSetFacts
    <3> QED  BY <3>1, <2>5
  <2>8. \A x : x \in ToSet(b) <=> \E i \in p + 1 .. Len(s) : s[i] = x
    <3>1. \A x : x \in ToSet(b) <=> \E i \in 1 .. Len(s) - p : b[i] = x
      BY <2>6, ToSetFacts
    <3>2. ASSUME NEW i \in p + 1 .. Len(s) PROVE i - p \in 1 .. Len(s) - p /\ b[i - p] = s[i]
      <4>1. i - p \in 1 .. Len(s) - p /\ p + (i - p) = i
        BY <2>4
      <4> QED  BY <4>1, <2>6
    <3>3. ASSUME NEW i \in 1 .. Len(s) - p PROVE p + i \in p + 1 .. Len(s) /\ b[i] = s[p + i]
      BY <2>4, <2>6
    <3>4. \A i \in p + 1 .. Len(s) : \E j \in 1 .. Len(s) - p : b[j] = s[i]
      BY <3>2, Zenon
    <3>5. \A i \in 1 .. Len(s) - p : \E j \in p + 1 .. Len(s) : s[j] = b[i]
      BY <3>3, Zenon
    <3> QED  BY <3>1, <3>4, <3>5, Zenon
  <2>9. \A x : x \in ToSet(s) <=> \E i \in 1 .. Len(s) : s[i] = x
    BY ToSetFacts
  <2>10. \A i : i \in 1 .. Len(s) <=> i \in 1 .. p - 1 \/ i = p \/ i \in p + 1 .. Len(s)
    BY <2>4
  <2>11. \A i, j \in 1 .. Len(s) : s[i] = s[j] => i = j
    BY DEF Distinct
  <2>12. e \notin ToSet(a) /\ e \notin ToSet(b)
    <3>1. \A i \in 1 .. p - 1 : i # p /\ i \in 1 .. Len(s)
      OBVIOUS
    <3>2. \A i \in p + 1 .. Len(s) : i # p /\ i \in 1 .. Len(s)
      OBVIOUS
    <3> QED  BY <3>1, <3>2, <2>1, <2>7, <2>8, <2>11
  <2>13. ToSet(a) \cup ToSet(b) = ToSet(s) \ {e}
    BY <2>1, <2>7, <2>8, <2>9, <2>10, <2>12
  <2>14. ToSet(a) \cap ToSet(b) = {}
    <3>1. \A i \in 1 .. p - 1, j \in p + 1 .. Len(s) : i # j /\ i \in 1 .. Len(s) /\ j \in 1 .. Len(s)
      OBVIOUS
    <3>2. \A i \in 1 .. p - 1, j \in p + 1 .. Len(s) : s[i] # s[j]
      BY <3>1, <2>11
    <3> QED  BY <3>2, <2>7, <2>8
  <2>15. a \o b \in Seq(T) /\ ToSet(a \o b) = ToSet(a) \cup ToSet(b) /\ Distinct(a \o b)
    BY <2>5, <2>6, <2>14, ConcatFacts
  <2> QED  BY <2>3, <2>13, <2>15 DEF a, b
<1> QED  BY <1>1, <1>2

LEMMA ReverseFacts ==
  ASSUME NEW T, NEW s \in Seq(T)
  PROVE  Reverse(s) \in Seq(T) /\ Len(Reverse(s)) = Len(s) /\ ToSet(Reverse(s)) = ToSet(s)
<1> DEFINE n == Len(s)
           b == Reverse(s)
<1>0. n \in Nat /\ \A i \in 1 .. n : s[i] \in T
  OBVIOUS
<1>1. b = [i \in 1 .. n |-> s[(n - i) + 1]]
  BY DEF Reverse
<1>2. \A i \in 1 .. n : (n - i) + 1 \in 1 .. n
  BY <1>0
<1>3. b \in [1 .. n -> T]
  BY <1>0, <1>1, <1>2
<1>4. b \in Seq(T) /\ Len(b) = n
  BY <1>0, <1>3
<1> HIDE DEF b
<1>5. \A x : x \in ToSet(b) <=> \E i \in 1 .. n : b[i] = x
  BY <1>4, ToSetFacts
<1>6. \A x : x \in ToSet(s) <=> \E i \in 1 .. n : s[i] = x
  BY ToSetFacts
<1>7. ASSUME NEW i \in 1 .. n PROVE \E j \in 1 .. n : b[j] = s[i]
  <2>1. (n - i) + 1 \in 1 .. n /\ (n - ((n - i) + 1)) + 1 = i
    BY <1>0
  <2>2. b[(n - i) + 1] = s[(n - ((n - i) + 1)) + 1]
    BY <2>1, <1>1
  <2> QED  BY <2>1, <2>2
<1>8. ASSUME NEW i \in 1 .. n PROVE \E j \in 1 .. n : s[j] = b[i]
  BY <1>1, <1>2
<1>9. ToSet(b) = ToSet(s)
  BY <1>5, <1>6, <1>7, <1>8
<1> QED  BY <1>4, <1>9 DEF b

-----------------------------------------------------------------------------
(* Items and their sizes.                                                  *)

Items(r) == ToSet(mm_features[r])

LEMMA Constants ==
  /\ IsFiniteSet(Reqs) /\ \A r \in Reqs : mm_features[r] \in Seq(Features) /\ NumTokens[r] \in Nat
  /\ MaxEncoderInputTokens \in Nat /\ MaxFailures \in Nat
  /\ CacheSize \in Nat /\ CacheSize > 0 /\ BlockSize \in Nat /\ BlockSize > 0
  /\ MaxNumScheduledTokens \in Nat /\ MaxNumScheduledTokens > 0
<1>1. IsFiniteSet(Reqs) /\ mm_features \in [Reqs -> Seq(Features)] /\ NumTokens \in [Reqs -> Nat]
  BY EncoderAssumption, Zenon DEF EncoderAssumption
<1>2. \A r \in Reqs : mm_features[r] \in Seq(Features) /\ NumTokens[r] \in Nat
  BY <1>1
<1>3. {MaxEncoderInputTokens, MaxFailures} \subseteq Nat
  BY EncoderAssumption, Zenon DEF EncoderAssumption
<1>4. {CacheSize, MaxNumScheduledTokens, BlockSize, BatchQueueSize} \subseteq Nat \ {0}
  BY EncoderAssumption, Zenon DEF EncoderAssumption
<1> QED  BY <1>1, <1>2, <1>3, <1>4

LEMMA HashesFinite == IsFiniteSet(Features) /\ IsFiniteSet(Hashes)
<1>1. \A r \in Reqs : IsFiniteSet(Items(r))
  <2> TAKE r \in Reqs
  <2>1. PICK s \in Seq(Features) : s = mm_features[r]
    BY Constants
  <2>2. PICK n \in Nat : n = Len(s)
    OBVIOUS
  <2> DEFINE f == [i \in 1 .. n |-> s[i]]
  <2>3. \A x : x \in ToSet(s) <=> \E i \in 1 .. n : s[i] = x
    BY <2>2, ToSetFacts
  <2>4. f \in Surjection(1 .. n, ToSet(s))
    BY <2>3, Zenon DEF Surjection
  <2>5. IsFiniteSet(1 .. n)
    BY FS_Interval
  <2> HIDE DEF f
  <2> QED  BY <2>1, <2>4, <2>5, FS_Surjection DEF Items
<1> DEFINE P == {Items(r) : r \in Reqs}
<1>2. IsFiniteSet(P)
  <2> DEFINE g == [r \in Reqs |-> Items(r)]
  <2>1. g \in Surjection(Reqs, P)
    BY Zenon DEF Surjection
  <2> HIDE DEF g, P
  <2> QED  BY <2>1, Constants, FS_Surjection
<1>3. Features = UNION P
  BY Zenon DEF Features, Items
<1>4. IsFiniteSet(Features)
  <2>1. \A S \in P : IsFiniteSet(S)
    BY <1>1
  <2> HIDE DEF P
  <2> QED  BY <2>1, <1>2, <1>3, FS_UNION
<1>5. IsFiniteSet(Hashes)
  <2> DEFINE g == [f \in Features |-> f.mm_hash]
  <2>1. g \in Surjection(Features, Hashes)
    BY Zenon DEF Surjection, Hashes
  <2> HIDE DEF g
  <2> QED  BY <2>1, <1>4, FS_Surjection
<1> QED  BY <1>4, <1>5

LEMMA ItemFacts ==
  ASSUME NEW f \in Features
  PROVE  /\ f.offset \in Nat /\ f.length \in Nat /\ f.mm_hash \in Hashes
         /\ f.is_embed = NoMask \/ f.is_embed \in SUBSET (0 .. f.length - 1)
         /\ get_num_embeds(f) \in Nat /\ get_num_embeds(f) <= CacheSize
         /\ get_num_embeds(f) <= MaxEncoderInputTokens
         /\ Embeds(f.mm_hash) = get_num_embeds(f)
<1>1. f.offset \in Nat /\ f.length \in Nat /\ (f.is_embed = NoMask \/ f.is_embed \in SUBSET (0 .. f.length - 1))
  BY EncoderAssumption, Zenon DEF EncoderAssumption
<1>2. f.mm_hash \in Hashes
  BY DEF Hashes
<1>3. get_num_embeds(f) \in Nat
  <2>1. CASE f.is_embed = NoMask
    BY <2>1, <1>1 DEF get_num_embeds
  <2>2. CASE f.is_embed # NoMask
    <3>1. PICK n \in Nat : n = f.length
      BY <1>1
    <3>2. IsFiniteSet(0 .. n - 1)
      BY FS_Interval
    <3>3. Cardinality(f.is_embed) \in Nat
      BY <2>2, <1>1, <3>1, <3>2, FS_Subset, FS_CardinalityType
    <3> QED  BY <2>2, <3>3 DEF get_num_embeds
  <2> QED  BY <2>1, <2>2
<1>4. get_num_embeds(f) <= CacheSize /\ get_num_embeds(f) <= MaxEncoderInputTokens
  BY EncoderAssumption, Zenon DEF EncoderAssumption
<1>5. Embeds(f.mm_hash) = get_num_embeds(f)
  <2> DEFINE g == CHOOSE g \in Features : g.mm_hash = f.mm_hash
  <2>1. g \in Features /\ g.mm_hash = f.mm_hash
    BY Zenon
  <2>2. Embeds(f.mm_hash) = get_num_embeds(g)
    BY Zenon DEF Embeds
  <2> HIDE DEF g
  <2>3. get_num_embeds(g) = get_num_embeds(f)
    BY <2>1, EncoderAssumption, Zenon DEF EncoderAssumption
  <2> QED  BY <2>2, <2>3
<1> QED  BY <1>1, <1>2, <1>3, <1>4, <1>5

LEMMA EmbedsFacts ==
  ASSUME NEW h \in Hashes
  PROVE  Embeds(h) \in Nat /\ Embeds(h) <= CacheSize
<1>1. PICK f \in Features : f.mm_hash = h
  BY DEF Hashes
<1> QED  BY <1>1, ItemFacts

LEMMA CellsFinite ==
  ASSUME NEW A \in SUBSET Hashes
  PROVE  IsFiniteSet(Cells(A))
<1>1. IsFiniteSet(A)
  BY HashesFinite, FS_Subset
<1>2. PICK n \in Nat : n = CacheSize
  BY Constants
<1>3. IsFiniteSet(1 .. n)
  BY FS_Interval
<1>4. IsFiniteSet(A \X (1 .. n))
  BY <1>1, <1>3, FS_Product
<1>5. Cells(A) \in SUBSET (A \X (1 .. n))
  BY <1>2 DEF Cells
<1> QED  BY <1>4, <1>5, FS_Subset

LEMMA SlotsNat ==
  ASSUME NEW A \in SUBSET Hashes
  PROVE  Slots(A) \in Nat
<1> QED  BY CellsFinite, FS_CardinalityType DEF Slots

LEMMA SlotsEmpty == Slots({}) = 0
<1>1. Cells({}) = {}
  BY DEF Cells
<1> QED  BY <1>1, FS_EmptySet DEF Slots

(* Slots count the cells of disjoint sets of entries separately.           *)
LEMMA SlotsUnion ==
  ASSUME NEW A \in SUBSET Hashes, NEW B \in SUBSET Hashes, A \cap B = {}
  PROVE  Slots(A \cup B) = Slots(A) + Slots(B)
<1>1. Cells(A \cup B) = Cells(A) \cup Cells(B)
  BY DEF Cells
<1>2. Cells(A) \cap Cells(B) = {}
  <2> SUFFICES ASSUME NEW c \in Cells(A), c \in Cells(B) PROVE FALSE
    OBVIOUS
  <2>1. c \in A \X (1 .. CacheSize) /\ c \in B \X (1 .. CacheSize)
    BY DEF Cells
  <2>2. c[1] \in A /\ c[1] \in B
    BY <2>1
  <2> QED  BY <2>2
<1>3. IsFiniteSet(Cells(A)) /\ IsFiniteSet(Cells(B))
  BY CellsFinite
<1>4. Cardinality(Cells(A) \cup Cells(B)) =
        Cardinality(Cells(A)) + Cardinality(Cells(B)) - Cardinality(Cells(A) \cap Cells(B))
  BY <1>3, FS_Union
<1>5. Cardinality(Cells(A) \cap Cells(B)) = 0
  BY <1>2, FS_EmptySet
<1>6. Cardinality(Cells(A)) \in Nat /\ Cardinality(Cells(B)) \in Nat
  BY <1>3, FS_CardinalityType
<1>7. Slots(A \cup B) = Cardinality(Cells(A) \cup Cells(B))
  BY <1>1, Zenon DEF Slots
<1> QED  BY <1>4, <1>5, <1>6, <1>7 DEF Slots

LEMMA SlotsOne ==
  ASSUME NEW h \in Hashes
  PROVE  Slots({h}) = Embeds(h)
<1>1. PICK n \in Nat : n = Embeds(h)
  BY EmbedsFacts
<1>2. n <= CacheSize /\ CacheSize \in Nat
  BY <1>1, EmbedsFacts, Constants
<1> DEFINE f == [i \in 1 .. n |-> <<h, i>>]
<1>3. Cells({h}) = {<<h, i>> : i \in 1 .. n}
  <2>1. ASSUME NEW c \in Cells({h}) PROVE c \in {<<h, i>> : i \in 1 .. n}
    <3>1. c \in {h} \X (1 .. CacheSize) /\ c[2] <= Embeds(c[1])
      BY DEF Cells
    <3>2. c = <<h, c[2]>> /\ c[1] = h /\ c[2] \in 1 .. CacheSize
      BY <3>1
    <3>3. c[2] \in 1 .. n
      BY <3>1, <3>2, <1>1, <1>2
    <3> QED  BY <3>2, <3>3
  <2>2. ASSUME NEW i \in 1 .. n PROVE <<h, i>> \in Cells({h})
    <3>1. i \in 1 .. CacheSize /\ i <= Embeds(h)
      BY <1>1, <1>2
    <3> QED  BY <3>1 DEF Cells
  <2> QED  BY <2>1, <2>2
<1>4. f \in Surjection(1 .. n, Cells({h}))
  BY <1>3, Zenon DEF Surjection
<1>5. f \in Injection(1 .. n, Cells({h}))
  <2>1. f \in [1 .. n -> Cells({h})]
    BY <1>3
  <2>2. IsInjective(f)
    BY DEF IsInjective
  <2> HIDE DEF f
  <2> QED  BY <2>1, <2>2, Zenon DEF Injection
<1>6. IsFiniteSet(1 .. n) /\ Cardinality(1 .. n) = n
  BY FS_Interval
<1> HIDE DEF f
<1>7. Cardinality(Cells({h})) = Cardinality(1 .. n)
  BY <1>4, <1>5, <1>6, FS_Surjection
<1> QED  BY <1>1, <1>6, <1>7 DEF Slots

LEMMA SlotsAdd ==
  ASSUME NEW A \in SUBSET Hashes, NEW h \in Hashes, h \notin A
  PROVE  Slots(A \cup {h}) = Slots(A) + Embeds(h)
<1>1. {h} \in SUBSET Hashes /\ A \cap {h} = {}
  OBVIOUS
<1> QED  BY <1>1, SlotsUnion, SlotsOne

LEMMA SlotsRemove ==
  ASSUME NEW A \in SUBSET Hashes, NEW h \in A
  PROVE  Slots(A) = Slots(A \ {h}) + Embeds(h)
<1> DEFINE B == A \ {h}
<1>1. B \in SUBSET Hashes /\ h \in Hashes /\ h \notin B /\ A = B \cup {h}
  OBVIOUS
<1> HIDE DEF B
<1>2. Slots(B \cup {h}) = Slots(B) + Embeds(h)
  BY <1>1, SlotsAdd
<1> QED  BY <1>1, <1>2 DEF B

LEMMA SlotsSubset ==
  ASSUME NEW A \in SUBSET Hashes, NEW B \in SUBSET A
  PROVE  Slots(A) = Slots(B) + Slots(A \ B) /\ Slots(B) <= Slots(A)
<1> DEFINE C == A \ B
<1>1. B \in SUBSET Hashes /\ C \in SUBSET Hashes /\ B \cap C = {} /\ A = B \cup C
  OBVIOUS
<1> HIDE DEF C
<1>2. Slots(A) = Slots(B) + Slots(C)
  BY <1>1, SlotsUnion
<1>3. Slots(B) \in Nat /\ Slots(C) \in Nat
  BY <1>1, SlotsNat
<1> QED  BY <1>2, <1>3 DEF C

(* The fields of the manager, and a manager whose books balance.           *)
Dicts == UNION {[D -> SUBSET Reqs] : D \in SUBSET Hashes}

Managers ==
  [cached : Dicts, freeable : Seq(Hashes), freed : SUBSET Hashes,
   num_free_slots : Nat, num_freeable_slots : Nat]

Sound(m) == m \in Managers /\ Balanced(m)

(* What it means that the books of a manager balance, and how to show it.  *)
LEMMA SoundFacts ==
  ASSUME NEW m, Sound(m)
  PROVE  /\ DOMAIN m.cached \in SUBSET Hashes /\ m.cached \in [DOMAIN m.cached -> SUBSET Reqs]
         /\ m.freeable \in Seq(Hashes) /\ m.freed \in SUBSET Hashes
         /\ m.num_free_slots \in Nat /\ m.num_freeable_slots \in Nat
         /\ m = [cached |-> m.cached, freeable |-> m.freeable, freed |-> m.freed,
                 num_free_slots |-> m.num_free_slots, num_freeable_slots |-> m.num_freeable_slots]
         /\ Distinct(m.freeable)
         /\ ToSet(m.freeable) \in SUBSET DOMAIN m.cached
         /\ \A h : h \in ToSet(m.freeable) <=> h \in DOMAIN m.cached /\ m.cached[h] = {}
         /\ m.num_free_slots = CacheSize - Slots(DOMAIN m.cached)
         /\ m.num_freeable_slots = m.num_free_slots + Slots(ToSet(m.freeable))
<1>1. m \in Managers
  BY DEF Sound
<1>2. /\ m.cached \in Dicts
      /\ m.freeable \in Seq(Hashes) /\ m.freed \in SUBSET Hashes
      /\ m.num_free_slots \in Nat /\ m.num_freeable_slots \in Nat
  BY <1>1 DEF Managers
<1>3. m = [cached |-> m.cached, freeable |-> m.freeable, freed |-> m.freed,
           num_free_slots |-> m.num_free_slots, num_freeable_slots |-> m.num_freeable_slots]
  BY <1>1 DEF Managers
<1>4. DOMAIN m.cached \in SUBSET Hashes /\ m.cached \in [DOMAIN m.cached -> SUBSET Reqs]
  BY <1>2 DEF Dicts
<1>5. Balanced(m)
  BY DEF Sound
<1>6. Distinct(m.freeable)
  BY <1>2, <1>5, InjectiveDistinct DEF Balanced
<1>7. ToSet(m.freeable) = {h \in DOMAIN m.cached : m.cached[h] = {}}
  BY <1>5, Zenon DEF Balanced
<1>8. /\ m.num_free_slots = CacheSize - Slots(DOMAIN m.cached)
      /\ m.num_freeable_slots = m.num_free_slots + Slots(ToSet(m.freeable))
  BY <1>5, Zenon DEF Balanced
<1> QED  BY <1>2, <1>3, <1>4, <1>6, <1>7, <1>8

LEMMA MakeSound ==
  ASSUME NEW m,
         m = [cached |-> m.cached, freeable |-> m.freeable, freed |-> m.freed,
              num_free_slots |-> m.num_free_slots, num_freeable_slots |-> m.num_freeable_slots],
         DOMAIN m.cached \in SUBSET Hashes, m.cached \in [DOMAIN m.cached -> SUBSET Reqs],
         m.freeable \in Seq(Hashes), Distinct(m.freeable),
         \A h : h \in ToSet(m.freeable) <=> h \in DOMAIN m.cached /\ m.cached[h] = {},
         m.freed \in SUBSET Hashes, m.num_free_slots \in Nat,
         m.num_free_slots = CacheSize - Slots(DOMAIN m.cached),
         m.num_freeable_slots = m.num_free_slots + Slots(ToSet(m.freeable))
  PROVE  Sound(m)
<1>1. /\ ToSet(m.freeable) \in SUBSET Hashes
      /\ ToSet(m.freeable) = {h \in DOMAIN m.cached : m.cached[h] = {}}
  OBVIOUS
<1>2. m.num_freeable_slots \in Nat
  BY <1>1, SlotsNat
<1>3. m.cached \in Dicts
  BY DEF Dicts
<1>4. m \in Managers
  <2>1. PICK c \in Dicts, q \in Seq(Hashes), fr \in SUBSET Hashes, nf \in Nat, nb \in Nat :
          /\ c = m.cached /\ q = m.freeable /\ fr = m.freed /\ nf = m.num_free_slots
          /\ nb = m.num_freeable_slots
    BY <1>2, <1>3
  <2>2. m = [cached |-> c, freeable |-> q, freed |-> fr, num_free_slots |-> nf, num_freeable_slots |-> nb]
    BY <2>1
  <2> QED  BY <2>2 DEF Managers
<1>5. IsInjective(m.freeable)
  BY InjectiveDistinct
<1>6. Balanced(m)
  BY <1>1, <1>5, Zenon DEF Balanced
<1> QED  BY <1>4, <1>6 DEF Sound

LEMMA EmptySound == Sound(EmptyManager)
<1> DEFINE m == EmptyManager
<1>1. << >> \in [{} -> SUBSET Reqs] /\ << >> \in Seq(Hashes) /\ DOMAIN << >> = {}
  OBVIOUS
<1>2. Distinct(<< >>)
  BY DEF Distinct
<1>3. \A h : h \notin ToSet(<< >>)
  BY <1>1, ToSetFacts
<1>4. ToSet(<< >>) = {}
  BY <1>3
<1>5. PICK n \in Nat : n = CacheSize
  BY Constants
<1>6. PICK e : e = << >>
  OBVIOUS
<1>7. m = [cached |-> e, freeable |-> e, freed |-> {}, num_free_slots |-> n, num_freeable_slots |-> n]
  BY <1>5, <1>6, Zenon DEF EmptyManager
<1>8. /\ e \in [{} -> SUBSET Reqs] /\ e \in Seq(Hashes) /\ DOMAIN e = {} /\ Distinct(e)
      /\ (\A h : h \notin ToSet(e)) /\ Slots(ToSet(e)) = 0
  BY <1>1, <1>2, <1>3, <1>4, <1>6, SlotsEmpty, Zenon
<1> HIDE <1>6 DEF m
<1>9. /\ m.cached = e /\ m.freeable = e /\ m.freed = {} /\ m.num_free_slots = n /\ m.num_freeable_slots = n
      /\ DOMAIN m.cached = {}
  BY <1>7, <1>8
<1>10. n = CacheSize - Slots(DOMAIN m.cached) /\ n = n + Slots(ToSet(e))
  <2>1. Slots(DOMAIN m.cached) = 0
    BY <1>9, SlotsEmpty, Zenon
  <2> QED  BY <2>1, <1>5, <1>8
<1>11. Sound(m)
  BY <1>7, <1>8, <1>9, <1>10, MakeSound
<1> QED  BY <1>11 DEF m

(* check_and_update_cache behind a hit.                                    *)
LEMMA TouchEffect ==
  ASSUME NEW m, Sound(m), NEW r \in Reqs, NEW f \in Features, f.mm_hash \in DOMAIN m.cached,
         NEW t, t = touch(m, r, f)
  PROVE  /\ Sound(t) /\ t.freed = m.freed /\ t.num_free_slots = m.num_free_slots
         /\ DOMAIN t.cached = DOMAIN m.cached
         /\ \A h \in DOMAIN m.cached : \A q :
              q \in t.cached[h] <=> q \in m.cached[h] \/ (h = f.mm_hash /\ q = r)
<1> DEFINE h0 == f.mm_hash
           D == DOMAIN m.cached
           c == [m.cached EXCEPT ![h0] = @ \cup {r}]
           q == IF m.cached[h0] # {} THEN m.freeable ELSE RemoveFirst(m.freeable, h0)
           nb == IF m.cached[h0] # {} THEN m.num_freeable_slots
                 ELSE m.num_freeable_slots - get_num_embeds(f)
<1>0. h0 \in D /\ D \in SUBSET Hashes /\ m.cached \in [D -> SUBSET Reqs]
  BY SoundFacts
<1>1. c \in [D -> SUBSET Reqs] /\ \A h \in D : c[h] = IF h = h0 THEN m.cached[h] \cup {r} ELSE m.cached[h]
  BY <1>0
<1>2. t = [cached |-> c, freeable |-> q, freed |-> m.freed,
           num_free_slots |-> m.num_free_slots, num_freeable_slots |-> nb]
  <2>1. m = [cached |-> m.cached, freeable |-> m.freeable, freed |-> m.freed,
             num_free_slots |-> m.num_free_slots, num_freeable_slots |-> m.num_freeable_slots]
    BY SoundFacts
  <2>2. CASE m.cached[h0] # {}
    <3>1. t = [m EXCEPT !.cached[h0] = @ \cup {r}]
      BY <2>2 DEF touch
    <3>2. t = [m EXCEPT !.cached = c]
      BY <3>1
    <3> HIDE DEF c
    <3> QED  BY <2>1, <2>2, <3>2
  <2>3. CASE m.cached[h0] = {}
    <3> DEFINE m1 == [m EXCEPT !.freeable = RemoveFirst(@, h0), !.num_freeable_slots = @ - get_num_embeds(f)]
    <3>1. t = [m1 EXCEPT !.cached[h0] = @ \cup {r}]
      BY <2>3, Zenon DEF touch
    <3>0. q = RemoveFirst(m.freeable, h0) /\ nb = m.num_freeable_slots - get_num_embeds(f)
      BY <2>3
    <3>2. m1 = [cached |-> m.cached, freeable |-> q, freed |-> m.freed,
                num_free_slots |-> m.num_free_slots, num_freeable_slots |-> nb]
      <4>1. m1 = [m EXCEPT !.freeable = q, !.num_freeable_slots = nb]
        BY <3>0, Zenon
      <4> HIDE DEF q, nb, h0, c, m1
      <4> QED  BY <2>1, <4>1
    <3> HIDE DEF m1, q, nb
    <3>3. t = [m1 EXCEPT !.cached = c]
      BY <3>1, <3>2
    <3> HIDE DEF c
    <3> QED  BY <3>2, <3>3
  <2> QED  BY <2>2, <2>3
<1>3. q \in Seq(Hashes) /\ Distinct(q) /\ ToSet(q) = ToSet(m.freeable) \ {h0}
  <2>1. CASE m.cached[h0] # {}
    <3>1. h0 \notin ToSet(m.freeable) /\ q = m.freeable
      BY <2>1, SoundFacts
    <3> QED  BY <3>1, SoundFacts
  <2>2. CASE m.cached[h0] = {}
    <3>1. q = RemoveFirst(m.freeable, h0) /\ m.freeable \in Seq(Hashes) /\ Distinct(m.freeable)
      BY <2>2, SoundFacts
    <3> HIDE DEF q
    <3> QED  BY <3>1, RemoveFirstFacts
  <2> QED  BY <2>1, <2>2
<1>4. nb = m.num_free_slots + Slots(ToSet(q))
  <2>1. CASE m.cached[h0] # {}
    BY <2>1, SoundFacts
  <2>2. CASE m.cached[h0] = {}
    <3>1. h0 \in ToSet(m.freeable) /\ ToSet(m.freeable) \in SUBSET Hashes
      BY <2>2, <1>0, SoundFacts
    <3>2. Slots(ToSet(m.freeable)) = Slots(ToSet(m.freeable) \ {h0}) + Embeds(h0)
      BY <3>1, SlotsRemove
    <3>3. Slots(ToSet(m.freeable) \ {h0}) \in Nat
      BY <3>1, SlotsNat
    <3>4. Embeds(h0) = get_num_embeds(f) /\ get_num_embeds(f) \in Nat
      BY ItemFacts
    <3>5. m.num_freeable_slots = m.num_free_slots + Slots(ToSet(m.freeable)) /\ m.num_free_slots \in Nat
      BY SoundFacts
    <3>6. nb = m.num_freeable_slots - get_num_embeds(f)
      BY <2>2
    <3> HIDE DEF q, nb, h0
    <3>7. Slots(ToSet(q)) = Slots(ToSet(m.freeable) \ {h0})
      BY <1>3
    <3> QED  BY <3>2, <3>3, <3>4, <3>5, <3>6, <3>7
  <2> QED  BY <2>1, <2>2
<1>5. \A h : h \in ToSet(q) <=> h \in D /\ c[h] = {}
  <2>1. \A h : h \in ToSet(m.freeable) <=> h \in D /\ m.cached[h] = {}
    BY SoundFacts
  <2>2. c[h0] # {}
    BY <1>0, <1>1
  <2> HIDE DEF q, c, h0
  <2> QED  BY <2>1, <2>2, <1>0, <1>1, <1>3
<1>6. m.freed \in SUBSET Hashes /\ m.num_free_slots \in Nat /\ m.num_free_slots = CacheSize - Slots(D)
  BY SoundFacts
<1> HIDE DEF q, nb, c, D, h0
<1>8. /\ t.cached = c /\ t.freeable = q /\ t.freed = m.freed /\ t.num_free_slots = m.num_free_slots
      /\ t.num_freeable_slots = nb /\ DOMAIN c = D
  BY <1>1, <1>2
<1>7. Sound(t)
  BY <1>0, <1>1, <1>2, <1>3, <1>4, <1>5, <1>6, <1>8, MakeSound
<1> QED  BY <1>1, <1>7, <1>8 DEF D, h0

(* free_encoder_input.                                                     *)
LEMMA FreeEffect ==
  ASSUME NEW m, Sound(m), NEW r \in Reqs, NEW f \in Features,
         NEW t, t = free_encoder_input(m, r, f)
  PROVE  /\ Sound(t) /\ t.freed = m.freed /\ t.num_free_slots = m.num_free_slots
         /\ DOMAIN t.cached = DOMAIN m.cached
         /\ \A h \in DOMAIN m.cached : \A q :
              q \in t.cached[h] <=> q \in m.cached[h] /\ ~(h = f.mm_hash /\ q = r)
<1> DEFINE h0 == f.mm_hash
           D == DOMAIN m.cached
<1>1. CASE h0 \notin D \/ m.cached[h0] = {}
  <2>1. t = m
    BY <1>1, Zenon DEF free_encoder_input
  <2> QED  BY <2>1, <1>1
<1>2. CASE h0 \in D /\ m.cached[h0] # {}
  <2> DEFINE c == [m.cached EXCEPT ![h0] = @ \ {r}]
             q == IF c[h0] # {} THEN m.freeable ELSE Append(m.freeable, h0)
             nb == IF c[h0] # {} THEN m.num_freeable_slots
                   ELSE m.num_freeable_slots + get_num_embeds(f)
             m1 == [m EXCEPT !.cached[h0] = @ \ {r}]
  <2>0. h0 \in D /\ D \in SUBSET Hashes /\ m.cached \in [D -> SUBSET Reqs] /\ h0 \in Hashes
    BY <1>2, SoundFacts
  <2>1. c \in [D -> SUBSET Reqs] /\ \A h \in D : c[h] = IF h = h0 THEN m.cached[h] \ {r} ELSE m.cached[h]
    BY <2>0
  <2>2. t = IF m1.cached[h0] # {} THEN m1
            ELSE [m1 EXCEPT !.freeable = Append(@, h0), !.num_freeable_slots = @ + get_num_embeds(f)]
    BY <1>2, Zenon DEF free_encoder_input, Unreferenced
  <2>3. m1 = [cached |-> c, freeable |-> m.freeable, freed |-> m.freed,
              num_free_slots |-> m.num_free_slots, num_freeable_slots |-> m.num_freeable_slots]
    <3>1. m = [cached |-> m.cached, freeable |-> m.freeable, freed |-> m.freed,
               num_free_slots |-> m.num_free_slots, num_freeable_slots |-> m.num_freeable_slots]
      BY SoundFacts
    <3>2. m1 = [m EXCEPT !.cached = c]
      BY <3>1
    <3> HIDE DEF c, m1
    <3> QED  BY <3>1, <3>2
  <2>4. t = [cached |-> c, freeable |-> q, freed |-> m.freed,
             num_free_slots |-> m.num_free_slots, num_freeable_slots |-> nb]
    <3>1. m1.cached = c
      BY <2>3
    <3> HIDE DEF m1, c
    <3> QED  BY <2>2, <2>3, <3>1
  <2>5. h0 \notin ToSet(m.freeable)
    BY <1>2, SoundFacts
  <2>6. CASE c[h0] # {}
    <3>1. q = m.freeable /\ nb = m.num_freeable_slots
      BY <2>6
    <3>2. \A h : h \in ToSet(m.freeable) <=> h \in D /\ m.cached[h] = {}
      BY SoundFacts
    <3> HIDE DEF q, nb, c
    <3>3. \A h : h \in ToSet(q) <=> h \in D /\ c[h] = {}
      BY <2>1, <2>5, <2>6, <3>1, <3>2, <1>2
    <3>4. /\ m.freed \in SUBSET Hashes /\ m.num_free_slots \in Nat /\ m.num_free_slots = CacheSize - Slots(D)
          /\ q \in Seq(Hashes) /\ Distinct(q) /\ nb = m.num_free_slots + Slots(ToSet(q))
      BY <3>1, SoundFacts
    <3> HIDE DEF D, h0
    <3>6. /\ t.cached = c /\ t.freeable = q /\ t.freed = m.freed /\ t.num_free_slots = m.num_free_slots
          /\ t.num_freeable_slots = nb /\ DOMAIN c = D
      BY <2>1, <2>4
    <3>5. Sound(t)
      BY <2>0, <2>1, <2>4, <3>3, <3>4, <3>6, MakeSound
    <3> QED  BY <2>1, <3>5, <3>6 DEF D, h0
  <2>7. CASE c[h0] = {}
    <3>1. q = Append(m.freeable, h0) /\ nb = m.num_freeable_slots + get_num_embeds(f)
      BY <2>7
    <3>2. \A h : h \in ToSet(m.freeable) <=> h \in D /\ m.cached[h] = {}
      BY SoundFacts
    <3>3. m.freeable \in Seq(Hashes) /\ Distinct(m.freeable)
      BY SoundFacts
    <3> HIDE DEF q, nb, c
    <3>4. q \in Seq(Hashes) /\ Distinct(q) /\ ToSet(q) = ToSet(m.freeable) \cup {h0}
      BY <2>0, <2>5, <3>1, <3>3, AppendFacts
    <3>5. \A h : h \in ToSet(q) <=> h \in D /\ c[h] = {}
      BY <2>1, <2>7, <3>2, <3>4, <2>0
    <3>6. /\ m.freed \in SUBSET Hashes /\ m.num_free_slots \in Nat /\ m.num_free_slots = CacheSize - Slots(D)
          /\ m.num_freeable_slots = m.num_free_slots + Slots(ToSet(m.freeable))
      BY SoundFacts
    <3>7. nb = m.num_free_slots + Slots(ToSet(q))
      <4>1. ToSet(m.freeable) \in SUBSET Hashes
        BY SoundFacts
      <4>2. Slots(ToSet(m.freeable)) \in Nat
        BY <4>1, SlotsNat
      <4>3. Slots(ToSet(m.freeable) \cup {h0}) = Slots(ToSet(m.freeable)) + Embeds(h0)
        BY <4>1, <2>0, <2>5, SlotsAdd
      <4>4. Embeds(h0) = get_num_embeds(f) /\ get_num_embeds(f) \in Nat
        BY ItemFacts
      <4> HIDE DEF h0
      <4>5. Slots(ToSet(q)) = Slots(ToSet(m.freeable) \cup {h0})
        BY <3>4
      <4> QED  BY <3>1, <3>6, <4>2, <4>3, <4>4, <4>5
    <3> HIDE DEF D, h0
    <3>9. /\ t.cached = c /\ t.freeable = q /\ t.freed = m.freed /\ t.num_free_slots = m.num_free_slots
          /\ t.num_freeable_slots = nb /\ DOMAIN c = D
      BY <2>1, <2>4
    <3>8. Sound(t)
      BY <2>0, <2>1, <2>4, <3>4, <3>5, <3>6, <3>7, <3>9, MakeSound
    <3> QED  BY <2>1, <3>8, <3>9 DEF D, h0
  <2> QED  BY <2>6, <2>7
<1> QED  BY <1>1, <1>2

(* The eviction at the end of can_allocate.                                *)
LEMMA EvictEffect ==
  ASSUME NEW m, Sound(m), NEW need \in Nat, HasSpace(m, need), NEW t, t = evict(m, need)
  PROVE  /\ Sound(t) /\ need <= t.num_free_slots
         /\ DOMAIN t.cached \in SUBSET DOMAIN m.cached
         /\ t.freed = m.freed \cup (DOMAIN m.cached \ DOMAIN t.cached)
         /\ \A h \in DOMAIN m.cached : h \notin DOMAIN t.cached => m.cached[h] = {}
         /\ \A h \in DOMAIN t.cached : \A q : q \in t.cached[h] <=> q \in m.cached[h]
<1> DEFINE q == m.freeable
           D == DOMAIN m.cached
<1>0. /\ q \in Seq(Hashes) /\ Distinct(q) /\ D \in SUBSET Hashes
      /\ m.cached \in [D -> SUBSET Reqs] /\ m.freed \in SUBSET Hashes
      /\ m.num_free_slots \in Nat /\ m.num_free_slots = CacheSize - Slots(D)
      /\ m.num_freeable_slots = m.num_free_slots + Slots(ToSet(q))
      /\ \A h : h \in ToSet(q) <=> h \in D /\ m.cached[h] = {}
  BY SoundFacts
<1>00. Len(q) \in Nat
  BY <1>0
<1>1. PICK k \in 0 .. Len(q) :
        /\ \/ need <= m.num_free_slots + Slots(ToSet(SubSeq(q, 1, k)))
           \/ k = Len(q)
        /\ NumEvicted(m, need) = k
  <2> DEFINE K == {k \in 0 .. Len(q) : \/ need <= m.num_free_slots + Slots(ToSet(SubSeq(q, 1, k)))
                                       \/ k = Len(q)}
  <2>1. Len(q) \in K /\ K \in SUBSET Nat
    BY <1>00
  <2>2. NumEvicted(m, need) = Min(K)
    BY Zenon DEF NumEvicted
  <2>3. \E x \in K : \A y \in K : x <= y
    <3> HIDE DEF K
    <3> QED  BY <2>1, LeastNatural
  <2>4. Min(K) \in K
    <3> HIDE DEF K
    <3> QED  BY <2>3 DEF Min
  <2> QED  BY <2>2, <2>4
<1> DEFINE a == SubSeq(q, 1, k)
           b == SubSeq(q, k + 1, Len(q))
           gone == ToSet(a)
           E == D \ gone
           c == [h \in E |-> m.cached[h]]
           nf == m.num_free_slots + Slots(gone)
<1>2. /\ a \in Seq(Hashes) /\ b \in Seq(Hashes) /\ ToSet(q) = gone \cup ToSet(b)
      /\ gone \cap ToSet(b) = {} /\ Distinct(b)
  BY <1>0, SubSeqFacts
<1>3. k = Len(q) => gone = ToSet(q)
  <2> SUFFICES ASSUME k = Len(q) PROVE SubSeq(q, 1, k) = q
    OBVIOUS
  <2> QED  BY <1>0
<1>4. t = [cached |-> c, freeable |-> b, freed |-> m.freed \cup gone,
           num_free_slots |-> nf, num_freeable_slots |-> m.num_freeable_slots]
  <2>1. m = [cached |-> m.cached, freeable |-> m.freeable, freed |-> m.freed,
             num_free_slots |-> m.num_free_slots, num_freeable_slots |-> m.num_freeable_slots]
    BY SoundFacts
  <2>2. t = [m EXCEPT !.cached = Restrict(@, DOMAIN @ \ gone), !.freeable = SubSeq(@, k + 1, Len(@)),
                      !.freed = @ \cup gone, !.num_free_slots = @ + Slots(gone)]
    BY <1>1, Zenon DEF evict, Evicted
  <2>3. Restrict(m.cached, DOMAIN m.cached \ gone) = c
    BY Zenon DEF Restrict
  <2> HIDE DEF gone
  <2> QED  BY <2>1, <2>2, <2>3
<1> HIDE DEF a, b
<1>5. gone \in SUBSET D /\ gone \in SUBSET Hashes /\ E \in SUBSET Hashes /\ \A h \in gone : m.cached[h] = {}
  BY <1>0, <1>2
<1> HIDE DEF gone, q
<1>6. c \in [E -> SUBSET Reqs] /\ \A h \in E : c[h] = m.cached[h]
  BY <1>0
<1>7. \A h : h \in ToSet(b) <=> h \in E /\ c[h] = {}
  BY <1>0, <1>2, <1>5, <1>6
<1>8. Slots(D) = Slots(gone) + Slots(E) /\ Slots(gone) \in Nat /\ Slots(E) \in Nat
  BY <1>0, <1>5, SlotsSubset, SlotsNat
<1>9. nf \in Nat /\ nf = CacheSize - Slots(E)
  BY <1>0, <1>8, Constants
<1>10. Slots(ToSet(q)) = Slots(gone) + Slots(ToSet(b)) /\ Slots(ToSet(b)) \in Nat
  <2>1. ToSet(b) \in SUBSET Hashes
    BY <1>2, ToSetFacts
  <2> QED  BY <2>1, <1>2, <1>5, SlotsUnion, SlotsNat
<1>11. m.num_freeable_slots = nf + Slots(ToSet(b))
  BY <1>0, <1>8, <1>10
<1>12. need <= nf
  <2>1. need <= m.num_free_slots \/ need <= m.num_freeable_slots
    BY DEF HasSpace
  <2>2. CASE need <= m.num_free_slots
    BY <2>2, <1>0, <1>8
  <2>3. CASE need <= m.num_free_slots + Slots(gone)
    BY <2>3
  <2>4. CASE need <= m.num_freeable_slots /\ k = Len(q)
    <3>1. Slots(gone) = Slots(ToSet(q))
      BY <2>4, <1>3
    <3> QED  BY <2>4, <3>1, <1>0
  <2> QED  BY <2>1, <2>2, <2>3, <2>4, <1>1 DEF gone, a
<1>13. m.freed \cup gone \in SUBSET Hashes
  BY <1>0, <1>5
<1>14. gone = D \ E /\ E \in SUBSET D
  BY <1>5
<1> HIDE DEF E, c, nf, D
<1>16. /\ t.cached = c /\ t.freeable = b /\ t.freed = m.freed \cup gone /\ t.num_free_slots = nf
      /\ t.num_freeable_slots = m.num_freeable_slots /\ DOMAIN c = E
  BY <1>4, <1>6
<1>15. Sound(t)
  BY <1>2, <1>4, <1>5, <1>6, <1>7, <1>9, <1>11, <1>13, <1>16, MakeSound
<1> QED  BY <1>5, <1>6, <1>12, <1>14, <1>15, <1>16 DEF D

(* allocate, of an entry that is not there.                                *)
LEMMA AllocateEffect ==
  ASSUME NEW m, Sound(m), NEW r \in Reqs, NEW f \in Features, f.mm_hash \notin DOMAIN m.cached,
         get_num_embeds(f) <= m.num_free_slots, NEW t, t = allocate(m, r, f)
  PROVE  /\ Sound(t) /\ t.freed = m.freed
         /\ t.num_free_slots = m.num_free_slots - get_num_embeds(f)
         /\ DOMAIN t.cached = DOMAIN m.cached \cup {f.mm_hash}
         /\ t.cached[f.mm_hash] = {r}
         /\ \A h \in DOMAIN m.cached : t.cached[h] = m.cached[h]
<1> DEFINE h0 == f.mm_hash
           D == DOMAIN m.cached
           E == D \cup {h0}
           c == [x \in E |-> IF x = h0 THEN {r} ELSE m.cached[x]]
           nf == m.num_free_slots - get_num_embeds(f)
           nb == m.num_freeable_slots - get_num_embeds(f)
<1>0. /\ m.freeable \in Seq(Hashes) /\ Distinct(m.freeable) /\ D \in SUBSET Hashes
      /\ m.cached \in [D -> SUBSET Reqs] /\ m.freed \in SUBSET Hashes
      /\ m.num_free_slots \in Nat /\ m.num_free_slots = CacheSize - Slots(D)
      /\ m.num_freeable_slots = m.num_free_slots + Slots(ToSet(m.freeable))
      /\ \A h : h \in ToSet(m.freeable) <=> h \in D /\ m.cached[h] = {}
  BY SoundFacts
<1>1. h0 \in Hashes /\ Embeds(h0) = get_num_embeds(f) /\ get_num_embeds(f) \in Nat
  BY ItemFacts
<1>2. t = [cached |-> c, freeable |-> m.freeable, freed |-> m.freed,
           num_free_slots |-> nf, num_freeable_slots |-> nb]
  <2>1. m = [cached |-> m.cached, freeable |-> m.freeable, freed |-> m.freed,
             num_free_slots |-> m.num_free_slots, num_freeable_slots |-> m.num_freeable_slots]
    BY SoundFacts
  <2> DEFINE c1 == [x \in DOMAIN m.cached \cup {h0} |-> IF x = h0 THEN {} \cup {r} ELSE m.cached[x]]
  <2>2. t = [m EXCEPT !.cached = c1, !.num_free_slots = @ - get_num_embeds(f),
                      !.num_freeable_slots = @ - get_num_embeds(f)]
    BY DEF allocate
  <2>3. c1 = c
    OBVIOUS
  <2> HIDE DEF c, c1
  <2> QED  BY <2>1, <2>2, <2>3
<1>3. /\ E \in SUBSET Hashes /\ c \in [E -> SUBSET Reqs] /\ h0 \notin D
      /\ \A h \in D : c[h] = m.cached[h]
  BY <1>0, <1>1
<1>4. c[h0] = {r}
  OBVIOUS
<1>5. Slots(E) = Slots(D) + Embeds(h0) /\ Slots(D) \in Nat
  BY <1>0, <1>1, <1>3, SlotsAdd, SlotsNat
<1>6. nf \in Nat /\ nf = CacheSize - Slots(E)
  BY <1>0, <1>1, <1>5, Constants
<1>7. Slots(ToSet(m.freeable)) \in Nat
  BY <1>0, SlotsNat, ToSetFacts
<1>8. nb = nf + Slots(ToSet(m.freeable))
  BY <1>0, <1>1, <1>7
<1>9. \A h : h \in ToSet(m.freeable) <=> h \in E /\ c[h] = {}
  BY <1>0, <1>3, <1>4
<1>10. DOMAIN c = E
  OBVIOUS
<1> HIDE DEF c, nf, nb, E
<1>11. /\ t.cached = c /\ t.freeable = m.freeable /\ t.freed = m.freed /\ t.num_free_slots = nf
      /\ t.num_freeable_slots = nb /\ DOMAIN c = E
  BY <1>2, <1>10
<1>12. Sound(t)
  BY <1>0, <1>2, <1>3, <1>6, <1>8, <1>9, <1>11, MakeSound
<1> QED  BY <1>3, <1>4, <1>11, <1>12 DEF nf, E

(* The loops of the model by name.                                         *)
FreedAll(m, s) == Fold(free, m, s)
FreedParts(m, s) == Fold(_free_encoder_inputs, m, s)
AllocatedAll(m, r, s) == Fold(LAMBDA x, f : allocate(x, r, f), m, s)
ExecutedAll(m, s) == Fold(Executed, m, s)

(* One iteration of FreeInputs.                                            *)
FreeOne(r, items, x, f) == IF f \in items THEN free_encoder_input(x, r, f) ELSE x

(* What the loops go through, position by position.                        *)
FreeInputsRun(m, r, items) ==
  CHOOSE F : F = [i \in 0 .. Len(mm_features[r]) |-> IF i = 0 THEN m ELSE FreeOne(r, items, F[i - 1], mm_features[r][i])]

(* FreeInputs: the manager after i items.                                  *)
LEMMA FreeInputsLoop ==
  ASSUME NEW m, NEW r, NEW items, NEW n \in Nat, n = Len(mm_features[r]),
         NEW F, F = FreeInputsRun(m, r, items)
  PROVE  /\ F[0] = m
         /\ \A i \in 1 .. n : F[i] = FreeOne(r, items, F[i - 1], mm_features[r][i])
         /\ FreeInputs(m, r, items) = F[n]
<1> DEFINE Runs(G, k) == G = [i \in 0 .. k |-> IF i = 0 THEN m ELSE FreeOne(r, items, G[i - 1], mm_features[r][i])]
           K == {k \in 0 .. n : \E G : Runs(G, k)}
<1>1. 0 \in K
  <2> DEFINE H == [i \in 0 .. 0 |-> m]
  <2>1. \A i \in 0 .. 0 : i = 0
    OBVIOUS
  <2>2. Runs(H, 0)
    BY <2>1, Zenon
  <2>3. 0 \in 0 .. n
    OBVIOUS
  <2> HIDE DEF H, Runs
  <2> QED  BY <2>2, <2>3, Zenon
<1>2. ASSUME NEW k \in 1 .. n, k - 1 \in K PROVE k \in K
  <2>1. PICK G : Runs(G, k - 1)
    BY <1>2, Zenon
  <2> DEFINE H == [i \in 0 .. k |-> IF i = k THEN FreeOne(r, items, G[k - 1], mm_features[r][k]) ELSE G[i]]
  <2>2. /\ \A i \in 0 .. k : i # k => i \in 0 .. k - 1
        /\ \A i \in 0 .. k : i # 0 => i - 1 \in 0 .. k /\ i - 1 # k
        /\ k # 0 /\ k \in 0 .. k /\ k \in 0 .. n
    OBVIOUS
  <2>3. \A i \in 0 .. k - 1 : G[i] = IF i = 0 THEN m ELSE FreeOne(r, items, G[i - 1], mm_features[r][i])
    <3> DEFINE g == [i \in 0 .. k - 1 |-> IF i = 0 THEN m ELSE FreeOne(r, items, G[i - 1], mm_features[r][i])]
    <3>1. G = g
      BY <2>1, Zenon
    <3>2. \A i \in 0 .. k - 1 : g[i] = IF i = 0 THEN m ELSE FreeOne(r, items, G[i - 1], mm_features[r][i])
      BY Zenon
    <3> HIDE DEF g
    <3> QED  BY <3>1, <3>2, Zenon
  <2>4. \A i \in 0 .. k : H[i] = IF i = k THEN FreeOne(r, items, G[k - 1], mm_features[r][k]) ELSE G[i]
    BY Zenon
  <2>5. DOMAIN H = 0 .. k /\ H = [i \in 0 .. k |-> H[i]]
    BY Zenon
  <2> HIDE DEF H
  <2>6. \A i \in 0 .. k : H[i] = IF i = 0 THEN m ELSE FreeOne(r, items, H[i - 1], mm_features[r][i])
    BY <2>2, <2>3, <2>4, Zenon
  <2>7. Runs(H, k)
    BY <2>5, <2>6, Zenon
  <2> HIDE DEF Runs
  <2> QED  BY <2>2, <2>7, Zenon
<1>3. \E G : Runs(G, n)
  <2>2. \A i \in 0 .. n : i \in K
    <3> HIDE DEF K
    <3> QED  BY <1>1, <1>2, SetInduction
  <2>3. n \in 0 .. n
    OBVIOUS
  <2> QED  BY <2>2, <2>3, Zenon
<1>4. F = [i \in 0 .. n |-> IF i = 0 THEN m ELSE FreeOne(r, items, F[i - 1], mm_features[r][i])]
  BY <1>3, Zenon DEF FreeInputsRun
<1>5. FreeInputs(m, r, items) = F[n]
  BY Zenon DEF Fold, FreeInputsRun, FreeInputs, FreeOne
<1>6. /\ 0 \in 0 .. n /\ n \in 0 .. n /\ \A i \in 1 .. n : i \in 0 .. n /\ i # 0
  OBVIOUS
<1>7. \A i \in 0 .. n : F[i] = IF i = 0 THEN m ELSE FreeOne(r, items, F[i - 1], mm_features[r][i])
  <2> DEFINE g == [i \in 0 .. n |-> IF i = 0 THEN m ELSE FreeOne(r, items, F[i - 1], mm_features[r][i])]
  <2>1. F = g
    BY <1>4, Zenon
  <2>2. \A i \in 0 .. n : g[i] = IF i = 0 THEN m ELSE FreeOne(r, items, F[i - 1], mm_features[r][i])
    BY Zenon
  <2> HIDE DEF g
  <2> QED  BY <2>1, <2>2, Zenon
<1> QED  BY <1>5, <1>6, <1>7, Zenon

(* The requests of s lose their references.                                *)
FreeRun(m, s) ==
  CHOOSE F : F = [i \in 0 .. Len(s) |-> IF i = 0 THEN m ELSE free(F[i - 1], s[i])]

(* Preempted: the manager after i victims.                                 *)
LEMMA FreeLoop ==
  ASSUME NEW m, NEW s, NEW n \in Nat, n = Len(s),
         NEW F, F = FreeRun(m, s)
  PROVE  /\ F[0] = m
         /\ \A i \in 1 .. n : F[i] = free(F[i - 1], s[i])
         /\ FreedAll(m, s) = F[n]
<1> DEFINE Runs(G, k) == G = [i \in 0 .. k |-> IF i = 0 THEN m ELSE free(G[i - 1], s[i])]
           K == {k \in 0 .. n : \E G : Runs(G, k)}
<1>1. 0 \in K
  <2> DEFINE H == [i \in 0 .. 0 |-> m]
  <2>1. \A i \in 0 .. 0 : i = 0
    OBVIOUS
  <2>2. Runs(H, 0)
    BY <2>1, Zenon
  <2>3. 0 \in 0 .. n
    OBVIOUS
  <2> HIDE DEF H, Runs
  <2> QED  BY <2>2, <2>3, Zenon
<1>2. ASSUME NEW k \in 1 .. n, k - 1 \in K PROVE k \in K
  <2>1. PICK G : Runs(G, k - 1)
    BY <1>2, Zenon
  <2> DEFINE H == [i \in 0 .. k |-> IF i = k THEN free(G[k - 1], s[k]) ELSE G[i]]
  <2>2. /\ \A i \in 0 .. k : i # k => i \in 0 .. k - 1
        /\ \A i \in 0 .. k : i # 0 => i - 1 \in 0 .. k /\ i - 1 # k
        /\ k # 0 /\ k \in 0 .. k /\ k \in 0 .. n
    OBVIOUS
  <2>3. \A i \in 0 .. k - 1 : G[i] = IF i = 0 THEN m ELSE free(G[i - 1], s[i])
    <3> DEFINE g == [i \in 0 .. k - 1 |-> IF i = 0 THEN m ELSE free(G[i - 1], s[i])]
    <3>1. G = g
      BY <2>1, Zenon
    <3>2. \A i \in 0 .. k - 1 : g[i] = IF i = 0 THEN m ELSE free(G[i - 1], s[i])
      BY Zenon
    <3> HIDE DEF g
    <3> QED  BY <3>1, <3>2, Zenon
  <2>4. \A i \in 0 .. k : H[i] = IF i = k THEN free(G[k - 1], s[k]) ELSE G[i]
    BY Zenon
  <2>5. DOMAIN H = 0 .. k /\ H = [i \in 0 .. k |-> H[i]]
    BY Zenon
  <2> HIDE DEF H
  <2>6. \A i \in 0 .. k : H[i] = IF i = 0 THEN m ELSE free(H[i - 1], s[i])
    BY <2>2, <2>3, <2>4, Zenon
  <2>7. Runs(H, k)
    BY <2>5, <2>6, Zenon
  <2> HIDE DEF Runs
  <2> QED  BY <2>2, <2>7, Zenon
<1>3. \E G : Runs(G, n)
  <2>2. \A i \in 0 .. n : i \in K
    <3> HIDE DEF K
    <3> QED  BY <1>1, <1>2, SetInduction
  <2>3. n \in 0 .. n
    OBVIOUS
  <2> QED  BY <2>2, <2>3, Zenon
<1>4. F = [i \in 0 .. n |-> IF i = 0 THEN m ELSE free(F[i - 1], s[i])]
  BY <1>3, Zenon DEF FreeRun
<1>5. FreedAll(m, s) = F[n]
  BY Zenon DEF Fold, FreeRun, FreedAll
<1>6. /\ 0 \in 0 .. n /\ n \in 0 .. n /\ \A i \in 1 .. n : i \in 0 .. n /\ i # 0
  OBVIOUS
<1>7. \A i \in 0 .. n : F[i] = IF i = 0 THEN m ELSE free(F[i - 1], s[i])
  <2> DEFINE g == [i \in 0 .. n |-> IF i = 0 THEN m ELSE free(F[i - 1], s[i])]
  <2>1. F = g
    BY <1>4, Zenon
  <2>2. \A i \in 0 .. n : g[i] = IF i = 0 THEN m ELSE free(F[i - 1], s[i])
    BY Zenon
  <2> HIDE DEF g
  <2> QED  BY <2>1, <2>2, Zenon
<1> QED  BY <1>5, <1>6, <1>7, Zenon

(* _update_after_schedule, over the parts of the step.                     *)
FreePartsRun(m, s) ==
  CHOOSE F : F = [i \in 0 .. Len(s) |-> IF i = 0 THEN m ELSE _free_encoder_inputs(F[i - 1], s[i])]

(* schedule_end: the manager after i parts of the step.                    *)
LEMMA FreePartsLoop ==
  ASSUME NEW m, NEW s, NEW n \in Nat, n = Len(s),
         NEW F, F = FreePartsRun(m, s)
  PROVE  /\ F[0] = m
         /\ \A i \in 1 .. n : F[i] = _free_encoder_inputs(F[i - 1], s[i])
         /\ FreedParts(m, s) = F[n]
<1> DEFINE Runs(G, k) == G = [i \in 0 .. k |-> IF i = 0 THEN m ELSE _free_encoder_inputs(G[i - 1], s[i])]
           K == {k \in 0 .. n : \E G : Runs(G, k)}
<1>1. 0 \in K
  <2> DEFINE H == [i \in 0 .. 0 |-> m]
  <2>1. \A i \in 0 .. 0 : i = 0
    OBVIOUS
  <2>2. Runs(H, 0)
    BY <2>1, Zenon
  <2>3. 0 \in 0 .. n
    OBVIOUS
  <2> HIDE DEF H, Runs
  <2> QED  BY <2>2, <2>3, Zenon
<1>2. ASSUME NEW k \in 1 .. n, k - 1 \in K PROVE k \in K
  <2>1. PICK G : Runs(G, k - 1)
    BY <1>2, Zenon
  <2> DEFINE H == [i \in 0 .. k |-> IF i = k THEN _free_encoder_inputs(G[k - 1], s[k]) ELSE G[i]]
  <2>2. /\ \A i \in 0 .. k : i # k => i \in 0 .. k - 1
        /\ \A i \in 0 .. k : i # 0 => i - 1 \in 0 .. k /\ i - 1 # k
        /\ k # 0 /\ k \in 0 .. k /\ k \in 0 .. n
    OBVIOUS
  <2>3. \A i \in 0 .. k - 1 : G[i] = IF i = 0 THEN m ELSE _free_encoder_inputs(G[i - 1], s[i])
    <3> DEFINE g == [i \in 0 .. k - 1 |-> IF i = 0 THEN m ELSE _free_encoder_inputs(G[i - 1], s[i])]
    <3>1. G = g
      BY <2>1, Zenon
    <3>2. \A i \in 0 .. k - 1 : g[i] = IF i = 0 THEN m ELSE _free_encoder_inputs(G[i - 1], s[i])
      BY Zenon
    <3> HIDE DEF g
    <3> QED  BY <3>1, <3>2, Zenon
  <2>4. \A i \in 0 .. k : H[i] = IF i = k THEN _free_encoder_inputs(G[k - 1], s[k]) ELSE G[i]
    BY Zenon
  <2>5. DOMAIN H = 0 .. k /\ H = [i \in 0 .. k |-> H[i]]
    BY Zenon
  <2> HIDE DEF H
  <2>6. \A i \in 0 .. k : H[i] = IF i = 0 THEN m ELSE _free_encoder_inputs(H[i - 1], s[i])
    BY <2>2, <2>3, <2>4, Zenon
  <2>7. Runs(H, k)
    BY <2>5, <2>6, Zenon
  <2> HIDE DEF Runs
  <2> QED  BY <2>2, <2>7, Zenon
<1>3. \E G : Runs(G, n)
  <2>2. \A i \in 0 .. n : i \in K
    <3> HIDE DEF K
    <3> QED  BY <1>1, <1>2, SetInduction
  <2>3. n \in 0 .. n
    OBVIOUS
  <2> QED  BY <2>2, <2>3, Zenon
<1>4. F = [i \in 0 .. n |-> IF i = 0 THEN m ELSE _free_encoder_inputs(F[i - 1], s[i])]
  BY <1>3, Zenon DEF FreePartsRun
<1>5. FreedParts(m, s) = F[n]
  BY Zenon DEF Fold, FreePartsRun, FreedParts
<1>6. /\ 0 \in 0 .. n /\ n \in 0 .. n /\ \A i \in 1 .. n : i \in 0 .. n /\ i # 0
  OBVIOUS
<1>7. \A i \in 0 .. n : F[i] = IF i = 0 THEN m ELSE _free_encoder_inputs(F[i - 1], s[i])
  <2> DEFINE g == [i \in 0 .. n |-> IF i = 0 THEN m ELSE _free_encoder_inputs(F[i - 1], s[i])]
  <2>1. F = g
    BY <1>4, Zenon
  <2>2. \A i \in 0 .. n : g[i] = IF i = 0 THEN m ELSE _free_encoder_inputs(F[i - 1], s[i])
    BY Zenon
  <2> HIDE DEF g
  <2> QED  BY <2>1, <2>2, Zenon
<1> QED  BY <1>5, <1>6, <1>7, Zenon

(* allocate, for every input scheduled.                                    *)
AllocateRun(m, r, s) ==
  CHOOSE F : F = [i \in 0 .. Len(s) |-> IF i = 0 THEN m ELSE allocate(F[i - 1], r, s[i])]

(* ScheduleRequest: the manager after i inputs.                            *)
LEMMA AllocateLoop ==
  ASSUME NEW m, NEW r, NEW s, NEW n \in Nat, n = Len(s),
         NEW F, F = AllocateRun(m, r, s)
  PROVE  /\ F[0] = m
         /\ \A i \in 1 .. n : F[i] = allocate(F[i - 1], r, s[i])
         /\ AllocatedAll(m, r, s) = F[n]
<1> DEFINE Runs(G, k) == G = [i \in 0 .. k |-> IF i = 0 THEN m ELSE allocate(G[i - 1], r, s[i])]
           K == {k \in 0 .. n : \E G : Runs(G, k)}
<1>1. 0 \in K
  <2> DEFINE H == [i \in 0 .. 0 |-> m]
  <2>1. \A i \in 0 .. 0 : i = 0
    OBVIOUS
  <2>2. Runs(H, 0)
    BY <2>1, Zenon
  <2>3. 0 \in 0 .. n
    OBVIOUS
  <2> HIDE DEF H, Runs
  <2> QED  BY <2>2, <2>3, Zenon
<1>2. ASSUME NEW k \in 1 .. n, k - 1 \in K PROVE k \in K
  <2>1. PICK G : Runs(G, k - 1)
    BY <1>2, Zenon
  <2> DEFINE H == [i \in 0 .. k |-> IF i = k THEN allocate(G[k - 1], r, s[k]) ELSE G[i]]
  <2>2. /\ \A i \in 0 .. k : i # k => i \in 0 .. k - 1
        /\ \A i \in 0 .. k : i # 0 => i - 1 \in 0 .. k /\ i - 1 # k
        /\ k # 0 /\ k \in 0 .. k /\ k \in 0 .. n
    OBVIOUS
  <2>3. \A i \in 0 .. k - 1 : G[i] = IF i = 0 THEN m ELSE allocate(G[i - 1], r, s[i])
    <3> DEFINE g == [i \in 0 .. k - 1 |-> IF i = 0 THEN m ELSE allocate(G[i - 1], r, s[i])]
    <3>1. G = g
      BY <2>1, Zenon
    <3>2. \A i \in 0 .. k - 1 : g[i] = IF i = 0 THEN m ELSE allocate(G[i - 1], r, s[i])
      BY Zenon
    <3> HIDE DEF g
    <3> QED  BY <3>1, <3>2, Zenon
  <2>4. \A i \in 0 .. k : H[i] = IF i = k THEN allocate(G[k - 1], r, s[k]) ELSE G[i]
    BY Zenon
  <2>5. DOMAIN H = 0 .. k /\ H = [i \in 0 .. k |-> H[i]]
    BY Zenon
  <2> HIDE DEF H
  <2>6. \A i \in 0 .. k : H[i] = IF i = 0 THEN m ELSE allocate(H[i - 1], r, s[i])
    BY <2>2, <2>3, <2>4, Zenon
  <2>7. Runs(H, k)
    BY <2>5, <2>6, Zenon
  <2> HIDE DEF Runs
  <2> QED  BY <2>2, <2>7, Zenon
<1>3. \E G : Runs(G, n)
  <2>2. \A i \in 0 .. n : i \in K
    <3> HIDE DEF K
    <3> QED  BY <1>1, <1>2, SetInduction
  <2>3. n \in 0 .. n
    OBVIOUS
  <2> QED  BY <2>2, <2>3, Zenon
<1>4. F = [i \in 0 .. n |-> IF i = 0 THEN m ELSE allocate(F[i - 1], r, s[i])]
  BY <1>3, Zenon DEF AllocateRun
<1>5. AllocatedAll(m, r, s) = F[n]
  BY Zenon DEF Fold, AllocateRun, AllocatedAll
<1>6. /\ 0 \in 0 .. n /\ n \in 0 .. n /\ \A i \in 1 .. n : i \in 0 .. n /\ i # 0
  OBVIOUS
<1>7. \A i \in 0 .. n : F[i] = IF i = 0 THEN m ELSE allocate(F[i - 1], r, s[i])
  <2> DEFINE g == [i \in 0 .. n |-> IF i = 0 THEN m ELSE allocate(F[i - 1], r, s[i])]
  <2>1. F = g
    BY <1>4, Zenon
  <2>2. \A i \in 0 .. n : g[i] = IF i = 0 THEN m ELSE allocate(F[i - 1], r, s[i])
    BY Zenon
  <2> HIDE DEF g
  <2> QED  BY <2>1, <2>2, Zenon
<1> QED  BY <1>5, <1>6, <1>7, Zenon

(* The variables of the loop before its first iteration.                   *)
Before(n) ==
  [m |-> manager, n |-> n, budget |-> encoder_compute_budget, embeds |-> 0,
   inputs |-> << >>, hashes |-> {}, break |-> n = 0]

(* _try_schedule_encoder_inputs, item by item.                             *)
InputsRun(r, c, n0) ==
  CHOOSE F : F = [i \in 0 .. Len(mm_features[r]) |-> IF i = 0 THEN Before(n0) ELSE EncoderInput(r, c, F[i - 1], mm_features[r][i])]

(* _try_schedule_encoder_inputs: the local variables after i items.        *)
LEMMA InputsLoop ==
  ASSUME NEW r, NEW c, NEW n0, NEW n \in Nat, n = Len(mm_features[r]),
         NEW F, F = InputsRun(r, c, n0)
  PROVE  /\ F[0] = Before(n0)
         /\ \A i \in 1 .. n : F[i] = EncoderInput(r, c, F[i - 1], mm_features[r][i])
         /\ _try_schedule_encoder_inputs(r, c, n0) = F[n]
<1> DEFINE Runs(G, k) == G = [i \in 0 .. k |-> IF i = 0 THEN Before(n0) ELSE EncoderInput(r, c, G[i - 1], mm_features[r][i])]
           K == {k \in 0 .. n : \E G : Runs(G, k)}
<1>1. 0 \in K
  <2> DEFINE H == [i \in 0 .. 0 |-> Before(n0)]
  <2>1. \A i \in 0 .. 0 : i = 0
    OBVIOUS
  <2>2. Runs(H, 0)
    BY <2>1, Zenon
  <2>3. 0 \in 0 .. n
    OBVIOUS
  <2> HIDE DEF H, Runs
  <2> QED  BY <2>2, <2>3, Zenon
<1>2. ASSUME NEW k \in 1 .. n, k - 1 \in K PROVE k \in K
  <2>1. PICK G : Runs(G, k - 1)
    BY <1>2, Zenon
  <2> DEFINE H == [i \in 0 .. k |-> IF i = k THEN EncoderInput(r, c, G[k - 1], mm_features[r][k]) ELSE G[i]]
  <2>2. /\ \A i \in 0 .. k : i # k => i \in 0 .. k - 1
        /\ \A i \in 0 .. k : i # 0 => i - 1 \in 0 .. k /\ i - 1 # k
        /\ k # 0 /\ k \in 0 .. k /\ k \in 0 .. n
    OBVIOUS
  <2>3. \A i \in 0 .. k - 1 : G[i] = IF i = 0 THEN Before(n0) ELSE EncoderInput(r, c, G[i - 1], mm_features[r][i])
    <3> DEFINE g == [i \in 0 .. k - 1 |-> IF i = 0 THEN Before(n0) ELSE EncoderInput(r, c, G[i - 1], mm_features[r][i])]
    <3>1. G = g
      BY <2>1, Zenon
    <3>2. \A i \in 0 .. k - 1 : g[i] = IF i = 0 THEN Before(n0) ELSE EncoderInput(r, c, G[i - 1], mm_features[r][i])
      BY Zenon
    <3> HIDE DEF g
    <3> QED  BY <3>1, <3>2, Zenon
  <2>4. \A i \in 0 .. k : H[i] = IF i = k THEN EncoderInput(r, c, G[k - 1], mm_features[r][k]) ELSE G[i]
    BY Zenon
  <2>5. DOMAIN H = 0 .. k /\ H = [i \in 0 .. k |-> H[i]]
    BY Zenon
  <2> HIDE DEF H
  <2>6. \A i \in 0 .. k : H[i] = IF i = 0 THEN Before(n0) ELSE EncoderInput(r, c, H[i - 1], mm_features[r][i])
    BY <2>2, <2>3, <2>4, Zenon
  <2>7. Runs(H, k)
    BY <2>5, <2>6, Zenon
  <2> HIDE DEF Runs
  <2> QED  BY <2>2, <2>7, Zenon
<1>3. \E G : Runs(G, n)
  <2>2. \A i \in 0 .. n : i \in K
    <3> HIDE DEF K
    <3> QED  BY <1>1, <1>2, SetInduction
  <2>3. n \in 0 .. n
    OBVIOUS
  <2> QED  BY <2>2, <2>3, Zenon
<1>4. F = [i \in 0 .. n |-> IF i = 0 THEN Before(n0) ELSE EncoderInput(r, c, F[i - 1], mm_features[r][i])]
  BY <1>3, Zenon DEF InputsRun
<1>5. _try_schedule_encoder_inputs(r, c, n0) = F[n]
  BY Zenon DEF Fold, InputsRun, _try_schedule_encoder_inputs, Before
<1>6. /\ 0 \in 0 .. n /\ n \in 0 .. n /\ \A i \in 1 .. n : i \in 0 .. n /\ i # 0
  OBVIOUS
<1>7. \A i \in 0 .. n : F[i] = IF i = 0 THEN Before(n0) ELSE EncoderInput(r, c, F[i - 1], mm_features[r][i])
  <2> DEFINE g == [i \in 0 .. n |-> IF i = 0 THEN Before(n0) ELSE EncoderInput(r, c, F[i - 1], mm_features[r][i])]
  <2>1. F = g
    BY <1>4, Zenon
  <2>2. \A i \in 0 .. n : g[i] = IF i = 0 THEN Before(n0) ELSE EncoderInput(r, c, F[i - 1], mm_features[r][i])
    BY Zenon
  <2> HIDE DEF g
  <2> QED  BY <2>1, <2>2, Zenon
<1> QED  BY <1>5, <1>6, <1>7, Zenon

(* The worker, batch by batch.                                             *)
ExecutedRun(m, s) ==
  CHOOSE F : F = [i \in 0 .. Len(s) |-> IF i = 0 THEN m ELSE Executed(F[i - 1], s[i])]

(* The worker: its cache after i batches.                                  *)
LEMMA ExecutedLoop ==
  ASSUME NEW m, NEW s, NEW n \in Nat, n = Len(s),
         NEW F, F = ExecutedRun(m, s)
  PROVE  /\ F[0] = m
         /\ \A i \in 1 .. n : F[i] = Executed(F[i - 1], s[i])
         /\ ExecutedAll(m, s) = F[n]
<1> DEFINE Runs(G, k) == G = [i \in 0 .. k |-> IF i = 0 THEN m ELSE Executed(G[i - 1], s[i])]
           K == {k \in 0 .. n : \E G : Runs(G, k)}
<1>1. 0 \in K
  <2> DEFINE H == [i \in 0 .. 0 |-> m]
  <2>1. \A i \in 0 .. 0 : i = 0
    OBVIOUS
  <2>2. Runs(H, 0)
    BY <2>1, Zenon
  <2>3. 0 \in 0 .. n
    OBVIOUS
  <2> HIDE DEF H, Runs
  <2> QED  BY <2>2, <2>3, Zenon
<1>2. ASSUME NEW k \in 1 .. n, k - 1 \in K PROVE k \in K
  <2>1. PICK G : Runs(G, k - 1)
    BY <1>2, Zenon
  <2> DEFINE H == [i \in 0 .. k |-> IF i = k THEN Executed(G[k - 1], s[k]) ELSE G[i]]
  <2>2. /\ \A i \in 0 .. k : i # k => i \in 0 .. k - 1
        /\ \A i \in 0 .. k : i # 0 => i - 1 \in 0 .. k /\ i - 1 # k
        /\ k # 0 /\ k \in 0 .. k /\ k \in 0 .. n
    OBVIOUS
  <2>3. \A i \in 0 .. k - 1 : G[i] = IF i = 0 THEN m ELSE Executed(G[i - 1], s[i])
    <3> DEFINE g == [i \in 0 .. k - 1 |-> IF i = 0 THEN m ELSE Executed(G[i - 1], s[i])]
    <3>1. G = g
      BY <2>1, Zenon
    <3>2. \A i \in 0 .. k - 1 : g[i] = IF i = 0 THEN m ELSE Executed(G[i - 1], s[i])
      BY Zenon
    <3> HIDE DEF g
    <3> QED  BY <3>1, <3>2, Zenon
  <2>4. \A i \in 0 .. k : H[i] = IF i = k THEN Executed(G[k - 1], s[k]) ELSE G[i]
    BY Zenon
  <2>5. DOMAIN H = 0 .. k /\ H = [i \in 0 .. k |-> H[i]]
    BY Zenon
  <2> HIDE DEF H
  <2>6. \A i \in 0 .. k : H[i] = IF i = 0 THEN m ELSE Executed(H[i - 1], s[i])
    BY <2>2, <2>3, <2>4, Zenon
  <2>7. Runs(H, k)
    BY <2>5, <2>6, Zenon
  <2> HIDE DEF Runs
  <2> QED  BY <2>2, <2>7, Zenon
<1>3. \E G : Runs(G, n)
  <2>2. \A i \in 0 .. n : i \in K
    <3> HIDE DEF K
    <3> QED  BY <1>1, <1>2, SetInduction
  <2>3. n \in 0 .. n
    OBVIOUS
  <2> QED  BY <2>2, <2>3, Zenon
<1>4. F = [i \in 0 .. n |-> IF i = 0 THEN m ELSE Executed(F[i - 1], s[i])]
  BY <1>3, Zenon DEF ExecutedRun
<1>5. ExecutedAll(m, s) = F[n]
  BY Zenon DEF Fold, ExecutedRun, ExecutedAll
<1>6. /\ 0 \in 0 .. n /\ n \in 0 .. n /\ \A i \in 1 .. n : i \in 0 .. n /\ i # 0
  OBVIOUS
<1>7. \A i \in 0 .. n : F[i] = IF i = 0 THEN m ELSE Executed(F[i - 1], s[i])
  <2> DEFINE g == [i \in 0 .. n |-> IF i = 0 THEN m ELSE Executed(F[i - 1], s[i])]
  <2>1. F = g
    BY <1>4, Zenon
  <2>2. \A i \in 0 .. n : g[i] = IF i = 0 THEN m ELSE Executed(F[i - 1], s[i])
    BY Zenon
  <2> HIDE DEF g
  <2> QED  BY <2>1, <2>2, Zenon
<1> QED  BY <1>5, <1>6, <1>7, Zenon

(* m is m0 without some references of the requests V.                      *)
Dropped(m0, m, V) ==
  /\ Sound(m) /\ m.freed = m0.freed /\ m.num_free_slots = m0.num_free_slots
  /\ DOMAIN m.cached = DOMAIN m0.cached
  /\ \A h \in DOMAIN m0.cached : \A q : q \in m.cached[h] => q \in m0.cached[h]
  /\ \A h \in DOMAIN m0.cached : \A q : q \in m0.cached[h] /\ q \notin V => q \in m.cached[h]

LEMMA DroppedNone ==
  ASSUME NEW m, Sound(m), NEW V
  PROVE  Dropped(m, m, V)
<1> QED  BY Zenon DEF Dropped

LEMMA DroppedMore ==
  ASSUME NEW m0, NEW m1, NEW m2, NEW V, NEW W, Dropped(m0, m1, V), Dropped(m1, m2, W)
  PROVE  Dropped(m0, m2, V \cup W)
<1> QED  BY Zenon DEF Dropped

(* Item f of request r has hash h.                                         *)
LEMMA ItemsOf ==
  ASSUME NEW r \in Reqs
  PROVE  /\ mm_features[r] \in Seq(Features) /\ Len(mm_features[r]) \in Nat
         /\ \A i \in 1 .. Len(mm_features[r]) : mm_features[r][i] \in Features
         /\ \A i \in 1 .. Len(mm_features[r]) : mm_features[r][i] \in Items(r)
         /\ Items(r) \in SUBSET Features
         /\ \A f \in Items(r) : \E i \in 1 .. Len(mm_features[r]) : mm_features[r][i] = f
<1>1. PICK s \in Seq(Features) : s = mm_features[r]
  BY Constants
<1>2. Len(s) \in Nat /\ \A i \in 1 .. Len(s) : s[i] \in Features
  OBVIOUS
<1>3. /\ ToSet(s) \in SUBSET Features /\ \A i \in 1 .. Len(s) : s[i] \in ToSet(s)
      /\ \A x : x \in ToSet(s) <=> \E i \in 1 .. Len(s) : s[i] = x
  BY ToSetFacts
<1> QED  BY <1>1, <1>2, <1>3, Zenon DEF Items

(* FreeInputs takes away exactly the references of r to those items.       *)
LEMMA FreeInputsEffect ==
  ASSUME NEW m, Sound(m), NEW r \in Reqs, NEW items, NEW t, t = FreeInputs(m, r, items)
  PROVE  /\ Dropped(m, t, {r})
         /\ \A h \in DOMAIN m.cached : \A f \in Items(r) :
              f \in items /\ f.mm_hash = h => r \notin t.cached[h]
<1>1. PICK n \in Nat : n = Len(mm_features[r])
  BY ItemsOf
<1>0. PICK F : F = FreeInputsRun(m, r, items)
  OBVIOUS
<1>2. /\ F[0] = m
      /\ \A i \in 1 .. n : F[i] = FreeOne(r, items, F[i - 1], mm_features[r][i])
      /\ t = F[n]
  BY <1>0, <1>1, FreeInputsLoop
<1> DEFINE Good(i) ==
      /\ Dropped(m, F[i], {r})
      /\ \A j \in 1 .. i : mm_features[r][j] \in items /\ mm_features[r][j].mm_hash \in DOMAIN m.cached
                             => r \notin F[i].cached[mm_features[r][j].mm_hash]
    K == {i \in 0 .. n : Good(i)}
<1>3. 0 \in K
  <2>1. Dropped(m, F[0], {r})
    BY <1>2, DroppedNone
  <2>2. 0 \in 0 .. n /\ \A j : j \notin 1 .. 0
    OBVIOUS
  <2> QED  BY <2>1, <2>2, Zenon
<1>4. ASSUME NEW i \in 1 .. n, i - 1 \in K PROVE i \in K
  <2> DEFINE f == mm_features[r][i]
             x == F[i - 1]
             y == F[i]
  <2>1. Dropped(m, x, {r}) /\ Sound(x) /\ f \in Features /\ DOMAIN x.cached = DOMAIN m.cached
    BY <1>1, <1>4, ItemsOf, Zenon DEF Dropped
  <2>2. \A j \in 1 .. i - 1 : mm_features[r][j] \in items /\ mm_features[r][j].mm_hash \in DOMAIN m.cached
                             => r \notin x.cached[mm_features[r][j].mm_hash]
    BY <1>4, Zenon
  <2>3. y = IF f \in items THEN free_encoder_input(x, r, f) ELSE x
    BY <1>2, Zenon DEF FreeOne
  <2>4. \A j \in 1 .. i : j \in 1 .. i - 1 \/ j = i
    OBVIOUS
  <2>5. Dropped(x, y, {r}) /\ (f \in items /\ f.mm_hash \in DOMAIN m.cached => r \notin y.cached[f.mm_hash])
    <3>1. CASE f \notin items
      BY <3>1, <2>1, <2>3, DroppedNone
    <3>2. CASE f \in items
      <4>1. y = free_encoder_input(x, r, f)
        BY <2>3, <3>2
      <4> HIDE DEF x, y, f
      <4>2. /\ Sound(y) /\ y.freed = x.freed /\ y.num_free_slots = x.num_free_slots
            /\ DOMAIN y.cached = DOMAIN x.cached
            /\ \A h \in DOMAIN x.cached : \A q :
                 q \in y.cached[h] <=> q \in x.cached[h] /\ ~(h = f.mm_hash /\ q = r)
        BY <2>1, <4>1, FreeEffect
      <4>3. Dropped(x, y, {r})
        BY <4>2 DEF Dropped
      <4>4. f.mm_hash \in DOMAIN m.cached => r \notin y.cached[f.mm_hash]
        BY <4>2, <2>1
      <4> QED  BY <4>3, <4>4
    <3> QED  BY <3>1, <3>2
  <2>6. Dropped(m, y, {r})
    <3>1. Dropped(m, y, {r} \cup {r})
      BY <2>1, <2>5, DroppedMore
    <3>2. {r} \cup {r} = {r}
      OBVIOUS
    <3> QED  BY <3>1, <3>2
  <2> HIDE DEF x, y
  <2>7. \A h \in DOMAIN m.cached : r \in y.cached[h] => r \in x.cached[h]
    BY <2>1, <2>5 DEF Dropped
  <2>8. \A j \in 1 .. i : mm_features[r][j] \in items /\ mm_features[r][j].mm_hash \in DOMAIN m.cached
                             => r \notin y.cached[mm_features[r][j].mm_hash]
    BY <2>2, <2>4, <2>5, <2>7, Zenon
  <2>9. i \in 0 .. n
    OBVIOUS
  <2> QED  BY <2>6, <2>8, <2>9, Zenon DEF y
<1>5. Good(n)
  <2>1. \A i \in 0 .. n : i \in K
    <3> HIDE DEF K
    <3> QED  BY <1>3, <1>4, SetInduction
  <2>2. n \in 0 .. n
    OBVIOUS
  <2> QED  BY <2>1, <2>2, Zenon
<1>6. ASSUME NEW h \in DOMAIN m.cached, NEW f \in Items(r), f \in items, f.mm_hash = h
      PROVE  r \notin t.cached[h]
  <2>1. PICK j \in 1 .. n : mm_features[r][j] = f
    BY <1>1, ItemsOf
  <2> QED  BY <1>2, <1>5, <1>6, <2>1, Zenon
<1> QED  BY <1>2, <1>5, <1>6, Zenon

(* No reference of r to an item of its is left.                            *)
Released(m, r) == \A h \in DOMAIN m.cached : \A f \in Items(r) : f.mm_hash = h => r \notin m.cached[h]

(* free releases every entry of the request, and nothing else.             *)
LEMMA FreeRequestEffect ==
  ASSUME NEW m, Sound(m), NEW r \in Reqs, NEW t, t = free(m, r)
  PROVE  Dropped(m, t, {r}) /\ Released(t, r)
<1>1. t = FreeInputs(m, r, Items(r))
  BY Zenon DEF free, Items
<1>2. /\ Dropped(m, t, {r})
      /\ \A h \in DOMAIN m.cached : \A f \in Items(r) :
           f \in Items(r) /\ f.mm_hash = h => r \notin t.cached[h]
  BY <1>1, FreeInputsEffect
<1>3. DOMAIN t.cached = DOMAIN m.cached
  BY <1>2, Zenon DEF Dropped
<1> QED  BY <1>2, <1>3, Zenon DEF Released

LEMMA ReleasedStays ==
  ASSUME NEW m0, NEW m, NEW V, NEW r, Dropped(m0, m, V), Released(m0, r)
  PROVE  Released(m, r)
<1> QED  BY Zenon DEF Dropped, Released

LEMMA FreeAllEffect ==
  ASSUME NEW m, Sound(m), NEW s \in Seq(Reqs), NEW t, t = FreedAll(m, s)
  PROVE  Dropped(m, t, ToSet(s)) /\ \A r \in ToSet(s) : Released(t, r)
<1>1. PICK n \in Nat : n = Len(s)
  OBVIOUS
<1>0. PICK F : F = FreeRun(m, s)
  OBVIOUS
<1>2. F[0] = m /\ (\A i \in 1 .. n : F[i] = free(F[i - 1], s[i])) /\ t = F[n]
  BY <1>0, <1>1, FreeLoop
<1>3. /\ \A i \in 1 .. n : s[i] \in Reqs /\ s[i] \in ToSet(s)
      /\ \A r \in ToSet(s) : \E i \in 1 .. n : s[i] = r
  <2>1. \A i \in 1 .. n : s[i] \in Reqs
    BY <1>1
  <2> QED  BY <1>1, <2>1, ToSetFacts
<1> DEFINE Good(i) == Dropped(m, F[i], ToSet(s)) /\ \A j \in 1 .. i : Released(F[i], s[j])
    K == {i \in 0 .. n : Good(i)}
<1>4. 0 \in K
  <2>1. Dropped(m, F[0], ToSet(s))
    BY <1>2, DroppedNone
  <2>2. 0 \in 0 .. n /\ \A j : j \notin 1 .. 0
    OBVIOUS
  <2> QED  BY <2>1, <2>2, Zenon
<1>5. ASSUME NEW i \in 1 .. n, i - 1 \in K PROVE i \in K
  <2>1. Dropped(m, F[i - 1], ToSet(s)) /\ \A j \in 1 .. i - 1 : Released(F[i - 1], s[j])
    BY <1>5, Zenon
  <2>2. Sound(F[i - 1])
    BY <2>1, Zenon DEF Dropped
  <2>3. PICK r \in Reqs : r = s[i]
    BY <1>3
  <2>4. F[i] = free(F[i - 1], r)
    BY <1>2, <2>3, Zenon
  <2>5. Dropped(F[i - 1], F[i], {r}) /\ Released(F[i], r)
    BY <2>2, <2>4, FreeRequestEffect
  <2>6. Dropped(m, F[i], ToSet(s))
    <3>1. Dropped(m, F[i], ToSet(s) \cup {r})
      BY <2>1, <2>5, DroppedMore
    <3>2. ToSet(s) \cup {r} = ToSet(s)
      BY <1>3, <2>3
    <3> QED  BY <3>1, <3>2, Zenon
  <2>7. \A j \in 1 .. i : j \in 1 .. i - 1 \/ j = i
    OBVIOUS
  <2>8. \A j \in 1 .. i : Released(F[i], s[j])
    <3>1. \A j \in 1 .. i - 1 : Released(F[i], s[j])
      BY <2>1, <2>5, ReleasedStays
    <3> QED  BY <3>1, <2>3, <2>5, <2>7, Zenon
  <2>9. i \in 0 .. n
    OBVIOUS
  <2> QED  BY <2>6, <2>8, <2>9, Zenon
<1>6. Good(n)
  <2>1. \A i \in 0 .. n : i \in K
    <3> HIDE DEF K
    <3> QED  BY <1>4, <1>5, SetInduction
  <2>2. n \in 0 .. n
    OBVIOUS
  <2> QED  BY <2>1, <2>2, Zenon
<1> QED  BY <1>2, <1>3, <1>6, Zenon

Parts == [req : Reqs, start : Nat, num : Nat \ {0}]

(* No reference is left to an item that the part completes.                *)
Completed(m, p) ==
  \A h \in DOMAIN m.cached : \A f \in Items(p.req) :
    f.mm_hash = h /\ f.offset + f.length <= p.start + p.num => p.req \notin m.cached[h]

(* After the step no reference is left to an item that it completes.       *)
LEMMA FreePartsEffect ==
  ASSUME NEW m, Sound(m), NEW s \in Seq(Parts), NEW t, t = FreedParts(m, s)
  PROVE  /\ Dropped(m, t, {s[i].req : i \in 1 .. Len(s)})
         /\ \A i \in 1 .. Len(s) : Completed(t, s[i])
<1>1. PICK n \in Nat : n = Len(s)
  OBVIOUS
<1> DEFINE V == {s[i].req : i \in 1 .. n}
<1>0. PICK F : F = FreePartsRun(m, s)
  OBVIOUS
<1>2. F[0] = m /\ (\A i \in 1 .. n : F[i] = _free_encoder_inputs(F[i - 1], s[i])) /\ t = F[n]
  BY <1>0, <1>1, FreePartsLoop
<1>3. \A i \in 1 .. n : s[i] \in Parts /\ s[i].req \in Reqs /\ s[i].req \in V
  <2>1. \A i \in 1 .. n : s[i] \in Parts
    BY <1>1
  <2>2. \A i \in 1 .. n : s[i].req \in Reqs
    BY <2>1 DEF Parts
  <2> QED  BY <2>1, <2>2, Zenon
<1> HIDE DEF V
<1> DEFINE Good(i) == Dropped(m, F[i], V) /\ \A j \in 1 .. i : Completed(F[i], s[j])
    K == {i \in 0 .. n : Good(i)}
<1>4. 0 \in K
  <2>1. Dropped(m, F[0], V)
    BY <1>2, DroppedNone
  <2>2. 0 \in 0 .. n /\ \A j : j \notin 1 .. 0
    OBVIOUS
  <2> QED  BY <2>1, <2>2, Zenon
<1>5. ASSUME NEW i \in 1 .. n, i - 1 \in K PROVE i \in K
  <2>1. Dropped(m, F[i - 1], V) /\ \A j \in 1 .. i - 1 : Completed(F[i - 1], s[j])
    BY <1>5, Zenon
  <2>2. Sound(F[i - 1])
    BY <2>1, Zenon DEF Dropped
  <2>3. PICK r \in Reqs : r = s[i].req
    BY <1>3
  <2> DEFINE items == {f \in Items(r) : f.offset + f.length <= s[i].start + s[i].num}
  <2>4. F[i] = FreeInputs(F[i - 1], r, items)
    BY <1>2, <2>3, Zenon DEF _free_encoder_inputs, Items
  <2>5. /\ Dropped(F[i - 1], F[i], {r})
        /\ \A h \in DOMAIN F[i - 1].cached : \A f \in Items(r) :
              f \in items /\ f.mm_hash = h => r \notin F[i].cached[h]
    <3> HIDE DEF items
    <3> QED  BY <2>2, <2>4, FreeInputsEffect
  <2>6. Completed(F[i], s[i])
    <3>1. DOMAIN F[i].cached = DOMAIN F[i - 1].cached
      BY <2>5, Zenon DEF Dropped
    <3> QED  BY <2>3, <2>5, <3>1, Zenon DEF Completed
  <2>7. Dropped(m, F[i], V)
    <3>1. Dropped(m, F[i], V \cup {r})
      BY <2>1, <2>5, DroppedMore
    <3>2. V \cup {r} = V
      BY <1>3, <2>3
    <3> QED  BY <3>1, <3>2, Zenon
  <2>8. \A j \in 1 .. i : j \in 1 .. i - 1 \/ j = i
    OBVIOUS
  <2>9. \A j \in 1 .. i : Completed(F[i], s[j])
    <3>1. \A j \in 1 .. i - 1 : Completed(F[i], s[j])
      BY <2>1, <2>5, Zenon DEF Dropped, Completed
    <3> QED  BY <3>1, <2>6, <2>8, Zenon
  <2>10. i \in 0 .. n
    OBVIOUS
  <2> QED  BY <2>7, <2>9, <2>10, Zenon
<1>6. Good(n)
  <2>1. \A i \in 0 .. n : i \in K
    <3> HIDE DEF K
    <3> QED  BY <1>4, <1>5, SetInduction
  <2>2. n \in 0 .. n
    OBVIOUS
  <2> QED  BY <2>1, <2>2, Zenon
<1> QED  BY <1>1, <1>2, <1>6, Zenon DEF V

Allocated(m, t, r, H) ==
  /\ Sound(t) /\ t.freed = m.freed /\ DOMAIN t.cached = DOMAIN m.cached \cup H
  /\ \A h \in H : t.cached[h] = {r}
  /\ \A h \in DOMAIN m.cached : t.cached[h] = m.cached[h]

HashesOf(s) == {s[i].mm_hash : i \in 1 .. Len(s)}
NoHashTwice(s) == \A i, j \in 1 .. Len(s) : s[i].mm_hash = s[j].mm_hash => i = j

LEMMA AllocateRuns ==
  ASSUME NEW m, NEW r \in Reqs, NEW s \in Seq(Features), NEW n \in Nat, n = Len(s),
         NEW t, t = AllocatedAll(m, r, s)
  PROVE  \E F : F[0] = m /\ (\A i \in 1 .. n : F[i] = allocate(F[i - 1], r, s[i])) /\ t = F[n]
<1>1. PICK F : F = AllocateRun(m, r, s)
  OBVIOUS
<1>2. F[0] = m /\ (\A i \in 1 .. n : F[i] = allocate(F[i - 1], r, s[i])) /\ t = F[n]
  BY <1>1, AllocateLoop
<1> QED  BY <1>2, Zenon

(* allocate for every input: the new entries have the one reference of r.  *)
LEMMA AllocateAllEffect ==
  ASSUME NEW m, Sound(m), NEW r \in Reqs, NEW s \in Seq(Features),
         NoHashTwice(s), NEW H, H = HashesOf(s), H \cap DOMAIN m.cached = {}, Slots(H) <= m.num_free_slots,
         NEW t, t = AllocatedAll(m, r, s)
  PROVE  Allocated(m, t, r, H)
<1> SUFFICES /\ Sound(t) /\ t.freed = m.freed /\ DOMAIN t.cached = DOMAIN m.cached \cup H
             /\ \A h \in H : t.cached[h] = {r}
             /\ \A h \in DOMAIN m.cached : t.cached[h] = m.cached[h]
  BY Zenon DEF Allocated
<1>01. /\ \A i, j \in 1 .. Len(s) : s[i].mm_hash = s[j].mm_hash => i = j
       /\ H = {s[i].mm_hash : i \in 1 .. Len(s)}
  BY Zenon DEF NoHashTwice, HashesOf
<1> USE <1>01
<1>1. PICK n \in Nat : n = Len(s)
  OBVIOUS
<1>2. PICK F : F[0] = m /\ (\A i \in 1 .. n : F[i] = allocate(F[i - 1], r, s[i])) /\ t = F[n]
  BY <1>1, AllocateRuns
<1> DEFINE A(i) == {s[j].mm_hash : j \in 1 .. i}
    Good(i) ==
      /\ Sound(F[i]) /\ F[i].freed = m.freed /\ DOMAIN F[i].cached = DOMAIN m.cached \cup A(i)
      /\ F[i].num_free_slots = m.num_free_slots - Slots(A(i))
      /\ \A h \in A(i) : F[i].cached[h] = {r}
      /\ \A h \in DOMAIN m.cached : F[i].cached[h] = m.cached[h]
    K == {i \in 0 .. n : Good(i)}
<1>3. \A i \in 1 .. n : s[i] \in Features /\ s[i].mm_hash \in Hashes
  <2>1. \A i \in 1 .. n : s[i] \in Features
    BY <1>1
  <2> QED  BY <2>1, ItemFacts
<1>4. \A i \in 0 .. n : A(i) \in SUBSET H /\ A(i) \in SUBSET Hashes
  BY <1>1, <1>3
<1>5. 0 \in K
  <2>1. A(0) = {} /\ 0 \in 0 .. n
    OBVIOUS
  <2>2. m.num_free_slots \in Nat
    BY SoundFacts
  <2>3. m.num_free_slots = m.num_free_slots - Slots(A(0))
    <3>1. Slots(A(0)) = 0
      BY <2>1, SlotsEmpty, Zenon
    <3> QED  BY <2>2, <3>1
  <2> HIDE DEF A
  <2>4. DOMAIN m.cached = DOMAIN m.cached \cup A(0)
    BY <2>1
  <2> QED  BY <1>2, <2>1, <2>3, <2>4, Zenon
<1>6. ASSUME NEW i \in 1 .. n, i - 1 \in K PROVE i \in K
  <2>0. i - 1 \in 0 .. n /\ i \in 0 .. n
    OBVIOUS
  <2>1. Good(i - 1)
    BY <1>6, Zenon
  <2>2. PICK f \in Features : f = s[i]
    BY <1>3
  <2> DEFINE h0 == f.mm_hash
  <2>3. A(i) = A(i - 1) \cup {h0}
    <3>1. \A j : j \in 1 .. i <=> j \in 1 .. i - 1 \/ j = i
      OBVIOUS
    <3> QED  BY <2>2, <3>1, Zenon
  <2>4. h0 \in H /\ h0 \notin A(i - 1)
    <3>1. \A j \in 1 .. i - 1 : j # i /\ j \in 1 .. Len(s) /\ i \in 1 .. Len(s)
      BY <1>1
    <3>2. h0 \in H
      BY <1>1, <2>2
    <3>3. \A j \in 1 .. i - 1 : s[j].mm_hash # s[i].mm_hash
      BY <3>1
    <3> QED  BY <2>2, <3>2, <3>3, Zenon
  <2>5. /\ h0 \in Hashes /\ Embeds(h0) = get_num_embeds(f) /\ get_num_embeds(f) \in Nat
    BY ItemFacts
  <2>6. A(i - 1) \in SUBSET Hashes /\ A(i) \in SUBSET H /\ A(i) \in SUBSET Hashes /\ H \in SUBSET Hashes
    <3>1. H \in SUBSET Hashes
      BY <1>1, <1>3
    <3> QED  BY <1>4, <2>0, <3>1, Zenon
  <2> HIDE DEF A, h0
  <2>7. Slots(A(i)) = Slots(A(i - 1)) + Embeds(h0) /\ Slots(A(i - 1)) \in Nat
    BY <2>3, <2>4, <2>5, <2>6, SlotsAdd, SlotsNat
  <2>8. Slots(A(i)) <= Slots(H) /\ Slots(H) \in Nat
    BY <2>6, SlotsSubset, SlotsNat
  <2>9. m.num_free_slots \in Nat
    BY SoundFacts
  <2>10. get_num_embeds(f) <= F[i - 1].num_free_slots
    BY <2>1, <2>5, <2>7, <2>8, <2>9
  <2>11. f.mm_hash \notin DOMAIN F[i - 1].cached
    BY <2>1, <2>4 DEF h0
  <2>12. F[i] = allocate(F[i - 1], r, f)
    BY <1>2, <2>2, Zenon
  <2>13. /\ Sound(F[i]) /\ F[i].freed = F[i - 1].freed
         /\ F[i].num_free_slots = F[i - 1].num_free_slots - get_num_embeds(f)
         /\ DOMAIN F[i].cached = DOMAIN F[i - 1].cached \cup {f.mm_hash}
         /\ F[i].cached[f.mm_hash] = {r}
         /\ \A h \in DOMAIN F[i - 1].cached : F[i].cached[h] = F[i - 1].cached[h]
    BY <2>1, <2>10, <2>11, <2>12, AllocateEffect
  <2>14. F[i].num_free_slots = m.num_free_slots - Slots(A(i))
    BY <2>1, <2>5, <2>7, <2>9, <2>13
  <2>15. DOMAIN F[i].cached = DOMAIN m.cached \cup A(i)
    BY <2>1, <2>3, <2>13 DEF h0
  <2>16. \A h \in A(i) : F[i].cached[h] = {r}
    BY <2>1, <2>3, <2>13 DEF h0
  <2>17. \A h \in DOMAIN m.cached : F[i].cached[h] = m.cached[h]
    BY <2>1, <2>13
  <2> QED  BY <2>0, <2>1, <2>13, <2>14, <2>15, <2>16, <2>17, Zenon
<1>7. Good(n)
  <2>1. \A i \in 0 .. n : i \in K
    <3> HIDE DEF K
    <3> QED  BY <1>5, <1>6, SetInduction
  <2>2. n \in 0 .. n
    OBVIOUS
  <2> QED  BY <2>1, <2>2, Zenon
<1>8. A(n) = H
  BY <1>1
<1> HIDE DEF A
<1> QED  BY <1>2, <1>7, <1>8, Zenon

(* The items of a request are in order and do not overlap.                 *)
LEMMA ItemOrder ==
  ASSUME NEW r \in Reqs, NEW i \in 1 .. Len(mm_features[r]), NEW j \in 1 .. Len(mm_features[r]), i < j
  PROVE  mm_features[r][i].offset + mm_features[r][i].length <= mm_features[r][j].offset
<1>1. PICK n \in Nat : n = Len(mm_features[r])
  BY ItemsOf
<1> DEFINE off(k) == mm_features[r][k].offset
           len(k) == mm_features[r][k].length
           K == {k \in 0 .. n : k > i => off(i) + len(i) <= off(k)}
<1>2. \A k \in 1 .. n : off(k) \in Nat /\ len(k) \in Nat
  BY <1>1, ItemsOf, ItemFacts
<1>3. \A k \in 1 .. n - 1 : off(k) + len(k) <= off(k + 1)
  BY <1>1, EncoderAssumption, Zenon DEF EncoderAssumption
<1>4. i \in 1 .. n /\ j \in 1 .. n
  BY <1>1
<1> HIDE DEF off, len
<1>5. 0 \in K
  BY <1>4
<1>6. ASSUME NEW k \in 1 .. n, k - 1 \in K PROVE k \in K
  <2> SUFFICES ASSUME k > i PROVE off(i) + len(i) <= off(k)
    OBVIOUS
  <2>1. k - 1 \in 1 .. n - 1 /\ (k - 1) + 1 = k
    BY <1>4
  <2>2. off(k - 1) + len(k - 1) <= off((k - 1) + 1)
    BY <1>3, <2>1
  <2>3. off((k - 1) + 1) = off(k)
    BY <2>1
  <2>4. CASE k - 1 = i
    BY <2>2, <2>3, <2>4
  <2>5. CASE k - 1 # i
    <3>1. k - 1 > i /\ k - 1 \in 1 .. n
      BY <2>1, <2>5, <1>4
    <3>2. off(i) + len(i) <= off(k - 1)
      BY <1>6, <3>1
    <3>3. off(k - 1) \in Nat /\ len(k - 1) \in Nat /\ off(i) \in Nat /\ len(i) \in Nat /\ off(k) \in Nat
      BY <1>2, <1>4, <3>1
    <3> QED  BY <2>2, <2>3, <3>2, <3>3
  <2> QED  BY <2>4, <2>5
<1>7. \A k \in 0 .. n : k \in K
  <2> HIDE DEF K
  <2> QED  BY <1>5, <1>6, SetInduction
<1>8. j \in 0 .. n
  BY <1>4
<1>9. off(i) + len(i) <= off(j)
  BY <1>7, <1>8
<1> QED  BY <1>9 DEF off, len

(* A longer range of tokens holds no fewer embeddings of an item that      *)
(* starts in the shorter one.                                              *)
LEMMA MoreTokensMoreEmbeds ==
  ASSUME NEW f \in Features, NEW c \in Nat, NEW n1 \in Nat, NEW n2 \in Nat,
         f.offset < c + n1, n1 <= n2, CurrEmbeds(f, c, n1) > 0
  PROVE  CurrEmbeds(f, c, n2) > 0
<1>0. PICK o \in Nat, l \in Nat : o = f.offset /\ l = f.length
  BY ItemFacts
<1>1. PICK st \in Nat : st = Max({0, c - o})
  <2>1. Max({0, c - o}) = IF 0 <= c - o THEN c - o ELSE 0
    BY MaxOfTwo
  <2> QED  BY <2>1
<1>2. PICK e1 \in Nat : e1 = Min({l, c + n1 - o}) /\ e1 = IF l <= c + n1 - o THEN l ELSE c + n1 - o
  <2>1. Min({l, c + n1 - o}) = IF l <= c + n1 - o THEN l ELSE c + n1 - o
    BY MinOfTwo
  <2> QED  BY <1>0, <2>1
<1>3. PICK e2 \in Nat : e2 = Min({l, c + n2 - o}) /\ e2 = IF l <= c + n2 - o THEN l ELSE c + n2 - o
  <2>1. Min({l, c + n2 - o}) = IF l <= c + n2 - o THEN l ELSE c + n2 - o
    BY MinOfTwo
  <2> QED  BY <1>0, <2>1
<1>4. e1 <= e2
  BY <1>2, <1>3
<1>5. /\ CurrEmbeds(f, c, n1) = NumEmbedsInRange(f, st, e1)
      /\ CurrEmbeds(f, c, n2) = NumEmbedsInRange(f, st, e2)
  BY <1>0, <1>1, <1>2, <1>3, Zenon DEF CurrEmbeds
<1>6. CASE f.is_embed = NoMask
  <2>1. NumEmbedsInRange(f, st, e1) = e1 - st /\ NumEmbedsInRange(f, st, e2) = e2 - st
    BY <1>6 DEF NumEmbedsInRange
  <2> QED  BY <1>4, <1>5, <2>1
<1>7. CASE f.is_embed # NoMask
  <2>0. f.is_embed \in SUBSET (0 .. l - 1)
    BY <1>0, <1>7, ItemFacts
  <2>1. IsFiniteSet(0 .. l - 1)
    BY FS_Interval
  <2>2. \A i \in Nat : IsFiniteSet({p \in f.is_embed : p < i}) /\ EmbedsBefore(f, i) \in Nat
    <3> TAKE i \in Nat
    <3>1. {p \in f.is_embed : p < i} \in SUBSET (0 .. l - 1)
      BY <2>0
    <3> QED  BY <2>1, <3>1, FS_Subset, FS_CardinalityType DEF EmbedsBefore
  <2>3. EmbedsBefore(f, e1) <= EmbedsBefore(f, e2)
    <3> DEFINE A == {p \in f.is_embed : p < e1}
               B == {p \in f.is_embed : p < e2}
    <3>1. \A p \in f.is_embed : p \in Nat
      BY <2>0
    <3>2. A \in SUBSET B
      BY <1>4, <3>1
    <3>3. IsFiniteSet(B)
      BY <2>2
    <3>4. Cardinality(A) <= Cardinality(B)
      <4> HIDE DEF A, B
      <4> QED  BY <3>2, <3>3, FS_Subset
    <3> QED  BY <3>4 DEF EmbedsBefore
  <2>4. e1 # 0
    <3> SUFFICES ASSUME e1 = 0 PROVE FALSE
      OBVIOUS
    <3>1. l = 0
      BY <1>0, <1>2
    <3>2. f.is_embed = {}
      BY <2>0, <3>1
    <3>3. get_num_embeds(f) = 0
      BY <1>7, <3>2, FS_EmptySet DEF get_num_embeds
    <3>4. NumEmbedsInRange(f, st, e1) = 0 - EmbedsBefore(f, st)
      BY <1>7, <3>3 DEF NumEmbedsInRange
    <3>5. EmbedsBefore(f, st) \in Nat
      BY <2>2
    <3>6. ~(0 - EmbedsBefore(f, st) > 0)
      BY <3>5
    <3> QED  BY <1>5, <3>4, <3>6
  <2>5. e2 # 0
    BY <1>4, <2>4
  <2>6. /\ NumEmbedsInRange(f, st, e1) = EmbedsBefore(f, e1) - EmbedsBefore(f, st)
        /\ NumEmbedsInRange(f, st, e2) = EmbedsBefore(f, e2) - EmbedsBefore(f, st)
    BY <1>7, <2>4, <2>5 DEF NumEmbedsInRange
  <2>7. EmbedsBefore(f, e1) \in Nat /\ EmbedsBefore(f, e2) \in Nat /\ EmbedsBefore(f, st) \in Nat
    BY <2>2
  <2> QED  BY <1>5, <2>3, <2>6, <2>7
<1> QED  BY <1>6, <1>7

(* Embeddings of the item are among the n tokens from position c on.       *)
Needed(f, c, n) == f.offset < c + n /\ f.offset + f.length > c /\ CurrEmbeds(f, c, n) > 0

(* Item j of r has hash h and tokens from position c on.                   *)
Ahead(r, c, j, h) ==
  /\ mm_features[r][j].mm_hash = h
  /\ mm_features[r][j].offset + mm_features[r][j].length > c

(* The embeddings of h are promised to r, or there and kept for it.        *)
Has(r, m, hashes, h) == h \in hashes \/ (h \in DOMAIN m.cached /\ r \in m.cached[h])

(* The invariant of _try_schedule_encoder_inputs after i items.  Its       *)
(* variables have their types.                                             *)
LoopVars(n0, s) ==
  /\ s = [m |-> s.m, n |-> s.n, budget |-> s.budget, embeds |-> s.embeds,
          inputs |-> s.inputs, hashes |-> s.hashes, break |-> s.break]
  /\ Sound(s.m) /\ s.n \in Nat /\ s.n <= n0 /\ s.break \in BOOLEAN
  /\ s.budget \in Nat /\ s.budget <= encoder_compute_budget
  /\ ~s.break => s.n = n0

(* There is space for the inputs scheduled so far.                         *)
Promise(r, c, m, inputs, hashes, embeds) ==
  /\ inputs \in Seq(Features)
  /\ hashes = {inputs[i].mm_hash : i \in 1 .. Len(inputs)}
  /\ \A i, j \in 1 .. Len(inputs) : inputs[i].mm_hash = inputs[j].mm_hash => i = j
  /\ hashes \cap DOMAIN m.cached = {}
  /\ embeds = Slots(hashes) /\ embeds <= m.num_free_slots
  /\ \A h \in hashes : \E j \in 1 .. Len(mm_features[r]) : Ahead(r, c, j, h)

(* Only entries without references were evicted, and are announced.        *)
Kept(m) ==
  /\ DOMAIN m.cached \in SUBSET DOMAIN manager.cached
  /\ m.freed = manager.freed \cup (DOMAIN manager.cached \ DOMAIN m.cached)
  /\ \A h \in DOMAIN manager.cached : h \notin DOMAIN m.cached => manager.cached[h] = {}
  /\ \A h \in DOMAIN m.cached : \A q : q \in manager.cached[h] => q \in m.cached[h]

(* New references are those of r to an item that is still ahead.           *)
NewRefs(r, c, m, i) ==
  \A h \in DOMAIN m.cached : \A q : q \in m.cached[h] =>
    q \in manager.cached[h] \/ (q = r /\ \E j \in 1 .. i : Ahead(r, c, j, h))

NoNewRefs(m) == \A h \in DOMAIN m.cached : \A q : q \in m.cached[h] => q \in manager.cached[h]

(* Of the first k items, r has the embeddings that n tokens need.          *)
Covers(r, c, m, hashes, n, k) ==
  n > 0 => \A j \in 1 .. Len(mm_features[r]) :
    j <= k /\ Needed(mm_features[r][j], c, n) => Has(r, m, hashes, mm_features[r][j].mm_hash)

LoopInv(r, c, n0, s, i) ==
  /\ LoopVars(n0, s)
  /\ Promise(r, c, s.m, s.inputs, s.hashes, s.embeds)
  /\ Kept(s.m) /\ NewRefs(r, c, s.m, i)
  /\ s.n = 0 /\ ~use_eagle => NoNewRefs(s.m)
  /\ Covers(r, c, s.m, s.hashes, s.n, IF s.break THEN Len(mm_features[r]) ELSE i)

LEMMA NewRefsLater ==
  ASSUME NEW r, NEW c, NEW m, NEW n \in Nat, NEW i \in 1 .. n, NewRefs(r, c, m, i - 1)
  PROVE  NewRefs(r, c, m, i)
<1>1. \A j \in 1 .. i - 1 : j \in 1 .. i
  OBVIOUS
<1> SUFFICES ASSUME NEW h \in DOMAIN m.cached, NEW q, q \in m.cached[h], q \notin manager.cached[h]
             PROVE  q = r /\ \E j \in 1 .. i : Ahead(r, c, j, h)
  BY Zenon DEF NewRefs
<1>2. q = r /\ \E j \in 1 .. i - 1 : Ahead(r, c, j, h)
  BY Zenon DEF NewRefs
<1> QED  BY <1>1, <1>2, Zenon

LEMMA CoversNext ==
  ASSUME NEW r \in Reqs, NEW c, NEW m, NEW hashes, NEW n, NEW i \in 1 .. Len(mm_features[r]),
         Covers(r, c, m, hashes, n, i - 1),
         NEW f, f = mm_features[r][i], ~Needed(f, c, n) \/ Has(r, m, hashes, f.mm_hash)
  PROVE  Covers(r, c, m, hashes, n, i)
<1>1. \A j \in 1 .. Len(mm_features[r]) : j <= i => j <= i - 1 \/ j = i
  OBVIOUS
<1> SUFFICES ASSUME n > 0, NEW j \in 1 .. Len(mm_features[r]), j <= i, Needed(mm_features[r][j], c, n)
             PROVE  Has(r, m, hashes, mm_features[r][j].mm_hash)
  BY Zenon DEF Covers
<1>2. CASE j <= i - 1
  BY <1>2, Zenon DEF Covers
<1>3. CASE j = i
  BY <1>3, Zenon
<1> QED  BY <1>1, <1>2, <1>3

LEMMA CoversMore ==
  ASSUME NEW r, NEW c, NEW m, NEW hashes, NEW n, NEW k, Covers(r, c, m, hashes, n, k),
         NEW m1, NEW hashes1, \A h : Has(r, m, hashes, h) => Has(r, m1, hashes1, h)
  PROVE  Covers(r, c, m1, hashes1, n, k)
<1> QED  BY Zenon DEF Covers

LEMMA PromiseFacts ==
  ASSUME NEW r, NEW c, NEW m, NEW inputs, NEW hashes, NEW embeds,
         Promise(r, c, m, inputs, hashes, embeds)
  PROVE  hashes \in SUBSET Hashes /\ embeds \in Nat
<1>1. inputs \in Seq(Features) /\ hashes = {inputs[k].mm_hash : k \in 1 .. Len(inputs)}
  BY DEF Promise
<1>2. \A k \in 1 .. Len(inputs) : inputs[k] \in Features
  BY <1>1
<1>3. \A k \in 1 .. Len(inputs) : inputs[k].mm_hash \in Hashes
  BY <1>2, ItemFacts
<1>4. hashes \in SUBSET Hashes
  BY <1>1, <1>3
<1>5. embeds = Slots(hashes)
  BY DEF Promise
<1> QED  BY <1>4, <1>5, SlotsNat

(* An item that needs nothing is passed over.                              *)
LEMMA LoopSkip ==
  ASSUME NEW r \in Reqs, NEW c \in Nat, NEW n0 \in Nat, NEW i \in 1 .. Len(mm_features[r]),
         NEW s, LoopInv(r, c, n0, s, i - 1),
         NEW f, f = mm_features[r][i],
         s.break \/ ~Needed(f, c, s.n) \/ Has(r, s.m, s.hashes, f.mm_hash)
  PROVE  LoopInv(r, c, n0, s, i)
<1>1. NewRefs(r, c, s.m, i)
  <2>1. NewRefs(r, c, s.m, i - 1) /\ Len(mm_features[r]) \in Nat
    BY ItemsOf DEF LoopInv
  <2> QED  BY <2>1, NewRefsLater
<1>2. Covers(r, c, s.m, s.hashes, s.n, IF s.break THEN Len(mm_features[r]) ELSE i)
  <2>1. CASE s.break
    BY <2>1 DEF LoopInv
  <2>2. CASE ~s.break
    <3>1. Covers(r, c, s.m, s.hashes, s.n, i - 1)
      BY <2>2 DEF LoopInv
    <3>2. Covers(r, c, s.m, s.hashes, s.n, i)
      BY <2>2, <3>1, CoversNext
    <3> QED  BY <2>2, <3>2
  <2> QED  BY <2>1, <2>2
<1> QED  BY <1>1, <1>2 DEF LoopInv

(* The loop ends in front of item i.                                       *)
LEMMA LoopCut ==
  ASSUME NEW r \in Reqs, NEW c \in Nat, NEW n0 \in Nat, NEW i \in 1 .. Len(mm_features[r]),
         NEW s, LoopInv(r, c, n0, s, i - 1), ~s.break,
         NEW f, f = mm_features[r][i], NEW n \in Nat, n <= n0,
         n > 0 => c + n <= f.offset,
         n = 0 /\ ~use_eagle => f.offset <= c,
         NEW t, t = [s EXCEPT !.break = TRUE, !.n = n]
  PROVE  LoopInv(r, c, n0, t, i)
<1>1. /\ s = [m |-> s.m, n |-> s.n, budget |-> s.budget, embeds |-> s.embeds,
             inputs |-> s.inputs, hashes |-> s.hashes, break |-> s.break]
      /\ s.n = n0
  BY DEF LoopInv, LoopVars
<1>2. t = [m |-> s.m, n |-> n, budget |-> s.budget, embeds |-> s.embeds,
           inputs |-> s.inputs, hashes |-> s.hashes, break |-> TRUE]
  BY <1>1
<1>3. /\ t.m = s.m /\ t.n = n /\ t.budget = s.budget /\ t.embeds = s.embeds
      /\ t.inputs = s.inputs /\ t.hashes = s.hashes /\ t.break = TRUE
  BY <1>2
<1>0. Len(mm_features[r]) \in Nat
  BY ItemsOf
<1>4. \A j \in 1 .. Len(mm_features[r]) :
        /\ mm_features[r][j].offset \in Nat /\ mm_features[r][j].length \in Nat
        /\ mm_features[r][j] \in Features
  BY ItemsOf, ItemFacts
<1>5. f.offset \in Nat /\ i \in Nat
  BY <1>0, <1>4
<1>6. \A j \in 1 .. i - 1 :
        /\ j \in 1 .. Len(mm_features[r]) /\ j \in 1 .. i
        /\ mm_features[r][j].offset + mm_features[r][j].length <= f.offset
  <2> TAKE j \in 1 .. i - 1
  <2>1. j \in 1 .. Len(mm_features[r]) /\ j < i /\ j \in 1 .. i
    BY <1>0
  <2> QED  BY <2>1, ItemOrder
<1>7. \A j \in 1 .. Len(mm_features[r]) : ~(j <= i - 1) => f.offset <= mm_features[r][j].offset
  <2> SUFFICES ASSUME NEW j \in 1 .. Len(mm_features[r]), ~(j <= i - 1)
               PROVE  f.offset <= mm_features[r][j].offset
    OBVIOUS
  <2>1. CASE j = i
    BY <2>1, <1>5
  <2>2. CASE j # i
    <3>1. i < j
      BY <2>2, <1>0
    <3>2. f.offset + f.length <= mm_features[r][j].offset
      BY <3>1, ItemOrder
    <3>3. f.length \in Nat /\ mm_features[r][j].offset \in Nat
      BY <1>4
    <3>4. f.offset <= f.offset + f.length
      BY <3>3, <1>5, SMTT(30)
    <3> QED  BY <3>2, <3>3, <3>4, <1>5, SMTT(30)
  <2> QED  BY <2>1, <2>2
<1>8. LoopVars(n0, t)
  <2>1. LoopVars(n0, s)
    BY DEF LoopInv
  <2>2. Sound(s.m) /\ s.budget \in Nat /\ s.budget <= encoder_compute_budget
    BY <2>1 DEF LoopVars
  <2>3. t = [m |-> t.m, n |-> t.n, budget |-> t.budget, embeds |-> t.embeds,
             inputs |-> t.inputs, hashes |-> t.hashes, break |-> t.break]
    BY <1>2, <1>3
  <2> QED  BY <2>2, <2>3, <1>3 DEF LoopVars
<1>9. Promise(r, c, s.m, s.inputs, s.hashes, s.embeds) /\ Kept(s.m) /\ NewRefs(r, c, s.m, i - 1)
  BY DEF LoopInv
<1>10. NewRefs(r, c, s.m, i)
  BY <1>0, <1>9, NewRefsLater
<1>11. ASSUME n = 0, ~use_eagle PROVE NoNewRefs(s.m)
  <2> SUFFICES ASSUME NEW h \in DOMAIN s.m.cached, NEW q, q \in s.m.cached[h], q \notin manager.cached[h]
               PROVE  FALSE
    BY Zenon DEF NoNewRefs
  <2>1. PICK j \in 1 .. i - 1 : Ahead(r, c, j, h)
    BY <1>9, Zenon DEF NewRefs
  <2>2. /\ mm_features[r][j].offset + mm_features[r][j].length > c
        /\ mm_features[r][j].offset + mm_features[r][j].length <= f.offset
        /\ mm_features[r][j].offset \in Nat /\ mm_features[r][j].length \in Nat
    BY <2>1, <1>4, <1>6 DEF Ahead
  <2>3. f.offset <= c
    BY <1>11
  <2> QED  BY <2>2, <2>3, <1>5, SMTT(30)
<1>12. Covers(r, c, s.m, s.hashes, n, Len(mm_features[r]))
  <2> SUFFICES ASSUME n > 0, NEW j \in 1 .. Len(mm_features[r]), Needed(mm_features[r][j], c, n)
               PROVE  Has(r, s.m, s.hashes, mm_features[r][j].mm_hash)
    BY Zenon DEF Covers
  <2> DEFINE g == mm_features[r][j]
  <2>1. g \in Features /\ g.offset \in Nat
    BY <1>4
  <2>2. g.offset < c + n
    BY DEF Needed
  <2>3. j <= i - 1
    <3> SUFFICES ASSUME ~(j <= i - 1) PROVE FALSE
      OBVIOUS
    <3>1. f.offset <= g.offset
      BY <1>7
    <3>2. c + n <= f.offset
      OBVIOUS
    <3> HIDE DEF g
    <3> QED  BY <2>1, <2>2, <3>1, <3>2, <1>5
  <2>4. Needed(g, c, n0)
    <3>1. g.offset + g.length > c /\ CurrEmbeds(g, c, n) > 0
      BY DEF Needed
    <3> HIDE DEF g
    <3>2. CurrEmbeds(g, c, n0) > 0
      BY <2>1, <2>2, <3>1, MoreTokensMoreEmbeds
    <3>3. g.offset < c + n0
      BY <2>1, <2>2
    <3> QED  BY <3>1, <3>2, <3>3 DEF Needed
  <2>5. n0 > 0
    OBVIOUS
  <2>6. Covers(r, c, s.m, s.hashes, n0, i - 1)
    BY <1>1 DEF LoopInv
  <2> QED  BY <2>3, <2>4, <2>5, <2>6, Zenon DEF Covers
<1>13. t.n = 0 /\ ~use_eagle => NoNewRefs(t.m)
  BY <1>3, <1>11
<1>14. Covers(r, c, t.m, t.hashes, t.n, IF t.break THEN Len(mm_features[r]) ELSE i)
  BY <1>3, <1>12
<1>15. Promise(r, c, t.m, t.inputs, t.hashes, t.embeds) /\ Kept(t.m) /\ NewRefs(r, c, t.m, i)
  BY <1>3, <1>9, <1>10
<1> QED  BY <1>8, <1>13, <1>14, <1>15 DEF LoopInv

(* A cached item gets a reference.                                         *)
LEMMA LoopTouch ==
  ASSUME NEW r \in Reqs, NEW c \in Nat, NEW n0 \in Nat \ {0}, NEW i \in 1 .. Len(mm_features[r]),
         NEW s, LoopInv(r, c, n0, s, i - 1), ~s.break,
         NEW f \in Features, f = mm_features[r][i], f.mm_hash \in DOMAIN s.m.cached,
         f.offset + f.length > c,
         NEW t, t = [s EXCEPT !.m = touch(@, r, f)]
  PROVE  LoopInv(r, c, n0, t, i)
<1>0. LoopVars(n0, s) /\ Len(mm_features[r]) \in Nat
  BY ItemsOf DEF LoopInv
<1>1. /\ s = [m |-> s.m, n |-> s.n, budget |-> s.budget, embeds |-> s.embeds,
             inputs |-> s.inputs, hashes |-> s.hashes, break |-> s.break]
      /\ s.n = n0 /\ Sound(s.m)
  BY <1>0 DEF LoopVars
<1>2. PICK m, u : m = s.m /\ u = touch(m, r, f)
  OBVIOUS
<1>3. t = [m |-> u, n |-> s.n, budget |-> s.budget, embeds |-> s.embeds,
           inputs |-> s.inputs, hashes |-> s.hashes, break |-> s.break]
  <2>1. t = [s EXCEPT !.m = u]
    BY <1>2
  <2> QED  BY <1>1, <2>1
<1>4. /\ t.m = u /\ t.n = s.n /\ t.budget = s.budget /\ t.embeds = s.embeds
      /\ t.inputs = s.inputs /\ t.hashes = s.hashes /\ t.break = s.break
  BY <1>3
<1>5. /\ Sound(u) /\ u.freed = m.freed /\ u.num_free_slots = m.num_free_slots
      /\ DOMAIN u.cached = DOMAIN m.cached
      /\ \A h \in DOMAIN m.cached : \A q :
           q \in u.cached[h] <=> q \in m.cached[h] \/ (h = f.mm_hash /\ q = r)
  BY <1>1, <1>2, TouchEffect
<1>6. LoopVars(n0, t)
  <2>1. t = [m |-> t.m, n |-> t.n, budget |-> t.budget, embeds |-> t.embeds,
             inputs |-> t.inputs, hashes |-> t.hashes, break |-> t.break]
    BY <1>3, <1>4
  <2>2. s.n \in Nat /\ s.n <= n0 /\ s.break \in BOOLEAN /\ s.budget \in Nat /\ s.budget <= encoder_compute_budget
    BY <1>0 DEF LoopVars
  <2> QED  BY <2>1, <2>2, <1>1, <1>4, <1>5 DEF LoopVars
<1>7. /\ Promise(r, c, m, s.inputs, s.hashes, s.embeds) /\ Kept(m) /\ NewRefs(r, c, m, i - 1)
      /\ Covers(r, c, m, s.hashes, s.n, i - 1)
  BY <1>2 DEF LoopInv
<1>8. Promise(r, c, u, s.inputs, s.hashes, s.embeds)
  BY <1>5, <1>7, Zenon DEF Promise
<1>9. Kept(u)
  BY <1>5, <1>7, Zenon DEF Kept
<1>10. NewRefs(r, c, u, i)
  <2> SUFFICES ASSUME NEW h \in DOMAIN u.cached, NEW q, q \in u.cached[h], q \notin manager.cached[h]
               PROVE  q = r /\ \E j \in 1 .. i : Ahead(r, c, j, h)
    BY Zenon DEF NewRefs
  <2>1. CASE q \in m.cached[h]
    <3>1. NewRefs(r, c, m, i)
      BY <1>0, <1>7, NewRefsLater
    <3> QED  BY <2>1, <3>1, <1>5, Zenon DEF NewRefs
  <2>2. CASE h = f.mm_hash /\ q = r
    <3>1. i \in 1 .. i /\ Ahead(r, c, i, h)
      BY <2>2 DEF Ahead
    <3> QED  BY <2>2, <3>1
  <2> QED  BY <2>1, <2>2, <1>5
<1>11. Covers(r, c, u, s.hashes, s.n, i)
  <2>1. \A h : Has(r, m, s.hashes, h) => Has(r, u, s.hashes, h)
    BY <1>5, Zenon DEF Has
  <2>2. Has(r, u, s.hashes, f.mm_hash)
    BY <1>2, <1>5, Zenon DEF Has
  <2>3. Covers(r, c, u, s.hashes, s.n, i - 1)
    BY <1>7, <2>1, CoversMore
  <2> QED  BY <2>2, <2>3, CoversNext
<1>12. t.n # 0 /\ ~t.break
  BY <1>1, <1>4
<1> QED  BY <1>4, <1>6, <1>8, <1>9, <1>10, <1>11, <1>12 DEF LoopInv

(* The variables of the loop after an eviction.                            *)
MadeRoom(s, need) ==
  [m |-> evict(s.m, need), n |-> s.n, budget |-> s.budget, embeds |-> s.embeds,
   inputs |-> s.inputs, hashes |-> s.hashes, break |-> s.break]

(* Entries make room for an item, and for all promised before.             *)
LEMMA LoopEvict ==
  ASSUME NEW r \in Reqs, NEW c \in Nat, NEW n0 \in Nat \ {0}, NEW i, NEW s, LoopInv(r, c, n0, s, i),
         ~s.break, NEW need \in Nat, HasSpace(s.m, need), s.embeds <= need,
         NEW t, t = MadeRoom(s, need)
  PROVE  /\ LoopInv(r, c, n0, t, i) /\ need <= t.m.num_free_slots
         /\ DOMAIN t.m.cached \in SUBSET DOMAIN s.m.cached
<1>0. LoopVars(n0, s)
  BY DEF LoopInv
<1>1. /\ s = [m |-> s.m, n |-> s.n, budget |-> s.budget, embeds |-> s.embeds,
             inputs |-> s.inputs, hashes |-> s.hashes, break |-> s.break]
      /\ s.n = n0 /\ Sound(s.m)
  BY <1>0 DEF LoopVars
<1>2. PICK m, u : m = s.m /\ u = evict(m, need)
  OBVIOUS
<1>3. t = [m |-> u, n |-> s.n, budget |-> s.budget, embeds |-> s.embeds,
           inputs |-> s.inputs, hashes |-> s.hashes, break |-> s.break]
  BY <1>2 DEF MadeRoom
<1>4. /\ t.m = u /\ t.n = s.n /\ t.budget = s.budget /\ t.embeds = s.embeds
      /\ t.inputs = s.inputs /\ t.hashes = s.hashes /\ t.break = s.break
  BY <1>3
<1>5. /\ Sound(u) /\ need <= u.num_free_slots
      /\ DOMAIN u.cached \in SUBSET DOMAIN m.cached
      /\ u.freed = m.freed \cup (DOMAIN m.cached \ DOMAIN u.cached)
      /\ \A h \in DOMAIN m.cached : h \notin DOMAIN u.cached => m.cached[h] = {}
      /\ \A h \in DOMAIN u.cached : \A q : q \in u.cached[h] <=> q \in m.cached[h]
  <2>1. Sound(m) /\ HasSpace(m, need)
    BY <1>1, <1>2
  <2>2. u = evict(m, need)
    BY <1>2
  <2> HIDE <1>2
  <2>3. Sound(u) /\ need <= u.num_free_slots /\ DOMAIN u.cached \in SUBSET DOMAIN m.cached
    BY <2>1, <2>2, EvictEffect
  <2>4. u.freed = m.freed \cup (DOMAIN m.cached \ DOMAIN u.cached)
    BY <2>1, <2>2, EvictEffect
  <2>5. \A h \in DOMAIN m.cached : h \notin DOMAIN u.cached => m.cached[h] = {}
    BY <2>1, <2>2, EvictEffect
  <2>6. \A h \in DOMAIN u.cached : \A q : q \in u.cached[h] <=> q \in m.cached[h]
    BY <2>1, <2>2, EvictEffect
  <2> QED  BY <2>3, <2>4, <2>5, <2>6
<1>6. LoopVars(n0, t)
  <2>1. t = [m |-> t.m, n |-> t.n, budget |-> t.budget, embeds |-> t.embeds,
             inputs |-> t.inputs, hashes |-> t.hashes, break |-> t.break]
    BY <1>3, <1>4
  <2>2. s.n \in Nat /\ s.n <= n0 /\ s.break \in BOOLEAN /\ s.budget \in Nat /\ s.budget <= encoder_compute_budget
    BY <1>0 DEF LoopVars
  <2> QED  BY <2>1, <2>2, <1>1, <1>4, <1>5 DEF LoopVars
<1>7. /\ Promise(r, c, m, s.inputs, s.hashes, s.embeds) /\ Kept(m) /\ NewRefs(r, c, m, i)
      /\ Covers(r, c, m, s.hashes, s.n, i)
  BY <1>2 DEF LoopInv
<1>8. Promise(r, c, u, s.inputs, s.hashes, s.embeds)
  <2>1. s.embeds \in Nat /\ u.num_free_slots \in Nat
    BY <1>5, <1>7, PromiseFacts, SoundFacts
  <2>2. s.embeds <= u.num_free_slots
    BY <2>1, <1>5
  <2>3. s.hashes \cap DOMAIN u.cached = {}
    <3>1. s.hashes \cap DOMAIN m.cached = {}
      BY <1>7, Zenon DEF Promise
    <3> QED  BY <3>1, <1>5
  <2> QED  BY <2>2, <2>3, <1>7, Zenon DEF Promise
<1>9. Kept(u)
  <2>1. /\ DOMAIN m.cached \in SUBSET DOMAIN manager.cached
        /\ m.freed = manager.freed \cup (DOMAIN manager.cached \ DOMAIN m.cached)
        /\ \A h \in DOMAIN manager.cached : h \notin DOMAIN m.cached => manager.cached[h] = {}
        /\ \A h \in DOMAIN m.cached : \A q : q \in manager.cached[h] => q \in m.cached[h]
    BY <1>7, Zenon DEF Kept
  <2>2. /\ DOMAIN u.cached \in SUBSET DOMAIN manager.cached
        /\ u.freed = manager.freed \cup (DOMAIN manager.cached \ DOMAIN u.cached)
    BY <2>1, <1>5
  <2>3. \A h \in DOMAIN manager.cached : h \notin DOMAIN u.cached => manager.cached[h] = {}
    <3> SUFFICES ASSUME NEW h \in DOMAIN manager.cached, h \notin DOMAIN u.cached,
                        h \in DOMAIN m.cached
                 PROVE  manager.cached[h] = {}
      BY <2>1
    <3>1. m.cached[h] = {}
      BY <1>5
    <3>2. \A q : q \notin manager.cached[h]
      BY <2>1, <3>1
    <3> QED  BY <3>2
  <2>4. \A h \in DOMAIN u.cached : \A q : q \in manager.cached[h] => q \in u.cached[h]
    BY <2>1, <1>5
  <2> QED  BY <2>2, <2>3, <2>4, Zenon DEF Kept
<1>10. NewRefs(r, c, u, i)
  BY <1>5, <1>7, Zenon DEF NewRefs
<1>11. Covers(r, c, u, s.hashes, s.n, i)
  <2>1. \A h \in DOMAIN m.cached : r \in m.cached[h] => h \in DOMAIN u.cached
    BY <1>5
  <2>2. \A h : Has(r, m, s.hashes, h) => Has(r, u, s.hashes, h)
    BY <2>1, <1>5, Zenon DEF Has
  <2> QED  BY <1>7, <2>2, CoversMore
<1>12. t.n # 0 /\ ~t.break
  BY <1>1, <1>4
<1>13. LoopInv(r, c, n0, t, i)
  BY <1>4, <1>6, <1>8, <1>9, <1>10, <1>11, <1>12 DEF LoopInv
<1> QED  BY <1>2, <1>4, <1>5, <1>13

(* One more input is promised: it fits beside those promised before.       *)
LEMMA PromiseGrows ==
  ASSUME NEW r \in Reqs, NEW c, NEW m, NEW inputs, NEW hashes, NEW embeds,
         Promise(r, c, m, inputs, hashes, embeds),
         NEW i \in 1 .. Len(mm_features[r]), NEW f \in Features, f = mm_features[r][i],
         f.mm_hash \notin DOMAIN m.cached, f.mm_hash \notin hashes, f.offset + f.length > c,
         NEW e \in Nat, e = get_num_embeds(f), e + embeds <= m.num_free_slots
  PROVE  Promise(r, c, m, Append(inputs, f), hashes \cup {f.mm_hash}, embeds + e)
<1> DEFINE hs == hashes \cup {f.mm_hash}
<1>1. /\ inputs \in Seq(Features)
      /\ hashes = {inputs[k].mm_hash : k \in 1 .. Len(inputs)}
      /\ \A j, k \in 1 .. Len(inputs) : inputs[j].mm_hash = inputs[k].mm_hash => j = k
      /\ hashes \cap DOMAIN m.cached = {} /\ embeds = Slots(hashes)
      /\ \A h \in hashes : \E j \in 1 .. Len(mm_features[r]) : Ahead(r, c, j, h)
  BY Zenon DEF Promise
<1>2. PICK l \in Nat : l = Len(inputs)
  BY <1>1
<1>3. PICK a \in Seq(Features) : a = Append(inputs, f)
  <2>1. PICK q \in Seq(Features) : q = inputs
    BY <1>1
  <2>2. Append(q, f) \in Seq(Features)
    OBVIOUS
  <2> QED  BY <2>1, <2>2
<1>4. Len(a) = l + 1 /\ (\A k \in 1 .. l : a[k] = inputs[k]) /\ a[l + 1] = f
  <2>1. PICK q \in Seq(Features) : q = inputs
    BY <1>1
  <2>2. Len(a) = Len(q) + 1 /\ (\A k \in 1 .. Len(q) : a[k] = q[k]) /\ a[Len(q) + 1] = f
    BY <1>3, <2>1
  <2> QED  BY <1>2, <2>1, <2>2
<1>5. \A k : k \in 1 .. l + 1 <=> k \in 1 .. l \/ k = l + 1
  OBVIOUS
<1>6. hs = {a[k].mm_hash : k \in 1 .. Len(a)}
  BY <1>1, <1>2, <1>4, <1>5
<1>7. \A j, k \in 1 .. Len(a) : a[j].mm_hash = a[k].mm_hash => j = k
  <2>1. \A k \in 1 .. l : inputs[k].mm_hash # f.mm_hash
    BY <1>1, <1>2
  <2> QED  BY <2>1, <1>1, <1>2, <1>4, <1>5
<1>8. hashes \in SUBSET Hashes /\ embeds \in Nat
  BY PromiseFacts
<1>9. f.mm_hash \in Hashes /\ Embeds(f.mm_hash) = e
  BY ItemFacts
<1>10. embeds + e = Slots(hs)
  BY <1>1, <1>8, <1>9, SlotsAdd
<1>11. embeds + e <= m.num_free_slots
  <2>1. embeds + e = e + embeds
    BY <1>8
  <2> QED  BY <2>1
<1>12. hs \cap DOMAIN m.cached = {}
  BY <1>1
<1>13. \A h \in hs : \E j \in 1 .. Len(mm_features[r]) : Ahead(r, c, j, h)
  <2>1. Ahead(r, c, i, f.mm_hash)
    BY DEF Ahead
  <2> QED  BY <2>1, <1>1, Zenon
<1> HIDE DEF hs
<1>14. Promise(r, c, m, a, hs, embeds + e)
  BY <1>6, <1>7, <1>10, <1>11, <1>12, <1>13, Zenon DEF Promise
<1> QED  BY <1>3, <1>14 DEF hs

Extended(inputs, f) == Append(inputs, f)

(* An item is scheduled.                                                   *)
LEMMA LoopPromises ==
  ASSUME NEW r \in Reqs, NEW c \in Nat, NEW n0 \in Nat \ {0}, NEW i \in 1 .. Len(mm_features[r]),
         encoder_compute_budget \in Nat,
         NEW s, LoopInv(r, c, n0, s, i - 1), ~s.break,
         NEW f \in Features, f = mm_features[r][i], f.mm_hash \notin DOMAIN s.m.cached,
         f.mm_hash \notin s.hashes, f.offset + f.length > c,
         NEW e \in Nat, e = get_num_embeds(f), e <= s.budget, e + s.embeds <= s.m.num_free_slots,
         NEW t, t = [m |-> s.m, n |-> s.n, budget |-> s.budget - e, embeds |-> s.embeds + e,
                     inputs |-> Extended(s.inputs, f), hashes |-> s.hashes \cup {f.mm_hash},
                     break |-> s.break]
  PROVE  LoopInv(r, c, n0, t, i)
<1>0. LoopVars(n0, s) /\ Len(mm_features[r]) \in Nat
  BY ItemsOf DEF LoopInv
<1>1. /\ t.m = s.m /\ t.n = s.n /\ t.budget = s.budget - e /\ t.embeds = s.embeds + e
      /\ t.inputs = Extended(s.inputs, f) /\ t.hashes = s.hashes \cup {f.mm_hash} /\ t.break = s.break
  OBVIOUS
<1>2. LoopVars(n0, t)
  <2>1. /\ Sound(s.m) /\ s.n = n0 /\ s.n \in Nat /\ s.n <= n0 /\ s.break \in BOOLEAN
        /\ s.budget \in Nat /\ s.budget <= encoder_compute_budget
    BY <1>0 DEF LoopVars
  <2>2. s.budget - e \in Nat /\ s.budget - e <= s.budget
    BY <2>1
  <2>3. t = [m |-> t.m, n |-> t.n, budget |-> t.budget, embeds |-> t.embeds,
             inputs |-> t.inputs, hashes |-> t.hashes, break |-> t.break]
    BY <1>1
  <2>4. s.budget - e <= encoder_compute_budget
    BY <2>1, <2>2
  <2> QED  BY <2>1, <2>2, <2>3, <2>4, <1>1, Zenon DEF LoopVars
<1>3. /\ Promise(r, c, s.m, s.inputs, s.hashes, s.embeds) /\ Kept(s.m) /\ NewRefs(r, c, s.m, i - 1)
      /\ Covers(r, c, s.m, s.hashes, s.n, i - 1)
  BY DEF LoopInv
<1>4. Promise(r, c, s.m, t.inputs, t.hashes, t.embeds)
  <2>1. Promise(r, c, s.m, Append(s.inputs, f), s.hashes \cup {f.mm_hash}, s.embeds + e)
    BY <1>3, PromiseGrows
  <2> QED  BY <2>1, <1>1, Zenon DEF Extended
<1>5. NewRefs(r, c, s.m, i)
  BY <1>0, <1>3, NewRefsLater
<1>6. Covers(r, c, s.m, t.hashes, s.n, i)
  <2>1. Has(r, s.m, t.hashes, f.mm_hash)
    BY <1>1 DEF Has
  <2>2. \A h : Has(r, s.m, s.hashes, h) => Has(r, s.m, t.hashes, h)
    BY <1>1 DEF Has
  <2>3. Covers(r, c, s.m, t.hashes, s.n, i - 1)
    BY <1>3, <2>2, CoversMore
  <2> QED  BY <2>1, <2>3, CoversNext
<1>7. t.n # 0 /\ ~t.break
  BY <1>0, <1>1 DEF LoopVars
<1> QED  BY <1>1, <1>2, <1>3, <1>4, <1>5, <1>6, <1>7 DEF LoopInv

(* can_allocate counts what was promised before; evict then makes the      *)
(* room.                                                                   *)
LEMMA CanAllocateFacts ==
  ASSUME NEW m, NEW f, NEW budget, NEW embeds, can_allocate(m, f, budget, embeds)
  PROVE  get_num_embeds(f) <= budget /\ HasSpace(m, get_num_embeds(f) + embeds)
<1> QED  BY Zenon DEF can_allocate

(* One iteration keeps the invariant.                                      *)
LEMMA LoopStep ==
  ASSUME NEW r \in Reqs, NEW c \in Nat, NEW n0 \in Nat \ {0}, NEW i \in 1 .. Len(mm_features[r]),
         encoder_compute_budget \in Nat, use_eagle \in BOOLEAN,
         NEW s, LoopInv(r, c, n0, s, i - 1),
         NEW f, f = mm_features[r][i], NEW t, t = EncoderInput(r, c, s, f)
  PROVE  LoopInv(r, c, n0, t, i)
<1>0. f \in Features /\ f.offset \in Nat /\ f.length \in Nat /\ get_num_embeds(f) \in Nat
  BY ItemsOf, ItemFacts
<1>1. PICK sh \in {0, 1} : sh = shift_computed_tokens /\ (~use_eagle => sh = 0)
  BY DEF shift_computed_tokens
<1>2. LoopVars(n0, s) /\ Promise(r, c, s.m, s.inputs, s.hashes, s.embeds)
  BY DEF LoopInv
<1>3. s.embeds \in Nat
  BY <1>2, PromiseFacts
<1>4. ~s.break => s.n = n0
  BY <1>2 DEF LoopVars
<1>5. /\ s = [m |-> s.m, n |-> s.n, budget |-> s.budget, embeds |-> s.embeds,
             inputs |-> s.inputs, hashes |-> s.hashes, break |-> s.break]
      /\ s.budget \in Nat
  BY <1>2 DEF LoopVars
<1>6. PICK e \in Nat : e = get_num_embeds(f)
  BY <1>0
<1>11. CASE s.break
  <2>1. t = s
    BY <1>11, Zenon DEF EncoderInput
  <2> QED  BY <1>11, <2>1, LoopSkip
<1>12. CASE ~s.break /\ f.offset >= c + s.n + sh
  <2>1. t = [s EXCEPT !.break = TRUE]
    BY <1>1, <1>12, Zenon DEF EncoderInput
  <2>2. t = [s EXCEPT !.break = TRUE, !.n = n0]
    BY <2>1, <1>4, <1>5, <1>12
  <2>3. /\ n0 \in Nat /\ n0 <= n0 /\ (n0 > 0 => c + n0 <= f.offset)
        /\ (n0 = 0 /\ ~use_eagle => f.offset <= c)
    <3>1. f.offset >= c + n0 + sh
      BY <1>4, <1>12
    <3> QED  BY <3>1, <1>0, <1>1
  <2> QED  BY <1>12, <2>2, <2>3, LoopCut
<1>13. CASE ~s.break /\ ~(f.offset >= c + s.n + sh) /\ f.offset + f.length <= c
  <2>1. t = s
    BY <1>1, <1>13, Zenon DEF EncoderInput
  <2>2. ~Needed(f, c, s.n)
    BY <1>0, <1>13 DEF Needed
  <2> QED  BY <2>1, <2>2, LoopSkip
<1> DEFINE Here == ~s.break /\ ~(f.offset >= c + s.n + sh) /\ ~(f.offset + f.length <= c)
<1>14. CASE Here /\ f.mm_hash \in s.hashes
  <2>1. t = s
    BY <1>1, <1>14, Zenon DEF EncoderInput
  <2>2. Has(r, s.m, s.hashes, f.mm_hash)
    BY <1>14 DEF Has
  <2> QED  BY <2>1, <2>2, LoopSkip
<1>15. CASE Here /\ f.mm_hash \notin s.hashes /\ f.mm_hash \in DOMAIN s.m.cached
  <2>1. t = [s EXCEPT !.m = touch(@, r, f)]
    BY <1>1, <1>15, Zenon DEF EncoderInput
  <2>2. f.offset + f.length > c
    BY <1>0, <1>15
  <2> QED  BY <1>0, <1>15, <2>1, <2>2, LoopTouch
<1> DEFINE New == Here /\ f.mm_hash \notin s.hashes /\ f.mm_hash \notin DOMAIN s.m.cached
<1>16. CASE New /\ RollsBack(f, c, s.n)
  <2>1. t = [s EXCEPT !.break = TRUE, !.n = f.offset - c]
    BY <1>1, <1>16, Zenon DEF EncoderInput
  <2>2. c < f.offset
    BY <1>16 DEF RollsBack
  <2>3. ~(f.offset >= c + n0 + sh) /\ ~s.break
    BY <1>4, <1>16
  <2>4. PICK n : n = f.offset - c
    OBVIOUS
  <2>5. n \in Nat /\ n <= n0 /\ (n > 0 => c + n <= f.offset) /\ (n = 0 /\ ~use_eagle => f.offset <= c)
    <3>1. PICK o \in Nat : o = f.offset
      BY <1>0
    <3>2. c < o /\ ~(o >= c + n0 + sh) /\ n = o - c
      BY <2>2, <2>3, <2>4, <3>1, Zenon
    <3>3. n \in Nat /\ n <= n0 /\ c + n <= o /\ n # 0
      BY <1>1, <3>2
    <3> QED  BY <3>1, <3>3, Zenon
  <2>6. t = [s EXCEPT !.break = TRUE, !.n = n]
    BY <2>1, <2>4
  <2> QED  BY <2>3, <2>5, <2>6, LoopCut
<1>17. CASE New /\ ~RollsBack(f, c, s.n) /\ ~can_allocate(s.m, f, s.budget, s.embeds)
  <2>1. t = [s EXCEPT !.break = TRUE, !.n = TokensBefore(f, c)]
    BY <1>1, <1>17, Zenon DEF EncoderInput
  <2>2. TokensBefore(f, c) = IF 0 <= f.offset - (c + sh) THEN f.offset - (c + sh) ELSE 0
    <3>1. PICK z \in Int : z = f.offset - (c + sh)
      BY <1>0
    <3>2. TokensBefore(f, c) = Max({0, z})
      BY <1>1, <3>1, Zenon DEF TokensBefore
    <3>3. Max({0, z}) = IF 0 <= z THEN z ELSE 0
      BY MaxOfTwo
    <3> QED  BY <3>1, <3>2, <3>3
  <2>3. PICK n : n = TokensBefore(f, c)
    OBVIOUS
  <2>4. ~(f.offset >= c + n0 + sh) /\ ~s.break
    BY <1>4, <1>17
  <2>5. n \in Nat /\ n <= n0 /\ (n > 0 => c + n <= f.offset) /\ (n = 0 /\ ~use_eagle => f.offset <= c)
    BY <1>0, <1>1, <2>2, <2>3, <2>4, SMTT(30)
  <2>6. t = [s EXCEPT !.break = TRUE, !.n = n]
    BY <2>1, <2>3
  <2> QED  BY <2>4, <2>5, <2>6, LoopCut
<1>18. CASE New /\ ~RollsBack(f, c, s.n) /\ can_allocate(s.m, f, s.budget, s.embeds)
  <2>1. PICK need \in Nat : need = e + s.embeds
    BY <1>3
  <2>2. e <= s.budget /\ HasSpace(s.m, need) /\ s.embeds <= need
    <3>1. can_allocate(s.m, f, s.budget, s.embeds)
      BY <1>18
    <3>2. get_num_embeds(f) <= s.budget /\ HasSpace(s.m, get_num_embeds(f) + s.embeds)
      BY <3>1, CanAllocateFacts, Zenon
    <3>3. s.embeds <= e + s.embeds
      BY <1>3
    <3> QED  BY <1>6, <2>1, <3>2, <3>3, Zenon
  <2>3. PICK u : u = MadeRoom(s, need)
    OBVIOUS
  <2>4. /\ LoopInv(r, c, n0, u, i - 1) /\ need <= u.m.num_free_slots
        /\ DOMAIN u.m.cached \in SUBSET DOMAIN s.m.cached
    <3>1. ~s.break
      BY <1>18
    <3>2. PICK k : k = i - 1
      OBVIOUS
    <3>3. LoopInv(r, c, n0, s, k)
      BY <3>2
    <3> HIDE DEF Here, New
    <3>4. LoopInv(r, c, n0, u, k) /\ need <= u.m.num_free_slots /\ DOMAIN u.m.cached \in SUBSET DOMAIN s.m.cached
      BY <2>2, <2>3, <3>1, <3>3, LoopEvict
    <3> QED  BY <3>2, <3>4
  <2>5. /\ u.n = s.n /\ u.budget = s.budget /\ u.embeds = s.embeds /\ u.inputs = s.inputs
        /\ u.hashes = s.hashes /\ u.break = s.break /\ u.m = evict(s.m, need)
    BY <2>3 DEF MadeRoom
  <2>6. CASE CurrEmbeds(f, c, s.n) = 0
    <3>1. t = [s EXCEPT !.m = evict(s.m, need)]
      BY <1>1, <1>6, <1>18, <2>1, <2>6, Zenon DEF EncoderInput
    <3>2. t = u
      BY <1>5, <2>3, <3>1 DEF MadeRoom
    <3>3. ~Needed(f, c, u.n)
      BY <2>5, <2>6 DEF Needed
    <3> QED  BY <2>4, <3>2, <3>3, LoopSkip
  <2>7. CASE CurrEmbeds(f, c, s.n) # 0
    <3>1. PICK v : v = evict(s.m, need)
      OBVIOUS
    <3>2. t = [s EXCEPT !.m = v, !.inputs = Append(@, f), !.hashes = @ \cup {f.mm_hash},
                        !.embeds = @ + e, !.budget = @ - e]
      BY <1>1, <1>6, <1>18, <2>1, <2>7, <3>1, Zenon DEF EncoderInput
    <3>3. PICK a, hs, x, y : /\ a = Append(s.inputs, f) /\ hs = s.hashes \cup {f.mm_hash}
                             /\ x = s.embeds + e /\ y = s.budget - e
      OBVIOUS
    <3>4. t = [s EXCEPT !.m = v, !.inputs = a, !.hashes = hs, !.embeds = x, !.budget = y]
      BY <3>2, <3>3, Zenon
    <3>5. t = [m |-> v, n |-> s.n, budget |-> y, embeds |-> x, inputs |-> a, hashes |-> hs,
               break |-> s.break]
      BY <1>5, <3>4
    <3>6. t = [m |-> u.m, n |-> u.n, budget |-> u.budget - e, embeds |-> u.embeds + e,
               inputs |-> Extended(u.inputs, f), hashes |-> u.hashes \cup {f.mm_hash},
               break |-> u.break]
      BY <2>5, <3>1, <3>3, <3>5, Zenon DEF Extended
    <3>7. f.mm_hash \notin DOMAIN u.m.cached /\ f.mm_hash \notin u.hashes /\ ~u.break
      BY <1>18, <2>4, <2>5
    <3>8. e <= u.budget /\ e + u.embeds <= u.m.num_free_slots /\ f.offset + f.length > c
      BY <1>0, <1>18, <2>1, <2>2, <2>4, <2>5, SMTT(30)
    <3> HIDE DEF Here, New
    <3> QED  BY <1>0, <1>6, <2>4, <3>6, <3>7, <3>8, LoopPromises
  <2> QED  BY <2>6, <2>7
<1> QED  BY <1>11, <1>12, <1>13, <1>14, <1>15, <1>16, <1>17, <1>18, Zenon

(* The loop of _try_schedule_encoder_inputs starts in its invariant.       *)
LEMMA LoopBase ==
  ASSUME NEW r \in Reqs, NEW c \in Nat, NEW n0 \in Nat \ {0}, encoder_compute_budget \in Nat,
         Sound(manager), NEW s, s = Before(n0)
  PROVE  LoopInv(r, c, n0, s, 0)
<1>1. s = [m |-> manager, n |-> n0, budget |-> encoder_compute_budget, embeds |-> 0,
           inputs |-> << >>, hashes |-> {}, break |-> FALSE]
  <2>1. (n0 = 0) = FALSE
    OBVIOUS
  <2> QED  BY <2>1, Zenon DEF Before
<1>2. /\ s.m = manager /\ s.n = n0 /\ s.budget = encoder_compute_budget /\ s.embeds = 0
      /\ s.inputs = << >> /\ s.hashes = {} /\ s.break = FALSE
  BY <1>1
<1>3. LoopVars(n0, s)
  BY <1>1, <1>2 DEF LoopVars
<1>4. Promise(r, c, s.m, s.inputs, s.hashes, s.embeds)
  <2>0. << >> \in Seq(Features) /\ \A k : k \notin 1 .. Len(<< >>)
    OBVIOUS
  <2>1. /\ << >> \in Seq(Features) /\ {} = {<< >>[k].mm_hash : k \in 1 .. Len(<< >>)}
        /\ \A j, k \in 1 .. Len(<< >>) : << >>[j].mm_hash = << >>[k].mm_hash => j = k
    BY <2>0, Zenon
  <2>2. 0 = Slots({}) /\ 0 <= manager.num_free_slots
    <3>1. manager.num_free_slots \in Nat
      BY SoundFacts, Zenon
    <3> QED  BY <3>1, SlotsEmpty
  <2>3. {} \cap DOMAIN manager.cached = {}
    OBVIOUS
  <2>4. Promise(r, c, manager, << >>, {}, 0)
    BY <2>1, <2>2, <2>3, Zenon DEF Promise
  <2> QED  BY <1>2, <2>4
<1>5. Kept(manager) /\ NewRefs(r, c, manager, 0)
  <2>1. manager.freed = manager.freed \cup (DOMAIN manager.cached \ DOMAIN manager.cached)
    OBVIOUS
  <2>2. DOMAIN manager.cached \in SUBSET DOMAIN manager.cached
    OBVIOUS
  <2> QED  BY <2>1, <2>2, Zenon DEF Kept, NewRefs
<1>6. Covers(r, c, manager, {}, n0, 0)
  <2>1. \A j \in 1 .. Len(mm_features[r]) : ~(j <= 0)
    BY ItemsOf
  <2> QED  BY <2>1, Zenon DEF Covers
<1>7. s.n # 0
  BY <1>2
<1> QED  BY <1>2, <1>3, <1>4, <1>5, <1>6, <1>7 DEF LoopInv

(* What _try_schedule_encoder_inputs returns.                              *)
LEMMA TryEffect ==
  ASSUME NEW r \in Reqs, NEW c \in Nat, NEW n0 \in Nat \ {0}, encoder_compute_budget \in Nat,
         use_eagle \in BOOLEAN, Sound(manager),
         NEW t, t = _try_schedule_encoder_inputs(r, c, n0)
  PROVE  LoopInv(r, c, n0, t, Len(mm_features[r]))
<1>1. PICK n \in Nat : n = Len(mm_features[r])
  BY ItemsOf
<1>0. PICK F : F = InputsRun(r, c, n0)
  OBVIOUS
<1>2. /\ F[0] = Before(n0)
      /\ \A i \in 1 .. n : F[i] = EncoderInput(r, c, F[i - 1], mm_features[r][i])
      /\ t = F[n]
  BY <1>0, <1>1, InputsLoop
<1> DEFINE K == {i \in 0 .. n : LoopInv(r, c, n0, F[i], i)}
<1>3. 0 \in K
  <2>1. LoopInv(r, c, n0, F[0], 0)
    BY <1>2, LoopBase
  <2>2. 0 \in 0 .. n
    OBVIOUS
  <2> QED  BY <2>1, <2>2, Zenon
<1>4. ASSUME NEW i \in 1 .. n, i - 1 \in K PROVE i \in K
  <2>1. LoopInv(r, c, n0, F[i - 1], i - 1)
    BY <1>4, Zenon
  <2>2. F[i] = EncoderInput(r, c, F[i - 1], mm_features[r][i])
    BY <1>2
  <2>3. i \in 1 .. Len(mm_features[r])
    BY <1>1
  <2>4. LoopInv(r, c, n0, F[i], i)
    BY <2>1, <2>2, <2>3, LoopStep
  <2>5. i \in 0 .. n
    OBVIOUS
  <2> QED  BY <2>4, <2>5, Zenon
<1>5. \A i \in 0 .. n : i \in K
  <2> HIDE DEF K
  <2> QED  BY <1>3, <1>4, SetInduction
<1>6. n \in 0 .. n
  OBVIOUS
<1>7. LoopInv(r, c, n0, F[n], n)
  BY <1>5, <1>6, Zenon
<1> QED  BY <1>1, <1>2, <1>7, Zenon

Batches == [parts : Seq(Parts), inputs : SUBSET Hashes, freed : SUBSET Hashes]

(* What the worker with this cache has stored after k batches of queue q.  *)
Stored(cache, q, k) == ExecutedRun(cache, q)[k]

(* The cache of the worker, batch by batch.                                *)
LEMMA StoredFacts ==
  ASSUME NEW cache, NEW q \in Seq(Batches), NEW n \in Nat, n = Len(q)
  PROVE  /\ Stored(cache, q, 0) = cache
         /\ \A i \in 1 .. n : Stored(cache, q, i) = Executed(Stored(cache, q, i - 1), q[i])
         /\ ExecutedAll(cache, q) = Stored(cache, q, n)
<1>1. PICK F : F = ExecutedRun(cache, q)
  OBVIOUS
<1>2. /\ F[0] = cache
      /\ \A i \in 1 .. n : F[i] = Executed(F[i - 1], q[i])
      /\ ExecutedAll(cache, q) = F[n]
  BY <1>1, ExecutedLoop
<1> QED  BY <1>1, <1>2, Zenon DEF Stored

(* The first n batches of q1 are those of q2 after d, from the same cache. *)
SameBatches(q1, q2, d, n) == \A i \in 1 .. n : q1[i] = q2[i + d]
SameStored(c1, q1, c2, q2, d, n) == \A i \in 0 .. n : Stored(c1, q1, i) = Stored(c2, q2, i + d)

(* Two runs that execute the same batches store the same.                  *)
LEMMA StoredSame ==
  ASSUME NEW c1, NEW q1 \in Seq(Batches), NEW n1 \in Nat, n1 = Len(q1), NEW c2, NEW q2 \in Seq(Batches), NEW n2 \in Nat, n2 = Len(q2),
         NEW d \in Nat, NEW n \in Nat, n <= n1, n + d <= n2,
         Stored(c1, q1, 0) = Stored(c2, q2, d), SameBatches(q1, q2, d, n)
  PROVE  SameStored(c1, q1, c2, q2, d, n)
<1>03. \A i \in 1 .. n : q1[i] = q2[i + d]
  BY Zenon DEF SameBatches
<1>01. \A i \in 1 .. n1 : Stored(c1, q1, i) = Executed(Stored(c1, q1, i - 1), q1[i])
  BY StoredFacts
<1>02. \A i \in 1 .. n2 : Stored(c2, q2, i) = Executed(Stored(c2, q2, i - 1), q2[i])
  BY StoredFacts, ZenonT(60)
<1> DEFINE K == {i \in 0 .. n : Stored(c1, q1, i) = Stored(c2, q2, i + d)}
<1>1. 0 \in K
  <2>1. 0 \in 0 .. n /\ 0 + d = d
    OBVIOUS
  <2> QED  BY <2>1, Zenon
<1>2. ASSUME NEW i \in 1 .. n, i - 1 \in K PROVE i \in K
  <2>1. i \in 0 .. n /\ i \in 1 .. n1 /\ i + d \in 1 .. n2 /\ (i + d) - 1 = (i - 1) + d
    OBVIOUS
  <2>2. Stored(c1, q1, i) = Executed(Stored(c1, q1, i - 1), q1[i])
    BY <2>1, <1>01, Zenon
  <2>3. Stored(c2, q2, i + d) = Executed(Stored(c2, q2, (i - 1) + d), q2[i + d])
    BY <2>1, <1>02, Zenon
  <2>4. Stored(c1, q1, i - 1) = Stored(c2, q2, (i - 1) + d)
    BY <1>2, Zenon
  <2> QED  BY <2>1, <2>2, <2>3, <2>4, <1>03, Zenon
<1>3. \A i \in 0 .. n : i \in K
  <2> HIDE DEF K
  <2> QED  BY <1>1, <1>2, SetInduction
<1> QED  BY <1>3, Zenon DEF SameStored

(* a is q with b after it.                                                 *)
Appended(q, b, n, a) ==
  /\ n = Len(q) /\ a \in Seq(Batches) /\ Len(a) = n + 1
  /\ (\A i \in 1 .. n : a[i] = q[i]) /\ a[n + 1] = b

(* A batch joins the queue.                                                *)
LEMMA StoredBefore ==
  ASSUME NEW cache, NEW q \in Seq(Batches), NEW b, NEW n \in Nat, NEW a, Appended(q, b, n, a)
  PROVE  \A i \in 0 .. n : Stored(cache, a, i) = Stored(cache, q, i)
<1>0. /\ n = Len(q) /\ a \in Seq(Batches) /\ Len(a) = n + 1
      /\ (\A i \in 1 .. n : a[i] = q[i]) /\ a[n + 1] = b
  BY Zenon DEF Appended
<1>1. Stored(cache, a, 0) = cache /\ Stored(cache, q, 0) = cache
  BY <1>0, StoredFacts
<1>2. \A i \in 1 .. n : a[i] = q[i + 0]
  BY <1>0
<1>3. \A i \in 0 .. n : Stored(cache, a, i) = Stored(cache, q, i + 0)
  <2>1. n + 1 \in Nat /\ n + 1 = Len(a) /\ n <= n + 1 /\ n + 0 <= n /\ 0 \in Nat
    BY <1>0
  <2>2. PICK k \in Nat : k = n + 1
    OBVIOUS
  <2>3. k = Len(a) /\ n <= k
    BY <2>1, <2>2
  <2>4. PICK d \in Nat : d = 0 /\ n + d <= n
    OBVIOUS
  <2>5. \A i \in 0 .. n : Stored(cache, a, i) = Stored(cache, q, i + d)
    <3>1. Stored(cache, a, 0) = Stored(cache, q, d) /\ SameBatches(a, q, d, n)
      BY <1>1, <1>2, <2>4, Zenon DEF SameBatches
    <3>2. SameStored(cache, a, cache, q, d, n)
      BY <1>0, <2>3, <2>4, <3>1, StoredSame
    <3> QED  BY <3>2, Zenon DEF SameStored
  <2> QED  BY <2>4, <2>5, Zenon
<1>4. \A i \in 0 .. n : i + 0 = i
  OBVIOUS
<1> QED  BY <1>3, <1>4, Zenon

LEMMA ExecutedAppend ==
  ASSUME NEW cache, NEW q \in Seq(Batches), NEW b, NEW n \in Nat, NEW a, Appended(q, b, n, a)
  PROVE  ExecutedAll(cache, a) = Executed(ExecutedAll(cache, q), b)
<1>1. /\ n = Len(q) /\ a \in Seq(Batches) /\ Len(a) = n + 1 /\ a[n + 1] = b
  BY Zenon DEF Appended
<1>2. \A i \in 0 .. n : Stored(cache, a, i) = Stored(cache, q, i)
  BY StoredBefore
<1>3. n + 1 \in Nat /\ n + 1 \in 1 .. n + 1 /\ (n + 1) - 1 = n /\ n \in 0 .. n
  OBVIOUS
<1>0. PICK k \in Nat : k = n + 1
  BY <1>3
<1>01. \A i \in 1 .. k : Stored(cache, a, i) = Executed(Stored(cache, a, i - 1), a[i])
  BY <1>0, <1>1, StoredFacts, ZenonT(60)
<1>4. Stored(cache, a, n + 1) = Executed(Stored(cache, a, n), b)
  BY <1>0, <1>01, <1>1, <1>3, Zenon
<1>5. ExecutedAll(cache, a) = Stored(cache, a, n + 1) /\ ExecutedAll(cache, q) = Stored(cache, q, n)
  <2>1. ExecutedAll(cache, a) = Stored(cache, a, k)
    BY <1>0, <1>1, StoredFacts
  <2>2. ExecutedAll(cache, q) = Stored(cache, q, n)
    BY <1>1, StoredFacts
  <2> QED  BY <1>0, <2>1, <2>2, Zenon
<1> QED  BY <1>2, <1>3, <1>4, <1>5, Zenon

(* The worker executes the first batch.                                    *)
LEMMA StoredTail ==
  ASSUME NEW cache, NEW q \in Seq(Batches), NEW n \in Nat, NEW l \in Nat, l = n + 1, l = Len(q),
         NEW c, c = Executed(cache, q[1]), NEW a \in Seq(Batches), n = Len(a), SameBatches(a, q, 1, n)
  PROVE  SameStored(c, a, cache, q, 1, n) /\ ExecutedAll(c, a) = ExecutedAll(cache, q)
<1>1. a \in Seq(Batches) /\ Len(a) = n /\ (\A i \in 1 .. n : a[i] = q[i + 1]) /\ c = Executed(cache, q[1])
  BY Zenon DEF SameBatches
<1>2. n + 1 \in Nat /\ 1 \in 1 .. n + 1 /\ 1 - 1 = 0 /\ 1 \in Nat /\ n <= n /\ n + 1 <= n + 1 /\ n \in 0 .. n
  OBVIOUS
<1>0. PICK k \in Nat : k = n + 1 /\ k = Len(q)
  OBVIOUS
<1>01. \A i \in 1 .. k : Stored(cache, q, i) = Executed(Stored(cache, q, i - 1), q[i])
  BY <1>0, StoredFacts, ZenonT(60)
<1>3. Stored(cache, q, 1) = Executed(Stored(cache, q, 0), q[1]) /\ Stored(cache, q, 0) = cache
  <2>1. Stored(cache, q, 0) = cache
    BY <1>0, StoredFacts
  <2> QED  BY <2>1, <1>0, <1>01, <1>2, Zenon
<1>4. Stored(c, a, 0) = c
  BY <1>1, StoredFacts
<1>5. Stored(c, a, 0) = Stored(cache, q, 1)
  BY <1>1, <1>3, <1>4, Zenon
<1>6. \A i \in 0 .. n : Stored(c, a, i) = Stored(cache, q, i + 1)
  <2>1. PICK d \in Nat : d = 1
    BY <1>2
  <2>2. n + d <= k /\ k = Len(q) /\ n <= n /\ n = Len(a)
    BY <1>0, <1>1, <2>1
  <2>3. Stored(c, a, 0) = Stored(cache, q, d) /\ SameBatches(a, q, d, n)
    BY <1>1, <1>5, <2>1, Zenon DEF SameBatches
  <2>4. SameStored(c, a, cache, q, d, n)
    BY <1>1, <2>2, <2>3, StoredSame
  <2> QED  BY <2>1, <2>4, Zenon DEF SameStored
<1>8. ExecutedAll(c, a) = Stored(c, a, n) /\ ExecutedAll(cache, q) = Stored(cache, q, n + 1)
  <2>1. ExecutedAll(c, a) = Stored(c, a, n)
    BY <1>1, StoredFacts
  <2>2. ExecutedAll(cache, q) = Stored(cache, q, k)
    BY <1>0, StoredFacts
  <2> QED  BY <1>0, <2>1, <2>2, Zenon
<1> QED  BY <1>2, <1>6, <1>8, Zenon DEF SameStored

LEMMA StoredEmpty ==
  ASSUME NEW cache
  PROVE  ExecutedAll(cache, << >>) = cache
<1>1. PICK q \in Seq(Batches), n \in Nat : q = << >> /\ n = 0 /\ n = Len(q)
  <2>1. << >> \in Seq(Batches) /\ 0 \in Nat /\ 0 = Len(<< >>)
    OBVIOUS
  <2> QED  BY <2>1, Zenon
<1>2. Stored(cache, q, 0) = cache /\ ExecutedAll(cache, q) = Stored(cache, q, n)
  BY <1>1, StoredFacts
<1> QED  BY <1>1, <1>2, Zenon

Scheduled == {scheduler_output.parts[i].req : i \in 1 .. Len(scheduler_output.parts)}

Shapes ==
  /\ arrived \subseteq Reqs /\ running \in Seq(Reqs) /\ waiting \in Seq(Reqs)
  /\ num_computed_tokens \in [Reqs -> Nat]
  /\ \A r \in Reqs : num_computed_tokens[r] <= NumTokens[r]
  /\ pc \in {"idle", "running", "waiting", "end"} /\ req_index \in Nat \ {0}
  /\ token_budget \in 0 .. MaxNumScheduledTokens
  /\ encoder_compute_budget \in 0 .. MaxEncoderInputTokens
  /\ scheduler_output = [parts |-> scheduler_output.parts, inputs |-> scheduler_output.inputs]
  /\ scheduler_output.parts \in Seq(Parts) /\ scheduler_output.inputs \in SUBSET Hashes
  /\ batch_queue \in Seq(Batches) /\ encoder_cache \in SUBSET Hashes
  /\ use_eagle \in BOOLEAN

(* A request waits or runs, once; who has not started has no position.     *)
Lists ==
  /\ Distinct(running) /\ Distinct(waiting)
  /\ ToSet(running) \cap ToSet(waiting) = {}
  /\ ToSet(running) \cup ToSet(waiting) \subseteq arrived
  /\ \A r \in Reqs : r \notin arrived \/ r \in ToSet(waiting) => num_computed_tokens[r] = 0

(* What a step has scheduled runs, and lies behind it in the loop.         *)
Step ==
  /\ pc = "idle" => scheduler_output = NothingScheduled /\ manager.freed = {}
  /\ Scheduled \subseteq ToSet(running)
  /\ pc = "running" =>
       \A i \in 1 .. Len(running) : i >= req_index => running[i] \notin Scheduled

(* The request has a place to use h, and an item with it left to compute.  *)
Wanted(h, p) ==
  /\ p \in ToSet(running) \/ (use_eagle /\ p \in ToSet(waiting))
  /\ \E f \in Items(p) :
       f.mm_hash = h /\ (p \in Scheduled \/ num_computed_tokens[p] < f.offset + f.length)

References == \A h \in DOMAIN manager.cached : \A p \in manager.cached[h] : Wanted(h, p)

(* What a part of the step needs is there, and kept for its request.       *)
Pins(m, part) == \A h \in Gathered(part) : h \in DOMAIN m.cached /\ part.req \in m.cached[h]

Pinned ==
  /\ \A i \in 1 .. Len(scheduler_output.parts) : Pins(manager, scheduler_output.parts[i])
  /\ \A h \in scheduler_output.inputs :
       h \in DOMAIN manager.cached /\ \E p \in Scheduled : p \in manager.cached[h]

(* The worker will have what the manager counts on, once it has executed   *)
(* what it was sent and the batch in the making; and every batch finds     *)
(* what it needs.                                                          *)
InStep ==
  DOMAIN manager.cached =
    (ExecutedAll(encoder_cache, batch_queue) \ manager.freed) \cup scheduler_output.inputs

Served(cache, q) ==
  \A k \in 1 .. Len(q) : \A i \in 1 .. Len(q[k].parts) :
    Gathered(q[k].parts[i]) \in SUBSET Stored(cache, q, k)

EncInv ==
  /\ Shapes /\ Sound(manager) /\ Lists /\ Step /\ References /\ Pinned
  /\ InStep /\ Served(encoder_cache, batch_queue)

-----------------------------------------------------------------------------
(* u comes from the manager in one iteration of the scheduler: r got       *)
(* references to items ahead of c, the requests V lost theirs, and the     *)
(* entries H were allocated.                                               *)
Moved(u, r, c, V, H) ==
  /\ Sound(u)
  /\ H \in SUBSET DOMAIN u.cached
  /\ DOMAIN u.cached \ H \in SUBSET DOMAIN manager.cached
  /\ u.freed = manager.freed \cup (DOMAIN manager.cached \ (DOMAIN u.cached \ H))
  /\ \A h \in DOMAIN manager.cached : h \notin DOMAIN u.cached \ H => manager.cached[h] = {}
  /\ \A h \in DOMAIN u.cached \ H : \A p : p \in manager.cached[h] /\ p \notin V => p \in u.cached[h]
  /\ \A h \in DOMAIN u.cached : \A p : p \in u.cached[h] =>
       \/ h \in DOMAIN manager.cached /\ p \in manager.cached[h]
       \/ p = r /\ \E j \in 1 .. Len(mm_features[r]) : Ahead(r, c, j, h)
  /\ \A h \in DOMAIN u.cached : \A p : p \in u.cached[h] => p \notin V

LEMMA MovedByTry ==
  ASSUME NEW r, NEW c, NEW m, Sound(m), Kept(m), NewRefs(r, c, m, Len(mm_features[r]))
  PROVE  Moved(m, r, c, {}, {})
<1>1. /\ DOMAIN m.cached \in SUBSET DOMAIN manager.cached
      /\ m.freed = manager.freed \cup (DOMAIN manager.cached \ DOMAIN m.cached)
      /\ \A h \in DOMAIN manager.cached : h \notin DOMAIN m.cached => manager.cached[h] = {}
      /\ \A h \in DOMAIN m.cached : \A q : q \in manager.cached[h] => q \in m.cached[h]
  BY Zenon DEF Kept
<1>2. {} \in SUBSET DOMAIN m.cached /\ DOMAIN m.cached \ {} = DOMAIN m.cached
  OBVIOUS
<1>3. \A h \in DOMAIN m.cached : \A p : p \in m.cached[h] =>
        \/ h \in DOMAIN manager.cached /\ p \in manager.cached[h]
        \/ p = r /\ \E j \in 1 .. Len(mm_features[r]) : Ahead(r, c, j, h)
  BY <1>1, Zenon DEF NewRefs
<1>4. \A p : p \notin {}
  OBVIOUS
<1> QED  BY <1>1, <1>2, <1>3, <1>4, Zenon DEF Moved

(* Some requests lose all references.                                      *)
LEMMA MovedByFree ==
  ASSUME NEW r \in Reqs, NEW c, NEW m, Moved(m, r, c, {}, {}), References,
         NEW W \in SUBSET Reqs, NEW u, Dropped(m, u, W), \A p \in W : Released(u, p)
  PROVE  Moved(u, r, c, W, {})
<1>1. /\ Sound(u) /\ u.freed = m.freed /\ DOMAIN u.cached = DOMAIN m.cached
      /\ \A h \in DOMAIN m.cached : \A q : q \in u.cached[h] => q \in m.cached[h]
      /\ \A h \in DOMAIN m.cached : \A q : q \in m.cached[h] /\ q \notin W => q \in u.cached[h]
  BY Zenon DEF Dropped
<1>2. /\ DOMAIN m.cached \ {} \in SUBSET DOMAIN manager.cached
      /\ m.freed = manager.freed \cup (DOMAIN manager.cached \ (DOMAIN m.cached \ {}))
      /\ \A h \in DOMAIN manager.cached : h \notin DOMAIN m.cached \ {} => manager.cached[h] = {}
      /\ \A h \in DOMAIN m.cached \ {} : \A p : p \in manager.cached[h] /\ p \notin {} => p \in m.cached[h]
      /\ \A h \in DOMAIN m.cached : \A p : p \in m.cached[h] =>
           \/ h \in DOMAIN manager.cached /\ p \in manager.cached[h]
           \/ p = r /\ \E j \in 1 .. Len(mm_features[r]) : Ahead(r, c, j, h)
  BY Zenon DEF Moved
<1>3. {} \in SUBSET DOMAIN u.cached /\ DOMAIN m.cached \ {} = DOMAIN m.cached /\ \A p : p \notin {}
  OBVIOUS
<1>4. ASSUME NEW h \in DOMAIN u.cached, NEW p, p \in u.cached[h], p \in W PROVE FALSE
  <2>1. \E f \in Items(p) : f.mm_hash = h
    <3>1. CASE h \in DOMAIN manager.cached /\ p \in manager.cached[h]
      BY <3>1, Zenon DEF References, Wanted
    <3>2. CASE p = r /\ \E j \in 1 .. Len(mm_features[r]) : Ahead(r, c, j, h)
      <4>1. PICK j \in 1 .. Len(mm_features[r]) : Ahead(r, c, j, h)
        BY <3>2, Zenon
      <4>2. mm_features[r][j] \in Items(p)
        BY <3>2, ItemsOf
      <4> QED  BY <4>1, <4>2, Zenon DEF Ahead
    <3>3. h \in DOMAIN m.cached /\ p \in m.cached[h]
      BY <1>1, <1>4
    <3>4. \/ h \in DOMAIN manager.cached /\ p \in manager.cached[h]
          \/ p = r /\ \E j \in 1 .. Len(mm_features[r]) : Ahead(r, c, j, h)
      BY <1>2, <3>3, Zenon
    <3> QED  BY <3>1, <3>2, <3>4, Zenon
  <2> QED  BY <2>1, <1>4, Zenon DEF Released
<1> QED  BY <1>1, <1>2, <1>3, <1>4, Zenon DEF Moved

(* The inputs promised to r are allocated.                                 *)
LEMMA MovedByAllocate ==
  ASSUME NEW r \in Reqs, NEW c, NEW m, NEW V, Moved(m, r, c, V, {}), r \notin V,
         NEW inputs, NEW hashes, NEW embeds, Promise(r, c, m, inputs, hashes, embeds),
         NEW u, u = AllocatedAll(m, r, inputs)
  PROVE  Moved(u, r, c, V, hashes) /\ (\A h \in hashes : u.cached[h] = {r})
         /\ \A h \in DOMAIN m.cached : h \in DOMAIN u.cached /\ u.cached[h] = m.cached[h]
<1>1. Sound(m)
  BY Zenon DEF Moved
<1>2. /\ inputs \in Seq(Features)
      /\ hashes = {inputs[i].mm_hash : i \in 1 .. Len(inputs)}
      /\ \A i, j \in 1 .. Len(inputs) : inputs[i].mm_hash = inputs[j].mm_hash => i = j
      /\ hashes \cap DOMAIN m.cached = {}
      /\ embeds = Slots(hashes) /\ embeds <= m.num_free_slots
      /\ \A h \in hashes : \E j \in 1 .. Len(mm_features[r]) : Ahead(r, c, j, h)
  BY Zenon DEF Promise
<1>3. /\ Sound(u) /\ u.freed = m.freed /\ DOMAIN u.cached = DOMAIN m.cached \cup hashes
      /\ \A h \in hashes : u.cached[h] = {r}
      /\ \A h \in DOMAIN m.cached : u.cached[h] = m.cached[h]
  <2>1. /\ inputs \in Seq(Features)
        /\ NoHashTwice(inputs) /\ hashes = HashesOf(inputs)
        /\ hashes \cap DOMAIN m.cached = {} /\ Slots(hashes) <= m.num_free_slots
    BY <1>2, Zenon DEF NoHashTwice, HashesOf
  <2>2. Allocated(m, u, r, hashes)
    BY <1>1, <2>1, AllocateAllEffect
  <2> QED  BY <2>2, Zenon DEF Allocated
<1>4. /\ DOMAIN m.cached \ {} \in SUBSET DOMAIN manager.cached
      /\ m.freed = manager.freed \cup (DOMAIN manager.cached \ (DOMAIN m.cached \ {}))
      /\ \A h \in DOMAIN manager.cached : h \notin DOMAIN m.cached \ {} => manager.cached[h] = {}
      /\ \A h \in DOMAIN m.cached \ {} : \A p : p \in manager.cached[h] /\ p \notin V => p \in m.cached[h]
      /\ \A h \in DOMAIN m.cached : \A p : p \in m.cached[h] =>
           \/ h \in DOMAIN manager.cached /\ p \in manager.cached[h]
           \/ p = r /\ \E j \in 1 .. Len(mm_features[r]) : Ahead(r, c, j, h)
      /\ \A h \in DOMAIN m.cached : \A p : p \in m.cached[h] => p \notin V
  BY Zenon DEF Moved
<1>5. /\ DOMAIN m.cached \ {} = DOMAIN m.cached /\ DOMAIN u.cached \ hashes = DOMAIN m.cached
      /\ hashes \in SUBSET DOMAIN u.cached
  BY <1>2, <1>3
<1>6. \A h \in DOMAIN u.cached : \A p : p \in u.cached[h] => p \notin V
  BY <1>3, <1>4
<1>7. \A h \in DOMAIN u.cached : \A p : p \in u.cached[h] =>
        \/ h \in DOMAIN manager.cached /\ p \in manager.cached[h]
        \/ p = r /\ \E j \in 1 .. Len(mm_features[r]) : Ahead(r, c, j, h)
  <2> SUFFICES ASSUME NEW h \in DOMAIN u.cached, NEW p, p \in u.cached[h]
               PROVE  \/ h \in DOMAIN manager.cached /\ p \in manager.cached[h]
                      \/ p = r /\ \E j \in 1 .. Len(mm_features[r]) : Ahead(r, c, j, h)
    OBVIOUS
  <2>1. CASE h \in hashes
    <3>1. p = r
      BY <2>1, <1>3
    <3> QED  BY <2>1, <3>1, <1>2, Zenon
  <2>2. CASE h \in DOMAIN m.cached
    <3>1. p \in m.cached[h]
      BY <2>2, <1>3
    <3> QED  BY <2>2, <3>1, <1>4, Zenon
  <2> QED  BY <2>1, <2>2, <1>3
<1>8. \A h \in DOMAIN m.cached : \A p : p \in manager.cached[h] /\ p \notin V => p \in u.cached[h]
  BY <1>3, <1>4, <1>5, Zenon
<1>9. Moved(u, r, c, V, hashes)
  BY <1>3, <1>4, <1>5, <1>6, <1>7, <1>8, Zenon DEF Moved
<1>10. \A h \in DOMAIN m.cached : h \in DOMAIN u.cached
  BY <1>3
<1> QED  BY <1>3, <1>9, <1>10, Zenon

(* What n tokens of r from position c on need, r has or is promised.       *)
Enough(r, c, m, hashes, n) ==
  \A f \in Items(r) : Needed(f, c, n) => Has(r, m, hashes, f.mm_hash)

Tried(r, c, n0, t) ==
  /\ Moved(t.m, r, c, {}, {}) /\ Promise(r, c, t.m, t.inputs, t.hashes, t.embeds)
  /\ t.n \in Nat /\ t.n <= n0 /\ t.budget \in Nat /\ t.budget <= encoder_compute_budget
  /\ t.n = 0 /\ ~use_eagle => NoNewRefs(t.m)
  /\ t.n > 0 => Enough(r, c, t.m, t.hashes, t.n)

(* What _try_schedule_encoder_inputs returns: the manager moved, a promise *)
(* that its free slots can keep, and enough for the tokens it leaves.      *)
LEMMA TryResult ==
  ASSUME NEW r \in Reqs, NEW c \in Nat, NEW n0 \in Nat \ {0}, Shapes, Sound(manager),
         NEW t, t = _try_schedule_encoder_inputs(r, c, n0)
  PROVE  Tried(r, c, n0, t)
<1>1. encoder_compute_budget \in Nat /\ use_eagle \in BOOLEAN
  BY Constants DEF Shapes
<1>2. PICK n : n = Len(mm_features[r])
  OBVIOUS
<1>3. LoopInv(r, c, n0, t, n)
  BY <1>1, <1>2, TryEffect
<1>4. /\ LoopVars(n0, t) /\ Promise(r, c, t.m, t.inputs, t.hashes, t.embeds)
      /\ Kept(t.m) /\ NewRefs(r, c, t.m, n) /\ (t.n = 0 /\ ~use_eagle => NoNewRefs(t.m))
      /\ Covers(r, c, t.m, t.hashes, t.n, n)
  BY <1>2, <1>3, Zenon DEF LoopInv
<1>5. /\ Sound(t.m) /\ t.n \in Nat /\ t.n <= n0 /\ t.budget \in Nat
      /\ t.budget <= encoder_compute_budget
  BY <1>4 DEF LoopVars
<1>6. Moved(t.m, r, c, {}, {})
  BY <1>2, <1>4, <1>5, MovedByTry
<1>7. ASSUME t.n > 0 PROVE Enough(r, c, t.m, t.hashes, t.n)
  <2>1. \A j \in 1 .. n : j <= n
    BY <1>2, ItemsOf
  <2>2. \A f \in Items(r) : \E j \in 1 .. n : mm_features[r][j] = f
    BY <1>2, ItemsOf, Zenon
  <2>3. \A j \in 1 .. n : Needed(mm_features[r][j], c, t.n) => Has(r, t.m, t.hashes, mm_features[r][j].mm_hash)
    BY <1>2, <1>4, <1>7, <2>1, Zenon DEF Covers
  <2> QED  BY <2>2, <2>3, Zenon DEF Enough
<1> QED  BY <1>4, <1>5, <1>6, <1>7, Zenon DEF Tried

LEMMA NumNewFacts ==
  ASSUME NEW r \in Reqs, NEW c \in Nat, token_budget \in Nat, token_budget > 0,
         NEW n, n = NumNew(r, c)
  PROVE  n \in Nat \ {0} /\ n <= token_budget
<1>1. PICK z \in Int : z = NumTokens[r] - c
  BY Constants
<1>2. PICK y : y = Max({1, z})
  OBVIOUS
<1>3. y = IF 1 <= z THEN z ELSE 1
  BY <1>2, MaxOfTwo
<1>4. y \in Int /\ y >= 1
  BY <1>3
<1>5. n = Min({y, token_budget})
  BY <1>1, <1>2, Zenon DEF NumNew
<1>6. Min({y, token_budget}) = IF y <= token_budget THEN y ELSE token_budget
  BY <1>4, MinOfTwo
<1> QED  BY <1>4, <1>5, <1>6

(* The worker reads the items that the scheduler planned for.              *)
LEMMA GatheredNeeded ==
  ASSUME NEW p
  PROVE  Gathered(p) = {f.mm_hash : f \in {g \in Items(p.req) : Needed(g, p.start, p.num)}}
<1> QED  BY DEF Gathered, Items, Needed

(* The part that r enters the step with gets its embeddings.               *)
LEMMA NewPartPinned ==
  ASSUME NEW r, NEW c, NEW n, NEW m0, NEW hashes, Enough(r, c, m0, hashes, n),
         NEW m, NEW V, Dropped(m0, m, V), r \notin V,
         NEW u, \A h \in hashes : h \in DOMAIN u.cached /\ u.cached[h] = {r},
         \A h \in DOMAIN m.cached : h \in DOMAIN u.cached /\ u.cached[h] = m.cached[h],
         NEW p, p = [req |-> r, start |-> c, num |-> n]
  PROVE  Pins(u, p)
<1>1. p.req = r /\ p.start = c /\ p.num = n
  OBVIOUS
<1> SUFFICES ASSUME NEW f \in Items(r), Needed(f, c, n)
             PROVE  f.mm_hash \in DOMAIN u.cached /\ r \in u.cached[f.mm_hash]
  <2>1. Gathered(p) = {f.mm_hash : f \in {g \in Items(r) : Needed(g, c, n)}}
    BY <1>1, GatheredNeeded
  <2>2. \A h \in Gathered(p) : \E f \in Items(r) : Needed(f, c, n) /\ h = f.mm_hash
    BY <2>1
  <2> QED  BY <1>1, <2>2, ZenonT(30) DEF Pins
<1>2. Has(r, m0, hashes, f.mm_hash)
  BY Zenon DEF Enough
<1>3. PICK h : h = f.mm_hash
  OBVIOUS
<1>4. CASE h \in hashes
  BY <1>3, <1>4
<1>5. CASE h \in DOMAIN m0.cached /\ r \in m0.cached[h]
  <2>1. h \in DOMAIN m.cached /\ r \in m.cached[h]
    BY <1>5, Zenon DEF Dropped
  <2> QED  BY <1>3, <2>1, Zenon
<1> QED  BY <1>2, <1>3, <1>4, <1>5, Zenon DEF Has

LEMMA MovedPins ==
  ASSUME NEW u, NEW r, NEW c, NEW V, NEW H, Moved(u, r, c, V, H), NEW p, p.req \notin V,
         Pins(manager, p)
  PROVE  Pins(u, p)
<1> SUFFICES ASSUME NEW h \in Gathered(p) PROVE h \in DOMAIN u.cached /\ p.req \in u.cached[h]
  BY Zenon DEF Pins
<1>1. h \in DOMAIN manager.cached /\ p.req \in manager.cached[h]
  BY Zenon DEF Pins
<1>2. manager.cached[h] # {}
  BY <1>1
<1>3. h \in DOMAIN u.cached \ H
  BY <1>1, <1>2, Zenon DEF Moved
<1>4. p.req \in u.cached[h]
  BY <1>1, <1>3, Zenon DEF Moved
<1> QED  BY <1>3, <1>4

(* An iteration keeps what the manager counts on.                          *)
LEMMA MovedInStep ==
  ASSUME NEW u, NEW r, NEW c, NEW V, NEW H, Moved(u, r, c, V, H), InStep, Pinned,
         manager' = u, batch_queue' = batch_queue, encoder_cache' = encoder_cache,
         scheduler_output'.inputs = scheduler_output.inputs \cup H
  PROVE  InStep'
<1>1. PICK X : X = ExecutedAll(encoder_cache, batch_queue)
  OBVIOUS
<1>2. PICK D, E, I, I1 : /\ D = DOMAIN manager.cached /\ E = DOMAIN u.cached
                         /\ I = scheduler_output.inputs /\ I1 = scheduler_output'.inputs
  OBVIOUS
<1>3. D = (X \ manager.freed) \cup I
  BY <1>1, <1>2, Zenon DEF InStep
<1>4. H \in SUBSET E /\ E \ H \in SUBSET D /\ u.freed = manager.freed \cup (D \ (E \ H))
  BY <1>2, Zenon DEF Moved
<1>5. \A h \in I : h \in E \ H
  <2> SUFFICES ASSUME NEW h \in I PROVE h \in E \ H
    OBVIOUS
  <2>1. h \in D /\ \E p \in Scheduled : p \in manager.cached[h]
    BY <1>2, Zenon DEF Pinned
  <2>2. manager.cached[h] # {}
    BY <2>1
  <2> QED  BY <1>2, <2>1, <2>2, Zenon DEF Moved
<1>6. E = (X \ u.freed) \cup I1
  <2>1. I1 = I \cup H
    BY <1>2
  <2> QED  BY <1>3, <1>4, <1>5, <2>1
<1>7. ExecutedAll(encoder_cache, batch_queue)' = X
  BY <1>1, Zenon
<1>8. DOMAIN (manager'.cached) = (X \ manager'.freed) \cup scheduler_output'.inputs
  BY <1>2, <1>6
<1> QED  BY <1>7, <1>8, Zenon DEF InStep

(* No part is added to the step.                                           *)
LEMMA MovedPinned ==
  ASSUME NEW u, NEW r, NEW c, NEW V, Moved(u, r, c, V, {}), Pinned, Scheduled \cap V = {},
         manager' = u, scheduler_output' = scheduler_output, scheduler_output.parts \in Seq(Parts)
  PROVE  Pinned'
<1>1. PICK q \in Seq(Parts) : q = scheduler_output.parts
  OBVIOUS
<1>01. PICK I : I = scheduler_output.inputs
  OBVIOUS
<1>2. Scheduled' = Scheduled /\ scheduler_output'.parts = q /\ scheduler_output'.inputs = I
  BY <1>1, <1>01 DEF Scheduled
<1>3. \A i \in 1 .. Len(q) : Pins(u, q[i])
  <2> SUFFICES ASSUME NEW i \in 1 .. Len(q) PROVE Pins(u, q[i])
    OBVIOUS
  <2>1. Pins(manager, q[i])
    BY <1>1, <1>01, Zenon DEF Pinned
  <2>2. q[i].req \in Scheduled
    BY <1>1, <1>01 DEF Scheduled
  <2>3. q[i].req \notin V
    BY <2>2
  <2> QED  BY <2>1, <2>3, MovedPins
<1>4. \A h \in I : h \in DOMAIN u.cached /\ \E p \in Scheduled : p \in u.cached[h]
  <2> SUFFICES ASSUME NEW h \in I
               PROVE  h \in DOMAIN u.cached /\ \E p \in Scheduled : p \in u.cached[h]
    OBVIOUS
  <2>1. PICK p \in Scheduled : h \in DOMAIN manager.cached /\ p \in manager.cached[h]
    BY <1>1, <1>01, Zenon DEF Pinned
  <2>2. manager.cached[h] # {} /\ p \notin V
    BY <2>1
  <2>3. h \in DOMAIN u.cached \ {}
    BY <2>1, <2>2, Zenon DEF Moved
  <2>4. p \in u.cached[h]
    BY <2>1, <2>2, <2>3, Zenon DEF Moved
  <2> QED  BY <2>3, <2>4
<1>5. \A i \in 1 .. Len(q) : Pins(manager, q[i])'
  BY <1>3, Zenon DEF Pins
<1> QED  BY <1>2, <1>3, <1>4, Zenon DEF Pinned, Pins

(* The step with one more part and the inputs H.                           *)
WithPart(p, H) ==
  [parts |-> Append(scheduler_output.parts, p), inputs |-> scheduler_output.inputs \cup H]

LEMMA PartAdded ==
  ASSUME Shapes, NEW p \in Parts, NEW H \in SUBSET Hashes, scheduler_output' = WithPart(p, H)
  PROVE  /\ scheduler_output' = [parts |-> scheduler_output'.parts, inputs |-> scheduler_output'.inputs]
         /\ scheduler_output'.parts \in Seq(Parts) /\ scheduler_output'.inputs \in SUBSET Hashes
         /\ scheduler_output'.inputs = scheduler_output.inputs \cup H
         /\ Scheduled' = Scheduled \cup {p.req}
         /\ Len(scheduler_output'.parts) = Len(scheduler_output.parts) + 1
         /\ \A i \in 1 .. Len(scheduler_output.parts) : scheduler_output'.parts[i] = scheduler_output.parts[i]
         /\ scheduler_output'.parts[Len(scheduler_output.parts) + 1] = p
         /\ scheduler_output.parts \in Seq(Parts) /\ Len(scheduler_output.parts) \in Nat
<1>1. PICK q \in Seq(Parts), I \in SUBSET Hashes : q = scheduler_output.parts /\ I = scheduler_output.inputs
  BY Zenon DEF Shapes
<1>2. PICK a \in Seq(Parts) : /\ a = Append(q, p) /\ Len(a) = Len(q) + 1
                              /\ \A i \in 1 .. Len(q) : a[i] = q[i]
                              /\ a[Len(q) + 1] = p
  BY AppendFacts, ZenonT(60)
<1>3. scheduler_output' = [parts |-> a, inputs |-> I \cup H]
  BY <1>1, <1>2, Zenon DEF WithPart
<1>4. scheduler_output'.parts = a /\ scheduler_output'.inputs = I \cup H
  BY <1>3
<1>5. I \cup H \in SUBSET Hashes /\ Len(q) \in Nat
  OBVIOUS
<1>6. Scheduled' = Scheduled \cup {p.req}
  <2>1. Scheduled = {q[i].req : i \in 1 .. Len(q)}
    BY <1>1, Zenon DEF Scheduled
  <2>2. Scheduled' = {a[i].req : i \in 1 .. Len(a)}
    BY <1>4, Zenon DEF Scheduled
  <2>3. \A i : i \in 1 .. Len(q) + 1 <=> i \in 1 .. Len(q) \/ i = Len(q) + 1
    OBVIOUS
  <2> HIDE <1>1
  <2> QED  BY <1>2, <2>1, <2>2, <2>3
<1> QED  BY <1>1, <1>2, <1>3, <1>4, <1>5, <1>6, Zenon

LEMMA MovedPinnedMore ==
  ASSUME NEW u, NEW r, NEW c, NEW V, NEW H \in SUBSET Hashes, Moved(u, r, c, V, H), Pinned, Shapes,
         Scheduled \cap V = {}, manager' = u,
         NEW p \in Parts, p.req = r, Pins(u, p), \A h \in H : h \in DOMAIN u.cached /\ r \in u.cached[h],
         scheduler_output' = WithPart(p, H)
  PROVE  Pinned'
<1>1. PICK q \in Seq(Parts), I \in SUBSET Hashes :
        q = scheduler_output.parts /\ I = scheduler_output.inputs
  BY Zenon DEF Shapes
<1>2. PICK a, n : a = scheduler_output'.parts /\ n = Len(scheduler_output.parts)
  OBVIOUS
<1>3. /\ scheduler_output'.inputs = I \cup H /\ Scheduled' = Scheduled \cup {r}
      /\ Len(a) = n + 1 /\ (\A i \in 1 .. n : a[i] = q[i]) /\ a[n + 1] = p /\ n \in Nat /\ n = Len(q)
  BY <1>1, <1>2, PartAdded, Zenon
<1>4. \A i \in 1 .. n : Pins(u, q[i])
  <2> SUFFICES ASSUME NEW i \in 1 .. n PROVE Pins(u, q[i])
    OBVIOUS
  <2>1. Pins(manager, q[i])
    BY <1>1, <1>3, Zenon DEF Pinned
  <2>2. q[i].req \in Scheduled
    BY <1>1, <1>3 DEF Scheduled
  <2>3. q[i].req \notin V
    BY <2>2
  <2> QED  BY <2>1, <2>3, MovedPins
<1>5. \A h \in I \cup H : h \in DOMAIN u.cached /\ \E x \in Scheduled' : x \in u.cached[h]
  <2> SUFFICES ASSUME NEW h \in I \cup H
               PROVE  h \in DOMAIN u.cached /\ \E x \in Scheduled' : x \in u.cached[h]
    OBVIOUS
  <2>1. CASE h \in H
    <3>1. r \in Scheduled'
      BY <1>3
    <3> QED  BY <2>1, <3>1, Zenon
  <2>2. CASE h \in I
    <3>1. PICK x \in Scheduled : h \in DOMAIN manager.cached /\ x \in manager.cached[h]
      BY <1>1, <2>2, Zenon DEF Pinned
    <3>2. manager.cached[h] # {} /\ x \notin V /\ x \in Scheduled'
      BY <1>3, <3>1
    <3>3. h \in DOMAIN u.cached \ H
      BY <3>1, <3>2, Zenon DEF Moved
    <3>4. x \in u.cached[h]
      BY <3>1, <3>2, <3>3, Zenon DEF Moved
    <3> QED  BY <3>2, <3>3, <3>4
  <2> QED  BY <2>1, <2>2
<1>6. \A i \in 1 .. Len(a) : Pins(u, a[i])
  <2>1. \A i \in 1 .. n + 1 : i \in 1 .. n \/ i = n + 1
    BY <1>3
  <2> QED  BY <1>3, <1>4, <2>1, Zenon
<1>7. \A i \in 1 .. Len(a) : Pins(manager, a[i])'
  BY <1>6, Zenon DEF Pins
<1> QED  BY <1>2, <1>3, <1>5, <1>7, Zenon DEF Pinned, Pins

(* Who has a reference still wants it: the cases are that r left, that it  *)
(* got none, or that it is scheduled or stays in front of its items.       *)
LEMMA MovedReferences ==
  ASSUME NEW u, NEW r \in Reqs, NEW c \in Nat, NEW V, NEW H, Moved(u, r, c, V, H), References,
         manager' = u, use_eagle' = use_eagle,
         num_computed_tokens \in [Reqs -> Nat], num_computed_tokens' \in [Reqs -> Nat],
         \A p \in Reqs : p \notin V /\ p \in ToSet(running) => p \in ToSet(running')
         , \A p \in Reqs : p \notin V /\ use_eagle /\ p \in ToSet(waiting) =>
              p \in ToSet(running') \/ p \in ToSet(waiting'),
         \A p \in Reqs : p \notin V =>
              p \in Scheduled' \/ (p \notin Scheduled /\ num_computed_tokens'[p] = num_computed_tokens[p]),
         \/ r \in V
         \/ NoNewRefs(u) /\ H = {}
         \/ /\ r \in ToSet(running') \/ (use_eagle /\ r \in ToSet(waiting'))
            /\ r \in Scheduled' \/ num_computed_tokens'[r] <= c
  PROVE  References'
<1> DEFINE Want(h, p) ==
      /\ p \in ToSet(running') \/ (use_eagle /\ p \in ToSet(waiting'))
      /\ \E f \in Items(p) :
           f.mm_hash = h /\ (p \in Scheduled' \/ num_computed_tokens'[p] < f.offset + f.length)
<1>1. SUFFICES ASSUME NEW h \in DOMAIN u.cached, NEW p \in u.cached[h] PROVE Want(h, p)
  BY Zenon DEF References, Wanted
<1>2. /\ \/ h \in DOMAIN manager.cached /\ p \in manager.cached[h]
         \/ p = r /\ \E j \in 1 .. Len(mm_features[r]) : Ahead(r, c, j, h)
      /\ p \notin V
  BY Zenon DEF Moved
<1>3. p \in Reqs
  <2>1. u.cached \in [DOMAIN u.cached -> SUBSET Reqs]
    BY SoundFacts, Zenon DEF Moved
  <2> QED  BY <2>1
<1>4. CASE h \in DOMAIN manager.cached /\ p \in manager.cached[h]
  <2>1. Wanted(h, p)
    BY <1>4, Zenon DEF References
  <2>2. p \in ToSet(running') \/ (use_eagle /\ p \in ToSet(waiting'))
    BY <1>2, <1>3, <2>1, Zenon DEF Wanted
  <2>3. PICK f \in Items(p) : f.mm_hash = h /\ (p \in Scheduled \/ num_computed_tokens[p] < f.offset + f.length)
    BY <2>1, Zenon DEF Wanted
  <2>4. p \in Scheduled' \/ num_computed_tokens'[p] < f.offset + f.length
    BY <1>2, <1>3, <2>3, Zenon
  <2> QED  BY <2>2, <2>3, <2>4, Zenon
<1>5. CASE /\ ~(h \in DOMAIN manager.cached /\ p \in manager.cached[h])
           /\ p = r /\ \E j \in 1 .. Len(mm_features[r]) : Ahead(r, c, j, h)
  <2>1. ~(NoNewRefs(u) /\ H = {})
    <3> SUFFICES ASSUME NoNewRefs(u), H = {} PROVE FALSE
      OBVIOUS
    <3>1. p \in manager.cached[h]
      BY Zenon DEF NoNewRefs
    <3>2. DOMAIN u.cached \ H \in SUBSET DOMAIN manager.cached
      BY Zenon DEF Moved
    <3> QED  BY <1>5, <3>1, <3>2
  <2>2. /\ r \in ToSet(running') \/ (use_eagle /\ r \in ToSet(waiting'))
        /\ r \in Scheduled' \/ num_computed_tokens'[r] <= c
    BY <1>2, <1>5, <2>1, Zenon
  <2>3. PICK j \in 1 .. Len(mm_features[r]) : Ahead(r, c, j, h)
    BY <1>5, Zenon
  <2>4. PICK f \in Items(r) : f = mm_features[r][j]
    BY ItemsOf
  <2>5. f.mm_hash = h /\ f.offset + f.length > c
    BY <2>3, <2>4, Zenon DEF Ahead
  <2>6. f.offset \in Nat /\ f.length \in Nat
    <3>1. f \in Features
      BY ItemsOf
    <3> QED  BY <3>1, ItemFacts
  <2>7. num_computed_tokens'[r] <= c => num_computed_tokens'[r] < f.offset + f.length
    <3>1. PICK x \in Nat : x = num_computed_tokens'[r]
      OBVIOUS
    <3> QED  BY <2>5, <2>6, <3>1
  <2> QED  BY <1>5, <2>2, <2>5, <2>7, Zenon
<1> QED  BY <1>2, <1>4, <1>5, Zenon

LEMMA ServedStays ==
  ASSUME Served(encoder_cache, batch_queue), encoder_cache' = encoder_cache, batch_queue' = batch_queue
  PROVE  Served(encoder_cache, batch_queue)'
<1> QED  BY Zenon

LEMMA InStepStays ==
  ASSUME InStep, encoder_cache' = encoder_cache, batch_queue' = batch_queue,
         DOMAIN (manager'.cached) = DOMAIN manager.cached, manager'.freed = manager.freed,
         scheduler_output' = scheduler_output
  PROVE  InStep'
<1> QED  BY Zenon DEF InStep

LEMMA PinnedStays ==
  ASSUME Pinned, manager' = manager, scheduler_output' = scheduler_output
  PROVE  Pinned'
<1> QED  BY Zenon DEF Pinned, Pins, Scheduled

(* EncInv holds initially, and every action preserves it.                  *)
LEMMA InitEncInv == Init => EncInv
<1> SUFFICES ASSUME Init PROVE EncInv
  OBVIOUS
<1>1. /\ manager = EmptyManager /\ arrived = {} /\ waiting = << >> /\ running = << >>
      /\ num_computed_tokens = [r \in Reqs |-> 0] /\ pc = "idle" /\ req_index = 1
      /\ token_budget = 0 /\ encoder_compute_budget = 0 /\ scheduler_output = NothingScheduled
      /\ batch_queue = << >> /\ encoder_cache = {} /\ use_eagle \in BOOLEAN
  BY DEF Init
<1>2. Sound(manager) /\ DOMAIN manager.cached = {} /\ manager.freed = {}
  BY <1>1, EmptySound DEF EmptyManager
<1>3. /\ scheduler_output = [parts |-> << >>, inputs |-> {}]
      /\ scheduler_output.parts = << >> /\ scheduler_output.inputs = {}
  BY <1>1 DEF NothingScheduled
<1>4. Scheduled = {}
  BY <1>3 DEF Scheduled
<1>5. Shapes
  BY <1>1, <1>3, Constants DEF Shapes
<1>6. Lists
  <2>1. ToSet(<< >>) = {} /\ Distinct(<< >>)
    <3>1. PICK s \in Seq(Reqs) : s = << >>
      <4>1. << >> \in Seq(Reqs)
        OBVIOUS
      <4> QED  BY <4>1, Zenon
    <3>3. \A i : i \notin 1 .. Len(s)
      BY <3>1
    <3>2. ToSet(s) = {}
      <4>1. \A x : x \in ToSet(s) <=> \E i \in 1 .. Len(s) : s[i] = x
        BY ToSetFacts
      <4>2. \A x : x \notin ToSet(s)
        BY <3>3, <4>1, Zenon
      <4> QED  BY <4>2
    <3>4. Distinct(s)
      BY <3>3, Zenon DEF Distinct
    <3> QED  BY <3>1, <3>2, <3>4, Zenon
  <2> QED  BY <1>1, <2>1 DEF Lists
<1>7. Step
  BY <1>1, <1>2, <1>4 DEF Step
<1>8. References
  BY <1>2, Zenon DEF References
<1>9. Pinned
  <2>1. \A i : i \notin 1 .. Len(<< >>)
    OBVIOUS
  <2> QED  BY <1>3, <2>1, Zenon DEF Pinned
<1>10. InStep
  <2>1. ExecutedAll({}, << >>) = {}
    BY StoredEmpty
  <2>2. ExecutedAll(encoder_cache, batch_queue) = {}
    BY <1>1, <2>1, Zenon
  <2> QED  BY <1>2, <1>3, <2>2 DEF InStep
<1>11. Served(encoder_cache, batch_queue)
  <2>1. \A i : i \notin 1 .. Len(<< >>)
    OBVIOUS
  <2> QED  BY <1>1, <2>1, Zenon DEF Served
<1> QED  BY <1>2, <1>5, <1>6, <1>7, <1>8, <1>9, <1>10, <1>11 DEF EncInv

LEMMA Stuttering == EncInv /\ UNCHANGED vars => EncInv'
<1> SUFFICES ASSUME EncInv, UNCHANGED vars PROVE EncInv'
  OBVIOUS
<1>1. /\ Shapes /\ Sound(manager) /\ Lists /\ Step /\ References /\ Pinned
      /\ InStep /\ Served(encoder_cache, batch_queue)
  BY DEF EncInv
<1>2. /\ manager' = manager /\ running' = running /\ num_computed_tokens' = num_computed_tokens
      /\ arrived' = arrived /\ waiting' = waiting /\ scheduler_output' = scheduler_output
      /\ batch_queue' = batch_queue /\ encoder_cache' = encoder_cache /\ use_eagle' = use_eagle
      /\ pc' = pc /\ req_index' = req_index /\ token_budget' = token_budget
      /\ encoder_compute_budget' = encoder_compute_budget
  BY DEF vars, request_vars, step_vars, worker_vars, config_vars
<1>3. Shapes'
  BY <1>1, <1>2, Zenon DEF Shapes
<1>4. Lists'
  BY <1>1, <1>2, Zenon DEF Lists
<1>5. Scheduled' = Scheduled
  BY <1>2, Zenon DEF Scheduled
<1>6. Step'
  BY <1>1, <1>2, <1>5, Zenon DEF Step
<1>7. References'
  <2>1. \A h, p : Wanted(h, p) => Wanted(h, p)'
    BY <1>2, <1>5, Zenon DEF Wanted
  <2> QED  BY <1>1, <1>2, <2>1, Zenon DEF References
<1>8. Pinned' /\ InStep' /\ Served(encoder_cache, batch_queue)'
  BY <1>1, <1>2, PinnedStays, InStepStays, ServedStays, Zenon
<1> QED  BY <1>1, <1>2, <1>3, <1>4, <1>6, <1>7, <1>8, Zenon DEF EncInv

LEMMA AddRequest == \A r \in Reqs : EncInv /\ add_request(r) => EncInv'
<1> SUFFICES ASSUME NEW r \in Reqs, EncInv, add_request(r) PROVE EncInv'
  OBVIOUS
<1>1. /\ Shapes /\ Sound(manager) /\ Lists /\ Step /\ References /\ Pinned
      /\ InStep /\ Served(encoder_cache, batch_queue)
  BY DEF EncInv
<1>2. /\ pc = "idle" /\ r \notin arrived /\ arrived' = arrived \cup {r} /\ waiting' = Append(waiting, r)
      /\ manager' = manager /\ running' = running /\ num_computed_tokens' = num_computed_tokens
      /\ pc' = pc /\ req_index' = req_index /\ token_budget' = token_budget
      /\ encoder_compute_budget' = encoder_compute_budget /\ scheduler_output' = scheduler_output
      /\ batch_queue' = batch_queue /\ encoder_cache' = encoder_cache /\ use_eagle' = use_eagle
  BY DEF add_request, step_vars, worker_vars, config_vars
<1>3. waiting \in Seq(Reqs) /\ running \in Seq(Reqs)
  BY <1>1 DEF Shapes
<1>4. /\ waiting' \in Seq(Reqs) /\ ToSet(waiting') = ToSet(waiting) \cup {r}
      /\ Distinct(waiting) /\ r \notin ToSet(waiting) => Distinct(waiting')
  BY <1>2, <1>3, AppendFacts
<1>5. Shapes'
  BY <1>1, <1>2, <1>4 DEF Shapes
<1>6. Lists'
  <2>1. r \notin ToSet(waiting) /\ r \notin ToSet(running) /\ num_computed_tokens[r] = 0
    BY <1>1, <1>2 DEF Lists
  <2>2. /\ Distinct(running) /\ Distinct(waiting) /\ ToSet(running) \cap ToSet(waiting) = {}
        /\ ToSet(running) \cup ToSet(waiting) \subseteq arrived
        /\ \A p \in Reqs : p \notin arrived \/ p \in ToSet(waiting) => num_computed_tokens[p] = 0
    BY <1>1, Zenon DEF Lists
  <2>3. PICK W, R, A : W = ToSet(waiting) /\ R = ToSet(running) /\ A = arrived
    OBVIOUS
  <2>4. (W \cup {r}) \cap R = {} /\ R \cup (W \cup {r}) \subseteq A \cup {r}
    BY <2>1, <2>2, <2>3
  <2>5. \A p \in Reqs : p \notin A \cup {r} \/ p \in W \cup {r} => num_computed_tokens[p] = 0
    BY <2>1, <2>2, <2>3
  <2>6. ToSet(waiting') = W \cup {r} /\ ToSet(running') = R /\ arrived' = A \cup {r}
    BY <1>2, <1>4, <2>3, Zenon
  <2>7. R \cap (W \cup {r}) = {} /\ Distinct(waiting') /\ Distinct(running')
    BY <1>2, <1>4, <2>1, <2>2, <2>4
  <2>8. ToSet(running') \cap ToSet(waiting') = {} /\ ToSet(running') \cup ToSet(waiting') \subseteq arrived'
    BY <2>4, <2>6, <2>7, Zenon
  <2>9. \A p \in Reqs : p \notin arrived' \/ p \in ToSet(waiting') => num_computed_tokens'[p] = 0
    BY <1>2, <2>5, <2>6, Zenon
  <2> QED  BY <2>7, <2>8, <2>9, Zenon DEF Lists
<1>7. Scheduled' = Scheduled
  BY <1>2, Zenon DEF Scheduled
<1>8. Step'
  BY <1>1, <1>2, <1>7, Zenon DEF Step
<1>9. References'
  <2>1. \A p : p \in ToSet(waiting) => p \in ToSet(waiting')
    BY <1>4
  <2>2. \A h, p : Wanted(h, p) => Wanted(h, p)'
    BY <1>2, <1>7, <2>1, Zenon DEF Wanted
  <2> QED  BY <1>1, <1>2, <2>2, Zenon DEF References
<1>10. Pinned' /\ InStep' /\ Served(encoder_cache, batch_queue)'
  BY <1>1, <1>2, PinnedStays, InStepStays, ServedStays, Zenon
<1> QED  BY <1>1, <1>2, <1>5, <1>6, <1>8, <1>9, <1>10, Zenon DEF EncInv

(* The loops of a step begin, and one passes to the next.                  *)
LEMMA ControlOnly ==
  ASSUME EncInv, UNCHANGED <<manager, request_vars, scheduler_output, worker_vars, config_vars>>,
         pc' \in {"running", "waiting", "end"}, req_index' \in Nat \ {0},
         token_budget' \in 0 .. MaxNumScheduledTokens,
         encoder_compute_budget' \in 0 .. MaxEncoderInputTokens,
         pc' = "running" => Scheduled = {}
  PROVE  EncInv'
<1>1. /\ Shapes /\ Sound(manager) /\ Lists /\ Step /\ References /\ Pinned
      /\ InStep /\ Served(encoder_cache, batch_queue)
  BY DEF EncInv
<1>2. /\ manager' = manager /\ running' = running /\ num_computed_tokens' = num_computed_tokens
      /\ arrived' = arrived /\ waiting' = waiting /\ scheduler_output' = scheduler_output
      /\ batch_queue' = batch_queue /\ encoder_cache' = encoder_cache /\ use_eagle' = use_eagle
  BY DEF request_vars, worker_vars, config_vars
<1>3. Shapes'
  BY <1>1, <1>2 DEF Shapes
<1>4. Lists'
  BY <1>1, <1>2, Zenon DEF Lists
<1>5. Scheduled' = Scheduled
  BY <1>2, Zenon DEF Scheduled
<1>6. Step'
  <2>1. pc' # "idle"
    OBVIOUS
  <2> QED  BY <1>1, <1>2, <1>5, <2>1, Zenon DEF Step
<1>7. References'
  <2>1. \A h, p : Wanted(h, p) => Wanted(h, p)'
    BY <1>2, <1>5, Zenon DEF Wanted
  <2> QED  BY <1>1, <1>2, <2>1, Zenon DEF References
<1>8. Pinned' /\ InStep' /\ Served(encoder_cache, batch_queue)'
  BY <1>1, <1>2, PinnedStays, InStepStays, ServedStays, Zenon
<1> QED  BY <1>1, <1>2, <1>3, <1>4, <1>6, <1>7, <1>8, Zenon DEF EncInv

LEMMA ScheduleStart == EncInv /\ schedule_start => EncInv'
<1> SUFFICES ASSUME EncInv, schedule_start PROVE EncInv'
  OBVIOUS
<1>1. /\ pc = "idle" /\ pc' = "running" /\ req_index' = 1 /\ token_budget' \in 1 .. MaxNumScheduledTokens
      /\ encoder_compute_budget' = MaxEncoderInputTokens
      /\ UNCHANGED <<manager, request_vars, scheduler_output, worker_vars, config_vars>>
  BY DEF schedule_start
<1>2. scheduler_output = NothingScheduled
  BY <1>1 DEF EncInv, Step
<1>3. Scheduled = {}
  BY <1>2 DEF Scheduled, NothingScheduled
<1>4. /\ pc' \in {"running", "waiting", "end"} /\ req_index' \in Nat \ {0}
      /\ token_budget' \in 0 .. MaxNumScheduledTokens
      /\ encoder_compute_budget' \in 0 .. MaxEncoderInputTokens
  BY <1>1, Constants
<1> QED  BY <1>1, <1>3, <1>4, ControlOnly, Zenon

LEMMA RunningDone == EncInv /\ running_done => EncInv'
<1> SUFFICES ASSUME EncInv, running_done PROVE EncInv'
  OBVIOUS
<1>1. /\ pc' \in {"waiting", "end"} /\ req_index' = req_index /\ token_budget' = token_budget
      /\ encoder_compute_budget' = encoder_compute_budget
      /\ UNCHANGED <<manager, request_vars, scheduler_output, worker_vars, config_vars>>
  BY DEF running_done
<1>2. /\ req_index \in Nat \ {0} /\ token_budget \in 0 .. MaxNumScheduledTokens
      /\ encoder_compute_budget \in 0 .. MaxEncoderInputTokens
  BY DEF EncInv, Shapes
<1>3. pc' \in {"running", "waiting", "end"} /\ pc' # "running"
  BY <1>1
<1> QED  BY <1>1, <1>2, <1>3, ControlOnly, Zenon

LEMMA MovedNone ==
  ASSUME Sound(manager), NEW r, NEW c
  PROVE  Moved(manager, r, c, {}, {})
<1>1. /\ {} \in SUBSET DOMAIN manager.cached /\ DOMAIN manager.cached \ {} = DOMAIN manager.cached
      /\ manager.freed = manager.freed \cup (DOMAIN manager.cached \ DOMAIN manager.cached)
      /\ DOMAIN manager.cached \in SUBSET DOMAIN manager.cached /\ \A p : p \notin {}
  OBVIOUS
<1> QED  BY <1>1, Zenon DEF Moved

(* A request that is aborted between two steps leaves no reference.        *)
LEMMA Finish == \A r \in Reqs : EncInv /\ finish(r) => EncInv'
<1> SUFFICES ASSUME NEW r \in Reqs, EncInv, finish(r) PROVE EncInv'
  OBVIOUS
<1>1. /\ Shapes /\ Sound(manager) /\ Lists /\ Step /\ References /\ Pinned
      /\ InStep /\ Served(encoder_cache, batch_queue)
  BY DEF EncInv
<1>2. PICK u : u = free(manager, r)
  OBVIOUS
<1>3. /\ pc = "idle" /\ running' = RemoveFirst(running, r) /\ waiting' = RemoveFirst(waiting, r)
      /\ manager' = u /\ arrived' = arrived /\ num_computed_tokens' = num_computed_tokens
      /\ pc' = pc /\ req_index' = req_index /\ token_budget' = token_budget
      /\ encoder_compute_budget' = encoder_compute_budget /\ scheduler_output' = scheduler_output
      /\ batch_queue' = batch_queue /\ encoder_cache' = encoder_cache /\ use_eagle' = use_eagle
  BY <1>2 DEF finish, step_vars, worker_vars, config_vars
<1>4. Dropped(manager, u, {r}) /\ Released(u, r)
  BY <1>1, <1>2, FreeRequestEffect
<1>5. Moved(u, r, 0, {r}, {})
  <2>1. Moved(manager, r, 0, {}, {})
    BY <1>1, MovedNone
  <2>2. PICK c, W : c = 0 /\ W = {r}
    OBVIOUS
  <2>3. W \in SUBSET Reqs /\ \A p \in W : Released(u, p)
    BY <1>4, <2>2
  <2>4. Moved(u, r, c, W, {})
    BY <1>1, <1>4, <2>1, <2>2, <2>3, MovedByFree
  <2> QED  BY <2>2, <2>4, Zenon
<1>6. Sound(manager') /\ manager'.freed = manager.freed
  BY <1>3, <1>4, Zenon DEF Dropped
<1>7. scheduler_output = NothingScheduled /\ manager.freed = {}
  BY <1>1, <1>3, Zenon DEF Step
<1>8. Scheduled = {} /\ Scheduled' = {}
  BY <1>3, <1>7 DEF Scheduled, NothingScheduled
<1>9. /\ running' \in Seq(Reqs) /\ Distinct(running') /\ ToSet(running') = ToSet(running) \ {r}
      /\ waiting' \in Seq(Reqs) /\ Distinct(waiting') /\ ToSet(waiting') = ToSet(waiting) \ {r}
  <2>1. running \in Seq(Reqs) /\ waiting \in Seq(Reqs) /\ Distinct(running) /\ Distinct(waiting)
    BY <1>1, Zenon DEF Shapes, Lists
  <2> QED  BY <1>3, <2>1, RemoveFirstFacts
<1>10. Shapes'
  BY <1>1, <1>3, <1>9, Zenon DEF Shapes
<1>11. Lists'
  <2>1. /\ ToSet(running) \cap ToSet(waiting) = {}
        /\ ToSet(running) \cup ToSet(waiting) \subseteq arrived
        /\ \A p \in Reqs : p \notin arrived \/ p \in ToSet(waiting) => num_computed_tokens[p] = 0
    BY <1>1, Zenon DEF Lists
  <2>2. PICK W, R : W = ToSet(waiting) /\ R = ToSet(running)
    OBVIOUS
  <2>3. (R \ {r}) \cap (W \ {r}) = {} /\ (R \ {r}) \cup (W \ {r}) \subseteq arrived
    BY <2>1, <2>2
  <2>4. \A p \in Reqs : p \notin arrived \/ p \in W \ {r} => num_computed_tokens[p] = 0
    BY <2>1, <2>2
  <2>5. ToSet(running') = R \ {r} /\ ToSet(waiting') = W \ {r}
    BY <1>9, <2>2, Zenon
  <2>6. ToSet(running') \cap ToSet(waiting') = {} /\ ToSet(running') \cup ToSet(waiting') \subseteq arrived'
    BY <1>3, <2>3, <2>5, Zenon
  <2>7. \A p \in Reqs : p \notin arrived' \/ p \in ToSet(waiting') => num_computed_tokens'[p] = 0
    BY <1>3, <2>4, <2>5, Zenon
  <2> QED  BY <1>9, <2>6, <2>7, Zenon DEF Lists
<1>12. Step'
  <2>1. Scheduled' \subseteq ToSet(running') /\ pc' # "running"
    BY <1>3, <1>8
  <2> QED  BY <1>3, <1>6, <1>7, <2>1, Zenon DEF Step
<1>13. References'
  <2>1. num_computed_tokens \in [Reqs -> Nat] /\ num_computed_tokens' \in [Reqs -> Nat]
    BY <1>1, <1>3, Zenon DEF Shapes
  <2>2. PICK V : V = {r} /\ r \in V
    OBVIOUS
  <2>6. PICK c \in Nat : c = 0
    OBVIOUS
  <2>3. Moved(u, r, c, V, {})
    BY <1>5, <2>2, <2>6, Zenon
  <2>4. /\ \A p \in Reqs : p \notin V /\ p \in ToSet(running) => p \in ToSet(running')
        /\ \A p \in Reqs : p \notin V /\ use_eagle /\ p \in ToSet(waiting) =>
             p \in ToSet(running') \/ p \in ToSet(waiting')
    BY <1>9, <2>2
  <2>5. \A p \in Reqs : p \notin V =>
          p \in Scheduled' \/ (p \notin Scheduled /\ num_computed_tokens'[p] = num_computed_tokens[p])
    BY <1>3, <1>8
  <2> QED  BY <1>1, <1>3, <2>1, <2>2, <2>3, <2>4, <2>5, MovedReferences, Zenon
<1>14. InStep'
  <2>1. scheduler_output'.inputs = scheduler_output.inputs \cup {}
    BY <1>3
  <2>2. PICK c, V, H : c = 0 /\ V = {r} /\ H = {}
    OBVIOUS
  <2> QED  BY <1>1, <1>3, <1>5, <2>1, <2>2, MovedInStep
<1>15. Pinned'
  <2>1. Scheduled \cap {r} = {} /\ scheduler_output.parts \in Seq(Parts)
    BY <1>1, <1>8 DEF Shapes
  <2>2. PICK c, V : c = 0 /\ V = {r}
    OBVIOUS
  <2> QED  BY <1>1, <1>3, <1>5, <2>1, <2>2, MovedPinned
<1>16. Served(encoder_cache, batch_queue)'
  BY <1>1, <1>3, ServedStays, Zenon
<1> QED  BY <1>6, <1>10, <1>11, <1>12, <1>13, <1>14, <1>15, <1>16, Zenon DEF EncInv

(* The worker executes the first batch: the books are not touched.         *)
LEMMA ExecuteModel == EncInv /\ execute_model => EncInv'
<1> SUFFICES ASSUME EncInv, execute_model PROVE EncInv'
  OBVIOUS
<1>1. /\ Shapes /\ Sound(manager) /\ Lists /\ Step /\ References /\ Pinned
      /\ InStep /\ Served(encoder_cache, batch_queue)
  BY DEF EncInv
<1>2. /\ batch_queue # << >> /\ encoder_cache' = Executed(encoder_cache, Head(batch_queue))
      /\ batch_queue' = Tail(batch_queue)
      /\ manager' = manager /\ running' = running /\ num_computed_tokens' = num_computed_tokens
      /\ arrived' = arrived /\ waiting' = waiting /\ scheduler_output' = scheduler_output
      /\ use_eagle' = use_eagle /\ pc' = pc /\ req_index' = req_index /\ token_budget' = token_budget
      /\ encoder_compute_budget' = encoder_compute_budget
  BY DEF execute_model, request_vars, step_vars, config_vars
<1>3. PICK q \in Seq(Batches), n \in Nat : q = batch_queue /\ n + 1 = Len(q) /\ q # << >>
  <2>1. PICK q \in Seq(Batches) : q = batch_queue
    BY <1>1, Zenon DEF Shapes
  <2>2. q # << >>
    BY <1>2, <2>1
  <2>3. PICK n \in Nat : n + 1 = Len(q)
    <3>1. Len(q) - 1 \in Nat /\ (Len(q) - 1) + 1 = Len(q)
      BY <2>2
    <3> QED  BY <3>1, Zenon
  <2> QED  BY <2>1, <2>2, <2>3
<1>4. PICK c, a : c = encoder_cache' /\ a = batch_queue'
  OBVIOUS
<1>6. a \in Seq(Batches) /\ Len(a) = n /\ \A i \in 1 .. n : a[i] = q[i + 1]
  BY <1>2, <1>3, <1>4
<1>5. /\ \A i \in 0 .. n : Stored(c, a, i) = Stored(encoder_cache, q, i + 1)
      /\ ExecutedAll(c, a) = ExecutedAll(encoder_cache, q)
  <2>1. Head(q) = q[1]
    BY <1>3
  <2>5. c = Executed(encoder_cache, q[1])
    BY <1>2, <1>3, <1>4, <2>1, Zenon
  <2>6. SameBatches(a, q, 1, n) /\ n = Len(a)
    BY <1>6, Zenon DEF SameBatches
  <2>2. PICK l \in Nat : l = n + 1
    OBVIOUS
  <2>3. l = Len(q)
    BY <1>3, <2>2
  <2>4. SameStored(c, a, encoder_cache, q, 1, n) /\ ExecutedAll(c, a) = ExecutedAll(encoder_cache, q)
    BY <1>6, <2>2, <2>3, <2>5, <2>6, StoredTail
  <2> QED  BY <2>4, Zenon DEF SameStored
<1>7. c \in SUBSET Hashes
  <2>1. PICK b \in Batches : b = Head(q)
    <3>1. Head(q) \in Batches
      BY <1>3
    <3> QED  BY <3>1, Zenon
  <2>2. b.inputs \in SUBSET Hashes
    BY DEF Batches
  <2>3. encoder_cache \in SUBSET Hashes
    BY <1>1, Zenon DEF Shapes
  <2>4. c = (encoder_cache \ b.freed) \cup b.inputs
    BY <1>2, <1>3, <1>4, <2>1, Zenon DEF Executed
  <2> QED  BY <2>2, <2>3, <2>4
<1>8. Shapes'
  BY <1>1, <1>2, <1>4, <1>6, <1>7, Zenon DEF Shapes
<1>9. Lists'
  BY <1>1, <1>2, Zenon DEF Lists
<1>10. Scheduled' = Scheduled
  BY <1>2, Zenon DEF Scheduled
<1>11. Step'
  BY <1>1, <1>2, <1>10, Zenon DEF Step
<1>12. References'
  <2>1. \A h, p : Wanted(h, p) => Wanted(h, p)'
    BY <1>2, <1>10, Zenon DEF Wanted
  <2> QED  BY <1>1, <1>2, <2>1, Zenon DEF References
<1>13. Pinned'
  BY <1>1, <1>2, PinnedStays, Zenon
<1>14. InStep'
  <2>1. ExecutedAll(encoder_cache', batch_queue') = ExecutedAll(encoder_cache, batch_queue)
    BY <1>3, <1>4, <1>5, Zenon
  <2> QED  BY <1>1, <1>2, <2>1, Zenon DEF InStep
<1>15. Served(c, a)
  <2>1. \A k \in 1 .. n + 1 : \A i \in 1 .. Len(q[k].parts) :
          Gathered(q[k].parts[i]) \in SUBSET Stored(encoder_cache, q, k)
    BY <1>1, <1>3, Zenon DEF Served
  <2>2. \A k \in 1 .. n : k + 1 \in 1 .. n + 1 /\ k \in 0 .. n
    OBVIOUS
  <2>3. \A k \in 1 .. n : \A i \in 1 .. Len(a[k].parts) :
          Gathered(a[k].parts[i]) \in SUBSET Stored(c, a, k)
    BY <1>5, <1>6, <2>1, <2>2, Zenon
  <2> QED  BY <1>6, <2>3, Zenon DEF Served
<1>16. Served(encoder_cache, batch_queue)'
  BY <1>4, <1>15, Zenon
<1> QED  BY <1>1, <1>2, <1>8, <1>9, <1>11, <1>12, <1>13, <1>14, <1>16, Zenon DEF EncInv

(* The cache is cleared on both sides while no batch is in flight.         *)
LEMMA Reset == EncInv /\ reset_encoder_cache => EncInv'
<1> SUFFICES ASSUME EncInv, reset_encoder_cache PROVE EncInv'
  OBVIOUS
<1>1. /\ Shapes /\ Sound(manager) /\ Lists /\ Step /\ References /\ Pinned
      /\ InStep /\ Served(encoder_cache, batch_queue)
  BY DEF EncInv
<1>2. /\ pc = "idle" /\ batch_queue = << >> /\ manager' = EmptyManager /\ encoder_cache' = {}
      /\ running' = running /\ num_computed_tokens' = num_computed_tokens
      /\ arrived' = arrived /\ waiting' = waiting /\ scheduler_output' = scheduler_output
      /\ batch_queue' = batch_queue /\ use_eagle' = use_eagle /\ pc' = pc /\ req_index' = req_index
      /\ token_budget' = token_budget /\ encoder_compute_budget' = encoder_compute_budget
  BY DEF reset_encoder_cache, request_vars, step_vars, config_vars
<1>3. Sound(manager') /\ DOMAIN (manager'.cached) = {} /\ manager'.freed = {}
  BY <1>2, EmptySound DEF EmptyManager
<1>4. scheduler_output = [parts |-> << >>, inputs |-> {}]
  BY <1>1, <1>2, Zenon DEF Step, NothingScheduled
<1>5. scheduler_output.parts = << >> /\ scheduler_output.inputs = {}
  BY <1>4
<1>6. encoder_cache' \in SUBSET Hashes
  BY <1>2
<1>7. Shapes'
  BY <1>1, <1>2, <1>6, Zenon DEF Shapes
<1>8. Lists'
  BY <1>1, <1>2, Zenon DEF Lists
<1>9. Scheduled' = Scheduled
  BY <1>2, Zenon DEF Scheduled
<1>10. Step'
  BY <1>1, <1>2, <1>3, <1>9, Zenon DEF Step
<1>11. References'
  <2>1. \A h : h \notin {}
    OBVIOUS
  <2> QED  BY <1>3, <2>1, Zenon DEF References
<1>12. Pinned'
  <2>1. \A i : i \notin 1 .. Len(<< >>)
    OBVIOUS
  <2>2. \A h : h \notin {}
    OBVIOUS
  <2>3. scheduler_output'.parts = << >> /\ scheduler_output'.inputs = {}
    BY <1>2, <1>5, Zenon
  <2> QED  BY <2>1, <2>2, <2>3, Zenon DEF Pinned
<1>13. InStep'
  <2>1. ExecutedAll({}, << >>) = {}
    BY StoredEmpty
  <2>2. ExecutedAll(encoder_cache', batch_queue') = {}
    BY <1>2, <2>1, Zenon
  <2>3. scheduler_output'.inputs = {} /\ {} = ({} \ {}) \cup {}
    BY <1>2, <1>5
  <2> QED  BY <1>3, <2>2, <2>3, Zenon DEF InStep
<1>14. Served(encoder_cache, batch_queue)'
  <2>1. \A k : k \notin 1 .. Len(<< >>)
    OBVIOUS
  <2>2. Served(encoder_cache', << >>)
    BY <2>1, Zenon DEF Served
  <2> QED  BY <1>2, <2>2, Zenon
<1> QED  BY <1>3, <1>7, <1>8, <1>10, <1>11, <1>12, <1>13, <1>14, Zenon DEF EncInv

LEMMA PromiseStays ==
  ASSUME NEW r, NEW c, NEW m0, NEW inputs, NEW hashes, NEW embeds,
         Promise(r, c, m0, inputs, hashes, embeds), NEW m, NEW V, Dropped(m0, m, V)
  PROVE  Promise(r, c, m, inputs, hashes, embeds)
<1>1. DOMAIN m.cached = DOMAIN m0.cached /\ m.num_free_slots = m0.num_free_slots
  BY Zenon DEF Dropped
<1> QED  BY <1>1, Zenon DEF Promise

(* r runs; who is neither r nor among V keeps its position and its place.  *)
Enters(r, V) ==
  /\ num_computed_tokens' \in [Reqs -> Nat]
  /\ \A p \in Reqs : p \notin V /\ p # r => num_computed_tokens'[p] = num_computed_tokens[p]
  /\ r \in ToSet(running')
  /\ \A p \in Reqs : p \notin V /\ p \in ToSet(running) => p \in ToSet(running')
  /\ \A p \in Reqs : p \notin V /\ use_eagle /\ p \in ToSet(waiting) =>
       p \in ToSet(running') \/ p \in ToSet(waiting')

(* A request enters the step, after the requests V have left it.           *)
LEMMA RequestScheduled ==
  ASSUME EncInv, NEW r \in Reqs, NEW c \in Nat, NEW n0 \in Nat, n0 <= token_budget,
         NEW t, Tried(r, c, n0, t), t.n > 0,
         NEW m, NEW V \in SUBSET Reqs, r \notin V, Dropped(t.m, m, V), \A p \in V : Released(m, p),
         Scheduled \cap V = {}, ScheduleRequest(r, c, t, m),
         use_eagle' = use_eagle, batch_queue' = batch_queue, encoder_cache' = encoder_cache,
         Enters(r, V)
  PROVE  /\ Sound(manager') /\ References' /\ Pinned' /\ InStep'
         /\ Scheduled' = Scheduled \cup {r}
         /\ token_budget' \in 0 .. MaxNumScheduledTokens
         /\ encoder_compute_budget' \in 0 .. MaxEncoderInputTokens
         /\ scheduler_output' = [parts |-> scheduler_output'.parts, inputs |-> scheduler_output'.inputs]
         /\ scheduler_output'.parts \in Seq(Parts) /\ scheduler_output'.inputs \in SUBSET Hashes
<1>1. Shapes /\ Sound(manager) /\ References /\ Pinned /\ InStep
  BY DEF EncInv
<1>2. /\ Moved(t.m, r, c, {}, {}) /\ Promise(r, c, t.m, t.inputs, t.hashes, t.embeds)
      /\ t.n \in Nat /\ t.n <= n0 /\ t.budget \in Nat /\ t.budget <= encoder_compute_budget
      /\ Enough(r, c, t.m, t.hashes, t.n)
  BY Zenon DEF Tried
<1>3. PICK p : p = [req |-> r, start |-> c, num |-> t.n]
  OBVIOUS
<1>4. p \in Parts /\ p.req = r
  BY <1>2, <1>3 DEF Parts
<1>5. PICK u : u = AllocatedAll(m, r, t.inputs)
  OBVIOUS
<1>6. /\ manager' = u /\ token_budget' = token_budget - t.n /\ encoder_compute_budget' = t.budget
      /\ scheduler_output' = WithPart(p, t.hashes)
  BY <1>3, <1>5, Zenon DEF ScheduleRequest, AllocatedAll, WithPart
<1> HIDE DEF ScheduleRequest
<1>7. Promise(r, c, m, t.inputs, t.hashes, t.embeds)
  BY <1>2, PromiseStays, Zenon
<1>8. Moved(m, r, c, V, {})
  BY <1>1, <1>2, MovedByFree
<1>9. /\ Moved(u, r, c, V, t.hashes) /\ (\A h \in t.hashes : u.cached[h] = {r})
      /\ \A h \in DOMAIN m.cached : h \in DOMAIN u.cached /\ u.cached[h] = m.cached[h]
  <2>1. PICK inputs, hashes, embeds : inputs = t.inputs /\ hashes = t.hashes /\ embeds = t.embeds
    OBVIOUS
  <2>2. Promise(r, c, m, inputs, hashes, embeds) /\ u = AllocatedAll(m, r, inputs)
    BY <1>5, <1>7, <2>1, Zenon
  <2>3. /\ Moved(u, r, c, V, hashes) /\ (\A h \in hashes : u.cached[h] = {r})
        /\ \A h \in DOMAIN m.cached : h \in DOMAIN u.cached /\ u.cached[h] = m.cached[h]
    <3>1. Moved(u, r, c, V, hashes) /\ (\A h \in hashes : u.cached[h] = {r})
      BY <1>8, <2>2, MovedByAllocate
    <3>2. \A h \in DOMAIN m.cached : h \in DOMAIN u.cached /\ u.cached[h] = m.cached[h]
      BY <1>8, <2>2, MovedByAllocate
    <3> QED  BY <3>1, <3>2
  <2> QED  BY <2>1, <2>3, Zenon
<1>10. t.hashes \in SUBSET Hashes
  BY <1>7, PromiseFacts, Zenon
<1>11. \A h \in t.hashes : h \in DOMAIN u.cached /\ u.cached[h] = {r} /\ r \in u.cached[h]
  <2>1. t.hashes \in SUBSET DOMAIN u.cached
    BY <1>9, Zenon DEF Moved
  <2> QED  BY <1>9, <2>1
<1>12. Pins(u, p)
  <2>1. PICK hashes, n, m0 : hashes = t.hashes /\ n = t.n /\ m0 = t.m
    OBVIOUS
  <2>2. Enough(r, c, m0, hashes, n) /\ Dropped(m0, m, V) /\ p = [req |-> r, start |-> c, num |-> n]
    BY <1>2, <1>3, <2>1, Zenon
  <2>3. \A h \in hashes : h \in DOMAIN u.cached /\ u.cached[h] = {r}
    BY <1>11, <2>1, Zenon
  <2>4. \A h \in DOMAIN m.cached : h \in DOMAIN u.cached /\ u.cached[h] = m.cached[h]
    BY <1>9, Zenon
  <2> QED  BY <2>2, <2>3, <2>4, NewPartPinned
<1>13. Sound(manager')
  BY <1>6, <1>9, Zenon DEF Moved
<1>14. /\ scheduler_output' = [parts |-> scheduler_output'.parts, inputs |-> scheduler_output'.inputs]
       /\ scheduler_output'.parts \in Seq(Parts) /\ scheduler_output'.inputs \in SUBSET Hashes
       /\ scheduler_output'.inputs = scheduler_output.inputs \cup t.hashes
       /\ Scheduled' = Scheduled \cup {r}
  BY <1>1, <1>4, <1>6, <1>10, PartAdded, Zenon
<1>15. InStep'
  BY <1>1, <1>6, <1>9, <1>14, MovedInStep, Zenon
<1>16. Pinned'
  <2>1. PICK H \in SUBSET Hashes : H = t.hashes
    BY <1>10, Zenon
  <2>2. /\ Moved(u, r, c, V, H) /\ scheduler_output' = WithPart(p, H)
        /\ \A h \in H : h \in DOMAIN u.cached /\ r \in u.cached[h]
    BY <1>6, <1>9, <1>11, <2>1, Zenon
  <2> QED  BY <1>1, <1>4, <1>6, <1>12, <2>2, MovedPinnedMore
<1>17. References'
  <2>1. num_computed_tokens \in [Reqs -> Nat]
    BY <1>1, Zenon DEF Shapes
  <2>2. r \in Scheduled' /\ \A x : x \in Scheduled => x \in Scheduled'
    BY <1>14
  <2>3. \A x \in Reqs : x \notin V =>
          x \in Scheduled' \/ (x \notin Scheduled /\ num_computed_tokens'[x] = num_computed_tokens[x])
    BY <2>2, Zenon DEF Enters
  <2>4. /\ num_computed_tokens' \in [Reqs -> Nat] /\ r \in ToSet(running')
        /\ \A x \in Reqs : x \notin V /\ x \in ToSet(running) => x \in ToSet(running')
        /\ \A x \in Reqs : x \notin V /\ use_eagle /\ x \in ToSet(waiting) =>
             x \in ToSet(running') \/ x \in ToSet(waiting')
    BY Zenon DEF Enters
  <2> QED  BY <1>1, <1>6, <1>9, <2>1, <2>2, <2>3, <2>4, MovedReferences, ZenonT(30)
<1>18. token_budget' \in 0 .. MaxNumScheduledTokens /\ encoder_compute_budget' \in 0 .. MaxEncoderInputTokens
  <2>1. token_budget \in 0 .. MaxNumScheduledTokens /\ encoder_compute_budget \in 0 .. MaxEncoderInputTokens
    BY <1>1, Zenon DEF Shapes
  <2> QED  BY <1>2, <1>6, <2>1, Constants, SMTT(30)
<1> QED  BY <1>13, <1>14, <1>15, <1>16, <1>17, <1>18, Zenon

Victims(k) == SubSeq(running, Len(running) - k + 1, Len(running))

(* The requests that k preemptions take from the end of the list.          *)
LEMMA VictimFacts ==
  ASSUME Shapes, Lists, NEW k \in 0 .. Len(running), NEW v, v = Victims(k)
  PROVE  /\ v \in Seq(Reqs) /\ Distinct(v) /\ ToSet(v) \in SUBSET Reqs
         /\ SubSeq(running, 1, Len(running) - k) \in Seq(Reqs)
         /\ Distinct(SubSeq(running, 1, Len(running) - k))
         /\ Len(SubSeq(running, 1, Len(running) - k)) = Len(running) - k
         /\ \A i \in 1 .. Len(running) - k : SubSeq(running, 1, Len(running) - k)[i] = running[i]
         /\ ToSet(running) = ToSet(SubSeq(running, 1, Len(running) - k)) \cup ToSet(v)
         /\ ToSet(SubSeq(running, 1, Len(running) - k)) \cap ToSet(v) = {}
         /\ \A x \in ToSet(v) : \E i \in Len(running) - k + 1 .. Len(running) : running[i] = x
<1>1. PICK s \in Seq(Reqs) : s = running /\ Distinct(s)
  BY Zenon DEF Shapes, Lists
<1>2. PICK l \in 0 .. Len(s) : l = Len(s) - k /\ k = Len(s) - l
  <2>1. Len(s) - k \in 0 .. Len(s) /\ k = Len(s) - (Len(s) - k)
    BY <1>1
  <2> QED  BY <2>1, Zenon
<1>3. PICK a, b : a = SubSeq(s, 1, l) /\ b = SubSeq(s, l + 1, Len(s))
  OBVIOUS
<1>4. /\ a \in Seq(Reqs) /\ Len(a) = l /\ (\A i \in 1 .. l : a[i] = s[i])
      /\ b \in Seq(Reqs) /\ Len(b) = Len(s) - l /\ (\A i \in 1 .. Len(s) - l : b[i] = s[l + i])
      /\ ToSet(s) = ToSet(a) \cup ToSet(b) /\ ToSet(a) \cap ToSet(b) = {} /\ Distinct(a) /\ Distinct(b)
  BY <1>1, <1>3, SubSeqFacts, SMTT(30)
<1>5. v = b /\ SubSeq(running, 1, Len(running) - k) = a
  BY <1>1, <1>2, <1>3, Zenon DEF Victims
<1>6. \A x \in ToSet(b) : \E i \in Len(s) - k + 1 .. Len(s) : s[i] = x
  <2> SUFFICES ASSUME NEW x \in ToSet(b) PROVE \E i \in Len(s) - k + 1 .. Len(s) : s[i] = x
    OBVIOUS
  <2>1. PICK i \in 1 .. Len(b) : b[i] = x
    BY <1>4, ToSetFacts
  <2>2. l + i \in Len(s) - k + 1 .. Len(s)
    BY <1>2, <1>4
  <2>3. s[l + i] = x
    BY <1>4, <2>1
  <2> QED  BY <2>2, <2>3, Zenon
<1>7. ToSet(b) \in SUBSET Reqs
  BY <1>4, ToSetFacts
<1> QED  BY <1>1, <1>2, <1>4, <1>5, <1>6, <1>7, Zenon

(* _preempt_request moves requests from one list to the other.             *)
LEMMA PreemptLists ==
  ASSUME Shapes, Lists, NEW k \in 0 .. Len(running), _preempt_request(k), arrived' = arrived,
         NEW V, V = ToSet(Victims(k))
  PROVE  /\ running' \in Seq(Reqs) /\ waiting' \in Seq(Reqs) /\ Lists'
         /\ V \in SUBSET Reqs
         /\ ToSet(running) = ToSet(running') \cup V /\ ToSet(running') \cap V = {}
         /\ ToSet(waiting') = V \cup ToSet(waiting)
         /\ num_computed_tokens' \in [Reqs -> Nat]
         /\ \A p \in Reqs : num_computed_tokens'[p] <= NumTokens[p]
         /\ \A p \in Reqs : p \notin V => num_computed_tokens'[p] = num_computed_tokens[p]
         /\ Len(running') = Len(running) - k
         /\ \A i \in 1 .. Len(running') : running'[i] = running[i]
<1>1. PICK v : v = Victims(k) /\ V = ToSet(v)
  OBVIOUS
<1>2. /\ running' = SubSeq(running, 1, Len(running) - k) /\ waiting' = v \o waiting
      /\ num_computed_tokens' = [r \in Reqs |-> IF r \in V THEN 0 ELSE num_computed_tokens[r]]
  BY <1>1, Zenon DEF _preempt_request, Victims
<1>3. /\ v \in Seq(Reqs) /\ Distinct(v) /\ V \in SUBSET Reqs
      /\ running' \in Seq(Reqs) /\ Distinct(running') /\ Len(running') = Len(running) - k
      /\ \A i \in 1 .. Len(running) - k : running'[i] = running[i]
      /\ ToSet(running) = ToSet(running') \cup V /\ ToSet(running') \cap V = {}
  BY <1>1, <1>2, VictimFacts, Zenon
<1>4. /\ waiting \in Seq(Reqs) /\ Distinct(waiting) /\ ToSet(running) \cap ToSet(waiting) = {}
      /\ ToSet(running) \cup ToSet(waiting) \subseteq arrived
      /\ \A r \in Reqs : r \notin arrived \/ r \in ToSet(waiting) => num_computed_tokens[r] = 0
      /\ num_computed_tokens \in [Reqs -> Nat] /\ \A r \in Reqs : num_computed_tokens[r] <= NumTokens[r]
  BY Zenon DEF Shapes, Lists
<1>5. PICK R, R1, W : R = ToSet(running) /\ R1 = ToSet(running') /\ W = ToSet(waiting)
  OBVIOUS
<1>6. V \cap W = {} /\ R1 \cap (V \cup W) = {} /\ R1 \cup (V \cup W) \subseteq arrived
  BY <1>3, <1>4, <1>5
<1>7. /\ waiting' \in Seq(Reqs) /\ ToSet(waiting') = V \cup W /\ Distinct(waiting')
  <2>1. ToSet(v) \cap ToSet(waiting) = {}
    BY <1>1, <1>5, <1>6, Zenon
  <2>2. PICK w : w = v \o waiting
    OBVIOUS
  <2>3. w \in Seq(Reqs) /\ ToSet(w) = ToSet(v) \cup ToSet(waiting) /\ Distinct(w)
    BY <1>3, <1>4, <2>1, <2>2, ConcatFacts
  <2> QED  BY <1>1, <1>2, <1>5, <2>2, <2>3, Zenon
<1>8. /\ num_computed_tokens' \in [Reqs -> Nat]
      /\ \A p \in Reqs : p \in V => num_computed_tokens'[p] = 0
      /\ \A p \in Reqs : p \notin V => num_computed_tokens'[p] = num_computed_tokens[p]
  <2>1. 0 \in Nat
    OBVIOUS
  <2> QED  BY <1>2, <1>4, <2>1
<1>9. \A p \in Reqs : num_computed_tokens'[p] <= NumTokens[p]
  <2> SUFFICES ASSUME NEW p \in Reqs PROVE num_computed_tokens'[p] <= NumTokens[p]
    OBVIOUS
  <2>1. NumTokens[p] \in Nat
    BY Constants
  <2>2. CASE p \in V
    <3>1. 0 <= NumTokens[p]
      BY <2>1
    <3> QED  BY <1>8, <2>2, <3>1, Zenon
  <2>3. CASE p \notin V
    BY <1>4, <1>8, <2>3, Zenon
  <2> QED  BY <2>2, <2>3
<1>10. Lists'
  <2>1. \A p \in Reqs : p \notin arrived \/ p \in V \cup W => num_computed_tokens'[p] = 0
    BY <1>4, <1>5, <1>6, <1>8
  <2>2. ToSet(running') \cap ToSet(waiting') = {} /\ ToSet(running') \cup ToSet(waiting') \subseteq arrived'
    BY <1>5, <1>6, <1>7, Zenon
  <2>3. \A p \in Reqs : p \notin arrived' \/ p \in ToSet(waiting') => num_computed_tokens'[p] = 0
    BY <1>7, <2>1, Zenon
  <2> QED  BY <1>3, <1>7, <2>2, <2>3, Zenon DEF Lists
<1> QED  BY <1>3, <1>5, <1>7, <1>8, <1>9, <1>10, Zenon

LEMMA PreemptedEffect ==
  ASSUME Shapes, Lists, NEW k \in 0 .. Len(running), NEW V, V = ToSet(Victims(k)),
         NEW m, Sound(m), NEW u, u = Preempted(m, k)
  PROVE  Dropped(m, u, V) /\ \A p \in V : Released(u, p)
<1>1. PICK v : v = Victims(k)
  OBVIOUS
<1>2. v \in Seq(Reqs)
  BY <1>1, VictimFacts
<1>3. PICK s : s = Reverse(v)
  OBVIOUS
<1>4. s \in Seq(Reqs) /\ ToSet(s) = ToSet(v)
  BY <1>2, <1>3, ReverseFacts
<1>5. u = FreedAll(m, s)
  BY <1>1, <1>3, Zenon DEF Preempted, FreedAll, Victims
<1>6. Dropped(m, u, ToSet(s)) /\ \A p \in ToSet(s) : Released(u, p)
  BY <1>4, <1>5, FreeAllEffect
<1> QED  BY <1>1, <1>4, <1>6, Zenon

(* Who is not among V keeps its position and its place.                    *)
Remain(V) ==
  /\ num_computed_tokens' \in [Reqs -> Nat]
  /\ \A p \in Reqs : p \notin V => num_computed_tokens'[p] = num_computed_tokens[p]
  /\ \A p \in Reqs : p \notin V /\ p \in ToSet(running) => p \in ToSet(running')
  /\ \A p \in Reqs : p \notin V /\ use_eagle /\ p \in ToSet(waiting) =>
       p \in ToSet(running') \/ p \in ToSet(waiting')

(* The references of r to what it did not compute are gone, or justified.  *)
Settled(r, c, t, V) ==
  \/ r \in V
  \/ /\ t.n = 0 /\ num_computed_tokens'[r] <= c
     /\ r \in ToSet(running') \/ r \in ToSet(waiting')

(* An iteration that schedules nothing, after the requests V have left.    *)
LEMMA NotScheduled ==
  ASSUME EncInv, NEW r \in Reqs, NEW c \in Nat, NEW n0, NEW t, Tried(r, c, n0, t),
         NEW u, NEW V \in SUBSET Reqs, Dropped(t.m, u, V), \A p \in V : Released(u, p),
         Scheduled \cap V = {}, manager' = u, scheduler_output' = scheduler_output,
         use_eagle' = use_eagle, batch_queue' = batch_queue, encoder_cache' = encoder_cache,
         Remain(V), Settled(r, c, t, V)
  PROVE  Sound(manager') /\ References' /\ Pinned' /\ InStep' /\ Scheduled' = Scheduled
<1>1. Shapes /\ Sound(manager) /\ References /\ Pinned /\ InStep
  BY DEF EncInv
<1>2. Moved(t.m, r, c, {}, {}) /\ (t.n = 0 /\ ~use_eagle => NoNewRefs(t.m))
  BY Zenon DEF Tried
<1>3. Moved(u, r, c, V, {})
  BY <1>1, <1>2, MovedByFree
<1>4. Sound(manager')
  BY <1>3, Zenon DEF Moved
<1>5. Scheduled' = Scheduled
  BY Zenon DEF Scheduled
<1>6. NoNewRefs(t.m) => NoNewRefs(u)
  BY Zenon DEF NoNewRefs, Dropped
<1>7. \/ r \in V
      \/ NoNewRefs(u) /\ {} = {}
      \/ /\ r \in ToSet(running') \/ (use_eagle /\ r \in ToSet(waiting'))
         /\ r \in Scheduled' \/ num_computed_tokens'[r] <= c
  <2>1. use_eagle \in BOOLEAN
    BY <1>1, Zenon DEF Shapes
  <2> QED  BY <1>2, <1>6, <2>1, Zenon DEF Settled
<1>8. References'
  <2>1. num_computed_tokens \in [Reqs -> Nat]
    BY <1>1, Zenon DEF Shapes
  <2>2. \A x \in Reqs : x \notin V =>
          x \in Scheduled' \/ (x \notin Scheduled /\ num_computed_tokens'[x] = num_computed_tokens[x])
    BY <1>5, Zenon DEF Remain
  <2>3. /\ num_computed_tokens' \in [Reqs -> Nat]
        /\ \A p \in Reqs : p \notin V /\ p \in ToSet(running) => p \in ToSet(running')
        /\ \A p \in Reqs : p \notin V /\ use_eagle /\ p \in ToSet(waiting) =>
             p \in ToSet(running') \/ p \in ToSet(waiting')
    BY Zenon DEF Remain
  <2> QED  BY <1>1, <1>3, <1>7, <2>1, <2>2, <2>3, MovedReferences, ZenonT(30)
<1>9. InStep'
  <2>1. scheduler_output'.inputs = scheduler_output.inputs \cup {}
    OBVIOUS
  <2> QED  BY <1>1, <1>3, <2>1, MovedInStep, Zenon
<1>10. Pinned'
  <2>1. scheduler_output.parts \in Seq(Parts)
    BY <1>1, Zenon DEF Shapes
  <2> QED  BY <1>1, <1>3, <2>1, MovedPinned, Zenon
<1> QED  BY <1>4, <1>5, <1>8, <1>9, <1>10, Zenon

LEMMA RunningFacts ==
  ASSUME EncInv, RunningLoop, NEW r, r = running[req_index], NEW c, c = num_computed_tokens[r],
         NEW n0, n0 = NumNew(r, c), NEW t, t = _try_schedule_encoder_inputs(r, c, n0)
  PROVE  /\ r \in Reqs /\ c \in Nat /\ n0 \in Nat /\ n0 <= token_budget /\ Tried(r, c, n0, t)
         /\ r \in ToSet(running) /\ Len(running) \in Nat /\ req_index \in 1 .. Len(running)
         /\ t.n \in Nat /\ Sound(t.m)
<1>1. Shapes /\ Sound(manager) /\ pc = "running" /\ req_index <= Len(running) /\ token_budget > 0
  BY DEF EncInv, RunningLoop
<1>2. PICK s \in Seq(Reqs) : s = running
  BY <1>1, Zenon DEF Shapes
<1>3. Len(running) \in Nat /\ req_index \in 1 .. Len(running)
  BY <1>1, <1>2 DEF Shapes
<1>4. r \in Reqs
  BY <1>2, <1>3
<1>5. r \in ToSet(running)
  BY <1>2, <1>3, ToSetFacts
<1>6. c \in Nat
  BY <1>1, <1>4 DEF Shapes
<1>7. token_budget \in Nat
  BY <1>1, Constants DEF Shapes
<1>8. n0 \in Nat \ {0} /\ n0 <= token_budget
  BY <1>1, <1>4, <1>6, <1>7, NumNewFacts
<1>9. Tried(r, c, n0, t)
  BY <1>1, <1>4, <1>6, <1>8, TryResult
<1>10. t.n \in Nat /\ Sound(t.m)
  BY <1>9, Zenon DEF Tried, Moved
<1> QED  BY <1>3, <1>4, <1>5, <1>6, <1>8, <1>9, <1>10

(* Victims come from behind the loop: none is scheduled in this step.      *)
LEMMA VictimsLater ==
  ASSUME EncInv, pc = "running", req_index \in 1 .. Len(running),
         NEW k \in 0 .. Len(running) - req_index + 1
  PROVE  /\ Scheduled \cap ToSet(Victims(k)) = {} /\ k \in 0 .. Len(running)
         /\ k <= Len(running) - req_index => running[req_index] \notin ToSet(Victims(k))
<1>1. Shapes /\ Lists /\ Step
  BY DEF EncInv
<1>2. PICK l \in Nat : l = Len(running) /\ req_index \in Nat
  <2>1. running \in Seq(Reqs) /\ req_index \in Nat
    BY <1>1 DEF Shapes
  <2>2. Len(running) \in Nat
    BY <2>1
  <2> QED  BY <2>1, <2>2
<1>3. k \in 0 .. Len(running)
  BY <1>2
<1>4. PICK v : v = Victims(k)
  OBVIOUS
<1>5. \A x \in ToSet(v) : \E i \in Len(running) - k + 1 .. Len(running) : running[i] = x
  BY <1>1, <1>3, <1>4, VictimFacts
<1>6. \A i \in Len(running) - k + 1 .. Len(running) : i \in 1 .. Len(running) /\ i >= req_index
  BY <1>2
<1>7. \A x \in ToSet(v) : x \notin Scheduled
  <2>1. \A i \in 1 .. Len(running) : i >= req_index => running[i] \notin Scheduled
    BY <1>1, Zenon DEF Step
  <2> QED  BY <1>5, <1>6, <2>1, Zenon
<1>8. ASSUME k <= Len(running) - req_index, running[req_index] \in ToSet(v) PROVE FALSE
  <2>1. PICK i \in Len(running) - k + 1 .. Len(running) : running[i] = running[req_index]
    BY <1>5, <1>8
  <2>2. i = req_index
    <3>1. Distinct(running)
      BY <1>1, Zenon DEF Lists
    <3> QED  BY <1>6, <2>1, <3>1, Zenon DEF Distinct
  <2> QED  BY <1>2, <1>8, <2>1, <2>2
<1>9. Scheduled \cap ToSet(v) = {}
  BY <1>7
<1> QED  BY <1>3, <1>4, <1>8, <1>9

(* The first request of the loop fits nowhere: nothing is scheduled.       *)
LEMMA RunningNothing ==
  ASSUME EncInv, RunningLoop, NEW r, r = running[req_index], NEW c, c = num_computed_tokens[r],
         NEW n0, n0 = NumNew(r, c), NEW t, t = _try_schedule_encoder_inputs(r, c, n0),
         t.n = 0, manager' = t.m, req_index' = req_index + 1,
         UNCHANGED <<request_vars, pc, token_budget, encoder_compute_budget, scheduler_output,
                     worker_vars, config_vars>>
  PROVE  EncInv'
<1>1. /\ Shapes /\ Sound(manager) /\ Lists /\ Step /\ Served(encoder_cache, batch_queue)
      /\ pc = "running"
  BY DEF EncInv, RunningLoop
<1>2. /\ r \in Reqs /\ c \in Nat /\ Tried(r, c, n0, t) /\ r \in ToSet(running) /\ Sound(t.m)
  BY RunningFacts
<1>3. /\ arrived' = arrived /\ running' = running /\ waiting' = waiting
      /\ num_computed_tokens' = num_computed_tokens /\ pc' = pc /\ token_budget' = token_budget
      /\ encoder_compute_budget' = encoder_compute_budget /\ scheduler_output' = scheduler_output
      /\ batch_queue' = batch_queue /\ encoder_cache' = encoder_cache /\ use_eagle' = use_eagle
  BY DEF request_vars, worker_vars, config_vars
<1>4. Sound(manager') /\ References' /\ Pinned' /\ InStep' /\ Scheduled' = Scheduled
  <2>1. PICK V \in SUBSET Reqs : V = {}
    OBVIOUS
  <2>6. PICK u : u = t.m
    OBVIOUS
  <2>2. Dropped(t.m, u, V) /\ (\A p \in V : Released(u, p)) /\ Scheduled \cap V = {}
    BY <1>2, <2>1, <2>6, DroppedNone
  <2>3. c <= c /\ num_computed_tokens'[r] = c /\ num_computed_tokens' \in [Reqs -> Nat]
    BY <1>1, <1>2, <1>3 DEF Shapes
  <2>4. /\ manager' = u /\ \A p \in Reqs : num_computed_tokens'[p] = num_computed_tokens[p]
        /\ num_computed_tokens'[r] <= c /\ r \in ToSet(running')
        /\ \A p : p \in ToSet(running) => p \in ToSet(running')
        /\ \A p : p \in ToSet(waiting) => p \in ToSet(waiting')
    BY <1>2, <1>3, <2>1, <2>3, <2>6, Zenon
  <2>5. Remain(V) /\ Settled(r, c, t, V)
    BY <2>3, <2>4, Zenon DEF Remain, Settled
  <2> QED  BY <1>2, <1>3, <2>2, <2>4, <2>5, NotScheduled, Zenon
<1>5. Shapes'
  <2>1. req_index' \in Nat \ {0}
    BY <1>1 DEF Shapes
  <2> QED  BY <1>1, <1>3, <2>1, Zenon DEF Shapes
<1>6. Lists'
  BY <1>1, <1>3, Zenon DEF Lists
<1>7. Step'
  <2>1. \A i \in 1 .. Len(running) : i >= req_index + 1 => i >= req_index
    BY <1>1 DEF Shapes
  <2>2. pc' # "idle"
    BY <1>1, <1>3
  <2>3. Scheduled' \subseteq ToSet(running')
    BY <1>1, <1>3, <1>4, Zenon DEF Step
  <2> QED  BY <1>1, <1>3, <1>4, <2>1, <2>2, <2>3, Zenon DEF Step
<1>8. Served(encoder_cache, batch_queue)'
  BY <1>1, <1>3, ServedStays, Zenon
<1> QED  BY <1>4, <1>5, <1>6, <1>7, <1>8, Zenon DEF EncInv

(* The first request of the loop is scheduled, after k preemptions.        *)
LEMMA RunningScheduled ==
  ASSUME EncInv, RunningLoop, NEW r, r = running[req_index], NEW c \in Nat, NEW n0 \in Nat,
         n0 <= token_budget, r \in Reqs, r \in ToSet(running), req_index \in 1 .. Len(running),
         NEW t, Tried(r, c, n0, t), t.n > 0,
         NEW k \in 0 .. Len(running), k <= Len(running) - req_index, _preempt_request(k),
         NEW V, V = ToSet(Victims(k)), Scheduled \cap V = {}, r \notin V,
         NEW m, Dropped(t.m, m, V), \A p \in V : Released(m, p),
         ScheduleRequest(r, c, t, m), req_index' = req_index + 1,
         UNCHANGED <<arrived, pc, worker_vars, config_vars>>
  PROVE  EncInv'
<1>1. /\ Shapes /\ Sound(manager) /\ Lists /\ Step /\ Served(encoder_cache, batch_queue)
      /\ pc = "running"
  BY DEF EncInv, RunningLoop
<1>2. Len(running) \in Nat
  BY <1>1 DEF Shapes
<1>4. PICK q \in Nat \ {0} : q = req_index /\ req_index' = q + 1
  BY <1>1, Zenon DEF Shapes
<1>3. /\ arrived' = arrived /\ pc' = pc /\ batch_queue' = batch_queue
      /\ encoder_cache' = encoder_cache /\ use_eagle' = use_eagle
  BY DEF worker_vars, config_vars
<1>7. /\ running' \in Seq(Reqs) /\ waiting' \in Seq(Reqs) /\ Lists'
      /\ V \in SUBSET Reqs
      /\ ToSet(running) = ToSet(running') \cup V /\ ToSet(running') \cap V = {}
      /\ ToSet(waiting') = V \cup ToSet(waiting)
      /\ num_computed_tokens' \in [Reqs -> Nat]
      /\ \A p \in Reqs : num_computed_tokens'[p] <= NumTokens[p]
      /\ \A p \in Reqs : p \notin V => num_computed_tokens'[p] = num_computed_tokens[p]
      /\ Len(running') = Len(running) - k
      /\ \A i \in 1 .. Len(running') : running'[i] = running[i]
  BY <1>1, <1>3, PreemptLists, SMTT(30)
<1>9. Enters(r, V) /\ r \in ToSet(running')
  <2>1. /\ r \in ToSet(running')
        /\ \A p \in Reqs : p \notin V /\ p \in ToSet(running) => p \in ToSet(running')
        /\ \A p \in Reqs : p \notin V /\ p # r => num_computed_tokens'[p] = num_computed_tokens[p]
        /\ \A p \in Reqs : p \notin V /\ use_eagle /\ p \in ToSet(waiting) =>
             p \in ToSet(running') \/ p \in ToSet(waiting')
    BY <1>7
  <2> QED  BY <1>7, <2>1, Zenon DEF Enters
<1>10. /\ Sound(manager') /\ References' /\ Pinned' /\ InStep'
       /\ Scheduled' = Scheduled \cup {r}
       /\ token_budget' \in 0 .. MaxNumScheduledTokens
       /\ encoder_compute_budget' \in 0 .. MaxEncoderInputTokens
       /\ scheduler_output' = [parts |-> scheduler_output'.parts, inputs |-> scheduler_output'.inputs]
       /\ scheduler_output'.parts \in Seq(Parts) /\ scheduler_output'.inputs \in SUBSET Hashes
  BY <1>3, <1>7, <1>9, RequestScheduled, Zenon
<1>11. Shapes'
  <2>1. req_index' \in Nat \ {0}
    BY <1>4
  <2> QED  BY <1>1, <1>3, <1>7, <1>10, <2>1, Zenon DEF Shapes
<1>12. Step'
  <2>1. Scheduled' \subseteq ToSet(running')
    BY <1>1, <1>7, <1>9, <1>10 DEF Step
  <2>2. ASSUME NEW i \in 1 .. Len(running'), i >= req_index + 1 PROVE running'[i] \notin Scheduled'
    <3>1. i \in 1 .. Len(running) /\ i >= req_index /\ i # req_index
      <4>1. PICK l \in Nat, j \in Nat, x \in Nat : l = Len(running) /\ j = k /\ x = i
        BY <1>2
      <4>2. l - j = Len(running') /\ j <= l - q /\ q \in 1 .. l
        BY <1>4, <1>7, <4>1, Zenon
      <4>3. x \in 1 .. l - j /\ x >= q + 1
        BY <1>4, <2>2, <4>1, <4>2, Zenon
      <4>4. x \in 1 .. l /\ x >= q /\ x # q
        BY <4>3
      <4> QED  BY <1>4, <4>1, <4>4, Zenon
    <3>2. running'[i] = running[i]
      BY <1>7, <2>2
    <3>3. running[i] \notin Scheduled
      BY <1>1, <3>1, Zenon DEF Step
    <3>4. running[i] # r
      BY <1>1, <3>1, Zenon DEF Lists, Distinct
    <3> QED  BY <1>10, <3>2, <3>3, <3>4
  <2>3. pc' # "idle"
    BY <1>1, <1>3
  <2> QED  BY <2>1, <2>2, <2>3, Zenon DEF Step
<1>13. Served(encoder_cache, batch_queue)'
  BY <1>1, <1>3, ServedStays, Zenon
<1> QED  BY <1>7, <1>10, <1>11, <1>12, <1>13, Zenon DEF EncInv

(* The first request of the loop preempts itself: the step is over.        *)
LEMMA RunningPreempted ==
  ASSUME EncInv, NEW r \in Reqs, NEW c \in Nat, NEW n0, NEW t, Tried(r, c, n0, t),
         NEW k \in 0 .. Len(running), _preempt_request(k),
         NEW V, V = ToSet(Victims(k)), Scheduled \cap V = {}, r \in V,
         NEW u, Dropped(t.m, u, V), \A p \in V : Released(u, p), manager' = u, pc' = "end",
         UNCHANGED <<arrived, req_index, token_budget, encoder_compute_budget, scheduler_output,
                     worker_vars, config_vars>>
  PROVE  EncInv'
<1>1. /\ Shapes /\ Sound(manager) /\ Lists /\ Step /\ Served(encoder_cache, batch_queue)
  BY DEF EncInv
<1>3. /\ arrived' = arrived /\ req_index' = req_index /\ token_budget' = token_budget
      /\ encoder_compute_budget' = encoder_compute_budget /\ scheduler_output' = scheduler_output
      /\ batch_queue' = batch_queue /\ encoder_cache' = encoder_cache /\ use_eagle' = use_eagle
  BY DEF worker_vars, config_vars
<1>7. /\ running' \in Seq(Reqs) /\ waiting' \in Seq(Reqs) /\ Lists'
      /\ V \in SUBSET Reqs
      /\ ToSet(running) = ToSet(running') \cup V /\ ToSet(running') \cap V = {}
      /\ ToSet(waiting') = V \cup ToSet(waiting)
      /\ num_computed_tokens' \in [Reqs -> Nat]
      /\ \A p \in Reqs : num_computed_tokens'[p] <= NumTokens[p]
      /\ \A p \in Reqs : p \notin V => num_computed_tokens'[p] = num_computed_tokens[p]
      /\ Len(running') = Len(running) - k
      /\ \A i \in 1 .. Len(running') : running'[i] = running[i]
  BY <1>1, <1>3, PreemptLists
<1>11. Sound(manager') /\ References' /\ Pinned' /\ InStep' /\ Scheduled' = Scheduled
  <2>1. Settled(r, c, t, V)
    BY Zenon DEF Settled
  <2>2. /\ \A p \in Reqs : p \notin V /\ p \in ToSet(running) => p \in ToSet(running')
        /\ \A p \in Reqs : p \notin V /\ use_eagle /\ p \in ToSet(waiting) =>
             p \in ToSet(running') \/ p \in ToSet(waiting')
    BY <1>7
  <2>3. Remain(V)
    BY <1>7, <2>2, Zenon DEF Remain
  <2> QED  BY <1>3, <1>7, <2>1, <2>3, NotScheduled, Zenon
<1>12. Shapes'
  <2>1. pc' \in {"idle", "running", "waiting", "end"}
    OBVIOUS
  <2> QED  BY <1>1, <1>3, <1>7, <2>1, Zenon DEF Shapes
<1>13. Step'
  <2>1. pc' # "idle" /\ pc' # "running"
    OBVIOUS
  <2>2. Scheduled' \subseteq ToSet(running')
    BY <1>1, <1>7, <1>11 DEF Step
  <2> QED  BY <2>1, <2>2, Zenon DEF Step
<1>14. Served(encoder_cache, batch_queue)'
  BY <1>1, <1>3, ServedStays, Zenon
<1> QED  BY <1>7, <1>11, <1>12, <1>13, <1>14, Zenon DEF EncInv

(* One iteration of the loop over the running requests.                    *)
LEMMA ScheduleRunning == EncInv /\ schedule_running => EncInv'
<1> SUFFICES ASSUME EncInv, schedule_running PROVE EncInv'
  OBVIOUS
<1>1. PICK r : r = running[req_index]
  OBVIOUS
<1>2. PICK c : c = num_computed_tokens[r]
  OBVIOUS
<1>3. PICK n0 : n0 = NumNew(r, c)
  OBVIOUS
<1>4. PICK t : t = _try_schedule_encoder_inputs(r, c, n0)
  OBVIOUS
<1>5. /\ RunningLoop /\ UNCHANGED <<worker_vars, config_vars>>
      /\ \/ /\ t.n = 0
            /\ manager' = t.m
            /\ req_index' = req_index + 1
            /\ UNCHANGED <<request_vars, pc, token_budget, encoder_compute_budget, preempted,
                           scheduler_output, failures>>
         \/ /\ t.n > 0
            /\ \E k \in 0 .. Len(running) - req_index :
                 _preempt_request(k) /\ ScheduleRequest(r, c, t, Preempted(t.m, k))
            /\ req_index' = req_index + 1
            /\ UNCHANGED <<pc, arrived>>
         \/ /\ t.n > 0
            /\ LET k == Len(running) - req_index + 1
               IN _preempt_request(k) /\ manager' = Preempted(t.m, k)
            /\ pc' = "end"
            /\ UNCHANGED <<arrived, req_index, token_budget, encoder_compute_budget,
                           scheduler_output>>
  BY <1>1, <1>2, <1>3, <1>4, Zenon DEF schedule_running
<1>6. /\ EncInv /\ r \in Reqs /\ c \in Nat /\ n0 \in Nat /\ n0 <= token_budget
      /\ Tried(r, c, n0, t) /\ r \in ToSet(running) /\ Len(running) \in Nat
      /\ req_index \in 1 .. Len(running) /\ Sound(t.m) /\ pc = "running" /\ Shapes /\ Lists
  <2>1. /\ r \in Reqs /\ c \in Nat /\ n0 \in Nat /\ n0 <= token_budget /\ Tried(r, c, n0, t)
        /\ r \in ToSet(running) /\ Len(running) \in Nat /\ req_index \in 1 .. Len(running)
        /\ t.n \in Nat /\ Sound(t.m)
    BY <1>1, <1>2, <1>3, <1>4, <1>5, RunningFacts, Zenon
  <2> QED  BY <1>5, <2>1, Zenon DEF EncInv, RunningLoop
<1> HIDE DEF schedule_running
<1>7. ASSUME NEW k \in 0 .. Len(running) - req_index + 1, NEW m, m = Preempted(t.m, k)
      PROVE  /\ Scheduled \cap ToSet(Victims(k)) = {} /\ k \in 0 .. Len(running)
             /\ k <= Len(running) - req_index => r \notin ToSet(Victims(k))
             /\ Dropped(t.m, m, ToSet(Victims(k))) /\ \A p \in ToSet(Victims(k)) : Released(m, p)
  <2>1. /\ Scheduled \cap ToSet(Victims(k)) = {} /\ k \in 0 .. Len(running)
        /\ k <= Len(running) - req_index => r \notin ToSet(Victims(k))
    BY <1>1, <1>6, VictimsLater
  <2>2. PICK x : x = t.m
    OBVIOUS
  <2>3. PICK V : V = ToSet(Victims(k))
    OBVIOUS
  <2>4. Sound(x) /\ m = Preempted(x, k)
    BY <1>6, <1>7, <2>2, Zenon
  <2>5. Dropped(x, m, V) /\ \A p \in V : Released(m, p)
    BY <1>6, <2>1, <2>3, <2>4, PreemptedEffect, Zenon
  <2> QED  BY <2>1, <2>2, <2>3, <2>5, Zenon
<1>8. CASE /\ t.n = 0 /\ manager' = t.m /\ req_index' = req_index + 1
           /\ UNCHANGED <<request_vars, pc, token_budget, encoder_compute_budget, preempted,
                          scheduler_output, failures>>
  <2>1. UNCHANGED <<request_vars, pc, token_budget, encoder_compute_budget, scheduler_output,
                    worker_vars, config_vars>>
    BY <1>5, <1>8
  <2> QED  BY <1>1, <1>2, <1>3, <1>4, <1>5, <1>8, <2>1, RunningNothing, Zenon
<1>9. CASE /\ t.n > 0 /\ req_index' = req_index + 1 /\ UNCHANGED <<pc, arrived>>
           /\ \E k \in 0 .. Len(running) - req_index :
                _preempt_request(k) /\ ScheduleRequest(r, c, t, Preempted(t.m, k))
  <2>1. PICK k \in 0 .. Len(running) - req_index :
          _preempt_request(k) /\ ScheduleRequest(r, c, t, Preempted(t.m, k))
    BY <1>9, Zenon
  <2>2. UNCHANGED <<arrived, pc, worker_vars, config_vars>>
    BY <1>5, <1>9
  <2>3. PICK m : m = Preempted(t.m, k)
    OBVIOUS
  <2>4. ScheduleRequest(r, c, t, m)
    BY <2>1, <2>3, Zenon
  <2>5. k \in 0 .. Len(running) - req_index + 1 /\ k <= Len(running) - req_index
    BY <1>6
  <2>6. PICK V : V = ToSet(Victims(k))
    OBVIOUS
  <2>7. /\ Scheduled \cap V = {} /\ k \in 0 .. Len(running) /\ r \notin V
        /\ Dropped(t.m, m, V) /\ \A p \in V : Released(m, p)
    BY <1>7, <2>3, <2>5, <2>6, Zenon
  <2> QED  BY <1>1, <1>5, <1>6, <1>9, <2>1, <2>2, <2>4, <2>5, <2>6, <2>7, RunningScheduled, Zenon
<1>10. CASE /\ pc' = "end"
            /\ LET k == Len(running) - req_index + 1
               IN _preempt_request(k) /\ manager' = Preempted(t.m, k)
            /\ UNCHANGED <<arrived, req_index, token_budget, encoder_compute_budget,
                           scheduler_output>>
  <2>1. PICK k \in 0 .. Len(running) - req_index + 1 : k = Len(running) - req_index + 1
    BY <1>6
  <2>2. _preempt_request(k) /\ manager' = Preempted(t.m, k)
    BY <1>10, <2>1, Zenon
  <2>3. UNCHANGED <<arrived, req_index, token_budget, encoder_compute_budget, scheduler_output,
                    worker_vars, config_vars>>
    BY <1>5, <1>10
  <2>4. PICK m : m = Preempted(t.m, k)
    OBVIOUS
  <2>5. PICK V : V = ToSet(Victims(k))
    OBVIOUS
  <2>6. /\ Scheduled \cap V = {} /\ k \in 0 .. Len(running)
        /\ Dropped(t.m, m, V) /\ \A p \in V : Released(m, p)
    BY <1>7, <2>4, <2>5, Zenon
  <2>7. r \in V
    <3>1. PICK v : v = Victims(k)
      OBVIOUS
    <3>2. PICK s \in Seq(Reqs) : s = running
      BY <1>6, Zenon DEF Shapes
    <3>3. v = SubSeq(s, req_index, Len(s))
      <4>1. Len(running) - k + 1 = req_index
        BY <1>6, <2>1
      <4> QED  BY <3>1, <3>2, <4>1, Zenon DEF Victims
    <3>4. v \in Seq(Reqs) /\ 1 \in 1 .. Len(v) /\ v[1] = s[req_index]
      BY <1>6, <3>2, <3>3
    <3>5. v[1] \in ToSet(v)
      BY <3>4, ToSetFacts
    <3> QED  BY <1>1, <2>5, <3>1, <3>2, <3>4, <3>5, Zenon
  <2>8. manager' = m
    BY <2>2, <2>4, Zenon
  <2> QED  BY <1>6, <1>10, <2>2, <2>3, <2>5, <2>6, <2>7, <2>8, RunningPreempted, Zenon
<1> QED  BY <1>5, <1>8, <1>9, <1>10, Zenon

LEMMA HeadTailFacts ==
  ASSUME NEW T, NEW s \in Seq(T), s # << >>, Distinct(s), NEW r, r = Head(s)
  PROVE  /\ r \in T /\ r \in ToSet(s)
         /\ Tail(s) \in Seq(T) /\ Distinct(Tail(s)) /\ ToSet(Tail(s)) = ToSet(s) \ {r}
<1>1. PICK n \in Nat : Len(s) = n + 1
  <2>1. Len(s) \in Nat /\ Len(s) # 0
    OBVIOUS
  <2>2. Len(s) - 1 \in Nat /\ Len(s) = (Len(s) - 1) + 1
    BY <2>1
  <2> QED  BY <2>2, Zenon
<1>2. PICK u : u = Tail(s)
  OBVIOUS
<1>3. u \in Seq(T) /\ Len(u) = n /\ (\A i \in 1 .. n : u[i] = s[i + 1]) /\ r = s[1] /\ r \in T
  BY <1>1, <1>2
<1>4. \A x : x \in ToSet(s) <=> \E i \in 1 .. n + 1 : s[i] = x
  BY <1>1, ToSetFacts
<1>5. \A x : x \in ToSet(u) <=> \E i \in 1 .. n : u[i] = x
  BY <1>3, ToSetFacts
<1>6. Distinct(u)
  <2> SUFFICES ASSUME NEW i \in 1 .. n, NEW j \in 1 .. n, u[i] = u[j] PROVE i = j
    BY <1>3, Zenon DEF Distinct
  <2>1. s[i + 1] = s[j + 1]
    BY <1>3
  <2>2. PICK x \in 1 .. n + 1, y \in 1 .. n + 1 : x = i + 1 /\ y = j + 1
    <3>1. i + 1 \in 1 .. n + 1 /\ j + 1 \in 1 .. n + 1
      OBVIOUS
    <3> QED  BY <3>1, Zenon
  <2>3. x = y
    BY <1>1, <2>1, <2>2, Zenon DEF Distinct
  <2> QED  BY <2>2, <2>3
<1>7. 1 \in 1 .. n + 1
  OBVIOUS
<1>8. r \notin ToSet(u)
  <2> SUFFICES ASSUME NEW i \in 1 .. n, u[i] = r PROVE FALSE
    BY <1>5
  <2>1. PICK x \in 1 .. n + 1 : x = i + 1 /\ x # 1
    <3>1. i + 1 \in 1 .. n + 1 /\ i + 1 # 1
      OBVIOUS
    <3> QED  BY <3>1, Zenon
  <2>2. s[x] = s[1]
    BY <1>3, <2>1
  <2>3. x = 1
    BY <1>1, <1>7, <2>2, Zenon DEF Distinct
  <2> QED  BY <2>1, <2>3
<1>9. ASSUME NEW x \in ToSet(s), x # r PROVE x \in ToSet(u)
  <2>1. PICK i \in 1 .. n + 1 : s[i] = x
    BY <1>4
  <2>2. i # 1
    BY <1>3, <1>9, <2>1
  <2>3. PICK j \in 1 .. n : i = j + 1
    <3>1. i - 1 \in 1 .. n /\ i = (i - 1) + 1
      BY <2>2
    <3> QED  BY <3>1, Zenon
  <2>4. u[j] = x
    BY <1>3, <2>1, <2>3
  <2> QED  BY <1>5, <2>4, Zenon
<1>10. ASSUME NEW x \in ToSet(u) PROVE x \in ToSet(s)
  <2>1. PICK i \in 1 .. n : u[i] = x
    BY <1>5
  <2>2. PICK j \in 1 .. n + 1 : j = i + 1
    <3>1. i + 1 \in 1 .. n + 1
      OBVIOUS
    <3> QED  BY <3>1, Zenon
  <2>3. s[j] = x
    BY <1>3, <2>1, <2>2
  <2> QED  BY <1>4, <2>3, Zenon
<1>11. ToSet(u) = ToSet(s) \ {r}
  BY <1>8, <1>9, <1>10
<1>12. r \in ToSet(s)
  BY <1>3, <1>4, <1>7, Zenon
<1> QED  BY <1>2, <1>3, <1>6, <1>11, <1>12, Zenon

LEMMA WaitingFacts ==
  ASSUME EncInv, WaitingLoop, NEW r, r = Head(waiting), NEW c \in PrefixHits(r),
         NEW n0, n0 = NumNew(r, c), NEW t, t = _try_schedule_encoder_inputs(r, c, n0)
  PROVE  /\ r \in Reqs /\ c \in Nat /\ c <= NumTokens[r] /\ n0 \in Nat /\ n0 <= token_budget
         /\ Tried(r, c, n0, t) /\ Sound(t.m) /\ r \in ToSet(waiting) /\ num_computed_tokens[r] = 0
         /\ r \notin Scheduled /\ r \notin ToSet(running)
         /\ Tail(waiting) \in Seq(Reqs) /\ Distinct(Tail(waiting))
         /\ ToSet(Tail(waiting)) = ToSet(waiting) \ {r}
<1>1. /\ Shapes /\ Sound(manager) /\ Lists /\ Step /\ waiting # << >> /\ token_budget > 0
  BY Zenon DEF EncInv, WaitingLoop
<1>2. waiting \in Seq(Reqs) /\ Distinct(waiting)
  BY <1>1, Zenon DEF Shapes, Lists
<1>3. /\ r \in Reqs /\ r \in ToSet(waiting)
      /\ Tail(waiting) \in Seq(Reqs) /\ Distinct(Tail(waiting))
      /\ ToSet(Tail(waiting)) = ToSet(waiting) \ {r}
  BY <1>1, <1>2, HeadTailFacts
<1>4. NumTokens[r] \in Nat
  BY <1>3, Constants
<1>5. c \in Nat /\ c <= NumTokens[r]
  BY <1>4 DEF PrefixHits
<1>6. token_budget \in Nat
  BY <1>1, Constants DEF Shapes
<1>7. n0 \in Nat \ {0} /\ n0 <= token_budget
  BY <1>1, <1>3, <1>5, <1>6, NumNewFacts
<1>8. Tried(r, c, n0, t)
  BY <1>1, <1>3, <1>5, <1>7, TryResult
<1>9. Sound(t.m)
  BY <1>8, Zenon DEF Tried, Moved
<1>10. num_computed_tokens[r] = 0
  BY <1>1, <1>3, Zenon DEF Lists
<1>11. r \notin ToSet(running) /\ r \notin Scheduled
  BY <1>1, <1>3 DEF Lists, Step
<1> QED  BY <1>3, <1>5, <1>7, <1>8, <1>9, <1>10, <1>11, Zenon

(* The first waiting request is not scheduled: its step is over.  W holds  *)
(* it if its references were freed again.                                  *)
LEMMA WaitingNothing ==
  ASSUME EncInv, NEW r \in Reqs, NEW c \in Nat, NEW n0, NEW t, Tried(r, c, n0, t),
         r \in ToSet(waiting), num_computed_tokens[r] = 0, r \notin Scheduled,
         NEW V \in SUBSET {r}, r \in V \/ t.n = 0,
         NEW u, Dropped(t.m, u, V), \A p \in V : Released(u, p), manager' = u, pc' = "end",
         UNCHANGED <<request_vars, token_budget, encoder_compute_budget, scheduler_output,
                     req_index, worker_vars, config_vars>>
  PROVE  EncInv'
<1>1. /\ Shapes /\ Sound(manager) /\ Lists /\ Step /\ Served(encoder_cache, batch_queue)
  BY DEF EncInv
<1>2. /\ arrived' = arrived /\ running' = running /\ waiting' = waiting
      /\ num_computed_tokens' = num_computed_tokens /\ token_budget' = token_budget
      /\ encoder_compute_budget' = encoder_compute_budget /\ scheduler_output' = scheduler_output
      /\ req_index' = req_index
      /\ batch_queue' = batch_queue /\ encoder_cache' = encoder_cache /\ use_eagle' = use_eagle
  BY DEF request_vars, worker_vars, config_vars
<1>3. Sound(manager') /\ References' /\ Pinned' /\ InStep' /\ Scheduled' = Scheduled
  <2>1. V \in SUBSET Reqs /\ Scheduled \cap V = {}
    OBVIOUS
  <2>2. 0 <= c
    OBVIOUS
  <2>3. Settled(r, c, t, V)
    BY <1>2, <2>2, Zenon DEF Settled
  <2>4. num_computed_tokens \in [Reqs -> Nat]
    BY <1>1, Zenon DEF Shapes
  <2>5. Remain(V)
    BY <1>2, <2>4, Zenon DEF Remain
  <2> QED  BY <1>2, <2>1, <2>3, <2>5, NotScheduled, Zenon
<1>4. Shapes'
  <2>1. pc' \in {"idle", "running", "waiting", "end"}
    OBVIOUS
  <2> QED  BY <1>1, <1>2, <2>1, Zenon DEF Shapes
<1>5. Lists'
  BY <1>1, <1>2, Zenon DEF Lists
<1>6. Step'
  <2>1. pc' # "idle" /\ pc' # "running"
    OBVIOUS
  <2> QED  BY <1>1, <1>2, <1>3, <2>1, Zenon DEF Step
<1>7. Served(encoder_cache, batch_queue)'
  BY <1>1, <1>2, ServedStays, Zenon
<1> QED  BY <1>3, <1>4, <1>5, <1>6, <1>7, Zenon DEF EncInv

(* The first waiting request enters the step, and runs.                    *)
LEMMA WaitingScheduled ==
  ASSUME EncInv, pc = "waiting", NEW r \in Reqs, NEW c \in Nat, c <= NumTokens[r],
         NEW n0 \in Nat, n0 <= token_budget, NEW t, Tried(r, c, n0, t), t.n > 0, Sound(t.m),
         r \in ToSet(waiting), r \notin ToSet(running), r \notin Scheduled,
         Tail(waiting) \in Seq(Reqs), Distinct(Tail(waiting)),
         ToSet(Tail(waiting)) = ToSet(waiting) \ {r},
         NEW m, m = t.m, ScheduleRequest(r, c, t, m),
         waiting' = Tail(waiting), running' = Append(running, r),
         num_computed_tokens' = [num_computed_tokens EXCEPT ![r] = c],
         UNCHANGED <<arrived, pc, req_index, worker_vars, config_vars>>
  PROVE  EncInv'
<1>1. /\ Shapes /\ Sound(manager) /\ Lists /\ Step /\ Served(encoder_cache, batch_queue)
  BY DEF EncInv
<1>2. /\ arrived' = arrived /\ pc' = pc /\ req_index' = req_index
      /\ batch_queue' = batch_queue /\ encoder_cache' = encoder_cache /\ use_eagle' = use_eagle
  BY DEF worker_vars, config_vars
<1>3. /\ running' \in Seq(Reqs) /\ ToSet(running') = ToSet(running) \cup {r} /\ Distinct(running')
  <2>1. running \in Seq(Reqs) /\ Distinct(running)
    BY <1>1, Zenon DEF Shapes, Lists
  <2> QED  BY <2>1, AppendFacts
<1>4. /\ waiting' \in Seq(Reqs) /\ Distinct(waiting') /\ ToSet(waiting') = ToSet(waiting) \ {r}
  OBVIOUS
<1>5. /\ num_computed_tokens' \in [Reqs -> Nat] /\ num_computed_tokens'[r] = c
      /\ \A p \in Reqs : p # r => num_computed_tokens'[p] = num_computed_tokens[p]
  BY <1>1 DEF Shapes
<1>6. PICK V : /\ V \in SUBSET Reqs /\ V = {} /\ r \notin V /\ Scheduled \cap V = {}
               /\ \A p \in V : Released(m, p)
  <2>1. PICK V : V = {}
    OBVIOUS
  <2>2. V \in SUBSET Reqs /\ r \notin V /\ Scheduled \cap V = {} /\ \A p : p \notin V
    BY <2>1
  <2> QED  BY <2>1, <2>2, Zenon
<1>7. Dropped(t.m, m, V)
  BY DroppedNone, Zenon
<1>8. Enters(r, V)
  <2>1. /\ r \in ToSet(running')
        /\ \A p \in Reqs : p \notin V /\ p \in ToSet(running) => p \in ToSet(running')
        /\ \A p \in Reqs : p \notin V /\ use_eagle /\ p \in ToSet(waiting) =>
             p \in ToSet(running') \/ p \in ToSet(waiting')
    BY <1>3, <1>4
  <2> QED  BY <1>5, <2>1, Zenon DEF Enters
<1>9. /\ Sound(manager') /\ References' /\ Pinned' /\ InStep'
      /\ Scheduled' = Scheduled \cup {r}
      /\ token_budget' \in 0 .. MaxNumScheduledTokens
      /\ encoder_compute_budget' \in 0 .. MaxEncoderInputTokens
      /\ scheduler_output' = [parts |-> scheduler_output'.parts, inputs |-> scheduler_output'.inputs]
      /\ scheduler_output'.parts \in Seq(Parts) /\ scheduler_output'.inputs \in SUBSET Hashes
  BY <1>2, <1>6, <1>7, <1>8, RequestScheduled, Zenon
<1>10. Shapes'
  <2>1. \A p \in Reqs : num_computed_tokens'[p] <= NumTokens[p]
    <3>1. \A p \in Reqs : num_computed_tokens[p] <= NumTokens[p]
      BY <1>1, Zenon DEF Shapes
    <3> QED  BY <1>5, <3>1
  <2> QED  BY <1>1, <1>2, <1>3, <1>4, <1>5, <1>9, <2>1, Zenon DEF Shapes
<1>11. Lists'
  <2>1. /\ ToSet(running) \cap ToSet(waiting) = {}
        /\ ToSet(running) \cup ToSet(waiting) \subseteq arrived
        /\ \A p \in Reqs : p \notin arrived \/ p \in ToSet(waiting) => num_computed_tokens[p] = 0
    BY <1>1, Zenon DEF Lists
  <2>2. /\ ToSet(running') \cap ToSet(waiting') = {}
        /\ ToSet(running') \cup ToSet(waiting') \subseteq arrived'
    BY <1>2, <1>3, <1>4, <2>1
  <2>3. \A p \in Reqs : p \notin arrived' \/ p \in ToSet(waiting') => num_computed_tokens'[p] = 0
    BY <1>2, <1>4, <1>5, <2>1
  <2> QED  BY <1>3, <1>4, <2>2, <2>3, Zenon DEF Lists
<1>12. Step'
  <2>1. pc' # "idle" /\ pc' # "running"
    BY <1>2
  <2>2. Scheduled' \subseteq ToSet(running')
    BY <1>1, <1>3, <1>9 DEF Step
  <2> QED  BY <2>1, <2>2, Zenon DEF Step
<1>13. Served(encoder_cache, batch_queue)'
  BY <1>1, <1>2, ServedStays, Zenon
<1> QED  BY <1>9, <1>10, <1>11, <1>12, <1>13, Zenon DEF EncInv

(* One iteration of the loop over the waiting requests.                    *)
LEMMA ScheduleWaiting == EncInv /\ schedule_waiting => EncInv'
<1> SUFFICES ASSUME EncInv, schedule_waiting PROVE EncInv'
  OBVIOUS
<1>1. PICK r : r = Head(waiting)
  OBVIOUS
<1>2. PICK c \in PrefixHits(r) :
        LET t == _try_schedule_encoder_inputs(r, c, NumNew(r, c))
        IN \/ /\ t.n = 0
              /\ manager' = t.m
              /\ pc' = "end"
              /\ UNCHANGED <<request_vars, token_budget, encoder_compute_budget,
                             scheduler_output, failures>>
           \/ /\ t.n > 0
              /\ failures < MaxFailures
              /\ failures' = failures + 1
              /\ manager' = free(t.m, r)
              /\ pc' = "end"
              /\ UNCHANGED <<request_vars, token_budget, encoder_compute_budget,
                             scheduler_output>>
           \/ /\ t.n > 0
              /\ ScheduleRequest(r, c, t, t.m)
              /\ waiting' = Tail(waiting) /\ running' = Append(running, r)
              /\ num_computed_tokens' = [num_computed_tokens EXCEPT ![r] = c]
              /\ UNCHANGED <<arrived, pc, failures>>
  BY <1>1, Zenon DEF schedule_waiting
<1>3. PICK n0 : n0 = NumNew(r, c)
  OBVIOUS
<1>4. PICK t : t = _try_schedule_encoder_inputs(r, c, n0)
  OBVIOUS
<1>5. WaitingLoop /\ UNCHANGED <<req_index, preempted, worker_vars, config_vars, resets>>
  BY Zenon DEF schedule_waiting
<1>6. \/ /\ t.n = 0
         /\ manager' = t.m
         /\ pc' = "end"
         /\ UNCHANGED <<request_vars, token_budget, encoder_compute_budget,
                        scheduler_output, failures>>
      \/ /\ t.n > 0
         /\ manager' = free(t.m, r)
         /\ pc' = "end"
         /\ UNCHANGED <<request_vars, token_budget, encoder_compute_budget,
                        scheduler_output>>
      \/ /\ t.n > 0
         /\ ScheduleRequest(r, c, t, t.m)
         /\ waiting' = Tail(waiting) /\ running' = Append(running, r)
         /\ num_computed_tokens' = [num_computed_tokens EXCEPT ![r] = c]
         /\ UNCHANGED <<arrived, pc, failures>>
  BY <1>2, <1>3, <1>4, Zenon
<1> HIDE DEF schedule_waiting
<1>7. /\ r \in Reqs /\ c \in Nat /\ c <= NumTokens[r] /\ n0 \in Nat /\ n0 <= token_budget
      /\ Tried(r, c, n0, t) /\ Sound(t.m) /\ r \in ToSet(waiting) /\ num_computed_tokens[r] = 0
      /\ r \notin Scheduled /\ r \notin ToSet(running)
      /\ Tail(waiting) \in Seq(Reqs) /\ Distinct(Tail(waiting))
      /\ ToSet(Tail(waiting)) = ToSet(waiting) \ {r}
  BY <1>1, <1>3, <1>4, <1>5, WaitingFacts, Zenon
<1>8. PICK x : x = t.m
  OBVIOUS
<1>9. CASE /\ t.n = 0 /\ manager' = t.m /\ pc' = "end"
           /\ UNCHANGED <<request_vars, token_budget, encoder_compute_budget,
                          scheduler_output, failures>>
  <2>1. UNCHANGED <<request_vars, token_budget, encoder_compute_budget, scheduler_output,
                    req_index, worker_vars, config_vars>>
    BY <1>5, <1>9
  <2>2. PICK V \in SUBSET {r} : V = {} /\ \A p \in V : Released(x, p)
    <3>1. PICK V : V = {}
      OBVIOUS
    <3>2. V \in SUBSET {r} /\ \A p : p \notin V
      BY <3>1
    <3> QED  BY <3>1, <3>2, Zenon
  <2>3. Dropped(t.m, x, V)
    BY <1>7, <1>8, DroppedNone, Zenon
  <2> QED  BY <1>7, <1>8, <1>9, <2>1, <2>2, <2>3, WaitingNothing, Zenon
<1>10. CASE /\ manager' = free(t.m, r) /\ pc' = "end"
            /\ UNCHANGED <<request_vars, token_budget, encoder_compute_budget,
                           scheduler_output>>
  <2>1. UNCHANGED <<request_vars, token_budget, encoder_compute_budget, scheduler_output,
                    req_index, worker_vars, config_vars>>
    BY <1>5, <1>10
  <2>2. PICK u : u = manager'
    OBVIOUS
  <2>3. Dropped(x, u, {r}) /\ Released(u, r)
    <3>1. Sound(x) /\ u = free(x, r)
      BY <1>7, <1>8, <1>10, <2>2, Zenon
    <3> QED  BY <1>7, <3>1, FreeRequestEffect, Zenon
  <2>4. PICK V \in SUBSET {r} : V = {r} /\ r \in V /\ \A p \in V : p = r
    <3>1. PICK V : V = {r}
      OBVIOUS
    <3>2. V \in SUBSET {r} /\ r \in V /\ \A p \in V : p = r
      BY <3>1
    <3> QED  BY <3>1, <3>2, Zenon
  <2>5. Dropped(t.m, u, V) /\ \A p \in V : Released(u, p)
    BY <1>8, <2>3, <2>4, Zenon
  <2> QED  BY <1>7, <1>10, <2>1, <2>2, <2>4, <2>5, WaitingNothing, Zenon
<1>11. CASE /\ t.n > 0 /\ ScheduleRequest(r, c, t, t.m)
            /\ waiting' = Tail(waiting) /\ running' = Append(running, r)
            /\ num_computed_tokens' = [num_computed_tokens EXCEPT ![r] = c]
            /\ UNCHANGED <<arrived, pc, failures>>
  <2>1. UNCHANGED <<arrived, pc, req_index, worker_vars, config_vars>>
    BY <1>5, <1>11
  <2>2. ScheduleRequest(r, c, t, x)
    BY <1>8, <1>11, Zenon
  <2>3. pc = "waiting"
    BY <1>5, Zenon DEF WaitingLoop
  <2> QED  BY <1>7, <1>8, <1>11, <2>1, <2>2, <2>3, WaitingScheduled, Zenon
<1> QED  BY <1>6, <1>9, <1>10, <1>11, Zenon

LEMMA MinFacts ==
  ASSUME NEW T \in SUBSET Nat, T # {}
  PROVE  Min(T) \in T /\ \A y \in T : Min(T) <= y
<1>1. \E x \in T : \A y \in T : x <= y
  BY LeastNatural
<1> QED  BY <1>1 DEF Min

(* The announced evictions are handed over: the books are not touched.     *)
LEMMA FreedForgotten ==
  ASSUME NEW m, Sound(m), NEW u, u = [m EXCEPT !.freed = {}]
  PROVE  Sound(u) /\ u.freed = {} /\ u.cached = m.cached
<1>1. /\ DOMAIN m.cached \in SUBSET Hashes /\ m.cached \in [DOMAIN m.cached -> SUBSET Reqs]
      /\ m.freeable \in Seq(Hashes) /\ m.num_free_slots \in Nat
      /\ m = [cached |-> m.cached, freeable |-> m.freeable, freed |-> m.freed,
              num_free_slots |-> m.num_free_slots, num_freeable_slots |-> m.num_freeable_slots]
      /\ Distinct(m.freeable)
      /\ \A h : h \in ToSet(m.freeable) <=> h \in DOMAIN m.cached /\ m.cached[h] = {}
      /\ m.num_free_slots = CacheSize - Slots(DOMAIN m.cached)
      /\ m.num_freeable_slots = m.num_free_slots + Slots(ToSet(m.freeable))
  BY SoundFacts
<1>2. u = [cached |-> m.cached, freeable |-> m.freeable, freed |-> {},
           num_free_slots |-> m.num_free_slots, num_freeable_slots |-> m.num_freeable_slots]
  <2>1. PICK a, b, d, e, f : /\ a = m.cached /\ b = m.freeable /\ d = m.freed
                             /\ e = m.num_free_slots /\ f = m.num_freeable_slots
    OBVIOUS
  <2>2. m = [cached |-> a, freeable |-> b, freed |-> d, num_free_slots |-> e, num_freeable_slots |-> f]
    BY <1>1, <2>1, Zenon
  <2>3. u = [cached |-> a, freeable |-> b, freed |-> {}, num_free_slots |-> e, num_freeable_slots |-> f]
    BY <2>2
  <2> QED  BY <2>1, <2>3, Zenon
<1>3. /\ u.cached = m.cached /\ u.freeable = m.freeable /\ u.freed = {}
      /\ u.num_free_slots = m.num_free_slots /\ u.num_freeable_slots = m.num_freeable_slots
  BY <1>2
<1>4. u = [cached |-> u.cached, freeable |-> u.freeable, freed |-> u.freed,
           num_free_slots |-> u.num_free_slots, num_freeable_slots |-> u.num_freeable_slots]
  BY <1>2, <1>3, Zenon
<1>5. {} \in SUBSET Hashes
  OBVIOUS
<1>6. Sound(u)
  BY <1>1, <1>3, <1>4, <1>5, MakeSound, Zenon
<1> QED  BY <1>3, <1>6

(* Where the step takes a request.                                         *)
LEMMA ReachedFacts ==
  ASSUME Shapes, NEW p \in Reqs, NEW x,
         x = (IF Reached(p) = {} THEN num_computed_tokens[p] ELSE Min(Reached(p) \cup {NumTokens[p]}))
  PROVE  /\ x \in Nat /\ x <= NumTokens[p]
         /\ p \notin Scheduled => x = num_computed_tokens[p]
         /\ \A i \in 1 .. Len(scheduler_output.parts) : scheduler_output.parts[i].req = p =>
              x <= scheduler_output.parts[i].start + scheduler_output.parts[i].num
<1>1. PICK s \in Seq(Parts) : s = scheduler_output.parts
  BY Zenon DEF Shapes
<1>2. PICK T : T = Reached(p)
  OBVIOUS
<1>3. T = {part.start + part.num : part \in {q \in ToSet(s) : q.req = p}}
  BY <1>1, <1>2, Zenon DEF Reached
<1>4. \A q : q \in ToSet(s) <=> \E i \in 1 .. Len(s) : s[i] = q
  BY <1>1, ToSetFacts
<1>5. \A i \in 1 .. Len(s) : s[i] \in Parts /\ s[i].start + s[i].num \in Nat
  <2> SUFFICES ASSUME NEW i \in 1 .. Len(s) PROVE s[i] \in Parts /\ s[i].start + s[i].num \in Nat
    OBVIOUS
  <2>1. PICK q \in Parts : q = s[i]
    <3>1. s[i] \in Parts
      BY <1>1
    <3> QED  BY <3>1, Zenon
  <2>2. q.start + q.num \in Nat
    BY DEF Parts
  <2> QED  BY <2>1, <2>2, Zenon
<1>6. \A z : z \in T <=> \E i \in 1 .. Len(s) : s[i].req = p /\ z = s[i].start + s[i].num
  BY <1>3, <1>4, Zenon
<1>7. T \in SUBSET Nat
  BY <1>5, <1>6
<1>8. num_computed_tokens[p] \in Nat /\ num_computed_tokens[p] <= NumTokens[p]
  BY DEF Shapes
<1>9. NumTokens[p] \in Nat
  BY Constants
<1>10. Scheduled = {s[i].req : i \in 1 .. Len(s)}
  BY <1>1, Zenon DEF Scheduled
<1>11. CASE T = {}
  <2>1. x = num_computed_tokens[p]
    BY <1>2, <1>11
  <2>2. \A i \in 1 .. Len(s) : s[i].req # p
    BY <1>6, <1>11
  <2> QED  BY <1>1, <1>8, <2>1, <2>2, Zenon
<1>12. CASE T # {}
  <2>1. PICK U : U = T \cup {NumTokens[p]}
    OBVIOUS
  <2>2. U \in SUBSET Nat /\ U # {} /\ NumTokens[p] \in U
    BY <1>7, <1>9, <2>1
  <2>3. x = Min(U)
    BY <1>2, <1>12, <2>1, Zenon
  <2>4. x \in U /\ \A y \in U : x <= y
    <3>1. PICK z : z = Min(U)
      OBVIOUS
    <3>2. Min(U) \in U /\ \A y \in U : Min(U) <= y
      BY <2>2, MinFacts
    <3>3. z \in U /\ \A y \in U : z <= y
      BY <3>1, <3>2, Zenon
    <3>4. x = z
      BY <2>3, <3>1, Zenon
    <3> QED  BY <3>3, <3>4
  <2>5. x \in Nat /\ x <= NumTokens[p]
    <3>1. \A y : y \in U => y \in Nat
      BY <2>2
    <3> QED  BY <2>2, <2>4, <3>1, Zenon
  <2>6. \A i \in 1 .. Len(s) : s[i].req = p => x <= s[i].start + s[i].num
    <3>1. \A y : y \in T => y \in U
      BY <2>1
    <3> QED  BY <1>6, <2>4, <3>1, Zenon
  <2>7. p \in Scheduled
    <3>1. PICK i \in 1 .. Len(s) : s[i].req = p
      BY <1>6, <1>12
    <3> QED  BY <1>10, <3>1
  <2> QED  BY <1>1, <2>5, <2>6, <2>7, Zenon
<1> QED  BY <1>11, <1>12

(* The end of a step: the batch is queued with the evictions since the     *)
(* last one, and what it completes is released.                            *)
LEMMA ScheduleEnd == EncInv /\ schedule_end => EncInv'
<1> SUFFICES ASSUME EncInv, schedule_end PROVE EncInv'
  OBVIOUS
<1>1. /\ Shapes /\ Sound(manager) /\ Lists /\ Step /\ References /\ Pinned
      /\ InStep /\ Served(encoder_cache, batch_queue)
  BY DEF EncInv
<1>2. PICK b : b = [parts |-> scheduler_output.parts, inputs |-> scheduler_output.inputs,
                    freed |-> manager.freed]
  OBVIOUS
<1>3. PICK m : m = [manager EXCEPT !.freed = {}]
  OBVIOUS
<1>4. PICK s \in Seq(Parts) : s = scheduler_output.parts
  BY <1>1, Zenon DEF Shapes
<1>5. PICK u : u = FreedParts(m, s)
  OBVIOUS
<1>6. /\ batch_queue' = Append(batch_queue, b) /\ manager' = u
      /\ num_computed_tokens' =
           [p \in Reqs |-> IF Reached(p) = {} THEN num_computed_tokens[p]
                           ELSE Min(Reached(p) \cup {NumTokens[p]})]
      /\ pc' = "idle" /\ req_index' = 1 /\ token_budget' = 0 /\ encoder_compute_budget' = 0
      /\ scheduler_output' = NothingScheduled
      /\ arrived' = arrived /\ running' = running /\ waiting' = waiting
      /\ encoder_cache' = encoder_cache /\ use_eagle' = use_eagle
  <2>1. /\ batch_queue' = Append(batch_queue, b)
        /\ manager' = u
    BY <1>2, <1>3, <1>4, <1>5, Zenon DEF schedule_end, FreedParts
  <2>2. use_eagle' = use_eagle
    BY DEF schedule_end, config_vars
  <2> QED  BY <2>1, <2>2 DEF schedule_end
<1>7. Sound(m) /\ m.freed = {} /\ m.cached = manager.cached
  BY <1>1, <1>3, FreedForgotten
<1>8. Dropped(m, u, {s[i].req : i \in 1 .. Len(s)}) /\ \A i \in 1 .. Len(s) : Completed(u, s[i])
  BY <1>5, <1>7, FreePartsEffect
<1>9. Scheduled = {s[i].req : i \in 1 .. Len(s)}
  BY <1>4, Zenon DEF Scheduled
<1>10. /\ Sound(u) /\ u.freed = {} /\ DOMAIN u.cached = DOMAIN manager.cached
       /\ \A h \in DOMAIN manager.cached : \A p : p \in u.cached[h] => p \in manager.cached[h]
  BY <1>7, <1>8, Zenon DEF Dropped
<1>11. /\ scheduler_output'.parts = << >> /\ scheduler_output'.inputs = {} /\ Scheduled' = {}
       /\ scheduler_output' = [parts |-> scheduler_output'.parts, inputs |-> scheduler_output'.inputs]
  <2>1. scheduler_output' = [parts |-> << >>, inputs |-> {}]
    BY <1>6, Zenon DEF NothingScheduled
  <2>2. scheduler_output'.parts = << >> /\ scheduler_output'.inputs = {}
    BY <2>1
  <2>3. Scheduled' = {}
    BY <2>2 DEF Scheduled
  <2> QED  BY <2>1, <2>2, <2>3
<1>12. ASSUME NEW p \in Reqs
       PROVE  /\ num_computed_tokens'[p] \in Nat /\ num_computed_tokens'[p] <= NumTokens[p]
              /\ p \notin Scheduled => num_computed_tokens'[p] = num_computed_tokens[p]
              /\ \A i \in 1 .. Len(s) : s[i].req = p => num_computed_tokens'[p] <= s[i].start + s[i].num
  <2>1. PICK x : x = IF Reached(p) = {} THEN num_computed_tokens[p]
                     ELSE Min(Reached(p) \cup {NumTokens[p]})
    OBVIOUS
  <2>2. num_computed_tokens'[p] = x
    BY <1>6, <2>1
  <2>3. /\ x \in Nat /\ x <= NumTokens[p]
        /\ p \notin Scheduled => x = num_computed_tokens[p]
        /\ \A i \in 1 .. Len(scheduler_output.parts) : scheduler_output.parts[i].req = p =>
             x <= scheduler_output.parts[i].start + scheduler_output.parts[i].num
    BY <1>1, <2>1, ReachedFacts
  <2> QED  BY <1>4, <2>2, <2>3, Zenon
<1>13. num_computed_tokens' \in [Reqs -> Nat]
  <2>1. num_computed_tokens' = [p \in Reqs |-> num_computed_tokens'[p]]
    BY <1>6
  <2> QED  BY <1>12, <2>1
<1>14. PICK q \in Seq(Batches), n \in Nat : q = batch_queue /\ n = Len(q)
  <2>1. batch_queue \in Seq(Batches)
    BY <1>1, Zenon DEF Shapes
  <2>2. Len(batch_queue) \in Nat
    BY <2>1
  <2> QED  BY <2>1, <2>2, Zenon
<1>15. b \in Batches /\ b.parts = s /\ b.inputs = scheduler_output.inputs /\ b.freed = manager.freed
  <2>1. scheduler_output.inputs \in SUBSET Hashes /\ manager.freed \in SUBSET Hashes
    BY <1>1, SoundFacts DEF Shapes
  <2> QED  BY <1>2, <1>4, <2>1 DEF Batches
<1>13a. PICK a : a = Append(q, b)
  OBVIOUS
<1>16. a = batch_queue' /\ a \in Seq(Batches) /\ Len(a) = n + 1 /\ a[n + 1] = b
       /\ \A i \in 1 .. n : a[i] = q[i]
  BY <1>6, <1>13a, <1>14, <1>15
<1>17. /\ \A i \in 0 .. n : Stored(encoder_cache, a, i) = Stored(encoder_cache, q, i)
       /\ Stored(encoder_cache, a, n + 1) = Executed(ExecutedAll(encoder_cache, q), b)
       /\ ExecutedAll(encoder_cache, a) = Executed(ExecutedAll(encoder_cache, q), b)
  <2>1. Appended(q, b, n, a)
    BY <1>14, <1>16, Zenon DEF Appended
  <2>2. \A i \in 0 .. n : Stored(encoder_cache, a, i) = Stored(encoder_cache, q, i)
    BY <2>1, StoredBefore, ZenonT(30)
  <2>3. ExecutedAll(encoder_cache, a) = Executed(ExecutedAll(encoder_cache, q), b)
    BY <2>1, ExecutedAppend, ZenonT(30)
  <2>4. PICK k \in Nat : k = n + 1
    OBVIOUS
  <2>5. a \in Seq(Batches) /\ k = Len(a)
    BY <1>16, <2>4
  <2>6. ExecutedAll(encoder_cache, a) = Stored(encoder_cache, a, k)
    BY <2>5, StoredFacts
  <2> QED  BY <2>2, <2>3, <2>4, <2>6, Zenon
<1>18. Executed(ExecutedAll(encoder_cache, q), b) = DOMAIN manager.cached
  BY <1>1, <1>14, <1>15, Zenon DEF InStep, Executed
<1>19. Shapes'
  <2>1. /\ 0 \in 0 .. MaxNumScheduledTokens /\ 0 \in 0 .. MaxEncoderInputTokens /\ 1 \in Nat \ {0}
        /\ << >> \in Seq(Parts) /\ {} \in SUBSET Hashes
        /\ "idle" \in {"idle", "running", "waiting", "end"}
    BY Constants
  <2>2. batch_queue' \in Seq(Batches)
    BY <1>16, Zenon
  <2> QED  BY <1>1, <1>6, <1>11, <1>12, <1>13, <2>1, <2>2, Zenon DEF Shapes
<1>20. Lists'
  <2>1. /\ ToSet(running) \cap ToSet(waiting) = {} /\ Scheduled \subseteq ToSet(running)
        /\ ToSet(running) \cup ToSet(waiting) \subseteq arrived
        /\ \A p \in Reqs : p \notin arrived \/ p \in ToSet(waiting) => num_computed_tokens[p] = 0
    BY <1>1, Zenon DEF Lists, Step
  <2>2. \A p : p \notin arrived \/ p \in ToSet(waiting) => p \notin Scheduled
    BY <2>1
  <2>3. \A p \in Reqs : p \notin arrived \/ p \in ToSet(waiting) => num_computed_tokens'[p] = 0
    BY <1>12, <2>1, <2>2, Zenon
  <2> QED  BY <1>1, <1>6, <2>3, Zenon DEF Lists
<1>21. Step'
  <2>1. Scheduled' \subseteq ToSet(running') /\ pc' # "running"
    BY <1>6, <1>11
  <2> QED  BY <1>6, <1>10, <2>1, Zenon DEF Step
<1>22. References'
  <2>1. ASSUME NEW h \in DOMAIN u.cached, NEW p \in u.cached[h] PROVE Wanted(h, p)'
    <3>1. h \in DOMAIN manager.cached /\ p \in manager.cached[h]
      BY <1>10, Zenon
    <3>2. p \in Reqs
      <4>1. manager.cached \in [DOMAIN manager.cached -> SUBSET Reqs]
        BY <1>1, SoundFacts
      <4> QED  BY <3>1, <4>1
    <3>3. PICK f \in Items(p) : /\ f.mm_hash = h
                                /\ p \in Scheduled \/ num_computed_tokens[p] < f.offset + f.length
      BY <1>1, <3>1, Zenon DEF References, Wanted
    <3>4. p \in ToSet(running) \/ (use_eagle /\ p \in ToSet(waiting))
      BY <1>1, <3>1, Zenon DEF References, Wanted
    <3>5. num_computed_tokens'[p] < f.offset + f.length
      <4>1. CASE p \notin Scheduled
        BY <1>12, <3>2, <3>3, <4>1
      <4>2. CASE p \in Scheduled
        <5>1. PICK i \in 1 .. Len(s) : s[i].req = p
          BY <1>9, <4>2
        <5>2. ~(f.offset + f.length <= s[i].start + s[i].num)
          BY <1>8, <3>3, <5>1, Zenon DEF Completed
        <5>3. num_computed_tokens'[p] <= s[i].start + s[i].num /\ num_computed_tokens'[p] \in Nat
          BY <1>12, <3>2, <5>1
        <5>4. s[i].start + s[i].num \in Nat
          <6>1. PICK part \in Parts : part = s[i]
            <7>1. s[i] \in Parts
              BY <1>4
            <7> QED  BY <7>1, Zenon
          <6>2. part.start + part.num \in Nat
            BY DEF Parts
          <6> QED  BY <6>1, <6>2, Zenon
        <5>5. f.offset + f.length \in Nat
          <6>1. f \in Features
            <7>1. Items(p) \in SUBSET Features
              BY <3>2, ItemsOf
            <7> QED  BY <7>1
          <6>2. f.offset \in Nat /\ f.length \in Nat
            BY <6>1, EncoderAssumption DEF EncoderAssumption
          <6> QED  BY <6>2
        <5>6. PICK x \in Nat, y \in Nat, z \in Nat :
                x = num_computed_tokens'[p] /\ y = s[i].start + s[i].num /\ z = f.offset + f.length
          BY <5>3, <5>4, <5>5, Zenon
        <5>7. x <= y /\ ~(z <= y)
          BY <5>2, <5>3, <5>6, Zenon
        <5>8. x < z
          BY <5>7
        <5> QED  BY <5>6, <5>8, Zenon
      <4> QED  BY <4>1, <4>2
    <3> QED  BY <1>6, <3>3, <3>4, <3>5, Zenon DEF Wanted
  <2> QED  BY <1>6, <2>1, Zenon DEF References
<1>23. Pinned'
  <2>1. \A i \in 1 .. Len(scheduler_output'.parts) : FALSE
    BY <1>11
  <2>2. \A h \in scheduler_output'.inputs : FALSE
    BY <1>11
  <2> QED  BY <2>1, <2>2, Zenon DEF Pinned
<1>24. InStep'
  <2>1. DOMAIN manager.cached = (DOMAIN manager.cached \ {}) \cup {}
    OBVIOUS
  <2>2. ExecutedAll(encoder_cache', batch_queue') = DOMAIN manager.cached
    BY <1>6, <1>16, <1>17, <1>18, Zenon
  <2> QED  BY <1>6, <1>10, <1>11, <2>1, <2>2, Zenon DEF InStep
<1>25. Served(encoder_cache, a)
  <2>1. \A k \in 1 .. n : \A i \in 1 .. Len(q[k].parts) :
          Gathered(q[k].parts[i]) \in SUBSET Stored(encoder_cache, q, k)
    BY <1>1, <1>14, Zenon DEF Served
  <2>2. \A k \in 1 .. n : k \in 0 .. n
    OBVIOUS
  <2>3. \A k \in 1 .. n : \A i \in 1 .. Len(a[k].parts) :
          Gathered(a[k].parts[i]) \in SUBSET Stored(encoder_cache, a, k)
    BY <1>16, <1>17, <2>1, <2>2, Zenon
  <2>4. \A i \in 1 .. Len(s) : Gathered(s[i]) \in SUBSET DOMAIN manager.cached
    <3>1. \A i \in 1 .. Len(s) : \A h \in Gathered(s[i]) : h \in DOMAIN manager.cached
      BY <1>1, <1>4, Zenon DEF Pinned, Pins
    <3> HIDE DEF Gathered
    <3> QED  BY <3>1
  <2>5. \A i \in 1 .. Len(a[n + 1].parts) :
          Gathered(a[n + 1].parts[i]) \in SUBSET Stored(encoder_cache, a, n + 1)
    BY <1>15, <1>16, <1>17, <1>18, <2>4, Zenon
  <2>6. \A k \in 1 .. n + 1 : k \in 1 .. n \/ k = n + 1
    OBVIOUS
  <2>7. \A k \in 1 .. n + 1 : \A i \in 1 .. Len(a[k].parts) :
          Gathered(a[k].parts[i]) \in SUBSET Stored(encoder_cache, a, k)
    BY <2>3, <2>5, <2>6, Zenon
  <2> QED  BY <1>16, <2>7, Zenon DEF Served
<1>26. Served(encoder_cache, batch_queue)'
  BY <1>6, <1>16, <1>25, Zenon
<1>27. Sound(manager')
  BY <1>6, <1>10, Zenon
<1> QED  BY <1>19, <1>20, <1>21, <1>22, <1>23, <1>24, <1>26, <1>27, Zenon DEF EncInv

(* Every step of the system preserves EncInv.                              *)
LEMMA NextEncInv == EncInv /\ [Next]_vars => EncInv'
<1> SUFFICES ASSUME EncInv, [Next]_vars PROVE EncInv'
  OBVIOUS
<1>1. CASE UNCHANGED vars
  BY <1>1, Stuttering, Zenon
<1>2. CASE \E r \in Reqs : add_request(r) \/ finish(r)
  BY <1>2, AddRequest, Finish, Zenon
<1>3. CASE Schedule
  BY <1>3, ScheduleStart, ScheduleRunning, RunningDone, ScheduleWaiting, ScheduleEnd, Zenon
     DEF Schedule
<1>4. CASE execute_model \/ reset_encoder_cache
  BY <1>4, ExecuteModel, Reset, Zenon
<1> QED  BY <1>1, <1>2, <1>3, <1>4, Zenon DEF Next

LEMMA EncInvHolds == Spec => []EncInv
<1> QED  BY InitEncInv, NextEncInv, PTL DEF Spec

LEMMA EncInvTypes == EncInv => EncoderTypeOK
<1> SUFFICES ASSUME EncInv PROVE EncoderTypeOK
  OBVIOUS
<1>1. Shapes /\ Sound(manager) /\ Lists /\ References
  BY DEF EncInv
<1>2. /\ DOMAIN manager.cached \in SUBSET Hashes /\ manager.cached \in [DOMAIN manager.cached -> SUBSET Reqs]
      /\ manager.freed \in SUBSET Hashes
      /\ manager.num_free_slots \in Nat /\ manager.num_freeable_slots \in Nat
      /\ ToSet(manager.freeable) \in SUBSET DOMAIN manager.cached
      /\ manager.num_free_slots = CacheSize - Slots(DOMAIN manager.cached)
      /\ manager.num_freeable_slots = manager.num_free_slots + Slots(ToSet(manager.freeable))
  BY <1>1, SoundFacts
<1>3. DOMAIN manager.cached \subseteq Hashes /\ ToSet(manager.freeable) \cup manager.freed \subseteq Hashes
  BY <1>2
<1>4. \A h \in DOMAIN manager.cached : manager.cached[h] \subseteq arrived
  <2> SUFFICES ASSUME NEW h \in DOMAIN manager.cached, NEW p \in manager.cached[h] PROVE p \in arrived
    OBVIOUS
  <2>1. p \in ToSet(running) \/ p \in ToSet(waiting)
    BY <1>1, Zenon DEF References, Wanted
  <2>2. ToSet(running) \cup ToSet(waiting) \subseteq arrived
    BY <1>1, Zenon DEF Lists
  <2> QED  BY <2>1, <2>2
<1>5. manager.num_free_slots \in 0 .. CacheSize /\ manager.num_freeable_slots \in 0 .. CacheSize
  <2>1. PICK D, F : D = DOMAIN manager.cached /\ F = ToSet(manager.freeable)
    OBVIOUS
  <2>2. D \in SUBSET Hashes /\ F \in SUBSET D /\ F \in SUBSET Hashes
    BY <1>2, <2>1
  <2>3. Slots(D) \in Nat /\ Slots(F) \in Nat /\ Slots(F) <= Slots(D) /\ CacheSize \in Nat
    BY <2>2, SlotsNat, SlotsSubset, Constants
  <2>4. PICK a \in Nat, b \in Nat, x \in Nat, y \in Nat :
          a = Slots(D) /\ b = Slots(F) /\ x = manager.num_free_slots /\ y = manager.num_freeable_slots
    BY <1>2, <2>3, Zenon
  <2>5. x = CacheSize - a /\ y = x + b /\ b <= a
    BY <1>2, <2>1, <2>3, <2>4, Zenon
  <2>6. x \in 0 .. CacheSize /\ y \in 0 .. CacheSize
    BY <2>3, <2>5
  <2> QED  BY <2>4, <2>6, Zenon
<1>6. ToSet(running \o waiting) \subseteq arrived /\ IsInjective(running \o waiting)
  <2>1. /\ running \in Seq(Reqs) /\ waiting \in Seq(Reqs) /\ Distinct(running) /\ Distinct(waiting)
        /\ ToSet(running) \cap ToSet(waiting) = {} /\ ToSet(running) \cup ToSet(waiting) \subseteq arrived
    BY <1>1, Zenon DEF Shapes, Lists
  <2>2. PICK w : w = running \o waiting
    OBVIOUS
  <2>3. w \in Seq(Reqs) /\ ToSet(w) = ToSet(running) \cup ToSet(waiting) /\ Distinct(w)
    BY <2>1, <2>2, ConcatFacts
  <2>4. IsInjective(w)
    BY <2>3, InjectiveDistinct
  <2> QED  BY <2>1, <2>2, <2>3, <2>4, Zenon
<1>7. \A r \in Reqs : num_computed_tokens[r] \in 0 .. NumTokens[r]
  <2> SUFFICES ASSUME NEW r \in Reqs PROVE num_computed_tokens[r] \in 0 .. NumTokens[r]
    OBVIOUS
  <2>1. num_computed_tokens[r] \in Nat /\ num_computed_tokens[r] <= NumTokens[r]
    BY <1>1 DEF Shapes
  <2>2. NumTokens[r] \in Nat
    BY Constants
  <2> QED  BY <2>1, <2>2
<1>8. /\ token_budget \in 0 .. MaxNumScheduledTokens
      /\ encoder_compute_budget \in 0 .. MaxEncoderInputTokens /\ encoder_cache \subseteq Hashes
  BY <1>1 DEF Shapes
<1> QED  BY <1>3, <1>4, <1>5, <1>6, <1>7, <1>8, Zenon DEF EncoderTypeOK

(* In every reachable state the books of the manager have their types: its *)
(* slot counters, from which allocate and can_allocate subtract, lie       *)
(* between zero and the size of the cache, and every reference is that of  *)
(* a request that has arrived (encoder_cache_manager.py).                  *)
THEOREM EncoderTypesHold == Spec => []EncoderTypeOK
<1> QED  BY EncInvHolds, EncInvTypes, PTL

LEMMA EncInvSlots == EncInv => SlotsAccounted
<1> QED  BY Zenon DEF EncInv, Sound, SlotsAccounted

(* The books always balance: the free slots are those no cached entry      *)
(* occupies, the freeable ones those plus the entries nobody refers to,    *)
(* whatever was touched, evicted, allocated, freed, preempted or reset.    *)
THEOREM SlotsAreAccounted == Spec => []SlotsAccounted
<1> QED  BY EncInvHolds, EncInvSlots, PTL

LEMMA EncInvNeeded == EncInv => PinnedIsNeeded
<1> SUFFICES ASSUME EncInv, pc = "idle",
                    NEW h \in DOMAIN manager.cached, NEW r \in manager.cached[h]
             PROVE  /\ r \in ToSet(running) \/ (use_eagle /\ r \in ToSet(waiting))
                    /\ \E f \in ToSet(mm_features[r]) :
                         f.mm_hash = h /\ num_computed_tokens[r] < f.offset + f.length
  BY Zenon DEF PinnedIsNeeded
<1>1. Wanted(h, r)
  BY Zenon DEF EncInv, References
<1>2. r \notin Scheduled
  <2>1. scheduler_output = NothingScheduled
    BY Zenon DEF EncInv, Step
  <2> QED  BY <2>1 DEF Scheduled, NothingScheduled
<1> QED  BY <1>1, <1>2, Zenon DEF Wanted, Items

(* Between two steps every reference to an entry is that of a request with *)
(* tokens of that item still to compute, running or, with EAGLE, waiting:  *)
(* no abort, preemption or early break of _try_schedule_encoder_inputs     *)
(* leaves a reference that would keep the entry forever.                   *)
THEOREM OnlyNeededIsPinned == Spec => []PinnedIsNeeded
<1> QED  BY EncInvHolds, EncInvNeeded, PTL

LEMMA EncInvAgrees == EncInv => CachesAgree
<1> SUFFICES ASSUME EncInv, pc = "idle"
             PROVE  Fold(Executed, encoder_cache, batch_queue) = DOMAIN manager.cached
  BY Zenon DEF CachesAgree
<1>1. scheduler_output = NothingScheduled /\ manager.freed = {}
  BY Zenon DEF EncInv, Step
<1>2. scheduler_output.inputs = {}
  BY <1>1 DEF NothingScheduled
<1>3. PICK X : X = ExecutedAll(encoder_cache, batch_queue)
  OBVIOUS
<1>4. DOMAIN manager.cached = (X \ manager.freed) \cup scheduler_output.inputs
  BY <1>3, Zenon DEF EncInv, InStep
<1>5. DOMAIN manager.cached = X
  BY <1>1, <1>2, <1>4
<1> QED  BY <1>3, <1>5, Zenon DEF ExecutedAll

(* The worker's cache follows the manager's books: what it has stored once *)
(* it has executed everything in flight is what the manager counts on,     *)
(* although it learns of evictions only from the batches it executes.      *)
THEOREM CachesStayInStep == Spec => []CachesAgree
<1> QED  BY EncInvHolds, EncInvAgrees, PTL

LEMMA EncInvServed == EncInv => NoCacheMiss
<1> SUFFICES ASSUME EncInv, batch_queue # << >>, NEW b, b = Head(batch_queue),
                    NEW i \in 1 .. Len(b.parts)
             PROVE  Gathered(b.parts[i]) \subseteq Executed(encoder_cache, b)
  BY Zenon DEF NoCacheMiss
<1>1. Shapes /\ Served(encoder_cache, batch_queue)
  BY DEF EncInv
<1>2. PICK q \in Seq(Batches) : q = batch_queue
  BY <1>1, Zenon DEF Shapes
<1>3. PICK n \in Nat : n = Len(q) /\ 1 \in 1 .. n /\ Head(q) = q[1]
  <2>1. Len(q) \in Nat /\ 1 \in 1 .. Len(q) /\ Head(q) = q[1]
    BY <1>2
  <2> QED  BY <2>1, Zenon
<1>4. q[1] = b
  BY <1>2, <1>3, Zenon
<1>5. Gathered(b.parts[i]) \in SUBSET Stored(encoder_cache, q, 1)
  BY <1>1, <1>2, <1>3, <1>4, Zenon DEF Served
<1>6. Stored(encoder_cache, q, 1) = Executed(encoder_cache, b)
  <2>1. /\ Stored(encoder_cache, q, 0) = encoder_cache
        /\ \A j \in 1 .. n : Stored(encoder_cache, q, j) = Executed(Stored(encoder_cache, q, j - 1), q[j])
    BY <1>3, StoredFacts
  <2>2. 1 - 1 = 0
    OBVIOUS
  <2> QED  BY <1>3, <1>4, <2>1, <2>2, Zenon
<1> HIDE DEF Gathered, Executed
<1> QED  BY <1>5, <1>6

(* The assertion "Encoder cache miss" of _gather_mm_embeddings never       *)
(* fails: whatever was evicted, preempted, aborted or reset while a batch  *)
(* was in flight, the worker has every output that the batch reads once it *)
(* has stored what the batch brings, with and without EAGLE.               *)
THEOREM NoEncoderCacheMiss == Spec => []NoCacheMiss
<1> QED  BY EncInvHolds, EncInvServed, PTL
=============================================================================
