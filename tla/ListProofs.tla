----------------------------- MODULE ListProofs -----------------------------
(***************************************************************************)
(* Lemmas about sequences that are used as lists: what the helpers of the  *)
(* community modules return, and what that does to the set of the elements *)
(* and to their being distinct.                                            *)
(***************************************************************************)
EXTENDS Integers, Sequences, FiniteSets, SequencesExt,
        SequenceTheorems, FiniteSetTheorems, WellFoundedInduction, TLAPS

\* A non-empty set of naturals has a least element, which Min chooses.
LEMMA MinOfNats ==
    ASSUME NEW S \in SUBSET Nat, S # {}
    PROVE  Min(S) \in S /\ \A y \in S : Min(S) <= y
<1> DEFINE R == OpToRel(<, Nat)
<1>1. IsWellFoundedOn(R, Nat)
  BY NatLessThanWellFounded, Zenon
<1>2. \A x, y \in Nat : y < x => <<y, x>> \in R
  BY DEF OpToRel
<1>3. \E x \in S : \A y \in S : <<y, x>> \notin R
  <2> HIDE DEF R
  <2> QED
    BY <1>1, WFMin, Zenon
<1>4. \E x \in S : \A y \in S : x =< y
  <2>1. PICK x \in S : \A y \in S : <<y, x>> \notin R
    BY <1>3, Zenon
  <2>2. \A y \in S : ~ (y < x)
    BY <1>2, <2>1, Zenon
  <2>3. \A y \in S : x =< y
    BY <2>2
  <2> QED
    BY <2>3
<1> QED
  BY <1>4 DEF Min

\* Induction up to a bound, stated with the set of the numbers shown so far.
LEMMA UpTo ==
    ASSUME NEW N \in Nat, NEW S,
           0 \in S, \A n \in 0 .. N - 1 : n \in S => n + 1 \in S
    PROVE  \A n \in 0 .. N : n \in S
<1> SUFFICES ASSUME ~ \A n \in 0 .. N : n \in S PROVE FALSE
  OBVIOUS
<1> DEFINE B == {n \in 0 .. N : n \notin S}
           m == Min(B)
<1>1. m \in B /\ \A y \in B : m <= y
  <2>1. B \in SUBSET Nat /\ B # {}
    OBVIOUS
  <2> HIDE DEF B
  <2> QED
    BY <2>1, MinOfNats
<1> HIDE DEF m
<1>2. m \in 1 .. N /\ m \notin S
  BY <1>1
<1>3. m - 1 \in 0 .. N - 1 /\ (m - 1) + 1 = m /\ m - 1 \in 0 .. N /\ ~ (m <= m - 1)
  BY <1>2
<1>4. m - 1 \in S
  BY <1>1, <1>3
<1>5. (m - 1) + 1 \in S
  BY <1>3, <1>4
<1> QED
  BY <1>2, <1>3, <1>5

\* The elements of a concatenation, given the length of its left part.
LEMMA ConcatElements ==
    ASSUME NEW S, NEW a \in Seq(S), NEW b \in Seq(S)
    PROVE  /\ a \o b \in Seq(S)
           /\ Len(a) \in Nat /\ Len(b) \in Nat
           /\ Len(a \o b) = Len(a) + Len(b)
           /\ \A i \in 1 .. Len(a) : (a \o b)[i] = a[i]
           /\ \A i \in 1 .. Len(b) : (a \o b)[Len(a) + i] = b[i]
<1>1. /\ a \o b \in Seq(S)
      /\ Len(a \o b) = Len(a) + Len(b)
      /\ \A i \in 1 .. Len(a) + Len(b) :
            (a \o b)[i] = IF i <= Len(a) THEN a[i] ELSE b[i - Len(a)]
  BY ConcatProperties
<1>2. Len(a) \in Nat /\ Len(b) \in Nat
  BY LenProperties
<1>3. ASSUME NEW i \in 1 .. Len(a)
      PROVE  (a \o b)[i] = a[i]
  <2>1. i \in 1 .. Len(a) + Len(b) /\ i <= Len(a)
    BY <1>2
  <2> QED
    BY <1>1, <2>1
<1>4. ASSUME NEW i \in 1 .. Len(b)
      PROVE  (a \o b)[Len(a) + i] = b[i]
  <2> DEFINE j == Len(a) + i
  <2>1. j \in 1 .. Len(a) + Len(b) /\ ~ (j <= Len(a)) /\ j - Len(a) = i
    BY <1>2
  <2> HIDE DEF j
  <2>2. (a \o b)[j] = b[j - Len(a)]
    BY <1>1, <2>1
  <2> QED
    BY <2>1, <2>2 DEF j
<1> QED
  BY <1>1, <1>2, <1>3, <1>4

\* What InsertAt returns: q with e at position k.
LEMMA InsertAtProperties ==
    ASSUME NEW S, NEW q \in Seq(S), NEW k \in 1 .. Len(q) + 1, NEW e \in S
    PROVE  /\ InsertAt(q, k, e) \in Seq(S)
           /\ Len(InsertAt(q, k, e)) = Len(q) + 1
           /\ \A i \in 1 .. k - 1 : InsertAt(q, k, e)[i] = q[i]
           /\ InsertAt(q, k, e)[k] = e
           /\ \A i \in k .. Len(q) : InsertAt(q, k, e)[i + 1] = q[i]
<1> DEFINE a == SubSeq(q, 1, k - 1)
           b == SubSeq(q, k, Len(q))
           c == <<e>>
           ac == a \o c
           r == ac \o b
<1>1. /\ Len(q) \in Nat
      /\ \A i \in 1 .. Len(q) : q[i] \in S
  BY LenProperties, ElementOfSeq
<1>2. /\ a \in Seq(S)
      /\ Len(a) = k - 1
      /\ \A i \in 1 .. k - 1 : a[i] = q[i]
  <2>1. \A i \in 1 .. k - 1 : q[i] \in S
    BY <1>1
  <2> QED
    BY <1>1, <2>1, SubSeqProperties
<1>3. /\ b \in Seq(S)
      /\ Len(b) = Len(q) - k + 1
      /\ \A i \in 1 .. Len(q) - k + 1 : b[i] = q[k + i - 1]
  <2>1. \A i \in k .. Len(q) : q[i] \in S
    BY <1>1
  <2> QED
    BY <1>1, <2>1, SubSeqProperties
<1>4. c \in Seq(S) /\ Len(c) = 1 /\ c[1] = e
  OBVIOUS
<1> HIDE DEF a, b, c
<1>5. /\ ac \in Seq(S)
      /\ Len(ac) = Len(a) + Len(c)
      /\ \A i \in 1 .. Len(a) : ac[i] = a[i]
      /\ \A i \in 1 .. Len(c) : ac[Len(a) + i] = c[i]
  <2>1. a \in Seq(S) /\ c \in Seq(S)
    BY <1>2, <1>4
  <2>2. ac \in Seq(S) /\ Len(ac) = Len(a) + Len(c)
    BY <2>1, ConcatElements
  <2>3. \A i \in 1 .. Len(a) : ac[i] = a[i]
    BY <2>1, ConcatElements
  <2>4. \A i \in 1 .. Len(c) : ac[Len(a) + i] = c[i]
    BY <2>1, ConcatElements
  <2> QED
    BY <2>2, <2>3, <2>4
<1>6. ac[k] = e
  <2>1. 1 \in 1 .. Len(c) /\ Len(a) + 1 = k
    BY <1>1, <1>2, <1>4
  <2>2. ac[Len(a) + 1] = c[1]
    BY <1>5, <2>1
  <2> QED
    BY <1>4, <2>1, <2>2
<1>7. Len(ac) = k
  BY <1>1, <1>2, <1>4, <1>5
<1> HIDE DEF ac
<1>8. /\ r \in Seq(S)
      /\ Len(r) = Len(ac) + Len(b)
      /\ \A i \in 1 .. Len(ac) : r[i] = ac[i]
      /\ \A i \in 1 .. Len(b) : r[Len(ac) + i] = b[i]
  <2>1. ac \in Seq(S) /\ b \in Seq(S)
    BY <1>3, <1>5
  <2>2. r \in Seq(S) /\ Len(r) = Len(ac) + Len(b)
    BY <2>1, ConcatElements
  <2>3. \A i \in 1 .. Len(ac) : r[i] = ac[i]
    BY <2>1, ConcatElements
  <2>4. \A i \in 1 .. Len(b) : r[Len(ac) + i] = b[i]
    BY <2>1, ConcatElements
  <2> QED
    BY <2>2, <2>3, <2>4
<1> HIDE DEF r
<1>9. ASSUME NEW i \in 1 .. k - 1
      PROVE  r[i] = q[i]
  <2>1. i \in 1 .. Len(a) /\ i \in 1 .. Len(ac)
    BY <1>1, <1>2, <1>7
  <2> QED
    BY <1>2, <1>5, <1>8, <2>1
<1>10. r[k] = e
  <2>1. k \in 1 .. Len(ac)
    BY <1>1, <1>7
  <2> QED
    BY <1>6, <1>8, <2>1
<1>11. ASSUME NEW i \in k .. Len(q)
       PROVE  r[i + 1] = q[i]
  <2> DEFINE j == i - k + 1
  <2>1. j \in 1 .. Len(b) /\ Len(ac) + j = i + 1 /\ k + j - 1 = i /\ j \in 1 .. Len(q) - k + 1
    BY <1>1, <1>3, <1>7
  <2> HIDE DEF j
  <2>2. r[Len(ac) + j] = b[j] /\ b[j] = q[k + j - 1]
    BY <1>3, <1>8, <2>1
  <2> QED
    BY <2>1, <2>2
<1>12. Len(r) = Len(q) + 1
  BY <1>1, <1>3, <1>7, <1>8
<1>13. InsertAt(q, k, e) = r
  BY DEF InsertAt, r, ac, a, b, c
<1> QED
  BY <1>8, <1>9, <1>10, <1>11, <1>12, <1>13

\* What RemoveAt returns: q without position k.
LEMMA RemoveAtProperties ==
    ASSUME NEW S, NEW q \in Seq(S), NEW k \in 1 .. Len(q)
    PROVE  /\ RemoveAt(q, k) \in Seq(S)
           /\ Len(RemoveAt(q, k)) = Len(q) - 1
           /\ \A i \in 1 .. k - 1 : RemoveAt(q, k)[i] = q[i]
           /\ \A i \in k + 1 .. Len(q) : RemoveAt(q, k)[i - 1] = q[i]
<1> DEFINE a == SubSeq(q, 1, k - 1)
           b == SubSeq(q, k + 1, Len(q))
           r == a \o b
<1>1. /\ Len(q) \in Nat
      /\ \A i \in 1 .. Len(q) : q[i] \in S
  BY LenProperties, ElementOfSeq
<1>2. /\ a \in Seq(S)
      /\ Len(a) = k - 1
      /\ \A i \in 1 .. k - 1 : a[i] = q[i]
  <2>1. \A i \in 1 .. k - 1 : q[i] \in S
    BY <1>1
  <2> QED
    BY <1>1, <2>1, SubSeqProperties
<1>3. /\ b \in Seq(S)
      /\ Len(b) = Len(q) - k
      /\ \A i \in 1 .. Len(q) - k : b[i] = q[k + i]
  <2>1. \A i \in k + 1 .. Len(q) : q[i] \in S
    BY <1>1
  <2>2. /\ b \in Seq(S)
        /\ Len(b) = IF k + 1 <= Len(q) THEN Len(q) - (k + 1) + 1 ELSE 0
        /\ \A i \in 1 .. Len(q) - (k + 1) + 1 : b[i] = q[(k + 1) + i - 1]
    BY <1>1, <2>1, SubSeqProperties
  <2> HIDE DEF b
  <2>3. Len(b) = Len(q) - k
    BY <1>1, <2>2
  <2>4. ASSUME NEW i \in 1 .. Len(q) - k
        PROVE  b[i] = q[k + i]
    <3>1. i \in 1 .. Len(q) - (k + 1) + 1 /\ (k + 1) + i - 1 = k + i
      BY <1>1
    <3> QED
      BY <2>2, <3>1
  <2> QED
    BY <2>2, <2>3, <2>4
<1> HIDE DEF a, b
<1>4. /\ r \in Seq(S)
      /\ Len(r) = Len(a) + Len(b)
      /\ \A i \in 1 .. Len(a) : r[i] = a[i]
      /\ \A i \in 1 .. Len(b) : r[Len(a) + i] = b[i]
  <2>1. a \in Seq(S) /\ b \in Seq(S)
    BY <1>2, <1>3
  <2>2. r \in Seq(S) /\ Len(r) = Len(a) + Len(b)
    BY <2>1, ConcatElements
  <2>3. \A i \in 1 .. Len(a) : r[i] = a[i]
    BY <2>1, ConcatElements
  <2>4. \A i \in 1 .. Len(b) : r[Len(a) + i] = b[i]
    BY <2>1, ConcatElements
  <2> QED
    BY <2>2, <2>3, <2>4
<1> HIDE DEF r
<1>5. ASSUME NEW i \in 1 .. k - 1
      PROVE  r[i] = q[i]
  BY <1>2, <1>4
<1>6. ASSUME NEW i \in k + 1 .. Len(q)
      PROVE  r[i - 1] = q[i]
  <2> DEFINE j == i - k
  <2>1. j \in 1 .. Len(b) /\ j \in 1 .. Len(q) - k /\ Len(a) + j = i - 1 /\ k + j = i
    BY <1>1, <1>2, <1>3
  <2> HIDE DEF j
  <2>2. r[Len(a) + j] = b[j] /\ b[j] = q[k + j]
    BY <1>3, <1>4, <2>1
  <2> QED
    BY <2>1, <2>2
<1>7. Len(r) = Len(q) - 1
  BY <1>1, <1>2, <1>3, <1>4
<1>8. RemoveAt(q, k) = r
  BY DEF RemoveAt, r, a, b
<1> QED
  BY <1>4, <1>5, <1>6, <1>7, <1>8
-----------------------------------------------------------------------------
(***************************************************************************)
(* Elements.                                                               *)
(***************************************************************************)
Distinct(w) == \A i, j \in 1 .. Len(w) : w[i] = w[j] => i = j

LEMMA ToSetFacts ==
    ASSUME NEW T, NEW w \in Seq(T)
    PROVE  /\ \A u : u \in ToSet(w) <=> \E i \in 1 .. Len(w) : w[i] = u
           /\ ToSet(w) \subseteq T
           /\ w = <<>> <=> Len(w) = 0
           /\ w = <<>> <=> ToSet(w) = {}
<1>1. /\ DOMAIN w = 1 .. Len(w) /\ Len(w) \in Nat
      /\ \A i \in 1 .. Len(w) : w[i] \in T
  BY LenProperties, ElementOfSeq
<1>2. w = <<>> <=> Len(w) = 0
  BY EmptySeq
<1>3. \A u : u \in ToSet(w) <=> \E i \in 1 .. Len(w) : w[i] = u
  BY <1>1 DEF ToSet
<1>4. ToSet(w) = {} <=> Len(w) = 0
  <2>1. Len(w) # 0 => w[1] \in ToSet(w)
    BY <1>1, <1>3
  <2> QED
    BY <1>1, <1>3, <2>1
<1> QED
  BY <1>1, <1>2, <1>3, <1>4

\* Adding an element at the end.
LEMMA AppendFacts ==
    ASSUME NEW T, NEW w \in Seq(T), NEW t \in T
    PROVE  /\ Append(w, t) \in Seq(T)
           /\ Len(Append(w, t)) = Len(w) + 1
           /\ ToSet(Append(w, t)) = ToSet(w) \cup {t}
           /\ Append(w, t) # <<>>
           /\ Distinct(w) /\ t \notin ToSet(w) => Distinct(Append(w, t))
<1> DEFINE r == Append(w, t)
<1>1. /\ r \in Seq(T) /\ Len(r) = Len(w) + 1 /\ Len(w) \in Nat
      /\ \A i \in 1 .. Len(w) : r[i] = w[i]
      /\ r[Len(w) + 1] = t
  BY AppendProperties, LenProperties
<1> HIDE DEF r
<1>2. \A u : u \in ToSet(w) <=> \E i \in 1 .. Len(w) : w[i] = u
  BY ToSetFacts
<1>3. /\ \A u : u \in ToSet(r) <=> \E i \in 1 .. Len(r) : r[i] = u
      /\ r # <<>>
  BY <1>1, ToSetFacts
<1>4. \A i \in 1 .. Len(r) : i = Len(w) + 1 \/ i \in 1 .. Len(w)
  BY <1>1
<1>5. \A u : u \in ToSet(r) <=> u \in ToSet(w) \cup {t}
  <2>1. ASSUME NEW i \in 1 .. Len(w) PROVE i \in 1 .. Len(r) /\ r[i] = w[i]
    BY <1>1
  <2>2. Len(w) + 1 \in 1 .. Len(r)
    BY <1>1
  <2> QED
    BY <1>1, <1>2, <1>3, <1>4, <2>1, <2>2
<1>6. ASSUME Distinct(w), t \notin ToSet(w) PROVE Distinct(r)
  BY <1>1, <1>2, <1>4, <1>6 DEF Distinct
<1> QED
  BY <1>1, <1>3, <1>5, <1>6 DEF r

\* Taking element i out: the last one takes its place, and nobody else leaves.
LEMMA SwappedOutFacts ==
    ASSUME NEW T, NEW w \in Seq(T), NEW i \in 1 .. Len(w), Distinct(w)
    PROVE  LET r == SubSeq([w EXCEPT ![i] = w[Len(w)]], 1, Len(w) - 1)
           IN  /\ r \in Seq(T)
               /\ Distinct(r)
               /\ ToSet(r) = ToSet(w) \ {w[i]}
<1> DEFINE n == Len(w)
           x == [w EXCEPT ![i] = w[n]]
           r == SubSeq(x, 1, n - 1)
<1>1. /\ n \in Nat /\ DOMAIN w = 1 .. n
      /\ \A k \in 1 .. n : w[k] \in T
      /\ \A j, k \in 1 .. n : w[j] = w[k] => j = k
  BY LenProperties, ElementOfSeq DEF Distinct
<1>2. /\ x \in Seq(T) /\ Len(x) = n
      /\ \A k \in 1 .. n : x[k] = IF k = i THEN w[n] ELSE w[k]
  <2>1. n \in 1 .. n
    BY <1>1
  <2>2. w[n] \in T
    BY <1>1, <2>1
  <2> HIDE DEF n
  <2>3. x \in Seq(T) /\ Len(x) = Len(w)
    BY <2>2, ExceptSeq
  <2>4. \A k \in 1 .. n : x[k] = IF k = i THEN w[n] ELSE w[k]
    BY <1>1 DEF n
  <2> QED
    BY <2>3, <2>4 DEF n
<1> HIDE DEF x, n
<1>3. /\ r \in Seq(T) /\ Len(r) = n - 1
      /\ \A k \in 1 .. n - 1 : r[k] = x[k]
  <2>1. i \in 1 .. n /\ n >= 1
    BY <1>1 DEF n
  <2>2. \A k \in 1 .. n - 1 : x[k] \in T
    BY <1>1, <1>2, <2>1
  <2>3. /\ r \in Seq(T)
        /\ Len(r) = IF 1 <= n - 1 THEN (n - 1) - 1 + 1 ELSE 0
        /\ \A k \in 1 .. (n - 1) - 1 + 1 : r[k] = x[1 + k - 1]
    BY <1>1, <2>2, SubSeqProperties
  <2> HIDE DEF r
  <2>4. Len(r) = n - 1
    BY <1>1, <2>1, <2>3
  <2>5. ASSUME NEW k \in 1 .. n - 1 PROVE r[k] = x[k]
    <3>1. k \in 1 .. (n - 1) - 1 + 1 /\ 1 + k - 1 = k
      BY <1>1
    <3> QED
      BY <2>3, <3>1
  <2> QED
    BY <2>3, <2>4, <2>5
<1> HIDE DEF r
<1>4. i \in 1 .. n /\ n \in 1 .. n
  BY <1>1 DEF n
<1>5. \A k \in 1 .. n - 1 : k \in 1 .. n /\ r[k] = (IF k = i THEN w[n] ELSE w[k]) /\ k # n
  BY <1>1, <1>2, <1>3
<1>6. Distinct(r)
  BY <1>1, <1>3, <1>4, <1>5 DEF Distinct
<1>7. \A u : u \in ToSet(r) <=> u \in ToSet(w) \ {w[i]}
  <2>1. \A u : u \in ToSet(w) <=> \E k \in 1 .. n : w[k] = u
    BY ToSetFacts DEF n
  <2>2. \A u : u \in ToSet(r) <=> \E k \in 1 .. n - 1 : r[k] = u
    BY <1>3, ToSetFacts
  <2>3. ASSUME NEW k \in 1 .. n - 1 PROVE r[k] \in ToSet(w) /\ r[k] # w[i]
    BY <1>1, <1>4, <1>5, <2>1
  <2>4. ASSUME NEW k \in 1 .. n, k # i PROVE \E j \in 1 .. n - 1 : r[j] = w[k]
    <3>1. CASE k = n
      <4>1. i \in 1 .. n - 1
        BY <1>1, <1>4, <2>4, <3>1
      <4> QED
        BY <1>5, <3>1, <4>1
    <3>2. CASE k # n
      <4>1. k \in 1 .. n - 1
        BY <1>1, <3>2
      <4> QED
        BY <1>5, <2>4, <4>1
    <3> QED
      BY <3>1, <3>2
  <2> QED
    BY <2>1, <2>2, <2>3, <2>4
<1> QED
  BY <1>3, <1>6, <1>7 DEF r, x, n

\* A list of distinct elements that lacks one is shorter than the set of them all.
LEMMA DistinctShort ==
    ASSUME NEW T, IsFiniteSet(T), NEW w \in Seq(T), Distinct(w),
           NEW t \in T, t \notin ToSet(w)
    PROVE  Len(w) < Cardinality(T)
<1> DEFINE R == T \ {t}
<1>1. Len(w) \in Nat /\ \A i \in 1 .. Len(w) : w[i] \in R
  <2>1. Len(w) \in Nat /\ \A i \in 1 .. Len(w) : w[i] \in T
    BY LenProperties, ElementOfSeq
  <2>2. \A u : u \in ToSet(w) <=> \E i \in 1 .. Len(w) : w[i] = u
    BY ToSetFacts
  <2> QED
    BY <2>1, <2>2
<1>2. IsFiniteSet(R) /\ Cardinality(R) = Cardinality(T) - 1 /\ Cardinality(T) \in Nat
  <2>1. IsFiniteSet(T \ {t}) /\ Cardinality(T \ {t}) = Cardinality(T) - 1
    BY FS_RemoveElement
  <2>2. Cardinality(T) \in Nat
    BY FS_CardinalityType
  <2> QED
    BY <2>1, <2>2
<1>3. IsFiniteSet(1 .. Len(w)) /\ Cardinality(1 .. Len(w)) = Len(w)
  <2> DEFINE N == Len(w)
  <2>1. N \in Nat
    BY <1>1
  <2> HIDE DEF N
  <2>2. N \in Int /\ 1 \in Int
    BY <2>1
  <2>3. IsFiniteSet(1 .. N) /\ Cardinality(1 .. N) = IF 1 > N THEN 0 ELSE N - 1 + 1
    BY <2>2, FS_Interval
  <2>4. (IF 1 > N THEN 0 ELSE N - 1 + 1) = N
    BY <2>1
  <2> QED
    BY <2>3, <2>4 DEF N
<1> HIDE DEF R
<1>4. ASSUME Cardinality(R) < Len(w) PROVE FALSE
  <2> DEFINE f == [i \in 1 .. Len(w) |-> w[i]]
  <2>1. f \in [1 .. Len(w) -> R]
    BY <1>1
  <2>2. \E i, j \in 1 .. Len(w) : i # j /\ f[i] = f[j]
    <3> HIDE DEF f
    <3> QED
      BY <1>2, <1>3, <1>4, <2>1, FS_PigeonHole
  <2> QED
    BY <2>2 DEF Distinct
<1> QED
  BY <1>1, <1>2, <1>4, FS_CardinalityType

\* One list after another.
LEMMA ConcatFacts ==
    ASSUME NEW T, NEW a \in Seq(T), NEW b \in Seq(T)
    PROVE  /\ a \o b \in Seq(T)
           /\ ToSet(a \o b) = ToSet(a) \cup ToSet(b)
           /\ Distinct(a) /\ Distinct(b) /\ ToSet(a) \cap ToSet(b) = {} => Distinct(a \o b)
<1> DEFINE r == a \o b
<1>1. /\ r \in Seq(T) /\ Len(a) \in Nat /\ Len(b) \in Nat
      /\ Len(r) = Len(a) + Len(b)
      /\ \A i \in 1 .. Len(a) : r[i] = a[i]
      /\ \A i \in 1 .. Len(b) : r[Len(a) + i] = b[i]
  BY ConcatElements
<1> HIDE DEF r
<1>2. /\ \A u : u \in ToSet(a) <=> \E i \in 1 .. Len(a) : a[i] = u
      /\ \A u : u \in ToSet(b) <=> \E i \in 1 .. Len(b) : b[i] = u
      /\ \A u : u \in ToSet(r) <=> \E i \in 1 .. Len(r) : r[i] = u
  BY <1>1, ToSetFacts
<1>3. ASSUME NEW k \in 1 .. Len(r)
      PROVE  \/ k \in 1 .. Len(a) /\ r[k] = a[k] /\ r[k] \in ToSet(a)
             \/ /\ k - Len(a) \in 1 .. Len(b) /\ r[k] = b[k - Len(a)] /\ r[k] \in ToSet(b)
                /\ ~ k <= Len(a)
  <2>1. CASE k <= Len(a)
    <3>1. k \in 1 .. Len(a)
      BY <1>1, <2>1
    <3> QED
      BY <1>1, <1>2, <3>1
  <2>2. CASE ~ k <= Len(a)
    <3> DEFINE j == k - Len(a)
    <3>1. j \in 1 .. Len(b) /\ Len(a) + j = k
      BY <1>1, <2>2
    <3> HIDE DEF j
    <3>2. r[k] = b[j]
      BY <1>1, <3>1
    <3>3. b[j] \in ToSet(b)
      BY <1>2, <3>1
    <3> QED
      BY <2>2, <3>1, <3>2, <3>3 DEF j
  <2> QED
    BY <2>1, <2>2
<1>4. ToSet(r) = ToSet(a) \cup ToSet(b)
  <2>1. ASSUME NEW u \in ToSet(r) PROVE u \in ToSet(a) \cup ToSet(b)
    <3>1. PICK k \in 1 .. Len(r) : r[k] = u
      BY <1>2
    <3> QED
      BY <1>3, <3>1
  <2>2. ASSUME NEW u \in ToSet(a) PROVE u \in ToSet(r)
    <3>1. PICK i \in 1 .. Len(a) : a[i] = u
      BY <1>2
    <3>2. i \in 1 .. Len(r) /\ r[i] = u
      BY <1>1, <3>1
    <3> QED
      BY <1>2, <3>2
  <2>3. ASSUME NEW u \in ToSet(b) PROVE u \in ToSet(r)
    <3>1. PICK i \in 1 .. Len(b) : b[i] = u
      BY <1>2
    <3> DEFINE k == Len(a) + i
    <3>2. k \in 1 .. Len(r) /\ r[k] = u
      BY <1>1, <3>1
    <3> HIDE DEF k
    <3> QED
      BY <1>2, <3>2
  <2> QED
    BY <2>1, <2>2, <2>3
<1>5. ASSUME Distinct(a), Distinct(b), ToSet(a) \cap ToSet(b) = {} PROVE Distinct(r)
  <2> SUFFICES ASSUME NEW i \in 1 .. Len(r), NEW j \in 1 .. Len(r), r[i] = r[j]
               PROVE  i = j
    BY DEF Distinct
  <2>1. CASE i \in 1 .. Len(a) /\ j \in 1 .. Len(a)
    <3>1. a[i] = a[j]
      BY <1>1, <2>1
    <3> QED
      BY <1>5, <2>1, <3>1 DEF Distinct
  <2>2. CASE ~ i <= Len(a) /\ ~ j <= Len(a)
    <3> DEFINE x == i - Len(a)
               y == j - Len(a)
    <3>1. x \in 1 .. Len(b) /\ y \in 1 .. Len(b) /\ r[i] = b[x] /\ r[j] = b[y]
      BY <1>1, <1>3, <2>2
    <3>2. x = y => i = j
      BY <1>1
    <3> HIDE DEF x, y
    <3>3. x = y
      BY <1>5, <3>1 DEF Distinct
    <3> QED
      BY <3>2, <3>3
  <2>3. \/ i \in 1 .. Len(a) /\ r[i] \in ToSet(a)
        \/ ~ i <= Len(a) /\ r[i] \in ToSet(b)
    BY <1>3
  <2>4. \/ j \in 1 .. Len(a) /\ r[j] \in ToSet(a)
        \/ ~ j <= Len(a) /\ r[j] \in ToSet(b)
    BY <1>3
  <2> QED
    BY <1>5, <2>1, <2>2, <2>3, <2>4
<1> QED
  BY <1>1, <1>4, <1>5 DEF r

\* Adding an element at the head.
LEMMA ConsFacts ==
    ASSUME NEW T, NEW w \in Seq(T), NEW t \in T
    PROVE  /\ <<t>> \o w \in Seq(T)
           /\ ToSet(<<t>> \o w) = ToSet(w) \cup {t}
           /\ <<t>> \o w # <<>>
           /\ Distinct(w) /\ t \notin ToSet(w) => Distinct(<<t>> \o w)
<1> DEFINE h == <<t>>
<1>1. h \in Seq(T) /\ Len(h) = 1 /\ h[1] = t
  OBVIOUS
<1> HIDE DEF h
<1>2. \A u : u \in ToSet(h) <=> u = t
  <2>1. \A u : u \in ToSet(h) <=> \E i \in 1 .. Len(h) : h[i] = u
    BY <1>1, ToSetFacts
  <2>2. \A i : i \in 1 .. Len(h) <=> i = 1
    BY <1>1
  <2> QED
    BY <1>1, <2>1, <2>2
<1>3. Distinct(h)
  BY <1>1 DEF Distinct
<1>4. /\ h \o w \in Seq(T)
      /\ ToSet(h \o w) = ToSet(h) \cup ToSet(w)
      /\ Distinct(h) /\ Distinct(w) /\ ToSet(h) \cap ToSet(w) = {} => Distinct(h \o w)
  BY <1>1, ConcatFacts
<1>5. h \o w # <<>>
  <2>1. ToSet(h \o w) # {}
    BY <1>2, <1>4
  <2> QED
    BY <1>4, <2>1, ToSetFacts
<1>6. ToSet(h) = {t}
  BY <1>2
<1> QED
  BY <1>3, <1>4, <1>5, <1>6 DEF h

\* The other way round.
LEMMA ReverseFacts ==
    ASSUME NEW T, NEW w \in Seq(T)
    PROVE  /\ Reverse(w) \in Seq(T)
           /\ ToSet(Reverse(w)) = ToSet(w)
           /\ Distinct(w) => Distinct(Reverse(w))
<1> DEFINE r == Reverse(w)
           n == Len(w)
<1>1. n \in Nat /\ \A i \in 1 .. n : w[i] \in T
  BY LenProperties, ElementOfSeq
<1>2. r = [i \in 1 .. n |-> w[(n - i) + 1]]
  BY DEF Reverse
<1> HIDE DEF r, n
<1>3. \A i \in 1 .. n : (n - i) + 1 \in 1 .. n /\ (n - ((n - i) + 1)) + 1 = i
  BY <1>1
<1>4. r \in Seq(T) /\ Len(r) = n /\ \A i \in 1 .. n : r[i] = w[(n - i) + 1]
  <2>1. \A i \in 1 .. n : w[(n - i) + 1] \in T
    BY <1>1, <1>3
  <2> QED
    BY <1>1, <1>2, <2>1, IsASeq, LenProperties
<1>5. /\ \A u : u \in ToSet(w) <=> \E i \in 1 .. n : w[i] = u
      /\ \A u : u \in ToSet(r) <=> \E i \in 1 .. n : r[i] = u
  BY <1>4, ToSetFacts DEF n
<1>6. ASSUME NEW u PROVE u \in ToSet(r) <=> u \in ToSet(w)
  <2>1. ASSUME NEW i \in 1 .. n, r[i] = u PROVE \E j \in 1 .. n : w[j] = u
    BY <1>3, <1>4, <2>1
  <2>2. ASSUME NEW i \in 1 .. n, w[i] = u PROVE \E j \in 1 .. n : r[j] = u
    <3> DEFINE j == (n - i) + 1
    <3>1. j \in 1 .. n /\ (n - j) + 1 = i
      BY <1>3
    <3> HIDE DEF j
    <3>2. r[j] = u
      BY <1>4, <2>2, <3>1
    <3> QED
      BY <3>1, <3>2
  <2> QED
    BY <1>5, <2>1, <2>2
<1>7. ASSUME Distinct(w), NEW i \in 1 .. n, NEW j \in 1 .. n, r[i] = r[j] PROVE i = j
  <2> DEFINE x == (n - i) + 1
             y == (n - j) + 1
  <2>1. x \in 1 .. n /\ y \in 1 .. n /\ (x = y => i = j)
    BY <1>1, <1>3
  <2>2. w[x] = w[y]
    BY <1>4, <1>7
  <2> HIDE DEF x, y
  <2> QED
    BY <1>7, <2>1, <2>2 DEF Distinct, n
<1> QED
  BY <1>4, <1>6, <1>7 DEF Distinct, r

\* Taking an element out where it is.
LEMMA RemoveFirstFacts ==
    ASSUME NEW T, NEW w \in Seq(T), Distinct(w), NEW t
    PROVE  /\ RemoveFirst(w, t) \in Seq(T)
           /\ ToSet(RemoveFirst(w, t)) = ToSet(w) \ {t}
           /\ Distinct(RemoveFirst(w, t))
<1> DEFINE I == {i \in 1 .. Len(w) : w[i] = t}
           k == Min(I)
           r == RemoveAt(w, k)
<1>0. /\ Len(w) \in Nat
      /\ \A u : u \in ToSet(w) <=> \E i \in 1 .. Len(w) : w[i] = u
  BY LenProperties, ToSetFacts
<1>1. CASE t \notin ToSet(w)
  <2>1. RemoveFirst(w, t) = w
    BY <1>0, <1>1 DEF RemoveFirst
  <2> QED
    BY <1>1, <2>1
<1>2. CASE t \in ToSet(w)
  <2>1. I \in SUBSET Nat /\ I # {}
    BY <1>0, <1>2
  <2>2. RemoveFirst(w, t) = r
    BY <1>0, <1>2, <2>1 DEF RemoveFirst, SelectInSeq
  <2>3. k \in 1 .. Len(w) /\ w[k] = t
    <3>1. k \in I
      <4> HIDE DEF I
      <4> QED
        BY <2>1, MinOfNats
    <3> QED
      BY <3>1
  <2> HIDE DEF k
  <2>4. /\ r \in Seq(T) /\ Len(r) = Len(w) - 1
        /\ \A i \in 1 .. k - 1 : r[i] = w[i]
        /\ \A i \in k + 1 .. Len(w) : r[i - 1] = w[i]
    BY <2>3, RemoveAtProperties
  <2> HIDE DEF r
  <2> DEFINE old(i) == IF i < k THEN i ELSE i + 1
  <2>5. ASSUME NEW i \in 1 .. Len(r)
        PROVE  old(i) \in 1 .. Len(w) /\ old(i) # k /\ r[i] = w[old(i)]
    <3>1. CASE i < k
      <4>1. i \in 1 .. k - 1 /\ i \in 1 .. Len(w)
        BY <1>0, <2>3, <2>4, <3>1
      <4> QED
        BY <2>4, <3>1, <4>1
    <3>2. CASE ~ i < k
      <4> DEFINE j == i + 1
      <4>1. j \in k + 1 .. Len(w) /\ j - 1 = i
        BY <1>0, <2>3, <2>4, <3>2
      <4>2. old(i) = j
        BY <3>2
      <4> HIDE DEF j
      <4>3. r[i] = w[j]
        BY <2>4, <4>1
      <4>4. j \in 1 .. Len(w) /\ j # k
        BY <1>0, <2>3, <4>1
      <4> HIDE DEF old
      <4> QED
        BY <4>2, <4>3, <4>4
    <3> QED
      BY <3>1, <3>2
  <2>6. \A i, j \in 1 .. Len(r) : old(i) = old(j) => i = j
    BY <1>0, <2>3, <2>4
  <2>7. ASSUME NEW j \in 1 .. Len(w), j # k
        PROVE  \E i \in 1 .. Len(r) : r[i] = w[j]
    <3>1. CASE j < k
      <4>1. j \in 1 .. k - 1 /\ j \in 1 .. Len(r)
        BY <1>0, <2>3, <2>4, <3>1
      <4> QED
        BY <2>4, <4>1
    <3>2. CASE ~ j < k
      <4>1. j \in k + 1 .. Len(w) /\ j - 1 \in 1 .. Len(r)
        BY <1>0, <2>3, <2>4, <2>7, <3>2
      <4> QED
        BY <2>4, <4>1
    <3> QED
      BY <3>1, <3>2
  <2> HIDE DEF old
  <2>8. \A u : u \in ToSet(r) <=> \E i \in 1 .. Len(r) : r[i] = u
    BY <2>4, ToSetFacts
  <2>9. ASSUME NEW u PROVE u \in ToSet(r) <=> u \in ToSet(w) \ {t}
    <3>1. ASSUME NEW i \in 1 .. Len(r), r[i] = u PROVE u \in ToSet(w) \ {t}
      <4>1. w[old(i)] = u /\ old(i) \in 1 .. Len(w) /\ old(i) # k
        BY <2>5, <3>1
      <4>2. w[old(i)] # w[k]
        BY <2>3, <4>1 DEF Distinct
      <4> QED
        BY <1>0, <2>3, <4>1, <4>2
    <3>2. ASSUME NEW j \in 1 .. Len(w), w[j] = u, u # t PROVE u \in ToSet(r)
      <4>1. j # k
        BY <2>3, <3>2
      <4> QED
        BY <2>7, <2>8, <3>2, <4>1
    <3> QED
      BY <1>0, <2>8, <3>1, <3>2
  <2>10. ASSUME NEW i \in 1 .. Len(r), NEW j \in 1 .. Len(r), r[i] = r[j] PROVE i = j
    <3>1. w[old(i)] = w[old(j)] /\ old(i) \in 1 .. Len(w) /\ old(j) \in 1 .. Len(w)
      BY <2>5, <2>10
    <3>2. old(i) = old(j)
      BY <3>1 DEF Distinct
    <3> QED
      BY <2>6, <3>2
  <2>11. Distinct(r)
    BY <2>10 DEF Distinct
  <2> QED
    BY <2>2, <2>4, <2>9, <2>11
<1> QED
  BY <1>1, <1>2

\* A list of distinct elements is as long as the set of them is large.
LEMMA DistinctLength ==
    ASSUME NEW T, NEW w \in Seq(T), Distinct(w)
    PROVE  Len(w) = Cardinality(ToSet(w))
<1> DEFINE D == 1 .. Len(w)
<1>1. Len(w) \in Nat /\ DOMAIN w = D
  BY LenProperties
<1>2. IsFiniteSet(D) /\ Cardinality(D) = Len(w)
  BY <1>1, FS_Interval
<1>3. w \in Bijection(D, ToSet(w))
  <2>1. w \in [D -> ToSet(w)]
    <3>1. w = [i \in D |-> w[i]]
      BY <1>1
    <3>2. \A i \in D : w[i] \in ToSet(w)
      BY ToSetFacts
    <3> QED
      BY <3>1, <3>2
  <2>2. \A u \in ToSet(w) : \E i \in D : w[i] = u
    BY ToSetFacts
  <2>3. \A i, j \in D : w[i] = w[j] => i = j
    BY DEF Distinct
  <2> QED
    BY <2>1, <2>2, <2>3 DEF Bijection, Injection, Surjection, IsInjective
<1>4. ExistsBijection(D, ToSet(w))
  BY <1>3 DEF ExistsBijection
<1> QED
  BY <1>2, <1>4, FS_Bijection
-----------------------------------------------------------------------------
(***************************************************************************)
(* FlattenSeq.                                                             *)
(***************************************************************************)

\* What the definition of a flattened sequence is chosen to be.
FlatIter(f, s, n) == f = [i \in 1 .. n |-> IF i = 1 THEN s[i] ELSE f[i - 1] \o s[i]]

\* There is a fold of the concatenation over the first N of a sequence of sequences.
LEMMA FlatIterExists ==
    ASSUME NEW s, NEW N \in Nat
    PROVE  \E f : FlatIter(f, s, N)
<1> DEFINE S == {n \in Nat : \E f : FlatIter(f, s, n)}
<1>1. 0 \in S
  <2>1. FlatIter([i \in 1 .. 0 |-> 0], s, 0)
    BY DEF FlatIter
  <2> QED
    BY <2>1
<1>2. ASSUME NEW n \in 0 .. N - 1, n \in S PROVE n + 1 \in S
  <2>1. PICK f : FlatIter(f, s, n)
    BY <1>2
  <2> DEFINE g == [i \in 1 .. n + 1 |->
                     IF i = n + 1 THEN IF i = 1 THEN s[i] ELSE f[i - 1] \o s[i] ELSE f[i]]
             h == [i \in 1 .. n + 1 |-> IF i = 1 THEN s[i] ELSE g[i - 1] \o s[i]]
  <2>2. ASSUME NEW i \in 1 .. n + 1 PROVE g[i] = h[i]
    <3>1. CASE i = 1
      <4>1. CASE n = 0
        BY <3>1, <4>1
      <4>2. CASE n # 0
        <5>1. 1 \in 1 .. n /\ f[1] = s[1]
          BY <2>1, <4>2 DEF FlatIter
        <5> QED
          BY <3>1, <4>2, <5>1
      <4> QED
        BY <4>1, <4>2
    <3>2. CASE i # 1
      <4>1. i - 1 \in 1 .. n + 1 /\ i - 1 # n + 1 /\ i - 1 \in Nat
        BY <3>2
      <4>2. g[i - 1] = f[i - 1]
        BY <4>1
      <4>3. CASE i = n + 1
        BY <3>2, <4>2, <4>3
      <4>4. CASE i # n + 1
        <5>1. i \in 1 .. n
          BY <4>4
        <5>2. f[i] = f[i - 1] \o s[i]
          BY <2>1, <3>2, <5>1 DEF FlatIter
        <5> QED
          BY <3>2, <4>2, <4>4, <5>2
      <4> QED
        BY <4>3, <4>4
    <3> QED
      BY <3>1, <3>2
  <2>3. g = h
    BY <2>2
  <2>4. FlatIter(g, s, n + 1)
    BY <2>3 DEF FlatIter
  <2> HIDE DEF g
  <2> QED
    BY <2>4
<1>3. \A n \in 0 .. N : n \in S
  <2> HIDE DEF S
  <2> QED
    BY <1>1, <1>2, UpTo
<1> QED
  BY <1>3

\* Its values: the concatenation of the first k, for each k.
LEMMA FlatValues ==
    ASSUME NEW f, NEW s, NEW N \in Nat \ {0}, FlatIter(f, s, N)
    PROVE  f[1] = s[1] /\ \A n \in 1 .. N - 1 : f[n + 1] = f[n] \o s[n + 1]
<1>1. \A i \in 1 .. N : f[i] = IF i = 1 THEN s[i] ELSE f[i - 1] \o s[i]
  BY DEF FlatIter
<1>2. ASSUME NEW n \in 1 .. N - 1 PROVE f[n + 1] = f[n] \o s[n + 1]
  <2>1. PICK i : i = n + 1
    OBVIOUS
  <2>2. i \in 1 .. N /\ i # 1 /\ i - 1 = n
    BY <2>1
  <2>3. f[i] = f[i - 1] \o s[i]
    BY <1>1, <2>2
  <2> QED
    BY <2>1, <2>2, <2>3
<1>3. f[1] = s[1]
  <2>1. 1 \in 1 .. N
    OBVIOUS
  <2> QED
    BY <1>1, <2>1
<1> QED
  BY <1>2, <1>3

\* FlattenSeq is such a fold, at all of them.
LEMMA Flattened ==
    ASSUME NEW X, NEW s \in Seq(X), s # <<>>
    PROVE  \E f : FlatIter(f, s, Len(s)) /\ FlattenSeq(s) = f[Len(s)]
<1> DEFINE C == CHOOSE f : FlatIter(f, s, Len(s))
<1>1. Len(s) \in Nat /\ Len(s) # 0
  OBVIOUS
<1>2. FlattenSeq(s) =
        (CHOOSE f : f = [i \in 1 .. Len(s) |-> IF i = 1 THEN s[i] ELSE f[i - 1] \o s[i]])[Len(s)]
  BY <1>1 DEF FlattenSeq
<1>3. FlattenSeq(s) = C[Len(s)]
  BY <1>2, Zenon DEF FlatIter
<1>4. FlatIter(C, s, Len(s))
  BY <1>1, FlatIterExists
<1> HIDE DEF C
<1> QED
  BY <1>3, <1>4

\* FlattenSeq of sequences over a set is a sequence over it.
LEMMA FlattenedType ==
    ASSUME NEW X, NEW s \in Seq(Seq(X))
    PROVE  FlattenSeq(s) \in Seq(X)
<1>1. CASE s = <<>>
  <2>1. Len(s) = 0 /\ s \in Seq(X)
    BY <1>1
  <2> QED
    BY <2>1 DEF FlattenSeq
<1>2. CASE s # <<>>
  <2>1. PICK f : FlatIter(f, s, Len(s)) /\ FlattenSeq(s) = f[Len(s)]
    BY <1>2, Flattened
  <2>2. PICK N : N = Len(s)
    OBVIOUS
  <2>3. N \in Nat /\ N # 0 /\ \A i \in 1 .. N : s[i] \in Seq(X)
    BY <1>2, <2>2
  <2> DEFINE S == {n \in Nat : n = 0 \/ f[n] \in Seq(X)}
  <2>4. ASSUME NEW n \in 0 .. N - 1, n \in S PROVE n + 1 \in S
    <3>1. n + 1 \in 1 .. N /\ n + 1 \in Nat
      BY <2>3
    <3>2. f[1] = s[1] /\ \A i \in 1 .. N - 1 : f[i + 1] = f[i] \o s[i + 1]
      <4>1. N \in Nat \ {0} /\ FlatIter(f, s, N)
        BY <2>1, <2>2, <2>3
      <4> QED
        BY <4>1, FlatValues
    <3>3. s[n + 1] \in Seq(X)
      BY <2>3, <3>1
    <3>4. CASE n = 0
      BY <3>1, <3>2, <3>3, <3>4
    <3>5. CASE n # 0
      <4>1. f[n] \in Seq(X)
        BY <2>4, <3>5
      <4>2. f[n + 1] = f[n] \o s[n + 1]
        <5>1. n \in 1 .. N - 1
          BY <2>3, <3>5
        <5> QED
          BY <3>2, <5>1
      <4>3. f[n] \o s[n + 1] \in Seq(X)
        BY <3>3, <4>1
      <4> QED
        BY <3>1, <4>2, <4>3
    <3> QED
      BY <3>4, <3>5
  <2>5. \A n \in 0 .. N : n \in S
    <3>1. 0 \in S
      OBVIOUS
    <3> HIDE DEF S
    <3> QED
      BY <2>3, <2>4, <3>1, UpTo
  <2> QED
    BY <2>1, <2>2, <2>3, <2>5
<1> QED
  BY <1>1, <1>2

\* Flattening a sequence with one more in front.
LEMMA FlattenCons ==
    ASSUME NEW X, NEW x \in Seq(X), NEW s \in Seq(Seq(X))
    PROVE  FlattenSeq(<<x>> \o s) = x \o FlattenSeq(s)
<1>0. ASSUME NEW b \in Seq(X), NEW c \in Seq(X) PROVE (x \o b) \o c = x \o (b \o c)
  BY ConcatAssociative
<1> DEFINE r == <<x>> \o s
           N == Len(s)
<1>1. /\ N \in Nat /\ r \in Seq(Seq(X)) /\ Len(r) = N + 1 /\ r[1] = x /\ r # <<>>
      /\ \A i \in 1 .. N : r[i + 1] = s[i]
      /\ s = <<>> <=> N = 0
      /\ \A i \in 1 .. N : s[i] \in Seq(X)
  OBVIOUS
<1> HIDE DEF r, N
<1>2. PICK f : FlatIter(f, r, N + 1) /\ FlattenSeq(r) = f[N + 1]
  BY <1>1, Flattened
<1>3. f[1] = x /\ \A n \in 1 .. N : f[n + 1] = f[n] \o r[n + 1]
  <2>1. N + 1 \in Nat \ {0} /\ (N + 1) - 1 = N
    BY <1>1
  <2>2. f[1] = r[1] /\ \A n \in 1 .. (N + 1) - 1 : f[n + 1] = f[n] \o r[n + 1]
    BY <1>2, <2>1, FlatValues
  <2> QED
    BY <1>1, <2>1, <2>2
<1>4. CASE N = 0
  <2>1. FlattenSeq(s) = <<>>
    BY <1>1, <1>4 DEF FlattenSeq, N
  <2>2. FlattenSeq(r) = x
    BY <1>2, <1>3, <1>4
  <2>3. x \o <<>> = x
    BY ConcatEmptySeq
  <2> QED
    BY <2>1, <2>2, <2>3 DEF r
<1>5. CASE N # 0
  <2>1. PICK g : FlatIter(g, s, N) /\ FlattenSeq(s) = g[N]
    BY <1>1, <1>5, Flattened DEF N
  <2>2. g[1] = s[1] /\ \A n \in 1 .. N - 1 : g[n + 1] = g[n] \o s[n + 1]
    <3>1. N \in Nat \ {0}
      BY <1>1, <1>5
    <3> QED
      BY <2>1, <3>1, FlatValues
  <2> DEFINE S == {n \in Nat : n = 0 \/ (g[n] \in Seq(X) /\ f[n + 1] = x \o g[n])}
  <2>3. ASSUME NEW n \in 0 .. N - 1, n \in S PROVE n + 1 \in S
    <3>1. PICK m : m = n + 1
      OBVIOUS
    <3>2. m \in 1 .. N /\ m \in Nat /\ s[m] \in Seq(X) /\ r[m + 1] = s[m]
      BY <1>1, <3>1
    <3>3. f[m + 1] = f[m] \o s[m]
      BY <1>3, <3>2
    <3>4. CASE n = 0
      <4>1. m = 1
        BY <3>1, <3>4
      <4>2. g[m] = s[m] /\ f[m] = x
        BY <1>3, <2>2, <4>1
      <4> QED
        BY <3>1, <3>2, <3>3, <4>2
    <3>5. CASE n # 0
      <4>1. g[n] \in Seq(X) /\ f[m] = x \o g[n]
        BY <2>3, <3>1, <3>5
      <4>2. g[m] = g[n] \o s[m]
        <5>1. n \in 1 .. N - 1
          BY <1>1, <3>5
        <5> QED
          BY <2>2, <3>1, <5>1
      <4>3. (x \o g[n]) \o s[m] = x \o (g[n] \o s[m])
        BY <1>0, <3>2, <4>1
      <4>4. g[n] \o s[m] \in Seq(X)
        BY <3>2, <4>1
      <4>5. f[m + 1] = x \o g[m] /\ g[m] \in Seq(X)
        BY <3>3, <4>1, <4>2, <4>3, <4>4
      <4> QED
        BY <3>1, <3>2, <4>5
    <3> QED
      BY <3>4, <3>5
  <2>4. \A n \in 0 .. N : n \in S
    <3>1. 0 \in S
      OBVIOUS
    <3> HIDE DEF S
    <3> QED
      BY <1>1, <2>3, <3>1, UpTo
  <2>5. f[N + 1] = x \o g[N]
    <3>1. N \in S
      BY <1>1, <2>4
    <3> QED
      BY <1>5, <3>1
  <2> QED
    BY <1>2, <2>1, <2>5 DEF r
<1> QED
  BY <1>4, <1>5

\* The top of a set of numbers up to n + 1 that holds n + 1.
LEMMA MaxTop ==
    ASSUME NEW n \in Nat, NEW t \in SUBSET (1 .. n + 1), n + 1 \in t
    PROVE  Max(t) = n + 1
<1>1. \A y \in t : y \in Nat /\ n + 1 >= y
  OBVIOUS
<1>2. \A x \in t : (\A y \in t : x >= y) => x = n + 1
  BY <1>1
<1> QED
  BY <1>1, <1>2 DEF Max
=============================================================================
