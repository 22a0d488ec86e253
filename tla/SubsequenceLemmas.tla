--------------------------- MODULE SubsequenceLemmas ---------------------------
(***************************************************************************)
(* What Subsequence returns, for every sequence. The kept indices are      *)
(* ranked; the rank is an injection into as many numbers, so every number  *)
(* is the rank of an index.                                                *)
(***************************************************************************)
EXTENDS Subsequences, FiniteSetTheorems, FunctionTheorems, SequenceTheorems, TLAPS

-----------------------------------------------------------------------------
(* The kept indices of a sequence, and the n-th of them *)

KeptIn(s, K) == {i \in 1..Len(s) : s[i] \in K}
Rank(s, K, i) == Cardinality({j \in KeptIn(s, K) : j < i})

\* Every rank below the number of kept indices is the rank of one of them: the
\* rank is an injection from the kept indices into as many numbers.
LEMMA EveryRank ==
    ASSUME NEW S, NEW s \in Seq(S), NEW K
    PROVE  LET N == Cardinality(KeptIn(s, K))
           IN  /\ N \in Nat
               /\ \A n \in 1..N : \E i \in KeptIn(s, K) : Rank(s, K, i) = n - 1
               /\ \A i \in KeptIn(s, K) : Rank(s, K, i) \in 0..(N - 1)
               /\ \A i, j \in KeptIn(s, K) : i < j => Rank(s, K, i) < Rank(s, K, j)
<1> DEFINE kept == KeptIn(s, K)
           N == Cardinality(kept)
           below(i) == {j \in kept : j < i}
           r == [i \in kept |-> Rank(s, K, i)]
<1>1. Len(s) \in Nat /\ kept \subseteq 1..Len(s) /\ kept \subseteq Int
  BY LenProperties DEF KeptIn
<1>2. IsFiniteSet(kept) /\ N \in Nat
  <2>1. IsFiniteSet(1..Len(s))
    BY <1>1, FS_Interval
  <2>2. IsFiniteSet(kept)
    BY <1>1, <2>1, FS_Subset
  <2> QED
    BY <2>2, FS_CardinalityType
<1>3. ASSUME NEW i \in kept
      PROVE  /\ below(i) \in SUBSET kept
             /\ IsFiniteSet(below(i))
             /\ Rank(s, K, i) = Cardinality(below(i))
             /\ Rank(s, K, i) \in Nat
  <2>1. below(i) \in SUBSET kept
    OBVIOUS
  <2>2. IsFiniteSet(below(i))
    BY <2>1, <1>2, FS_Subset
  <2>3. Rank(s, K, i) = Cardinality(below(i))
    BY DEF Rank
  <2> QED
    BY <2>1, <2>2, <2>3, FS_CardinalityType
<1>4. ASSUME NEW i \in kept, NEW j \in kept, i < j
      PROVE  Rank(s, K, i) < Rank(s, K, j)
  <2>1. below(i) \subseteq below(j) /\ i \in below(j) /\ i \notin below(i)
    BY <1>1, <1>4
  <2>2. IsFiniteSet(below(i) \cup {i})
        /\ Cardinality(below(i) \cup {i}) = Cardinality(below(i)) + 1
    BY <2>1, <1>3, FS_AddElement
  <2>3. Cardinality(below(i) \cup {i}) <= Cardinality(below(j))
    BY <2>1, <1>3, FS_Subset
  <2>4. /\ Rank(s, K, i) = Cardinality(below(i)) /\ Rank(s, K, i) \in Nat
        /\ Rank(s, K, j) = Cardinality(below(j)) /\ Rank(s, K, j) \in Nat
    BY <1>3
  <2> HIDE DEF below
  <2> QED
    BY <2>2, <2>3, <2>4
<1>5. ASSUME NEW i \in kept
      PROVE  Rank(s, K, i) \in 0..(N - 1)
  <2>1. below(i) \subseteq kept /\ below(i) # kept
    BY <1>1
  <2>2. Cardinality(below(i)) <= N /\ Cardinality(below(i)) # N
    BY <2>1, <1>2, <1>3, FS_Subset
  <2>3. Rank(s, K, i) = Cardinality(below(i)) /\ Rank(s, K, i) \in Nat
    BY <1>3
  <2> HIDE DEF below, N
  <2> QED
    BY <2>2, <2>3, <1>2
<1>6. r \in Injection(kept, 0..(N - 1))
  <2>1. r \in [kept -> 0..(N - 1)]
    BY <1>5
  <2>2. ASSUME NEW i \in kept, NEW j \in kept, r[i] = r[j]
        PROVE  i = j
    <3>1. Rank(s, K, i) = Rank(s, K, j) /\ Rank(s, K, i) \in Nat /\ Rank(s, K, j) \in Nat
      BY <2>2, <1>3
    <3>2. i \in Int /\ j \in Int
      BY <1>1
    <3>3. ~(i < j) /\ ~(j < i)
      BY <3>1, <1>4
    <3> QED
      BY <3>2, <3>3
  <2> QED
    BY <2>1, <2>2, Fun_IsInj
<1>7. IsFiniteSet(0..(N - 1)) /\ Cardinality(0..(N - 1)) = N
  <2> HIDE DEF N
  <2>1. 0 \in Int /\ N - 1 \in Int /\ N \in Nat
    BY <1>2
  <2> QED
    BY <2>1, FS_Interval
<1>8. r \in Surjection(kept, 0..(N - 1))
  BY <1>6, <1>7, FS_Injection
<1>9. ASSUME NEW n \in 1..N
      PROVE  \E i \in kept : Rank(s, K, i) = n - 1
  <2>1. n - 1 \in 0..(N - 1)
    BY <1>2
  <2>2. \E i \in kept : r[i] = n - 1
    <3> HIDE DEF r, kept, N
    <3> QED
      BY <2>1, <1>8 DEF Surjection
  <2> QED
    BY <2>2
<1> QED
  BY <1>2, <1>4, <1>5, <1>9

\* What Subsequence returns: the kept elements, all of them and each as often
\* as before.
LEMMA SubsequenceProperties ==
    ASSUME NEW S, NEW s \in Seq(S), NEW K
    PROVE  /\ Subsequence(s, K) \in Seq(S)
           /\ Len(Subsequence(s, K)) = Cardinality(KeptIn(s, K))
           /\ \A n \in 1..Len(Subsequence(s, K)) :
                 \E i \in KeptIn(s, K) : /\ Rank(s, K, i) = n - 1
                                       /\ Subsequence(s, K)[n] = s[i]
           /\ \A i \in KeptIn(s, K) :
                 \E n \in 1..Len(Subsequence(s, K)) : Subsequence(s, K)[n] = s[i]
<1> DEFINE N == Cardinality(KeptIn(s, K))
           Nth(n) == CHOOSE i \in KeptIn(s, K) : Rank(s, K, i) = n - 1
           sub == [n \in 1..N |-> s[Nth(n)]]
<1>1. Subsequence(s, K) = sub
  BY DEF Subsequence, KeptIn, Rank
<1>2. N \in Nat
  BY EveryRank
<1>3. \A n \in 1..N : Nth(n) \in KeptIn(s, K) /\ Rank(s, K, Nth(n)) = n - 1
  BY EveryRank
<1>4. \A n \in 1..N : s[Nth(n)] \in S
  BY <1>3, LenProperties DEF KeptIn
<1>5. sub \in Seq(S) /\ Len(sub) = N
  <2> HIDE DEF N, Nth
  <2> QED
    BY <1>2, <1>4
<1>6. ASSUME NEW i \in KeptIn(s, K)
      PROVE  \E n \in 1..N : sub[n] = s[i]
  <2> DEFINE n == Rank(s, K, i) + 1
  <2>1. n \in 1..N /\ Rank(s, K, i) = n - 1
    BY <1>2, EveryRank
  <2>2. Nth(n) = i
    <3>1. Nth(n) \in KeptIn(s, K) /\ Rank(s, K, Nth(n)) = Rank(s, K, i)
      BY <2>1, <1>3
    <3>2. i \in Int /\ Nth(n) \in Int /\ Rank(s, K, i) \in Int
      BY <3>1, <2>1, EveryRank DEF KeptIn
    <3>3. ~(i < Nth(n)) /\ ~(Nth(n) < i)
      <4> HIDE DEF Nth, n
      <4> QED
        BY <3>1, <3>2, EveryRank
    <3> HIDE DEF Nth, n
    <3> QED
      BY <3>2, <3>3
  <2> QED
    BY <2>1, <2>2
<1>7. \A n \in 1..N : sub[n] = s[Nth(n)]
  OBVIOUS
<1> HIDE DEF Nth, sub
<1> QED
  BY <1>1, <1>3, <1>5, <1>6, <1>7

-----------------------------------------------------------------------------
(* Queues: sequences in which nothing is twice *)

InQueue(q, t) == \E i \in DOMAIN q : q[i] = t
Once(q) == \A i, j \in DOMAIN q : q[i] = q[j] => i = j

LEMMA DomainIs ==
    ASSUME NEW S, NEW q \in Seq(S)
    PROVE  Len(q) \in Nat /\ DOMAIN q = 1..Len(q) /\ \A i \in DOMAIN q : q[i] \in S
BY LenProperties

\* Two queues that share no element, one after the other.
LEMMA ConcatOnce ==
    ASSUME NEW S, NEW q \in Seq(S), NEW s \in Seq(S), Once(q), Once(s),
           \A t \in S : InQueue(q, t) => ~InQueue(s, t)
    PROVE  Once(q \o s) /\ \A t \in S : InQueue(q \o s, t) <=> InQueue(q, t) \/ InQueue(s, t)
<1>1. /\ Len(q) \in Nat /\ DOMAIN q = 1..Len(q) /\ \A i \in DOMAIN q : q[i] \in S
      /\ Len(s) \in Nat /\ DOMAIN s = 1..Len(s) /\ \A i \in DOMAIN s : s[i] \in S
  BY DomainIs
<1>2. /\ q \o s \in Seq(S) /\ Len(q \o s) = Len(q) + Len(s)
      /\ \A i \in 1..Len(q) + Len(s) : (q \o s)[i] = IF i <= Len(q) THEN q[i] ELSE s[i - Len(q)]
  BY ConcatProperties
<1>3. DOMAIN (q \o s) = 1..Len(q) + Len(s)
  BY <1>2, DomainIs
<1> DEFINE m == Len(q)
           n == Len(s)
           c == q \o s
<1>4. /\ m \in Nat /\ n \in Nat /\ DOMAIN q = 1..m /\ DOMAIN s = 1..n /\ DOMAIN c = 1..m + n
      /\ \A i \in 1..m : q[i] \in S
      /\ \A i \in 1..n : s[i] \in S
      /\ \A i \in 1..m + n : c[i] = IF i <= m THEN q[i] ELSE s[i - m]
  BY <1>1, <1>2, <1>3
<1> HIDE DEF m, n, c
<1>5. \A i \in 1..m + n : i <= m => i \in 1..m /\ c[i] = q[i]
  BY <1>4
<1>6. \A i \in 1..m + n : ~(i <= m) => i - m \in 1..n /\ c[i] = s[i - m]
  BY <1>4
<1>7. Once(c)
  <2>1. ASSUME NEW i \in 1..m + n, NEW j \in 1..m + n, c[i] = c[j] PROVE i = j
    <3>1. CASE i <= m /\ j <= m
      BY <1>4, <1>5, <2>1, <3>1 DEF Once
    <3>2. CASE ~(i <= m) /\ ~(j <= m)
      <4>1. i - m = j - m
        BY <1>4, <1>6, <2>1, <3>2 DEF Once
      <4> QED
        BY <1>4, <4>1
    <3>3. CASE i <= m /\ ~(j <= m)
      BY <1>4, <1>5, <1>6, <2>1, <3>3 DEF InQueue
    <3>4. CASE ~(i <= m) /\ j <= m
      BY <1>4, <1>5, <1>6, <2>1, <3>4 DEF InQueue
    <3> QED
      BY <3>1, <3>2, <3>3, <3>4
  <2> QED
    BY <1>4, <2>1 DEF Once
<1>8. ASSUME NEW t \in S PROVE InQueue(c, t) <=> InQueue(q, t) \/ InQueue(s, t)
  <2>1. InQueue(c, t) => InQueue(q, t) \/ InQueue(s, t)
    BY <1>4, <1>5, <1>6 DEF InQueue
  <2>2. InQueue(q, t) => InQueue(c, t)
    <3> SUFFICES ASSUME NEW i \in 1..m, q[i] = t PROVE InQueue(c, t)
      BY <1>4 DEF InQueue
    <3>1. i \in 1..m + n /\ i <= m
      BY <1>4
    <3> QED
      BY <1>4, <1>5, <3>1 DEF InQueue
  <2>3. InQueue(s, t) => InQueue(c, t)
    <3> SUFFICES ASSUME NEW i \in 1..n, s[i] = t PROVE InQueue(c, t)
      BY <1>4 DEF InQueue
    <3>1. i + m \in 1..m + n /\ ~(i + m <= m) /\ (i + m) - m = i
      BY <1>4
    <3>2. c[i + m] = s[i]
      BY <1>6, <3>1
    <3> QED
      BY <1>4, <3>1, <3>2 DEF InQueue
  <2> QED
    BY <2>1, <2>2, <2>3
<1> QED
  BY <1>7, <1>8 DEF c

\* A queue from which elements were taken out.
LEMMA SubsequenceOnce ==
    ASSUME NEW S, NEW q \in Seq(S), Once(q), NEW K
    PROVE  /\ Once(Subsequence(q, K))
           /\ \A t \in S : InQueue(Subsequence(q, K), t) <=> InQueue(q, t) /\ t \in K
<1> DEFINE s == Subsequence(q, K)
<1>1. /\ s \in Seq(S)
      /\ \A n \in 1..Len(s) : \E i \in KeptIn(q, K) : Rank(q, K, i) = n - 1 /\ s[n] = q[i]
      /\ \A i \in KeptIn(q, K) : \E n \in 1..Len(s) : s[n] = q[i]
  BY SubsequenceProperties
<1>2. /\ Len(q) \in Nat /\ DOMAIN q = 1..Len(q) /\ \A i \in DOMAIN q : q[i] \in S
      /\ Len(s) \in Nat /\ DOMAIN s = 1..Len(s)
  BY <1>1, DomainIs
<1> HIDE DEF s
<1>3. ASSUME NEW n \in 1..Len(s), NEW m \in 1..Len(s), s[n] = s[m] PROVE n = m
  <2>1. PICK i \in KeptIn(q, K) : Rank(q, K, i) = n - 1 /\ s[n] = q[i]
    BY <1>1
  <2>2. PICK j \in KeptIn(q, K) : Rank(q, K, j) = m - 1 /\ s[m] = q[j]
    BY <1>1
  <2>3. i \in DOMAIN q /\ j \in DOMAIN q
    BY <1>2, <2>1, <2>2 DEF KeptIn
  <2>4. i = j
    BY <1>3, <2>1, <2>2, <2>3 DEF Once
  <2> QED
    BY <1>2, <2>1, <2>2, <2>4
<1>4. ASSUME NEW t \in S PROVE InQueue(s, t) <=> InQueue(q, t) /\ t \in K
  BY <1>1, <1>2 DEF InQueue, KeptIn
<1> QED
  BY <1>2, <1>3, <1>4 DEF Once, s

\* What is left of a queue whose first k elements have been taken.
LEMMA TailOnce ==
    ASSUME NEW S, NEW q \in Seq(S), Once(q), NEW k \in 0..Len(q)
    PROVE  LET rest == SubSeq(q, k + 1, Len(q))
           IN /\ rest \in Seq(S) /\ Once(rest)
              /\ \A t \in S : InQueue(rest, t) <=> InQueue(q, t) /\ t \notin {q[m] : m \in 1..k}
<1> DEFINE rest == SubSeq(q, k + 1, Len(q))
           n == Len(q)
           l == Len(rest)
<1>1. n \in Nat /\ k \in Nat /\ k <= n /\ DOMAIN q = 1..n /\ \A i \in DOMAIN q : q[i] \in S
  BY DomainIs
<1>2. /\ rest \in Seq(S) /\ Len(rest) = IF k + 1 <= Len(q) THEN Len(q) - (k + 1) + 1 ELSE 0
      /\ \A i \in 1..Len(q) - (k + 1) + 1 : rest[i] = q[k + 1 + i - 1]
  <2>1. k + 1 \in Int /\ Len(q) \in Int
    BY <1>1
  <2>2. \A i \in k + 1..Len(q) : q[i] \in S
    BY <1>1
  <2> QED
    BY <2>1, <2>2, SubSeqProperties
<1>3. DOMAIN rest = 1..l /\ l = n - k
  <2>1. DOMAIN rest = 1..l
    BY <1>2, DomainIs
  <2>2. l = IF k + 1 <= n THEN n - (k + 1) + 1 ELSE 0
    BY <1>2
  <2> HIDE DEF rest, n, l
  <2>3. l = n - k
    BY <1>1, <2>2
  <2> QED
    BY <2>1, <2>3
<1>4. \A i \in 1..n - (k + 1) + 1 : rest[i] = q[k + 1 + i - 1]
  BY <1>2
<1>5. rest \in Seq(S)
  BY <1>2
<1> HIDE DEF rest, n, l
<1>6. ASSUME NEW i \in 1..l PROVE k + i \in DOMAIN q /\ rest[i] = q[k + i]
  <2>1. i \in 1..n - (k + 1) + 1 /\ k + 1 + i - 1 = k + i /\ k + i \in 1..n
    BY <1>1, <1>3
  <2> QED
    BY <1>1, <1>4, <2>1
<1>7. Once(rest)
  <2>1. ASSUME NEW i \in 1..l, NEW j \in 1..l, rest[i] = rest[j] PROVE i = j
    <3>1. k + i = k + j
      BY <1>6, <2>1 DEF Once
    <3> QED
      BY <1>1, <1>3, <3>1
  <2> QED
    BY <1>3, <2>1 DEF Once
<1>8. ASSUME NEW t \in S PROVE InQueue(rest, t) <=> InQueue(q, t) /\ t \notin {q[m] : m \in 1..k}
  <2>1. ASSUME NEW i \in 1..l, rest[i] = t PROVE InQueue(q, t) /\ t \notin {q[m] : m \in 1..k}
    <3>1. k + i \in DOMAIN q /\ q[k + i] = t
      BY <1>6, <2>1
    <3>2. ASSUME NEW j \in 1..k, q[j] = t PROVE FALSE
      <4>1. j \in DOMAIN q
        BY <1>1
      <4>2. j = k + i
        BY <3>1, <3>2, <4>1 DEF Once
      <4> QED
        BY <1>1, <1>3, <4>2
    <3> QED
      BY <3>1, <3>2 DEF InQueue
  <2>2. ASSUME NEW i \in DOMAIN q, q[i] = t, t \notin {q[m] : m \in 1..k} PROVE InQueue(rest, t)
    <3>1. ~(i \in 1..k)
      BY <2>2
    <3>2. i - k \in 1..l /\ k + (i - k) = i
      BY <1>1, <1>3, <3>1
    <3>3. rest[i - k] = t
      BY <1>6, <2>2, <3>2
    <3> QED
      BY <1>3, <3>2, <3>3 DEF InQueue
  <2> QED
    BY <1>3, <2>1, <2>2 DEF InQueue
<1> QED
  BY <1>5, <1>7, <1>8 DEF rest, n

\* The first k elements of a queue are k elements.
LEMMA HeadCount ==
    ASSUME NEW S, NEW q \in Seq(S), Once(q), NEW k \in 0..Len(q)
    PROVE  LET T == {q[m] : m \in 1..k}
           IN  T \subseteq S /\ IsFiniteSet(T) /\ Cardinality(T) = k
<1> DEFINE T == {q[m] : m \in 1..k}
           f == [m \in 1..k |-> q[m]]
<1>1. Len(q) \in Nat /\ DOMAIN q = 1..Len(q) /\ (\A m \in DOMAIN q : q[m] \in S) /\ k \in Nat /\ k <= Len(q)
  BY DomainIs
<1>2. \A m \in 1..k : m \in DOMAIN q
  BY <1>1
<1>3. f \in [1..k -> T] /\ \A a \in 1..k, b \in 1..k : f[a] = f[b] => a = b
  BY <1>2 DEF Once
<1>4. \A x \in T : \E m \in 1..k : f[m] = x
  OBVIOUS
<1>5. ExistsBijection(1..k, T)
  <2> HIDE DEF f, T
  <2>1. f \in Injection(1..k, T) /\ f \in Surjection(1..k, T)
    BY <1>3, <1>4 DEF Injection, IsInjective, Surjection
  <2> QED
    BY <2>1 DEF ExistsBijection, Bijection
<1>6. IsFiniteSet(1..k) /\ Cardinality(1..k) = k
  <2>1. IsFiniteSet(1..k) /\ Cardinality(1..k) = IF 1 > k THEN 0 ELSE k - 1 + 1
    BY <1>1, FS_Interval
  <2> QED
    BY <1>1, <2>1
<1>7. IsFiniteSet(T) /\ Cardinality(T) = k
  <2> HIDE DEF T
  <2> QED
    BY <1>5, <1>6, FS_Bijection
<1> QED
  BY <1>1, <1>2, <1>7

\* s has what is in q and in K, each once, in the order of q.
InOrder(s, q, K) ==
    /\ Once(s)
    /\ \A i \in DOMAIN q : q[i] \in K => InQueue(s, q[i])
    /\ \A i, j \in DOMAIN q, m, n \in DOMAIN s :
          i <= j /\ s[m] = q[i] /\ s[n] = q[j] => m <= n

\* Taking elements out keeps the order of the others.
LEMMA SubsequenceInOrder ==
    ASSUME NEW S, NEW q \in Seq(S), Once(q), NEW K
    PROVE  InOrder(Subsequence(q, K), q, K)
<1> DEFINE s == Subsequence(q, K)
<1>1. /\ s \in Seq(S)
      /\ \A n \in 1..Len(s) : \E i \in KeptIn(q, K) : Rank(q, K, i) = n - 1 /\ s[n] = q[i]
  BY SubsequenceProperties
<1>2. /\ Len(q) \in Nat /\ DOMAIN q = 1..Len(q) /\ \A i \in DOMAIN q : q[i] \in S
      /\ Len(s) \in Nat /\ DOMAIN s = 1..Len(s)
  BY <1>1, DomainIs
<1>3. Once(s) /\ \A t \in S : InQueue(s, t) <=> InQueue(q, t) /\ t \in K
  BY SubsequenceOnce
<1> HIDE DEF s
<1>4. ASSUME NEW i \in DOMAIN q, q[i] \in K PROVE InQueue(s, q[i])
  BY <1>2, <1>3, <1>4 DEF InQueue
<1>5. ASSUME NEW i \in DOMAIN q, NEW j \in DOMAIN q, NEW m \in DOMAIN s, NEW n \in DOMAIN s,
             i <= j, s[m] = q[i], s[n] = q[j]
      PROVE  m <= n
  <2>1. PICK a \in KeptIn(q, K) : Rank(q, K, a) = m - 1 /\ s[m] = q[a]
    BY <1>1, <1>2
  <2>2. PICK b \in KeptIn(q, K) : Rank(q, K, b) = n - 1 /\ s[n] = q[b]
    BY <1>1, <1>2
  <2>3. a \in DOMAIN q /\ b \in DOMAIN q
    BY <1>2, <2>1, <2>2 DEF KeptIn
  <2>4. a = i /\ b = j
    BY <1>5, <2>1, <2>2, <2>3 DEF Once
  <2>5. i < j => Rank(q, K, a) < Rank(q, K, b)
    BY <2>1, <2>2, <2>4, EveryRank
  <2>6. m \in Int /\ n \in Int /\ i \in Int /\ j \in Int
    BY <1>2
  <2>7. i < j => m < n
    BY <2>1, <2>2, <2>5, <2>6
  <2>8. i = j => m = n
    BY <1>3, <1>5 DEF Once
  <2> QED
    BY <1>5, <2>6, <2>7, <2>8
<1> QED
  BY <1>3, <1>4, <1>5 DEF InOrder, s

=============================================================================
