--------------------------- MODULE OrderingProofs ---------------------------
(***************************************************************************)
(* What sorting, listing and dropping do to every list.                    *)
(***************************************************************************)
EXTENDS Ordering, TLAPS, WellFoundedInduction, FiniteSetTheorems

(* The least number of a set: what the inductions below rest on. *)
LEMMA NatMin ==
  ASSUME NEW T, T \subseteq Nat, T # {}
  PROVE  \E x \in T : \A y \in T : x <= y
<1>1. PICK x \in T : \A y \in T : ~ (<<y, x>> \in OpToRel(<, Nat))
  BY NatLessThanWellFounded, WFMin
<1>2. \A y \in T : ~(y < x)
  BY <1>1 DEF OpToRel
<1> QED
  BY <1>2

(* A bijection of 1..n that sorts s. *)
Sorts(p, s, n) ==
  /\ p \in [1..n -> 1..n]
  /\ \A i, j \in 1..n : p[i] = p[j] => i = j
  /\ \A k \in 1..n : \E i \in 1..n : p[i] = k
  /\ \A i, j \in 1..n : i < j => s[p[i]] <= s[p[j]]

(* The last member of a list finds its place among the others. *)
LEMMA SortStep ==
  ASSUME NEW n \in Nat, n # 0, NEW s, \A i \in 1..n : s[i] \in Nat,
         NEW q, Sorts(q, s, n - 1)
  PROVE  \E p : Sorts(p, s, n)
<1> DEFINE T == {k \in 1..n : k = n \/ s[n] < s[q[k]]}
<1>1. n \in T /\ T \subseteq Nat
  OBVIOUS
<1>2. PICK k \in T : \A j \in T : k <= j
  BY <1>1, NatMin
<1> DEFINE p == [i \in 1..n |-> IF i < k THEN q[i] ELSE IF i = k THEN n ELSE q[i - 1]]
<1>3. k \in 1..n /\ \A i \in 1..(n - 1) : i < k => ~(s[n] < s[q[i]])
  BY <1>2
<1>4. k # n => s[n] < s[q[k]]
  BY <1>2
<1>5. /\ q \in [1..(n-1) -> 1..(n-1)]
      /\ \A i, j \in 1..(n-1) : q[i] = q[j] => i = j
      /\ \A m \in 1..(n-1) : \E i \in 1..(n-1) : q[i] = m
      /\ \A i, j \in 1..(n-1) : i < j => s[q[i]] <= s[q[j]]
  BY DEF Sorts
<1>0. \A x \in 1..(n-1) : q[x] \in 1..n
  <2>1. q \in [1..(n-1) -> 1..(n-1)]
    BY <1>5
  <2>2. \A m \in 1..(n-1) : m \in 1..n
    OBVIOUS
  <2> QED BY <2>1, <2>2
<1> HIDE DEF T
<1>6. \A i \in 1..n : \/ i < k /\ i \in 1..(n-1) /\ p[i] = q[i]
                      \/ i = k /\ p[i] = n
                      \/ i > k /\ (i - 1) \in 1..(n-1) /\ p[i] = q[i - 1]
  BY <1>3
<1>7. p \in [1..n -> 1..n]
  <2>1. ASSUME NEW i \in 1..n PROVE p[i] \in 1..n
    <3> HIDE DEF p
    <3> QED BY <1>6, <1>0
  <2> QED BY <2>1
<1>8. ASSUME NEW i \in 1..n, NEW j \in 1..n, p[i] = p[j] PROVE i = j
  <2>1. \A m \in 1..(n-1) : q[m] # n
    BY <1>5
  <2> HIDE DEF p
  <2>2. \A x, y \in 1..(n-1) : q[x] = q[y] => x = y
    BY <1>5
  <2>3. CASE i < k /\ i \in 1..(n-1) /\ p[i] = q[i]
    <3>1. CASE j < k /\ j \in 1..(n-1) /\ p[j] = q[j]
      BY <2>2, <2>3, <3>1, <1>8
    <3>2. CASE j = k /\ p[j] = n
      BY <2>1, <2>3, <3>2, <1>8
    <3>3. CASE j > k /\ (j - 1) \in 1..(n-1) /\ p[j] = q[j - 1]
      <4>1. i = j - 1
        BY <2>2, <2>3, <3>3, <1>8
      <4> QED BY <4>1, <2>3, <3>3, <1>3
    <3> QED BY <3>1, <3>2, <3>3, <1>6
  <2>4. CASE i = k /\ p[i] = n
    BY <1>6, <2>1, <2>4, <1>8
  <2>5. CASE i > k /\ (i - 1) \in 1..(n-1) /\ p[i] = q[i - 1]
    <3>1. CASE j < k /\ j \in 1..(n-1) /\ p[j] = q[j]
      <4>1. i - 1 = j
        BY <2>2, <2>5, <3>1, <1>8
      <4> QED BY <4>1, <2>5, <3>1, <1>3
    <3>2. CASE j = k /\ p[j] = n
      BY <2>1, <2>5, <3>2, <1>8
    <3>3. CASE j > k /\ (j - 1) \in 1..(n-1) /\ p[j] = q[j - 1]
      <4>1. i - 1 = j - 1
        BY <2>2, <2>5, <3>3, <1>8
      <4> QED BY <4>1
    <3> QED BY <3>1, <3>2, <3>3, <1>6
  <2> QED
    BY <1>6, <2>3, <2>4, <2>5
<1>9. ASSUME NEW m \in 1..n PROVE \E i \in 1..n : p[i] = m
  <2>1. CASE m = n
    BY <1>3, <1>6, <2>1
  <2>2. CASE m # n
    <3>1. PICK i \in 1..(n-1) : q[i] = m
      BY <1>5, <2>2
    <3>2. CASE i < k
      BY <3>1, <3>2, <1>6
    <3>3. CASE ~(i < k)
      <4>1. i + 1 \in 1..n /\ i + 1 > k /\ (i + 1) - 1 = i
        BY <3>3, <1>3
      <4>2. p[i + 1] = q[i]
        BY <4>1, <1>6, <1>3
      <4> QED BY <4>1, <4>2, <3>1
    <3> QED BY <3>2, <3>3
  <2> QED BY <2>1, <2>2
<1>10. ASSUME NEW i \in 1..n, NEW j \in 1..n, i < j PROVE s[p[i]] <= s[p[j]]
  <2> HIDE DEF p
  <2> DEFINE A(x) == s[q[x]]
  <2>1. ASSUME NEW x \in 1..(n-1) PROVE A(x) \in Nat
    BY <1>0
  <2>2. \A x, y \in 1..(n-1) : x < y => A(x) <= A(y)
    BY <1>5
  <2>3. \A x \in 1..(n-1) : /\ x < k => A(x) <= s[n]
                            /\ x >= k => s[n] <= A(x)
    <3> SUFFICES ASSUME NEW x \in 1..(n-1) PROVE (x < k => A(x) <= s[n]) /\ (x >= k => s[n] <= A(x))
      OBVIOUS
    <3>1. s[n] \in Nat /\ A(x) \in Nat
      BY <2>1
    <3>2. x < k => ~(s[n] < A(x))
      BY <1>3
    <3>3. x >= k => k \in 1..(n-1) /\ s[n] < A(k) /\ A(k) \in Nat /\ (k < x => A(k) <= A(x))
      BY <1>3, <1>4, <2>1, <2>2
    <3> HIDE DEF A
    <3> QED BY <3>1, <3>2, <3>3, <1>3
  <2>4. \A x \in 1..n : \/ x < k /\ x \in 1..(n-1) /\ s[p[x]] = A(x)
                        \/ x = k /\ s[p[x]] = s[n]
                        \/ x > k /\ (x - 1) \in 1..(n-1) /\ s[p[x]] = A(x - 1)
    BY <1>6
  <2>5. s[n] \in Nat
    OBVIOUS
  <2> HIDE DEF A
  <2> QED
    BY <2>1, <2>2, <2>3, <2>4, <2>5, <1>10, <1>3
<1> HIDE DEF p
<1>11. Sorts(p, s, n)
  BY <1>7, <1>8, <1>9, <1>10 DEF Sorts
<1> QED BY <1>11

(* Every list can be sorted: the least number for which one of that length *)
(* could not would not be 0, and SortStep would sort it all the same.      *)
LEMMA SortExists ==
  ASSUME NEW n \in Nat, NEW s, \A i \in 1..n : s[i] \in Nat
  PROVE  \E p : Sorts(p, s, n)
<1> DEFINE T == {m \in 0..n : ~ \E p : Sorts(p, s, m)}
<1> SUFFICES ASSUME T # {} PROVE FALSE
  OBVIOUS
<1>1. PICK m \in T : \A y \in T : m <= y
  <2>1. T \subseteq Nat
    OBVIOUS
  <2> HIDE DEF T
  <2> QED BY <2>1, NatMin
<1>2. m # 0
  <2>1. Sorts(<<>>, s, 0)
    BY DEF Sorts
  <2> QED BY <2>1
<1>3. \E q : Sorts(q, s, m - 1)
  BY <1>1, <1>2
<1>4. \E p : Sorts(p, s, m)
  BY <1>2, <1>3, SortStep
<1> QED
  BY <1>4

LEMMA SortedIs ==
  ASSUME NEW s \in Seq(Nat)
  PROVE  \E p : Sorts(p, s, Len(s)) /\ Sorted(s) = At(s, p)
<1> DEFINE D == DOMAIN s
           P(p) == p \in Bijection(D, D) /\ InOrder(At(s, p))
<1>1. D = 1..Len(s) /\ Len(s) \in Nat /\ \A i \in 1..Len(s) : s[i] \in Nat
  OBVIOUS
<1>2. \A p : P(p) <=> Sorts(p, s, Len(s))
  <2> TAKE p
  <2>1. p \in Bijection(D, D) <=>
          /\ p \in [D -> D]
          /\ \A i, j \in D : p[i] = p[j] => i = j
          /\ \A k \in D : \E i \in D : p[i] = k
    BY DEF Bijection, Injection, Surjection, IsInjective
  <2>2. p \in [D -> D] => (InOrder(At(s, p)) <=> \A i, j \in D : i < j => s[p[i]] <= s[p[j]])
    <3> SUFFICES ASSUME p \in [D -> D]
                 PROVE  InOrder(At(s, p)) <=> \A i, j \in D : i < j => s[p[i]] <= s[p[j]]
      OBVIOUS
    <3>1. DOMAIN At(s, p) = D /\ \A i \in D : At(s, p)[i] = s[p[i]]
      BY DEF At
    <3> DEFINE q == At(s, p)
    <3>2. DOMAIN q = D /\ \A i \in D : q[i] = s[p[i]]
      BY <3>1
    <3> HIDE DEF D, q
    <3>3. InOrder(q) <=> \A i, j \in D : i < j => s[p[i]] <= s[p[j]]
      BY <3>2 DEF InOrder
    <3> QED BY <3>3 DEF q
  <2> HIDE DEF D
  <2> QED
    BY <2>1, <2>2, <1>1 DEF Sorts
<1>3. PICK p : P(p)
  BY <1>1, <1>2, SortExists
<1>4. Sorted(s) = At(s, CHOOSE q \in Bijection(D, D) : InOrder(At(s, q)))
  BY DEF Sorted
<1> DEFINE c == CHOOSE q \in Bijection(D, D) : InOrder(At(s, q))
<1>5. P(c)
  BY <1>3
<1> QED
  BY <1>2, <1>4, <1>5

(* x is in the list at one place, or at none. *)
Once(s, x)  == \E i \in DOMAIN s : s[i] = x /\ \A j \in DOMAIN s : s[j] = x => j = i
Never(s, x) == \A i \in DOMAIN s : s[i] # x

(* Sorting moves the members of a list, and neither loses nor doubles any. *)
LEMMA SortedKeeps ==
  ASSUME NEW S, S \subseteq Nat, NEW s \in Seq(S)
  PROVE  /\ Sorted(s) \in Seq(S) /\ InOrder(Sorted(s))
         /\ Len(Sorted(s)) = Len(s)
         /\ \A x : Once(s, x) => Once(Sorted(s), x)
         /\ \A x : Never(s, x) => Never(Sorted(s), x)
<1> DEFINE n == Len(s)
<1>1. s \in Seq(Nat) /\ n \in Nat /\ DOMAIN s = 1..n /\ \A i \in 1..n : s[i] \in S
  <2>1. n \in Nat /\ DOMAIN s = 1..n /\ \A i \in 1..n : s[i] \in S
    OBVIOUS
  <2>2. s = [i \in 1..n |-> s[i]] /\ \A i \in 1..n : s[i] \in Nat
    BY <2>1
  <2> QED BY <2>1, <2>2
<1>2. PICK p : Sorts(p, s, n) /\ Sorted(s) = At(s, p)
  BY <1>1, SortedIs
<1>3. /\ p \in [1..n -> 1..n]
      /\ \A i, j \in 1..n : p[i] = p[j] => i = j
      /\ \A k \in 1..n : \E i \in 1..n : p[i] = k
      /\ \A i, j \in 1..n : i < j => s[p[i]] <= s[p[j]]
  BY <1>2 DEF Sorts
<1>4. Sorted(s) = [i \in 1..n |-> s[p[i]]]
  BY <1>2, <1>3 DEF At
<1> HIDE DEF n
<1>5. DOMAIN Sorted(s) = 1..n /\ \A i \in 1..n : Sorted(s)[i] = s[p[i]]
  BY <1>4
<1>6. Sorted(s) \in Seq(S) /\ Len(Sorted(s)) = n
  <2>1. \A i \in 1..n : s[p[i]] \in S
    BY <1>1, <1>3
  <2> QED BY <2>1, <1>4, <1>1
<1>7. InOrder(Sorted(s))
  <2> SUFFICES ASSUME NEW i \in 1..n, NEW j \in 1..n, i < j
               PROVE  Sorted(s)[i] <= Sorted(s)[j]
    BY <1>5 DEF InOrder
  <2>1. Sorted(s)[i] = s[p[i]] /\ Sorted(s)[j] = s[p[j]] /\ s[p[i]] <= s[p[j]]
    BY <1>3, <1>5
  <2> QED BY <2>1
<1>8. ASSUME NEW x, Once(s, x) PROVE Once(Sorted(s), x)
  <2>1. PICK k \in 1..n : s[k] = x /\ \A j \in 1..n : s[j] = x => j = k
    BY <1>8, <1>1 DEF Once
  <2>2. PICK i \in 1..n : p[i] = k
    BY <1>3
  <2>3. Sorted(s)[i] = x
    BY <2>1, <2>2, <1>5
  <2>4. ASSUME NEW j \in 1..n, Sorted(s)[j] = x PROVE j = i
    <3>1. p[j] \in 1..n /\ s[p[j]] = x
      BY <2>4, <1>3, <1>5
    <3> QED BY <3>1, <2>1, <2>2, <1>3
  <2> QED BY <2>3, <2>4, <1>5 DEF Once
<1>9. ASSUME NEW x, Never(s, x) PROVE Never(Sorted(s), x)
  BY <1>9, <1>1, <1>3, <1>5 DEF Never
<1> QED
  BY <1>6, <1>7, <1>8, <1>9 DEF n

(* The list of a finite set has its members, each once, in order. *)
LEMMA ListedIs ==
  ASSUME NEW S, S \subseteq Nat, IsFiniteSet(S)
  PROVE  /\ Listed(S) \in Seq(S) /\ InOrder(Listed(S))
         /\ \A x \in S : Once(Listed(S), x)
<1> DEFINE n == Cardinality(S)
           s == SetToSeq(S)
<1>1. n \in Nat /\ ExistsBijection(1..n, S)
  BY FS_CardinalityType
<1>2. PICK g \in [1..n -> S] : IsInjective(g)
  BY <1>1 DEF ExistsBijection, Bijection, Injection
<1>3. s \in [1..n -> S] /\ IsInjective(s)
  BY <1>2 DEF SetToSeq
<1> HIDE DEF s
<1>4. IsFiniteSet(1..n) /\ Cardinality(1..n) = n
  <2>1. 1 \in Int /\ n \in Int
    BY <1>1
  <2>2. IsFiniteSet(1..n) /\ Cardinality(1..n) = IF 1 > n THEN 0 ELSE n - 1 + 1
    BY <2>1, FS_Interval
  <2> QED BY <1>1, <2>2
<1>5. s \in Surjection(1..n, S)
  <2>1. s \in Injection(1..n, S)
    BY <1>3 DEF Injection
  <2> QED BY <2>1, <1>4, FS_Injection
<1>6. s \in Seq(S) /\ DOMAIN s = 1..n
  BY <1>1, <1>3
<1>7. ASSUME NEW x \in S PROVE Once(s, x)
  <2>1. PICK i \in 1..n : s[i] = x
    BY <1>5 DEF Surjection
  <2>2. \A j \in 1..n : s[j] = x => j = i
    BY <2>1, <1>3 DEF IsInjective
  <2> QED BY <2>1, <2>2, <1>6 DEF Once
<1>8. Listed(S) = Sorted(s)
  BY DEF Listed, s
<1> QED
  BY <1>6, <1>7, <1>8, SortedKeeps

(* What is dropped is gone, and the others are as they were. *)
LEMMA DroppedIs ==
  ASSUME NEW S, NEW s \in Seq(S), NEW x
  PROVE  /\ Dropped(s, x) \in Seq(S) /\ Never(Dropped(s, x), x)
         /\ \A y : y # x /\ Once(s, y) => Once(Dropped(s, x), y)
         /\ \A y : Never(s, y) => Never(Dropped(s, x), y)
<1> DEFINE I == {i \in DOMAIN s : s[i] # x}
           l == Listed(I)
<1>1. I \subseteq Nat /\ IsFiniteSet(I)
  <2>1. Len(s) \in Nat /\ DOMAIN s = 1..Len(s)
    OBVIOUS
  <2>2. IsFiniteSet(1..Len(s))
    <3>1. 1 \in Int /\ Len(s) \in Int
      BY <2>1
    <3> QED BY <3>1, FS_Interval
  <2> QED BY <2>1, <2>2, FS_Subset
<1>2. l \in Seq(I) /\ \A i \in I : Once(l, i)
  BY <1>1, ListedIs
<1>3. Dropped(s, x) = At(s, l)
  BY DEF Dropped
<1> HIDE DEF l
<1>4. Dropped(s, x) = [k \in 1..Len(l) |-> s[l[k]]] /\ Len(l) \in Nat
  BY <1>2, <1>3 DEF At
<1>5. \A k \in 1..Len(l) : l[k] \in DOMAIN s /\ s[l[k]] # x /\ s[l[k]] \in S
  BY <1>2
<1>6. Dropped(s, x) \in Seq(S)
  BY <1>4, <1>5
<1>7. DOMAIN Dropped(s, x) = 1..Len(l) /\ DOMAIN l = 1..Len(l)
  BY <1>2, <1>4
<1>8. Never(Dropped(s, x), x)
  BY <1>4, <1>5 DEF Never
<1>9. ASSUME NEW y, y # x, Once(s, y) PROVE Once(Dropped(s, x), y)
  <2>1. PICK i \in DOMAIN s : s[i] = y /\ \A j \in DOMAIN s : s[j] = y => j = i
    BY <1>9 DEF Once
  <2>2. i \in I
    BY <2>1, <1>9
  <2>3. PICK k \in 1..Len(l) : l[k] = i /\ \A m \in 1..Len(l) : l[m] = i => m = k
    BY <2>2, <1>2, <1>7 DEF Once
  <2>4. Dropped(s, x)[k] = y
    BY <2>1, <2>3, <1>4
  <2>5. ASSUME NEW m \in 1..Len(l), Dropped(s, x)[m] = y PROVE m = k
    <3>1. s[l[m]] = y /\ l[m] \in DOMAIN s
      BY <2>5, <1>4, <1>5
    <3> QED BY <3>1, <2>1, <2>3
  <2> QED BY <2>4, <2>5, <1>7 DEF Once
<1>10. ASSUME NEW y, Never(s, y) PROVE Never(Dropped(s, x), y)
  BY <1>10, <1>4, <1>5, <1>7 DEF Never
<1> QED
  BY <1>6, <1>8, <1>9, <1>10

(* The two as numbers. *)
LEMMA OnceIsOne ==
  ASSUME NEW s, NEW x
  PROVE  /\ Once(s, x) => Cardinality({i \in DOMAIN s : s[i] = x}) = 1
         /\ Never(s, x) => Cardinality({i \in DOMAIN s : s[i] = x}) = 0
<1>1. ASSUME Once(s, x) PROVE Cardinality({i \in DOMAIN s : s[i] = x}) = 1
  <2>1. PICK i : {j \in DOMAIN s : s[j] = x} = {i}
    BY <1>1 DEF Once
  <2> QED BY <2>1, FS_Singleton
<1>2. ASSUME Never(s, x) PROVE Cardinality({i \in DOMAIN s : s[i] = x}) = 0
  <2>1. {j \in DOMAIN s : s[j] = x} = {}
    BY <1>2 DEF Never
  <2> QED BY <2>1, FS_EmptySet
<1> QED BY <1>1, <1>2

(* The members of S, each once and in order: there is one such list.      *)
Lists(s, S) ==
  /\ s \in Seq(S) /\ \A x \in S : \E i \in DOMAIN s : s[i] = x
  /\ \A i, j \in DOMAIN s : i < j => s[i] < s[j]

LEMMA NoneMissing ==
  ASSUME NEW S, S \subseteq Nat, NEW s, NEW t, Lists(s, S), Lists(t, S),
         NEW i \in DOMAIN t, \A k \in 1..(i - 1) : k \in DOMAIN s /\ s[k] = t[k]
  PROVE  i \in DOMAIN s /\ s[i] <= t[i]
<1>0. /\ s \in Seq(S) /\ DOMAIN s = 1..Len(s) /\ Len(s) \in Nat
      /\ t \in Seq(S) /\ DOMAIN t = 1..Len(t) /\ Len(t) \in Nat
  BY DEF Lists
<1>1. /\ \A k \in DOMAIN s : s[k] \in Nat /\ k \in Nat
      /\ \A k \in DOMAIN t : t[k] \in Nat /\ k \in Nat
      /\ DOMAIN s = 1..Len(s) /\ Len(s) \in Nat /\ DOMAIN t = 1..Len(t) /\ Len(t) \in Nat
  <2>1. \A k \in 1..Len(s) : s[k] \in S /\ k \in Nat
    BY <1>0
  <2>2. \A k \in 1..Len(t) : t[k] \in S /\ k \in Nat
    BY <1>0
  <2>3. \A x \in S : x \in Nat
    OBVIOUS
  <2> QED
    BY <1>0, <2>1, <2>2, <2>3
<1>2. t[i] \in S
  BY <1>1 DEF Lists
<1>3. PICK j \in DOMAIN s : s[j] = t[i]
  BY <1>2 DEF Lists
<1>4. ~(j < i)
  <2> SUFFICES ASSUME j < i PROVE FALSE
    OBVIOUS
  <2>1. j \in 1..(i - 1) /\ j \in DOMAIN t
    BY <1>1
  <2>2. t[j] = t[i]
    BY <1>3, <2>1
  <2>3. t[j] < t[i]
    BY <2>1 DEF Lists
  <2> QED
    BY <1>1, <2>1, <2>2, <2>3
<1>5. i \in DOMAIN s
  BY <1>1, <1>4
<1>6. i < j => s[i] < s[j]
  BY <1>5 DEF Lists
<1> QED
  BY <1>1, <1>3, <1>4, <1>5, <1>6

LEMMA ListsUnique ==
  ASSUME NEW S, S \subseteq Nat, NEW s, NEW t, Lists(s, S), Lists(t, S)
  PROVE  s = t
<1> DEFINE D == {i \in DOMAIN s \cup DOMAIN t :
                   ~(i \in DOMAIN s /\ i \in DOMAIN t /\ s[i] = t[i])}
<1>1. /\ DOMAIN s = 1..Len(s) /\ Len(s) \in Nat /\ DOMAIN t = 1..Len(t) /\ Len(t) \in Nat
      /\ \A k \in DOMAIN s : s[k] \in Nat
      /\ \A k \in DOMAIN t : t[k] \in Nat
      /\ s = [k \in DOMAIN s |-> s[k]] /\ t = [k \in DOMAIN t |-> t[k]]
  BY DEF Lists
<1>2. D \subseteq Nat
  BY <1>1
<1>3. ASSUME D # {} PROVE FALSE
  <2>1. PICK i \in D : \A k \in D : i <= k
    <3> HIDE DEF D
    <3> QED BY <1>2, <1>3, NatMin
  <2>2. i \in Nat /\ i # 0
    BY <1>1
  <2>3. \A k \in 1..(i - 1) : k \notin D /\ (k \in DOMAIN s \/ k \in DOMAIN t)
    <3>1. \A k \in 1..(i - 1) : ~(i <= k)
      BY <2>2
    <3>2. \A k \in 1..(i - 1) : k \in DOMAIN s \/ k \in DOMAIN t
      BY <1>1, <2>2
    <3> QED BY <2>1, <3>1, <3>2
  <2>4. \A k \in 1..(i - 1) : k \in DOMAIN s /\ k \in DOMAIN t /\ s[k] = t[k]
    BY <2>3
  <2>5. i \in DOMAIN t => i \in DOMAIN s /\ s[i] <= t[i]
    BY <2>4, NoneMissing
  <2>6. i \in DOMAIN s => i \in DOMAIN t /\ t[i] <= s[i]
    BY <2>4, NoneMissing
  <2>7. i \in DOMAIN s /\ i \in DOMAIN t /\ s[i] <= t[i] /\ t[i] <= s[i]
    BY <2>1, <2>5, <2>6
  <2>8. s[i] = t[i]
    BY <1>1, <2>7
  <2> QED
    BY <2>7, <2>8
<1>4. DOMAIN s = DOMAIN t /\ \A k \in DOMAIN s : s[k] = t[k]
  BY <1>3
<1> QED
  BY <1>1, <1>4

LEMMA ListedLists ==
  ASSUME NEW S, S \subseteq Nat, IsFiniteSet(S)
  PROVE  Lists(Listed(S), S)
<1> DEFINE l == Listed(S)
<1>1. l \in Seq(S) /\ InOrder(l) /\ \A x \in S : Once(l, x)
  BY ListedIs
<1> HIDE DEF l
<1>2. \A i \in DOMAIN l : l[i] \in S /\ l[i] \in Nat /\ i \in Nat
  <2>1. l \in Seq(S) /\ DOMAIN l = 1..Len(l) /\ Len(l) \in Nat
    BY <1>1
  <2>2. \A i \in 1..Len(l) : l[i] \in S /\ i \in Nat
    BY <2>1
  <2> QED BY <2>1, <2>2
<1>3. ASSUME NEW i \in DOMAIN l, NEW j \in DOMAIN l, i < j PROVE l[i] < l[j]
  <2>1. l[i] <= l[j]
    BY <1>1, <1>3 DEF InOrder
  <2>2. l[i] # l[j]
    <3>1. PICK k \in DOMAIN l : \A m \in DOMAIN l : l[m] = l[i] => m = k
      BY <1>1, <1>2 DEF Once
    <3>2. i = k /\ (l[j] = l[i] => j = k) /\ i # j
      BY <3>1, <1>2, <1>3
    <3> QED BY <3>2
  <2> QED BY <1>2, <2>1, <2>2
<1>4. \A x \in S : \E i \in DOMAIN l : l[i] = x
  BY <1>1 DEF Once
<1> QED
  BY <1>1, <1>3, <1>4 DEF Lists, l

(* A greater number is listed last. *)
LEMMA ListedAppend ==
  ASSUME NEW S, S \subseteq Nat, IsFiniteSet(S), NEW m \in Nat, \A x \in S : x < m
  PROVE  Listed(S \cup {m}) = Append(Listed(S), m)
<1> DEFINE l == Listed(S)
           s == Append(l, m)
<1>1. Lists(l, S)
  BY ListedLists
<1>2. S \cup {m} \subseteq Nat /\ IsFiniteSet(S \cup {m})
  BY FS_AddElement
<1>3. Lists(Listed(S \cup {m}), S \cup {m})
  BY <1>2, ListedLists
<1> HIDE DEF l
<1>4. l \in Seq(S) /\ l \in Seq(S \cup {m}) /\ Len(l) \in Nat /\ DOMAIN l = 1..Len(l)
  <2>1. l \in Seq(S)
    BY <1>1 DEF Lists
  <2> QED BY <2>1
<1>5. /\ s \in Seq(S \cup {m}) /\ DOMAIN s = 1..(Len(l) + 1)
      /\ s[Len(l) + 1] = m /\ \A i \in 1..Len(l) : s[i] = l[i] /\ l[i] \in S
  BY <1>4
<1> HIDE DEF s
<1>6. ASSUME NEW i \in DOMAIN s, NEW j \in DOMAIN s, i < j PROVE s[i] < s[j]
  <2>1. i \in 1..Len(l) /\ s[i] \in S
    BY <1>4, <1>5, <1>6
  <2>2. CASE j = Len(l) + 1
    BY <1>5, <2>1, <2>2
  <2>3. CASE j \in 1..Len(l)
    BY <1>1, <1>4, <1>5, <1>6, <2>1, <2>3 DEF Lists
  <2> QED BY <1>4, <1>5, <2>2, <2>3
<1>7. ASSUME NEW x \in S \cup {m} PROVE \E i \in DOMAIN s : s[i] = x
  <2>1. CASE x = m
    BY <1>4, <1>5, <2>1
  <2>2. CASE x \in S
    <3>1. PICK i \in 1..Len(l) : l[i] = x
      BY <1>1, <1>4, <2>2 DEF Lists
    <3> QED BY <1>4, <1>5, <3>1
  <2> QED BY <2>1, <2>2
<1>8. Lists(s, S \cup {m})
  BY <1>5, <1>6, <1>7 DEF Lists
<1>9. Listed(S \cup {m}) = s
  BY <1>2, <1>3, <1>8, ListsUnique
<1> QED
  BY <1>9 DEF s, l
=============================================================================
