---------------------------- MODULE InOrderProofs ----------------------------
(* What the selection of places does when a place is added behind the others, *)
(* when the first place goes and when all of them move up by one; and, for    *)
(* the proofs about the two descriptor rings, smallest and greatest elements. *)
EXTENDS InOrder, FiniteSetsExt, FiniteSetTheorems, SequenceTheorems,
        NaturalsInduction, WellFoundedInduction, TLAPS

\* A set of naturals has a smallest element, a bounded one a greatest.
LEMMA SmallestOf ==
    ASSUME NEW S \in SUBSET Nat, S # {}
    PROVE  \E m \in S : \A n \in S : m <= n
<1>1. PICK m \in S : \A n \in S : ~ (<<n, m>> \in OpToRel(<, Nat))
  BY NatLessThanWellFounded, WFMin
<1>2. \A n \in S : ~ (n < m)
  BY <1>1 DEF OpToRel
<1>3. QED
  BY <1>2

LEMMA MaxOf ==
    ASSUME NEW S \in SUBSET Nat, S # {}, NEW b \in Nat, \A n \in S : n <= b
    PROVE  Max(S) \in S /\ \A n \in S : n <= Max(S)
<1> DEFINE T == {b - n : n \in S}
<1>1. T \in SUBSET Nat
  <2>1. \A n \in S : b - n \in Nat
    OBVIOUS
  <2>2. QED
    BY <2>1
<1>2. PICK e \in S : TRUE
  OBVIOUS
<1>3. b - e \in T
  OBVIOUS
<1>4. PICK t \in T : \A u \in T : t <= u
  BY <1>1, <1>3, SmallestOf
<1>5. PICK m \in S : t = b - m
  OBVIOUS
<1>6. \A n \in S : m >= n
  <2> TAKE n \in S
  <2>1. t <= b - n
    BY <1>4
  <2>2. QED
    BY <2>1, <1>5
<1>7. QED
  BY <1>6 DEF Max

LEMMA MinOfTwo ==
    ASSUME NEW a \in Nat, NEW b \in Nat
    PROVE  Min({a, b}) \in {a, b} /\ Min({a, b}) <= a /\ Min({a, b}) <= b
<1>1. \E x \in {a, b} : \A y \in {a, b} : x =< y
  OBVIOUS
<1>2. QED
  BY <1>1 DEF Min

-----------------------------------------------------------------------------
\* f lists the n numbers of S, smallest first.
Lists(f, n, S) ==
    /\ n \in Nat /\ f \in [1 .. n -> S]
    /\ \A i, j \in 1 .. n : i < j => f[i] < f[j]
    /\ \A x \in S : \E i \in 1 .. n : f[i] = x

\* One more number, greater than all of them, goes to the end of the list.
LEMMA ListsMore ==
    ASSUME NEW S \in SUBSET Nat, NEW f, NEW n, Lists(f, n, S),
           NEW c \in Nat, \A x \in S : x < c
    PROVE  Lists([i \in 1 .. n + 1 |-> IF i <= n THEN f[i] ELSE c], n + 1, S \cup {c})
<1> DEFINE g == [i \in 1 .. n + 1 |-> IF i <= n THEN f[i] ELSE c]
<1>1. n \in Nat /\ f \in [1 .. n -> S]
  BY DEF Lists
<1>2. \A i \in 1 .. n : g[i] = f[i] /\ g[i] \in S
  BY <1>1
<1>3. g[n + 1] = c /\ \A i \in 1 .. n + 1 : i \in 1 .. n \/ i = n + 1
  BY <1>1
<1>4. g \in [1 .. n + 1 -> S \cup {c}]
  BY <1>1
<1> HIDE DEF g
<1>5. ASSUME NEW i \in 1 .. n + 1, NEW j \in 1 .. n + 1, i < j
      PROVE  g[i] < g[j]
  <2>1. i \in 1 .. n
    BY <1>1, <1>5
  <2>2. CASE j \in 1 .. n
    BY <1>2, <1>5, <2>1, <2>2 DEF Lists
  <2>3. CASE j = n + 1
    BY <1>2, <1>3, <2>1, <2>3
  <2>4. QED
    BY <1>3, <2>2, <2>3
<1>6. ASSUME NEW x \in S \cup {c}
      PROVE  \E i \in 1 .. n + 1 : g[i] = x
  <2>1. CASE x = c
    BY <1>1, <1>3, <2>1
  <2>2. CASE x \in S
    <3>1. PICK i \in 1 .. n : f[i] = x
      BY <2>2 DEF Lists
    <3>2. i \in 1 .. n + 1
      BY <1>1
    <3>3. QED
      BY <1>2, <3>1, <3>2
  <2>3. QED
    BY <2>1, <2>2
<1>7. Lists(g, n + 1, S \cup {c})
  BY <1>1, <1>4, <1>5, <1>6 DEF Lists
<1>8. QED
  BY <1>7 DEF g

\* Every set of numbers up to b can be listed.
LEMMA CanBeListed ==
    ASSUME NEW b \in Nat, NEW S \in SUBSET (1 .. b)
    PROVE  \E n \in Nat : \E f : Lists(f, n, S)
<1> DEFINE Listed(T) == \E n \in Nat : \E f : Lists(f, n, T)
           Bad == {k \in Nat : \E T \in SUBSET (1 .. k) : ~Listed(T)}
<1>1. ASSUME Bad # {} PROVE FALSE
  <2> HIDE DEF Listed
  <2>1. PICK k \in Bad : \A j \in Bad : k <= j
    BY <1>1, SmallestOf
  <2>2. PICK T \in SUBSET (1 .. k) : ~Listed(T)
    BY <2>1
  <2>3. CASE T = {}
    <3>1. Lists([i \in 1 .. 0 |-> 0], 0, T)
      BY <2>3 DEF Lists
    <3>2. QED
      BY <2>2, <3>1 DEF Listed
  <2>4. CASE T # {}
    <3> DEFINE R == T \ {k}
    <3>1. k \in Nat /\ k - 1 \in Nat /\ R \in SUBSET (1 .. k - 1)
      <4>1. k \in Nat
        BY <2>1
      <4>2. k > 0
        <5>1. PICK x \in T : x \in 1 .. k
          BY <2>4
        <5>2. QED
          BY <4>1, <5>1
      <4>3. ASSUME NEW x \in R PROVE x \in 1 .. k - 1
        BY <4>1
      <4>4. QED
        BY <4>1, <4>2, <4>3
    <3>2. Listed(R)
      <4>1. k - 1 \notin Bad
        BY <2>1, <3>1
      <4>2. QED
        BY <3>1, <4>1
    <3>3. CASE k \notin T
      BY <2>2, <3>2, <3>3
    <3>4. CASE k \in T
      <4>1. PICK n \in Nat : \E f : Lists(f, n, R)
        BY <3>2 DEF Listed
      <4>2. PICK f : Lists(f, n, R)
        BY <4>1
      <4>3. R \in SUBSET Nat /\ \A x \in R : x < k
        BY <3>1
      <4>4. T = R \cup {k}
        BY <3>4
      <4> HIDE DEF R
      <4>5. Lists([i \in 1 .. n + 1 |-> IF i <= n THEN f[i] ELSE k], n + 1, T)
        BY <3>1, <4>2, <4>3, <4>4, ListsMore
      <4>6. QED
        BY <2>2, <4>5 DEF Listed
    <3>5. QED
      BY <3>3, <3>4
  <2>5. QED
    BY <2>3, <2>4
<1>2. QED
  <2>1. b \notin Bad
    BY <1>1
  <2>2. QED
    BY <2>1

\* A list counts the numbers of its set.
LEMMA ListCounts ==
    ASSUME NEW S \in SUBSET Nat, NEW f, NEW n, Lists(f, n, S)
    PROVE  n \in Nat /\ IsFiniteSet(S) /\ Cardinality(S) = n
<1>1. n \in Nat /\ f \in [1 .. n -> S]
  BY DEF Lists
<1>2. f \in Injection(1 .. n, S)
  <2>1. ASSUME NEW i \in 1 .. n, NEW j \in 1 .. n, f[i] = f[j] PROVE i = j
    <3>1. f[i] \in Nat /\ f[j] \in Nat
      BY <1>1
    <3>2. ~ (i < j) /\ ~ (j < i)
      BY <2>1, <3>1 DEF Lists
    <3>3. QED
      BY <3>2
  <2>2. DOMAIN f = 1 .. n
    BY <1>1
  <2>3. QED
    BY <1>1, <2>1, <2>2 DEF Injection, IsInjective
<1>3. f \in Surjection(1 .. n, S)
  BY <1>1 DEF Lists, Surjection
<1>4. ExistsBijection(1 .. n, S)
  BY <1>2, <1>3 DEF ExistsBijection, Bijection
<1>5. QED
  BY <1>1, <1>4, FS_NatBijection, FS_CountingElements

\* Its i-th number is the one that i numbers of the set do not exceed.
LEMMA ListRank ==
    ASSUME NEW S \in SUBSET Nat, NEW f, NEW n, Lists(f, n, S), NEW i \in 1 .. n
    PROVE  Cardinality({y \in S : y <= f[i]}) = i
<1> DEFINE U == {y \in S : y <= f[i]}
           g == [j \in 1 .. i |-> f[j]]
<1>0. n \in Nat /\ f \in [1 .. n -> S]
  BY DEF Lists
<1>1. /\ i \in Nat
      /\ \A j \in 1 .. i : j \in 1 .. n
      /\ \A j \in 1 .. n : f[j] \in Nat /\ f[j] \in S
  <2>1. i \in Nat /\ \A j \in 1 .. i : j \in 1 .. n
    BY <1>0
  <2>2. \A j \in 1 .. n : f[j] \in S
    BY <1>0
  <2>3. QED
    BY <2>1, <2>2
<1>2. ASSUME NEW j \in 1 .. i PROVE f[j] \in U
  <2>1. j \in 1 .. n /\ f[j] \in S /\ f[j] \in Nat /\ f[i] \in Nat
    BY <1>1
  <2>2. j < i => f[j] < f[i]
    BY <2>1 DEF Lists
  <2>3. j < i \/ j = i
    BY <1>1
  <2>4. QED
    BY <2>1, <2>2, <2>3
<1>3. ASSUME NEW x \in U PROVE \E j \in 1 .. i : f[j] = x
  <2>1. PICK j \in 1 .. n : f[j] = x
    BY DEF Lists
  <2>2. i < j => f[i] < f[j]
    BY <2>1 DEF Lists
  <2>3. ~ (i < j)
    BY <1>1, <2>1, <2>2
  <2>4. QED
    BY <1>1, <2>1, <2>3
<1>4. /\ g \in [1 .. i -> U]
      /\ \A j \in 1 .. i : g[j] = f[j]
  BY <1>2
<1> HIDE DEF g, U
<1>5. \A j, k \in 1 .. i : j < k => g[j] < g[k]
  BY <1>1, <1>4 DEF Lists
<1>6. Lists(g, i, U)
  BY <1>1, <1>3, <1>4, <1>5 DEF Lists
<1>7. U \in SUBSET Nat
  BY DEF U
<1>8. Cardinality(U) = i
  BY <1>6, <1>7, ListCounts
<1>9. QED
  BY <1>8 DEF U

\* Sorted(S) is the list of S.
LEMMA SortedIs ==
    ASSUME NEW S \in SUBSET Nat, NEW f, NEW n, Lists(f, n, S)
    PROVE  Sorted(S) = f
<1>1. n \in Nat /\ Cardinality(S) = n /\ f \in [1 .. n -> S]
  BY ListCounts DEF Lists
<1> DEFINE Below(x) == {y \in S : y <= x}
<1>2. ASSUME NEW i \in 1 .. n
      PROVE  f[i] = CHOOSE x \in S : Cardinality(Below(x)) = i
  <2>1. f[i] \in S /\ Cardinality(Below(f[i])) = i
    BY <1>1, ListRank
  <2>2. ASSUME NEW x \in S, Cardinality(Below(x)) = i PROVE x = f[i]
    <3>1. PICK j \in 1 .. n : f[j] = x
      BY DEF Lists
    <3>2. Cardinality(Below(f[j])) = j
      BY ListRank
    <3> HIDE DEF Below
    <3>3. QED
      BY <2>2, <3>1, <3>2
  <2> HIDE DEF Below
  <2>3. QED
    BY <2>1, <2>2
<1>3. f = [i \in 1 .. n |-> CHOOSE x \in S : Cardinality(Below(x)) = i]
  <2> HIDE DEF Below
  <2>1. QED
    BY <1>1, <1>2
<1>4. QED
  BY <1>1, <1>3 DEF Sorted

LEMMA SortedLists ==
    ASSUME NEW b \in Nat, NEW S \in SUBSET (1 .. b)
    PROVE  \E n \in Nat : Lists(Sorted(S), n, S)
<1>1. PICK n \in Nat : \E f : Lists(f, n, S)
  BY CanBeListed
<1>2. PICK f : Lists(f, n, S)
  BY <1>1
<1>3. Sorted(S) = f
  BY <1>2, SortedIs
<1>4. QED
  BY <1>2, <1>3
-----------------------------------------------------------------------------
(* Selections. *)

\* A selection is a sequence of the elements at the places.
Along(v, f, n) == [k \in 1 .. n |-> v[f[k]]]

LEMMA SelectedIs ==
    ASSUME NEW S \in SUBSET Nat, NEW v, NEW n, NEW f, Lists(f, n, S)
    PROVE  Selected(v, S) = Along(v, f, n)
<1>1. Sorted(S) = f
  BY SortedIs
<1>2. n \in Nat /\ f \in [1 .. n -> S]
  BY DEF Lists
<1>3. QED
  BY <1>1, <1>2 DEF Selected, Along

LEMMA SelectedType ==
    ASSUME NEW S \in SUBSET Nat, NEW v, NEW n, NEW f, Lists(f, n, S),
           NEW V, \A k \in S : v[k] \in V
    PROVE  Selected(v, S) \in Seq(V) /\ Len(Selected(v, S)) = n
<1>1. n \in Nat /\ f \in [1 .. n -> S]
  BY DEF Lists
<1>2. Selected(v, S) = Along(v, f, n)
  BY SelectedIs
<1>3. Along(v, f, n) \in [1 .. n -> V]
  BY <1>1 DEF Along
<1>4. Selected(v, S) \in Seq(V)
  BY <1>1, <1>2, <1>3, SeqDef
<1>5. QED
  BY <1>1, <1>2, <1>3, <1>4, LenProperties

LEMMA SelectedNone ==
    ASSUME NEW v
    PROVE  Selected(v, {}) = <<>>
<1> DEFINE f == [i \in 1 .. 0 |-> 0]
<1>1. Lists(f, 0, {})
  BY DEF Lists
<1>2. Sorted({}) = f
  BY <1>1, SortedIs
<1>3. QED
  BY <1>2 DEF Selected

\* Elsewhere the two sequences may differ.
LEMMA SelectedSame ==
    ASSUME NEW b \in Nat, NEW S \in SUBSET (1 .. b), NEW v, NEW w,
           \A k \in S : w[k] = v[k]
    PROVE  Selected(w, S) = Selected(v, S)
<1>1. PICK n \in Nat : Lists(Sorted(S), n, S)
  BY SortedLists
<1>2. Sorted(S) \in [1 .. n -> S]
  BY <1>1 DEF Lists
<1>3. QED
  BY <1>2 DEF Selected

\* The selection from w at T is that from v at S with x behind it, or without its
\* first element.
WithLast(w, T, v, S, x) == Selected(w, T) = Append(Selected(v, S), x)
WithoutFirst(w, T, v, S) ==
    /\ Selected(v, S) # <<>>
    /\ Head(Selected(v, S)) = v[1]
    /\ Selected(w, T) = Tail(Selected(v, S))

\* A place behind all others appends its element.
LEMMA SelectedMore ==
    ASSUME NEW b \in Nat, NEW S \in SUBSET (1 .. b), NEW c \in Nat,
           \A k \in S : k < c, NEW v, NEW w, \A k \in S : w[k] = v[k]
    PROVE  WithLast(w, S \cup {c}, v, S, w[c])
<1>1. PICK n \in Nat : \E f : Lists(f, n, S)
  BY CanBeListed
<1>2. PICK f : Lists(f, n, S)
  BY <1>1
<1>0. S \in SUBSET Nat
  OBVIOUS
<1> DEFINE g == [i \in 1 .. n + 1 |-> IF i <= n THEN f[i] ELSE c]
           a == Selected(v, S)
           V == {v[k] : k \in S}
<1>3. f \in [1 .. n -> S] /\ a = [k \in 1 .. n |-> v[f[k]]]
  <2>1. a = Along(v, f, n)
    BY <1>0, <1>2, SelectedIs
  <2>2. QED
    BY <1>2, <2>1 DEF Lists, Along
<1>4. a \in Seq(V) /\ Len(a) = n
  <2> \A k \in S : v[k] \in V
    OBVIOUS
  <2> HIDE DEF V
  <2>1. QED
    BY <1>0, <1>2, SelectedType
<1>5. Selected(w, S \cup {c}) = [k \in 1 .. n + 1 |-> w[g[k]]]
  <2>1. Lists(g, n + 1, S \cup {c}) /\ S \cup {c} \in SUBSET Nat
    BY <1>0, <1>2, ListsMore
  <2> HIDE DEF g
  <2>2. Selected(w, S \cup {c}) = Along(w, g, n + 1)
    BY <2>1, SelectedIs
  <2>3. QED
    BY <2>2 DEF Along
<1>6. Append(a, w[c]) = [k \in 1 .. n + 1 |-> IF k <= n THEN a[k] ELSE w[c]]
  <2> HIDE DEF a, V
  <2>1. Append(a, w[c]) = [k \in 1 .. Len(a) + 1 |-> IF k <= Len(a) THEN a[k] ELSE w[c]]
    BY <1>4
  <2>2. QED
    BY <1>4, <2>1
<1>7. ASSUME NEW k \in 1 .. n + 1
      PROVE  w[g[k]] = IF k <= n THEN a[k] ELSE w[c]
  <2>1. CASE k <= n
    <3>1. k \in 1 .. n
      BY <2>1
    <3>2. f[k] \in S /\ g[k] = f[k] /\ a[k] = v[f[k]]
      BY <1>3, <2>1, <3>1
    <3> HIDE DEF g, a
    <3>3. QED
      BY <2>1, <3>2
  <2>2. CASE ~(k <= n)
    BY <2>2
  <2>3. QED
    BY <2>1, <2>2
<1> HIDE DEF g, a
<1>8. QED
  BY <1>5, <1>6, <1>7 DEF a, WithLast

\* All places but the first, moved up by one.
LEMMA ListsRest ==
    ASSUME NEW b \in Nat, NEW S \in SUBSET (1 .. b), 1 \in S, NEW f, NEW n, Lists(f, n, S),
           NEW T \in SUBSET (1 .. b), \A k \in Nat : k \in T <=> k > 0 /\ k + 1 \in S
    PROVE  /\ n > 0 /\ f[1] = 1
           /\ Lists([k \in 1 .. n - 1 |-> f[k + 1] - 1], n - 1, T)
<1> DEFINE g == [k \in 1 .. n - 1 |-> f[k + 1] - 1]
<1>1. n \in Nat /\ f \in [1 .. n -> S] /\ \A k \in 1 .. n : f[k] \in 1 .. b
  BY DEF Lists
<1>2. n > 0 /\ f[1] = 1
  <2>1. PICK i \in 1 .. n : f[i] = 1
    BY DEF Lists
  <2>2. n > 0 /\ 1 \in 1 .. n
    BY <1>1, <2>1
  <2>3. i # 1 => f[1] < f[i]
    BY <1>1, <2>1, <2>2 DEF Lists
  <2>4. f[1] >= 1
    BY <1>1, <2>2
  <2>5. f[1] \in Int
    BY <1>1, <2>2
  <2>6. QED
    BY <2>1, <2>2, <2>3, <2>4, <2>5
<1>3. ASSUME NEW k \in 1 .. n - 1 PROVE f[k + 1] - 1 \in T
  <2>1. k + 1 \in 1 .. n /\ 1 \in 1 .. n /\ 1 < k + 1
    BY <1>1
  <2>2. f[1] < f[k + 1] /\ f[k + 1] \in S /\ f[k + 1] \in Nat
    BY <1>1, <2>1 DEF Lists
  <2>3. f[k + 1] - 1 \in Nat /\ f[k + 1] - 1 > 0 /\ (f[k + 1] - 1) + 1 = f[k + 1]
    BY <1>2, <2>2
  <2>4. QED
    BY <2>2, <2>3
<1>4. g \in [1 .. n - 1 -> T] /\ n - 1 \in Nat
  BY <1>1, <1>2, <1>3
<1>5. ASSUME NEW i \in 1 .. n - 1, NEW j \in 1 .. n - 1, i < j
      PROVE  g[i] < g[j]
  <2>1. i + 1 \in 1 .. n /\ j + 1 \in 1 .. n /\ i + 1 < j + 1
    BY <1>1, <1>5
  <2>2. f[i + 1] < f[j + 1]
    BY <2>1 DEF Lists
  <2>4. f[i + 1] \in Nat /\ f[j + 1] \in Nat
    <3>1. \A k \in 1 .. n : f[k] \in Nat
      BY <1>1
    <3>2. QED
      BY <2>1, <3>1
  <2>3. QED
    BY <2>2, <2>4
<1>6. ASSUME NEW x \in T PROVE \E i \in 1 .. n - 1 : g[i] = x
  <2>1. x \in Nat /\ x > 0 /\ x + 1 \in S
    OBVIOUS
  <2>2. PICK i \in 1 .. n : f[i] = x + 1
    BY <2>1 DEF Lists
  <2>3. i # 1
    BY <1>2, <2>1, <2>2
  <2>4. i - 1 \in 1 .. n - 1 /\ (i - 1) + 1 = i
    BY <1>1, <2>2, <2>3
  <2>5. g[i - 1] = x
    BY <2>1, <2>2, <2>4
  <2> HIDE DEF g
  <2>6. QED
    BY <2>4, <2>5
<1> HIDE DEF g
<1>7. Lists(g, n - 1, T)
  BY <1>4, <1>5, <1>6 DEF Lists
<1>8. QED
  BY <1>2, <1>7 DEF g

LEMMA SelectedRest ==
    ASSUME NEW b \in Nat, NEW S \in SUBSET (1 .. b), 1 \in S,
           NEW T \in SUBSET (1 .. b), \A k \in Nat : k \in T <=> k > 0 /\ k + 1 \in S,
           NEW v, NEW w, \A k \in T : w[k] = v[k + 1]
    PROVE  WithoutFirst(w, T, v, S)
<1>1. PICK n \in Nat : \E f : Lists(f, n, S)
  BY CanBeListed
<1>2. PICK f : Lists(f, n, S)
  BY <1>1
<1>0. S \in SUBSET Nat
  OBVIOUS
<1> DEFINE g == [k \in 1 .. n - 1 |-> f[k + 1] - 1]
           a == Selected(v, S)
           V == {v[k] : k \in S}
<1>3. f \in [1 .. n -> S] /\ a = [k \in 1 .. n |-> v[f[k]]]
  <2>1. a = Along(v, f, n)
    BY <1>0, <1>2, SelectedIs
  <2>2. QED
    BY <1>2, <2>1 DEF Lists, Along
<1>9. a \in Seq(V) /\ Len(a) = n
  <2> \A k \in S : v[k] \in V
    OBVIOUS
  <2> HIDE DEF V
  <2>1. QED
    BY <1>0, <1>2, SelectedType
<1>10. n > 0 /\ f[1] = 1 /\ Lists(g, n - 1, T)
  BY <1>2, ListsRest
<1>4. Selected(w, T) = [k \in 1 .. n - 1 |-> w[g[k]]] /\ g \in [1 .. n - 1 -> T]
  <2> HIDE DEF g
  <2>1. T \in SUBSET Nat
    OBVIOUS
  <2>2. Selected(w, T) = Along(w, g, n - 1)
    BY <1>10, <2>1, SelectedIs
  <2>3. QED
    BY <1>10, <2>2 DEF Lists, Along
<1>5. a # <<>> /\ Head(a) = v[1]
  <2>1. a[1] = v[1]
    BY <1>3, <1>10
  <2> HIDE DEF a, V
  <2>2. QED
    BY <1>9, <1>10, <2>1
<1>6. Tail(a) = [k \in 1 .. n - 1 |-> a[k + 1]]
  <2> HIDE DEF a, V
  <2>1. /\ Tail(a) \in Seq(V) /\ Len(Tail(a)) = n - 1
        /\ \A k \in 1 .. Len(Tail(a)) : Tail(a)[k] = a[k + 1]
    BY <1>9, <1>5, HeadTailProperties
  <2>2. Tail(a) \in [1 .. n - 1 -> V]
    BY <2>1, LenProperties
  <2>3. QED
    BY <2>1, <2>2
<1>7. ASSUME NEW k \in 1 .. n - 1 PROVE a[k + 1] = w[g[k]]
  <2>1. k + 1 \in 1 .. n
    BY <1>10
  <2>2. g[k] \in T
    <3> HIDE DEF g
    <3>1. QED
      BY <1>4
  <2>3. g[k] + 1 = f[k + 1]
    <3>1. \A i \in 1 .. n : f[i] \in Nat
      BY <1>0, <1>2 DEF Lists
    <3>2. f[k + 1] \in Int
      BY <2>1, <3>1
    <3>3. QED
      BY <3>2
  <2>4. a[k + 1] = v[f[k + 1]]
    BY <1>3, <2>1
  <2> HIDE DEF a, g
  <2>5. QED
    BY <2>2, <2>3, <2>4
<1> HIDE DEF a, g
<1>8. QED
  BY <1>4, <1>5, <1>6, <1>7 DEF a, WithoutFirst

\* All places, the first not among them, moved up by one.
LEMMA SelectedShifted ==
    ASSUME NEW b \in Nat, NEW S \in SUBSET (1 .. b), 1 \notin S,
           NEW T \in SUBSET (1 .. b), \A k \in Nat : k \in T <=> k > 0 /\ k + 1 \in S,
           NEW v, NEW w, \A k \in T : w[k] = v[k + 1]
    PROVE  Selected(w, T) = Selected(v, S)
<1>1. PICK n \in Nat : \E f : Lists(f, n, S)
  BY CanBeListed
<1>2. PICK f : Lists(f, n, S)
  BY <1>1
<1>0. S \in SUBSET Nat
  OBVIOUS
<1> DEFINE g == [k \in 1 .. n |-> f[k] - 1]
<1>3. f \in [1 .. n -> S] /\ Selected(v, S) = [k \in 1 .. n |-> v[f[k]]]
  <2>1. Selected(v, S) = Along(v, f, n)
    BY <1>0, <1>2, SelectedIs
  <2>2. QED
    BY <1>2, <2>1 DEF Lists, Along
<1>4. ASSUME NEW k \in 1 .. n PROVE f[k] \in Nat /\ f[k] - 1 \in T
  <2>1. f[k] \in S /\ f[k] \in 1 .. b /\ f[k] # 1
    BY <1>3
  <2>2. f[k] - 1 \in Nat /\ f[k] - 1 > 0 /\ (f[k] - 1) + 1 = f[k]
    BY <2>1
  <2>3. QED
    BY <2>1, <2>2
<1>5. g \in [1 .. n -> T]
  BY <1>4
<1>6. \A i, j \in 1 .. n : i < j => g[i] < g[j]
  <2> TAKE i, j \in 1 .. n
  <2> HAVE i < j
  <2>1. f[i] < f[j] /\ f[i] \in Nat /\ f[j] \in Nat
    BY <1>2, <1>4 DEF Lists
  <2>2. QED
    BY <2>1
<1>7. ASSUME NEW x \in T PROVE \E i \in 1 .. n : g[i] = x
  <2>1. x \in Nat /\ x + 1 \in S
    OBVIOUS
  <2>2. PICK i \in 1 .. n : f[i] = x + 1
    BY <1>2, <2>1 DEF Lists
  <2>3. QED
    BY <2>1, <2>2
<1>8. Selected(w, T) = [k \in 1 .. n |-> w[g[k]]]
  <2> HIDE DEF g
  <2>1. Lists(g, n, T)
    BY <1>5, <1>6, <1>7 DEF Lists
  <2>2. T \in SUBSET Nat
    OBVIOUS
  <2>3. Selected(w, T) = Along(w, g, n)
    BY <2>1, <2>2, SelectedIs
  <2>4. QED
    BY <2>3 DEF Along
<1>9. ASSUME NEW k \in 1 .. n PROVE w[g[k]] = v[f[k]]
  <2>1. g[k] \in T /\ g[k] + 1 = f[k]
    BY <1>4
  <2>2. QED
    BY <2>1
<1>10. QED
  BY <1>3, <1>8, <1>9
=============================================================================
