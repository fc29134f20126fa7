---------------------- MODULE GenerationalCache_proofs ----------------------
(***************************************************************************)
(* Proofs about GenerationalCache, for any objects, transactions, threads, *)
(* sizes and limits.                                                       *)
(***************************************************************************)
EXTENDS GenerationalCache, FiniteSetTheorems, SequenceTheorems, TLAPS

-----------------------------------------------------------------------------
(* Lists without duplicates. *)

\* The length and the members of a list.
LEMMA ListShape ==
    ASSUME NEW S, NEW s \in Seq(S)
    PROVE  /\ Len(s) \in Nat /\ DOMAIN s = 1..Len(s)
           /\ \A k \in 1..Len(s) : s[k] \in S /\ s[k] \in Range(s)
           /\ \A a : a \in Range(s) <=> \E k \in 1..Len(s) : a = s[k]
           /\ Range(s) \subseteq S
           /\ s = <<>> <=> Len(s) = 0
           /\ s = <<>> <=> Range(s) = {}
BY LenProperties, ElementOfSeq, EmptySeq DEF Range

\* An entry becomes the most recently used one.
LEMMA ConsList ==
    ASSUME NEW S, NEW s \in Seq(S), IsInjective(s), NEW a \in S, a \notin Range(s)
    PROVE  /\ Cons(a, s) \in Seq(S) /\ IsInjective(Cons(a, s))
           /\ Range(Cons(a, s)) = Range(s) \cup {a}
           /\ Len(Cons(a, s)) = Len(s) + 1
           /\ Cons(a, s)[1] = a
<1> DEFINE t == Cons(a, s)
<1>1. Len(s) \in Nat /\ DOMAIN s = 1..Len(s)
  BY ListShape
<1>2. /\ t \in Seq(S) /\ Len(t) = Len(s) + 1 /\ t[1] = a
      /\ \A k \in 2..(Len(s) + 1) : t[k] = s[k - 1]
  BY <1>1 DEF Cons
<1> HIDE DEF t
<1>3. DOMAIN t = 1..(Len(s) + 1)
  BY <1>2, ListShape
<1>4. \A k \in 2..(Len(s) + 1) : k - 1 \in 1..Len(s) /\ t[k] # a
  BY <1>1, <1>2, ListShape
<1>5. IsInjective(t)
  BY <1>1, <1>2, <1>3, <1>4 DEF IsInjective
<1>6. ASSUME NEW x PROVE x \in Range(t) <=> x \in Range(s) \/ x = a
  <2>1. ASSUME NEW k \in 1..Len(s) PROVE s[k] = t[k + 1] /\ k + 1 \in 1..Len(t)
    BY <1>1, <1>2
  <2>2. ASSUME x \in Range(s) PROVE x \in Range(t)
    <3>1. PICK k \in 1..Len(s) : x = s[k]
      BY <2>2, ListShape
    <3> QED BY <1>2, <2>1, <3>1, ListShape
  <2>3. a \in Range(t)
    BY <1>1, <1>2, ListShape
  <2>4. x \in Range(t) => x \in Range(s) \/ x = a
    <3> SUFFICES ASSUME NEW k \in 1..(Len(s) + 1), x = t[k], k # 1 PROVE x \in Range(s)
      BY <1>2, ListShape
    <3>1. k \in 2..(Len(s) + 1)
      BY <1>1
    <3> QED BY <1>2, <1>4, <3>1, ListShape
  <2> QED BY <2>2, <2>3, <2>4
<1> QED BY <1>2, <1>5, <1>6 DEF t

\* An entry leaves a list: the others stay in their order.
LEMMA RemoveList ==
    ASSUME NEW S, NEW s \in Seq(S), IsInjective(s), NEW a \in Range(s)
    PROVE  /\ RemoveFirst(s, a) \in Seq(S) /\ IsInjective(RemoveFirst(s, a))
           /\ Range(RemoveFirst(s, a)) = Range(s) \ {a}
           /\ Len(RemoveFirst(s, a)) = Len(s) - 1
           /\ s[1] # a => RemoveFirst(s, a)[1] = s[1]
<1> DEFINE n == Len(s)
<1>1. n \in Nat /\ DOMAIN s = 1..n /\ \A k \in 1..n : s[k] \in S
  BY ListShape
<1>2. PICK i \in 1..n : s[i] = a
  BY ListShape
<1> DEFINE t == RemoveAt(s, i)
<1>3. RemoveFirst(s, a) = t
  <2> DEFINE I == {k \in 1..n : s[k] = a}
  <2>1. I = {i}
    BY <1>1, <1>2 DEF IsInjective
  <2>2. Min(I) = i
    BY <1>1, <2>1 DEF Min
  <2>3. SelectInSeq(s, LAMBDA v : v = a) = i
    BY <2>1, <2>2 DEF SelectInSeq
  <2> QED BY <1>2, <2>3 DEF RemoveFirst
<1>4. /\ t \in Seq(S) /\ Len(t) = n - 1
      /\ \A k \in 1..(n - 1) : t[k] = IF k < i THEN s[k] ELSE s[k + 1]
  <2> DEFINE p == SubSeq(s, 1, i - 1)
             q == SubSeq(s, i + 1, n)
  <2>1. /\ p \in Seq(S) /\ Len(p) = i - 1
        /\ \A k \in 1..(i - 1) : p[k] = s[k]
    BY <1>1, SubSeqProperties
  <2>2. /\ q \in Seq(S) /\ Len(q) = n - i
        /\ \A k \in 1..(n - i) : q[k] = s[i + k]
    <3>1. i + 1 \in Int /\ n \in Int /\ \A k \in (i + 1)..n : s[k] \in S
      BY <1>1
    <3>2. /\ q \in Seq(S) /\ Len(q) = IF i + 1 <= n THEN n - (i + 1) + 1 ELSE 0
          /\ \A k \in 1..(n - (i + 1) + 1) : q[k] = s[(i + 1) + k - 1]
      BY <3>1, SubSeqProperties
    <3> HIDE DEF n, q
    <3>3. n - (i + 1) + 1 = n - i /\ \A k \in 1..(n - i) : (i + 1) + k - 1 = i + k
      BY <1>1
    <3>4. Len(q) = n - i
      <4>1. CASE i + 1 <= n
        BY <3>2, <3>3, <4>1
      <4>2. CASE ~ (i + 1 <= n)
        <5>1. n \in Nat /\ i \in 1..n
          BY <1>1
        <5>2. i = n
          BY <4>2, <5>1
        <5> QED BY <3>2, <4>2, <5>1, <5>2
      <4> QED BY <4>1, <4>2
    <3>5. \A k \in 1..(n - i) : q[k] = s[i + k]
      BY <3>2, <3>3
    <3> QED BY <3>2, <3>4, <3>5
  <2>3. t = p \o q
    BY DEF RemoveAt
  <2> HIDE DEF p, q, t
  <2>4. /\ t \in Seq(S) /\ Len(t) = n - 1
        /\ \A k \in 1..(n - 1) : t[k] = IF k <= i - 1 THEN p[k] ELSE q[k - (i - 1)]
    <3>1. Len(p) + Len(q) = n - 1
      BY <1>1, <2>1, <2>2
    <3>2. /\ t \in Seq(S) /\ Len(t) = Len(p) + Len(q)
          /\ \A k \in 1..(Len(p) + Len(q)) :
                t[k] = IF k <= Len(p) THEN p[k] ELSE q[k - Len(p)]
      BY <2>1, <2>2, <2>3, ConcatProperties
    <3> QED BY <2>1, <3>1, <3>2
  <2>5. ASSUME NEW k \in 1..(n - 1) PROVE t[k] = IF k < i THEN s[k] ELSE s[k + 1]
    <3>1. CASE k < i
      BY <1>1, <2>1, <2>4, <3>1
    <3>2. CASE ~ (k < i)
      <4>1. k - (i - 1) \in 1..(n - i) /\ i + (k - (i - 1)) = k + 1 /\ ~ (k <= i - 1)
        BY <1>1, <3>2
      <4> QED BY <2>2, <2>4, <3>2, <4>1
    <3> QED BY <3>1, <3>2
  <2> QED BY <2>4, <2>5
<1> HIDE DEF t
<1>5. DOMAIN t = 1..(n - 1)
  BY <1>4, ListShape
<1>6. IsInjective(t)
  <2> SUFFICES ASSUME NEW j \in 1..(n - 1), NEW k \in 1..(n - 1), t[j] = t[k] PROVE j = k
    BY <1>5 DEF IsInjective
  <2>1. \A x, y \in 1..n : s[x] = s[y] => x = y
    BY <1>1 DEF IsInjective
  <2>2. j \in 1..n /\ j + 1 \in 1..n /\ k \in 1..n /\ k + 1 \in 1..n
    BY <1>1
  <2>3. CASE j < i /\ k < i
    BY <1>4, <2>1, <2>2, <2>3
  <2>4. CASE ~ (j < i) /\ ~ (k < i)
    <3>1. j + 1 = k + 1
      BY <1>4, <2>1, <2>2, <2>4
    <3> QED BY <3>1
  <2>5. CASE j < i /\ ~ (k < i)
    <3>1. j = k + 1
      BY <1>4, <2>1, <2>2, <2>5
    <3> QED BY <1>1, <2>5, <3>1
  <2>6. CASE ~ (j < i) /\ k < i
    <3>1. j + 1 = k
      BY <1>4, <2>1, <2>2, <2>6
    <3> QED BY <1>1, <2>6, <3>1
  <2> QED BY <2>3, <2>4, <2>5, <2>6
<1>7. ASSUME NEW x PROVE x \in Range(t) <=> x \in Range(s) /\ x # a
  <2>1. ASSUME NEW k \in 1..(n - 1) PROVE t[k] \in Range(s) /\ t[k] # a
    <3>1. k \in 1..n /\ k + 1 \in 1..n
      BY <1>1
    <3>2. PICK l \in {k, k + 1} : t[k] = s[l] /\ l # i
      BY <1>1, <1>4
    <3>3. s[l] \in Range(s)
      BY <3>1, ListShape
    <3>4. s[l] # a
      BY <1>1, <1>2, <3>1, <3>2 DEF IsInjective
    <3> QED BY <3>2, <3>3, <3>4
  <2>2. ASSUME NEW k \in 1..n, k # i PROVE s[k] \in Range(t)
    <3>1. CASE k < i
      <4>1. k \in 1..(n - 1) /\ t[k] = s[k]
        BY <1>1, <1>4, <3>1
      <4> QED BY <1>4, <4>1, ListShape
    <3>2. CASE k > i
      <4>1. k - 1 \in 1..(n - 1) /\ t[k - 1] = s[k]
        BY <1>1, <1>4, <3>2
      <4> QED BY <1>4, <4>1, ListShape
    <3> QED BY <1>1, <2>2, <3>1, <3>2
  <2>3. x \in Range(t) => \E k \in 1..(n - 1) : x = t[k]
    BY <1>4, ListShape
  <2>4. x \in Range(s) => \E k \in 1..n : x = s[k]
    BY ListShape
  <2> QED BY <1>2, <2>1, <2>2, <2>3, <2>4
<1>8. s[1] # a => t[1] = s[1]
  BY <1>1, <1>2, <1>4
<1> QED BY <1>3, <1>4, <1>6, <1>7, <1>8

\* An entry takes the place of another one.
LEMMA ReplaceList ==
    ASSUME NEW S, NEW s \in Seq(S), IsInjective(s), NEW a \in Range(s),
           NEW b \in S, b \notin Range(s)
    PROVE  /\ ReplaceAll(s, a, b) \in Seq(S) /\ IsInjective(ReplaceAll(s, a, b))
           /\ Range(ReplaceAll(s, a, b)) = (Range(s) \ {a}) \cup {b}
           /\ Len(ReplaceAll(s, a, b)) = Len(s)
<1> DEFINE t == ReplaceAll(s, a, b)
<1>1. Len(s) \in Nat /\ DOMAIN s = 1..Len(s) /\ \A k \in 1..Len(s) : s[k] \in S /\ s[k] # b
  BY ListShape
<1>2. t = [k \in 1..Len(s) |-> IF s[k] = a THEN b ELSE s[k]]
  BY DEF ReplaceAll
<1>3. /\ t \in Seq(S) /\ Len(t) = Len(s) /\ DOMAIN t = 1..Len(s)
      /\ \A k \in 1..Len(s) : t[k] = IF s[k] = a THEN b ELSE s[k]
  BY <1>1, <1>2
<1> HIDE DEF t
<1>4. IsInjective(t)
  BY <1>1, <1>3 DEF IsInjective
<1>5. PICK i \in 1..Len(s) : s[i] = a
  BY ListShape
<1>6. ASSUME NEW x PROVE x \in Range(t) <=> (x \in Range(s) /\ x # a) \/ x = b
  <2>1. x \in Range(t) <=> \E k \in 1..Len(s) : x = t[k]
    BY <1>3, ListShape
  <2>2. x \in Range(s) <=> \E k \in 1..Len(s) : x = s[k]
    BY ListShape
  <2> QED BY <1>1, <1>3, <1>5, <2>1, <2>2
<1> QED BY <1>3, <1>4, <1>6 DEF t

\* An entry comes to the front of the list it is in.
LEMMA RefreshList ==
    ASSUME NEW S, NEW s \in Seq(S), IsInjective(s), NEW a \in Range(s)
    PROVE  /\ Cons(a, RemoveFirst(s, a)) \in Seq(S) /\ IsInjective(Cons(a, RemoveFirst(s, a)))
           /\ Range(Cons(a, RemoveFirst(s, a))) = Range(s)
           /\ Len(Cons(a, RemoveFirst(s, a))) = Len(s)
           /\ Cons(a, RemoveFirst(s, a))[1] = a
<1> DEFINE q == RemoveFirst(s, a)
<1>1. /\ q \in Seq(S) /\ IsInjective(q)
      /\ Range(q) = Range(s) \ {a} /\ Len(q) = Len(s) - 1
  BY RemoveList
<1>2. a \in S /\ Len(s) \in Nat /\ a \in Range(s)
  BY ListShape
<1> HIDE DEF q
<1>3. /\ Cons(a, q) \in Seq(S) /\ IsInjective(Cons(a, q))
      /\ Range(Cons(a, q)) = Range(q) \cup {a} /\ Cons(a, q)[1] = a
      /\ Len(Cons(a, q)) = Len(q) + 1
  BY <1>1, <1>2, ConsList
<1>4. Len(Cons(a, q)) = Len(s)
  BY <1>1, <1>2, <1>3
<1>5. Range(Cons(a, q)) = Range(s)
  BY <1>1, <1>2, <1>3
<1> QED BY <1>3, <1>4, <1>5 DEF q

\* The least recently used entry; it is the most recently used one only where
\* there is no other.
LEMMA LastOfList ==
    ASSUME NEW S, NEW s \in Seq(S), IsInjective(s), s # <<>>
    PROVE  /\ Last(s) \in Range(s) /\ Last(s) \in S
           /\ s[1] \in Range(s)
           /\ Last(s) = s[1] => Len(s) = 1
           /\ Len(s) \in Nat /\ Len(s) > 0
<1>1. Len(s) \in Nat /\ Len(s) # 0 /\ DOMAIN s = 1..Len(s)
  BY ListShape
<1>2. 1 \in 1..Len(s) /\ Len(s) \in 1..Len(s)
  BY <1>1
<1> QED BY <1>1, <1>2, ListShape DEF Last, IsInjective

-----------------------------------------------------------------------------
(* Finite sets of numbers, and sums. *)

\* A family of subsets of a finite set has a least member: what is used in
\* place of induction over finite sets.
LEMMA LeastSubset ==
    ASSUME NEW S, IsFiniteSet(S), NEW P, P \subseteq SUBSET S, P # {}
    PROVE  \E T \in P : \A U \in P : U \subseteq T => U = T
<1> DEFINE order == StrictSubsetOrdering(S)
<1>1. IsWellFoundedOn(order, SUBSET S)
  BY FS_StrictSubsetOrderingWellFounded, FS_FiniteSubsetsOfFinite
<1>2. PICK T \in P : \A U \in P : <<U, T>> \notin order
  <2> HIDE DEF order
  <2> QED BY <1>1, WFMin
<1>3. ASSUME NEW U \in P, U \subseteq T, U # T PROVE FALSE
  <2>1. <<U, T>> \in order
    BY <1>3 DEF StrictSubsetOrdering
  <2> QED BY <1>2, <2>1
<1> QED BY <1>3

\* A finite set with an order has a member that is before no other.
LEMMA LastInOrder ==
    ASSUME NEW S, IsFiniteSet(S), S # {}, NEW R,
           \A x \in S : <<x, x>> \notin R,
           \A x, y, z \in S : <<x, y>> \in R /\ <<y, z>> \in R => <<x, z>> \in R
    PROVE  \E x \in S : \A y \in S : <<x, y>> \notin R
<1> DEFINE after == [x \in S |-> {y \in S : <<x, y>> \in R}]
           P == {after[x] : x \in S}
<1>1. P \subseteq SUBSET S /\ P # {}
  <2>1. \A x \in S : after[x] \in SUBSET S
    OBVIOUS
  <2> HIDE DEF after
  <2> QED BY <2>1
<1>2. PICK T \in P : \A U \in P : U \subseteq T => U = T
  <2> HIDE DEF P
  <2> QED BY <1>1, LeastSubset
<1>3. PICK x \in S : T = after[x]
  BY <1>2
<1>4. ASSUME NEW y \in S, <<x, y>> \in R PROVE FALSE
  <2>1. after[y] \subseteq after[x] /\ y \in after[x] /\ y \notin after[y] /\ after[y] \in P
    BY <1>4
  <2> HIDE DEF after, P
  <2> QED BY <1>2, <1>3, <2>1
<1> QED BY <1>4

\* A finite set of numbers that is not empty has a least and a greatest one.
LEMMA MinMax ==
    ASSUME NEW S, S \subseteq Nat, IsFiniteSet(S), S # {}
    PROVE  Min(S) \in S /\ Max(S) \in S
<1>1. \E x \in S : \A y \in S : x <= y
  <2> DEFINE R == {p \in S \X S : p[2] < p[1]}
  <2>1. \A x, y \in S : <<x, y>> \in R <=> y < x
    OBVIOUS
  <2>2. /\ \A x \in S : <<x, x>> \notin R
        /\ \A x, y, z \in S : <<x, y>> \in R /\ <<y, z>> \in R => <<x, z>> \in R
    BY <2>1
  <2> HIDE DEF R
  <2>3. PICK x \in S : \A y \in S : <<x, y>> \notin R
    BY <2>2, LastInOrder
  <2>4. ASSUME NEW y \in S PROVE x <= y
    <3>1. ~ (y < x)
      BY <2>1, <2>3
    <3> QED BY <3>1
  <2> QED BY <2>4
<1>2. \E x \in S : \A y \in S : x >= y
  <2> DEFINE R == {p \in S \X S : p[1] < p[2]}
  <2>1. \A x, y \in S : <<x, y>> \in R <=> x < y
    OBVIOUS
  <2>2. /\ \A x \in S : <<x, x>> \notin R
        /\ \A x, y, z \in S : <<x, y>> \in R /\ <<y, z>> \in R => <<x, z>> \in R
    BY <2>1
  <2> HIDE DEF R
  <2>3. PICK x \in S : \A y \in S : <<x, y>> \notin R
    BY <2>2, LastInOrder
  <2>4. ASSUME NEW y \in S PROVE x >= y
    <3>1. ~ (x < y)
      BY <2>1, <2>3
    <3> QED BY <3>1
  <2> QED BY <2>4
<1> QED BY <1>1, <1>2 DEF Min, Max

\* What a sum of numbers counts: for every number, so many of its own.
Counted(f, S) == UNION {{x} \X (1..f[x]) : x \in S}

\* The members of Counted.
LEMMA CountedMembers ==
    ASSUME NEW f, NEW S, NEW p
    PROVE  p \in Counted(f, S) <=> \E x \in S : \E k \in 1..f[x] : p = <<x, k>>
BY DEF Counted

\* One number more.
LEMMA CountOne ==
    ASSUME NEW f, NEW S, NEW x \in S, f[x] \in Nat, IsFiniteSet(Counted(f, S \ {x}))
    PROVE  /\ IsFiniteSet(Counted(f, S))
           /\ Cardinality(Counted(f, S)) = f[x] + Cardinality(Counted(f, S \ {x}))
<1> DEFINE A == {x} \X (1..f[x])
           B == Counted(f, S \ {x})
<1>1. IsFiniteSet(A) /\ Cardinality(A) = f[x]
  <2>1. IsFiniteSet(1..f[x]) /\ Cardinality(1..f[x]) = f[x]
    <3> DEFINE n == f[x]
    <3>1. n \in Nat
      OBVIOUS
    <3> HIDE DEF n
    <3>2. /\ IsFiniteSet(1..n)
          /\ Cardinality(1..n) = IF 1 > n THEN 0 ELSE n - 1 + 1
      BY <3>1, FS_Interval
    <3>3. IsFiniteSet(1..n) /\ Cardinality(1..n) = n
      BY <3>1, <3>2
    <3> QED BY <3>3 DEF n
  <2>2. IsFiniteSet({x}) /\ Cardinality({x}) = 1
    BY FS_Singleton
  <2>3. IsFiniteSet(A) /\ Cardinality(A) = Cardinality({x}) * Cardinality(1..f[x])
    BY <2>1, <2>2, FS_Product
  <2>4. Cardinality(A) = 1 * f[x]
    BY <2>1, <2>2, <2>3, Zenon
  <2> QED BY <2>3, <2>4
<1>2. Counted(f, S) = A \cup B /\ A \cap B = {}
  <2>1. ASSUME NEW p PROVE p \in Counted(f, S) <=> p \in A \cup B
    BY CountedMembers
  <2>2. ASSUME NEW p \in A, p \in B PROVE FALSE
    BY <2>2, CountedMembers
  <2> QED BY <2>1, <2>2
<1>3. Cardinality(B) \in Nat /\ Cardinality({}) = 0
  BY FS_CardinalityType, FS_EmptySet
<1> HIDE DEF A, B
<1>4. IsFiniteSet(A \cup B) /\ Cardinality(A \cup B) = Cardinality(A) + Cardinality(B) - 0
  <2>1. IsFiniteSet(A) /\ IsFiniteSet(B) /\ A \cap B = {}
    BY <1>1, <1>2 DEF B
  <2>2. /\ IsFiniteSet(A \cup B)
        /\ Cardinality(A \cup B) = Cardinality(A) + Cardinality(B) - Cardinality(A \cap B)
    BY <2>1, FS_Union
  <2> QED BY <1>3, <2>1, <2>2
<1> QED BY <1>1, <1>2, <1>3, <1>4 DEF B

\* Sums of finitely many numbers are finite.
LEMMA CountedFinite ==
    ASSUME NEW f, NEW S, IsFiniteSet(S), \A x \in S : f[x] \in Nat
    PROVE  /\ IsFiniteSet(Counted(f, S))
           /\ Cardinality(Counted(f, S)) \in Nat
<1> DEFINE P == {s \in SUBSET S : ~ IsFiniteSet(Counted(f, s))}
<1>1. ASSUME P # {} PROVE FALSE
  <2>1. PICK T \in P : \A U \in P : U \subseteq T => U = T
    <3>1. P \subseteq SUBSET S
      OBVIOUS
    <3> HIDE DEF P
    <3> QED BY <1>1, <3>1, LeastSubset
  <2>2. CASE T = {}
    <3>1. Counted(f, T) = {}
      BY <2>2 DEF Counted
    <3> QED BY <2>1, <3>1, FS_EmptySet
  <2>3. ASSUME NEW x \in T PROVE FALSE
    <3>1. T \ {x} \subseteq T /\ T \ {x} # T /\ T \in SUBSET S /\ T \ {x} \in SUBSET S
      BY <2>1, <2>3
    <3>2. IsFiniteSet(Counted(f, T \ {x}))
      BY <2>1, <3>1
    <3>3. IsFiniteSet(Counted(f, T))
      BY <2>3, <3>1, <3>2, CountOne
    <3> QED BY <2>1, <3>3
  <2> QED BY <2>2, <2>3
<1>2. IsFiniteSet(Counted(f, S))
  BY <1>1
<1> QED BY <1>2, FS_CardinalityType

\* A sum is what it counts, in whatever order the numbers are added.
LEMMA SumCounts ==
    ASSUME NEW f, IsFiniteSet(DOMAIN f), \A x \in DOMAIN f : f[x] \in Nat
    PROVE  SumFunction(f) = Cardinality(Counted(f, DOMAIN f))
<1> DEFINE S == DOMAIN f
           body(g) == [s \in SUBSET S |->
                          IF s = {} THEN 0
                          ELSE f[CHOOSE x \in s : TRUE] + g[s \ {CHOOSE x \in s : TRUE}]]
           h == [s \in SUBSET S |-> Cardinality(Counted(f, s))]
           iter == CHOOSE g : g = body(g)
<1>1. SumFunction(f) = iter[S]
  BY Zenon DEF SumFunction, SumFunctionOnSet, FoldFunctionOnSet, MapThenFoldSet
<1>2. ASSUME NEW s \in SUBSET S, s # {}
      PROVE  /\ (CHOOSE x \in s : TRUE) \in s
             /\ h[s] = f[CHOOSE x \in s : TRUE] + h[s \ {CHOOSE x \in s : TRUE}]
  <2> DEFINE c == CHOOSE x \in s : TRUE
  <2>1. c \in s
    BY <1>2
  <2> HIDE DEF c
  <2>2. IsFiniteSet(s \ {c}) /\ s \ {c} \in SUBSET S
    BY FS_Subset
  <2>3. IsFiniteSet(Counted(f, s \ {c}))
    BY <2>2, CountedFinite
  <2>4. Cardinality(Counted(f, s)) = f[c] + Cardinality(Counted(f, s \ {c}))
    BY <2>1, <2>3, CountOne
  <2>5. h[s] = f[c] + h[s \ {c}]
    BY <2>2, <2>4
  <2> HIDE DEF h
  <2> QED BY <2>1, <2>5 DEF c
<1>3. h[{}] = 0
  <2>1. Counted(f, {}) = {}
    BY DEF Counted
  <2> QED BY <2>1, FS_EmptySet
<1>4. h = body(h)
  <2>1. h = [s \in SUBSET S |-> h[s]]
    OBVIOUS
  <2> HIDE DEF h
  <2> QED BY <1>2, <1>3, <2>1
<1>5. iter = body(iter)
  <2> HIDE DEF h, body
  <2> QED BY <1>4
<1> DEFINE P == {s \in SUBSET S : iter[s] # h[s]}
<1>6. ASSUME P # {} PROVE FALSE
  <2>1. P \subseteq SUBSET S
    OBVIOUS
  <2>2. PICK T \in P : \A U \in P : U \subseteq T => U = T
    <3> HIDE DEF P
    <3> QED BY <1>6, <2>1, LeastSubset
  <2> HIDE DEF iter, h
  <2>3. T # {}
    BY <1>3, <1>5, <2>2
  <2> DEFINE c == CHOOSE x \in T : TRUE
  <2>4. c \in T /\ h[T] = f[c] + h[T \ {c}]
    BY <1>2, <2>2, <2>3
  <2>5. iter[T] = f[c] + iter[T \ {c}]
    BY <1>5, <2>2, <2>3
  <2> HIDE DEF c
  <2>6. T \ {c} \in SUBSET S /\ T \ {c} \subseteq T /\ T \ {c} # T
    BY <2>2, <2>4
  <2>7. iter[T \ {c}] = h[T \ {c}]
    BY <2>2, <2>6
  <2> QED BY <2>2, <2>4, <2>5, <2>7
<1>7. iter[S] = h[S]
  BY <1>6
<1> QED BY <1>1, <1>7

\* Members of a sum are bounded by it, and it can be taken apart.
LEMMA SumOne ==
    ASSUME NEW S, IsFiniteSet(S), NEW x \in S,
           NEW f \in [S -> Nat], NEW g \in [S \ {x} -> Nat],
           \A y \in S \ {x} : f[y] = g[y]
    PROVE  /\ SumFunction(f) \in Nat /\ SumFunction(g) \in Nat
           /\ SumFunction(f) = f[x] + SumFunction(g)
<1>1. IsFiniteSet(S \ {x})
  BY FS_Subset
<1>2. DOMAIN f = S /\ DOMAIN g = S \ {x} /\ f[x] \in Nat
  OBVIOUS
<1>3. SumFunction(f) = Cardinality(Counted(f, S)) /\ Cardinality(Counted(f, S)) \in Nat
  BY <1>2, SumCounts, CountedFinite
<1>4. /\ SumFunction(g) = Cardinality(Counted(g, S \ {x}))
      /\ Cardinality(Counted(g, S \ {x})) \in Nat
  BY <1>1, <1>2, SumCounts, CountedFinite
<1>5. Counted(f, S \ {x}) = Counted(g, S \ {x})
  BY DEF Counted
<1>6. IsFiniteSet(Counted(f, S \ {x}))
  BY <1>1, CountedFinite
<1>7. Cardinality(Counted(f, S)) = f[x] + Cardinality(Counted(f, S \ {x}))
  BY <1>2, <1>6, CountOne
<1> QED BY <1>3, <1>4, <1>5, <1>7

\* A sum with one number more.
LEMMA SumMore ==
    ASSUME NEW S, IsFiniteSet(S), NEW x, x \notin S, NEW T, T = S \cup {x},
           NEW f \in [T -> Nat], NEW g \in [S -> Nat], \A y \in S : f[y] = g[y]
    PROVE  /\ SumFunction(f) \in Nat /\ SumFunction(g) \in Nat
           /\ SumFunction(f) = f[x] + SumFunction(g)
<1>1. IsFiniteSet(T)
  BY FS_AddElement
<1>2. x \in T /\ T \ {x} = S
  OBVIOUS
<1>3. g \in [T \ {x} -> Nat] /\ \A y \in T \ {x} : f[y] = g[y]
  BY <1>2
<1> QED BY <1>1, <1>2, <1>3, SumOne

\* A sum of no numbers.
LEMMA SumNone ==
    ASSUME NEW f, DOMAIN f = {}
    PROVE  SumFunction(f) = 0
<1>1. Counted(f, {}) = {}
  BY DEF Counted
<1>2. IsFiniteSet(DOMAIN f) /\ \A x \in DOMAIN f : f[x] \in Nat
  BY FS_EmptySet
<1> QED BY <1>1, <1>2, SumCounts, FS_EmptySet

\* A sum of one number.
LEMMA SumSingle ==
    ASSUME NEW S, NEW x, S = {x}, NEW f \in [S -> Nat]
    PROVE  SumFunction(f) = f[x]
<1>1. DOMAIN f = S /\ x \in S /\ f[x] \in Nat
  OBVIOUS
<1>2. IsFiniteSet(S)
  BY FS_Singleton
<1>3. Counted(f, S \ {x}) = {}
  <2>1. S \ {x} = {}
    OBVIOUS
  <2> QED BY <2>1 DEF Counted
<1>4. Cardinality(Counted(f, S)) = f[x] + Cardinality(Counted(f, S \ {x}))
  <2>1. IsFiniteSet(Counted(f, S \ {x}))
    BY <1>3, FS_EmptySet
  <2> QED BY <1>1, <2>1, CountOne
<1>5. SumFunction(f) = Cardinality(Counted(f, S))
  BY <1>1, <1>2, SumCounts
<1> QED BY <1>1, <1>3, <1>4, <1>5, FS_EmptySet

-----------------------------------------------------------------------------
(* Weights. *)

\* The sizes are numbers.
LEMMA Sizes ==
    /\ SVSize \in Nat \ {0} /\ MVSize \in Nat /\ ValueSize \in Nat
    /\ SizeModulus \in Nat \ {0} /\ MaxSets \in Nat
    /\ MaxFrequency \in Nat /\ MaxFrequency > 0
    /\ Tids \subseteq Nat /\ IsFiniteSet(Oids) /\ IsFiniteSet(Tids) /\ IsFiniteSet(Threads)
    /\ Copies \in Nat /\ Copies >= Cardinality(Threads) + 2
    /\ Null \notin Oids /\ Null \notin Threads /\ Null \notin Addr /\ Null \notin Tids
    /\ Null \notin Generations /\ Null \notin Entries
    /\ StateLength \in [Oids -> [Tids -> Nat]]
    /\ \A o \in Oids, t \in Tids : StateLength[o][t] \in Nat
BY ConstantsAssumption

\* Arithmetic of size_t.
LEMMA SizeTRange ==
    ASSUME NEW n \in Int
    PROVE  /\ SizeT(n) \in 0..SizeModulus - 1
           /\ n \in 0..SizeModulus - 1 => SizeT(n) = n
<1>1. SizeModulus \in Nat /\ SizeModulus > 0
  BY Sizes
<1> QED BY <1>1 DEF SizeT

\* A sum of numbers is a number.
LEMMA SumType ==
    ASSUME NEW S, IsFiniteSet(S), NEW f \in [S -> Nat]
    PROVE  SumFunction(f) \in Nat
<1>1. DOMAIN f = S /\ \A x \in S : f[x] \in Nat
  OBVIOUS
<1> QED BY <1>1, SumCounts, CountedFinite

\* The weight of an entry, with values or without, is a number.
LEMMA WeightType ==
    ASSUME NEW e, e.oid \in Oids, DOMAIN e.values \subseteq Tids
    PROVE  Weight(e) \in Nat
<1> DEFINE S == DOMAIN e.values
           f == [t \in S |-> ValueSize + StateLength[e.oid][t]]
           g == [t \in S |-> StateLength[e.oid][t]]
<1>1. IsFiniteSet(S)
  BY Sizes, FS_Subset
<1>2. f \in [S -> Nat] /\ g \in [S -> Nat]
  <2>1. \A t \in S : StateLength[e.oid][t] \in Nat /\ ValueSize \in Nat
    BY Sizes
  <2> QED BY <2>1
<1>3. SumFunction(f) \in Nat /\ SumFunction(g) \in Nat
  <2> HIDE DEF f, g, S
  <2> QED BY <1>1, <1>2, SumType
<1>4. Weight(e) = IF e.several THEN MVSize + SumFunction(f) ELSE SVSize + SumFunction(g)
  BY DEF Weight
<1> HIDE DEF f, g
<1> QED BY <1>3, <1>4, Sizes

\* The weight of an entry with one value.
LEMMA WeightSingle ==
    ASSUME NEW e, e.oid \in Oids, e.several = FALSE, NEW t \in Tids, DOMAIN e.values = {t}
    PROVE  Weight(e) = SVSize + StateLength[e.oid][t]
<1> DEFINE S == DOMAIN e.values
           g == [u \in S |-> StateLength[e.oid][u]]
<1>1. S = {t} /\ g \in [S -> Nat] /\ g[t] = StateLength[e.oid][t]
  BY Sizes
<1>2. SumFunction(g) = g[t]
  <2> HIDE DEF g, S
  <2> QED BY <1>1, SumSingle
<1>3. Weight(e) = SVSize + SumFunction(g)
  BY DEF Weight
<1> QED BY <1>1, <1>2, <1>3

\* The values of an entry.
LEMMA ValuationShape ==
    ASSUME NEW v
    PROVE  v \in Valuations <=> /\ v = [t \in DOMAIN v |-> v[t]]
                                /\ DOMAIN v \subseteq Tids /\ DOMAIN v # {}
                                /\ \A t \in DOMAIN v : v[t] \in BOOLEAN
<1>1. ASSUME v \in Valuations
      PROVE  /\ v = [t \in DOMAIN v |-> v[t]]
             /\ DOMAIN v \subseteq Tids /\ DOMAIN v # {}
             /\ \A t \in DOMAIN v : v[t] \in BOOLEAN
  <2>1. PICK S \in (SUBSET Tids) \ {{}} : v \in [S -> BOOLEAN]
    BY <1>1 DEF Valuations
  <2>2. DOMAIN v = S /\ v = [t \in S |-> v[t]]
    BY <2>1
  <2>3. \A t \in S : v[t] \in BOOLEAN
    BY <2>1, Zenon
  <2> QED BY <2>1, <2>2, <2>3, Zenon
<1>2. ASSUME v = [t \in DOMAIN v |-> v[t]], DOMAIN v \subseteq Tids, DOMAIN v # {},
             \A t \in DOMAIN v : v[t] \in BOOLEAN
      PROVE  v \in Valuations
  <2> DEFINE S == DOMAIN v
  <2>1. S \in (SUBSET Tids) \ {{}}
    BY <1>2
  <2>2. v \in [S -> BOOLEAN]
    <3>1. [t \in S |-> v[t]] \in [S -> BOOLEAN]
      BY <1>2, Zenon
    <3> QED BY <1>2, <3>1, Zenon
  <2> HIDE DEF S
  <2> QED BY <2>1, <2>2 DEF Valuations
<1> QED BY <1>1, <1>2

\* The fields of an entry.
LEMMA EntryFields ==
    ASSUME NEW e \in Entries
    PROVE  /\ e.oid \in Oids /\ e.several \in BOOLEAN /\ e.values \in Valuations
           /\ DOMAIN e.values \subseteq Tids /\ DOMAIN e.values # {}
           /\ \A t \in DOMAIN e.values : e.values[t] \in BOOLEAN
           /\ e.frequency \in 0..MaxFrequency /\ e.generation \in Generations \cup {Null}
           /\ e # Null
           /\ Weight(e) \in Nat
<1>1. /\ e.oid \in Oids /\ e.several \in BOOLEAN /\ e.values \in Valuations
      /\ e.frequency \in 0..MaxFrequency /\ e.generation \in Generations \cup {Null}
  BY DEF Entries
<1>2. e # Null
  BY Sizes
<1>3. /\ DOMAIN e.values \subseteq Tids /\ DOMAIN e.values # {}
      /\ \A t \in DOMAIN e.values : e.values[t] \in BOOLEAN
  BY <1>1, ValuationShape
<1> QED BY <1>1, <1>2, <1>3, WeightType

\* An entry is made of its fields.
LEMMA EntryMade ==
    ASSUME NEW o \in Oids, NEW s \in BOOLEAN, NEW v \in Valuations,
           NEW f \in 0..MaxFrequency, NEW g \in Generations \cup {Null}
    PROVE  /\ Entry(o, s, v, f, g) \in Entries
           /\ Entry(o, s, v, f, g).oid = o
           /\ Entry(o, s, v, f, g).several = s
           /\ Entry(o, s, v, f, g).values = v
           /\ Entry(o, s, v, f, g).frequency = f
           /\ Entry(o, s, v, f, g).generation = g
BY DEF Entry, Entries

\* An entry that changes its generation and its frequency.
LEMMA EntryMoved ==
    ASSUME NEW e \in Entries, NEW f \in 0..MaxFrequency, NEW g \in Generations \cup {Null}
    PROVE  LET m == [e EXCEPT !.frequency = f, !.generation = g] IN
           /\ m \in Entries /\ m.oid = e.oid /\ m.several = e.several
           /\ m.values = e.values /\ m.frequency = f /\ m.generation = g
           /\ Weight(m) = Weight(e)
BY DEF Entries, Weight

\* An entry outside the cache.
LEMMA EntryOutside ==
    ASSUME NEW e \in Entries
    PROVE  /\ Outside(e) \in Entries /\ Outside(e) # Null
           /\ Outside(e).oid = e.oid /\ Outside(e).several = e.several
           /\ Outside(e).values = e.values /\ Outside(e).generation = Null
<1>1. 0 \in 0..MaxFrequency
  BY Sizes
<1>2. Outside(e) \in Entries
  BY <1>1 DEF Outside, Entries
<1> QED BY <1>2, Sizes DEF Outside, Entries

\* An entry that changes its values.
LEMMA EntryValued ==
    ASSUME NEW e \in Entries, NEW v \in Valuations
    PROVE  LET m == [e EXCEPT !.values = v] IN
           /\ m \in Entries /\ m.oid = e.oid /\ m.several = e.several
           /\ m.values = v /\ m.frequency = e.frequency /\ m.generation = e.generation
BY DEF Entries

-----------------------------------------------------------------------------
(* Entries, index and lists: the part of the invariant about memory, for a  *)
(* heap h, an index d, lists r and the set H of the entries that are held.  *)

\* The class of an entry tells how many values it has.
OfItsClass(e) ==
    IF e.several
    THEN \E t, u \in DOMAIN e.values : t # u
    ELSE \E t \in Tids : DOMAIN e.values = {t}

\* An entry is at an address of its object, in the cache or held, and in a
\* generation exactly when the index leads to it.
EntriesPlaced(h, d, H) ==
    \A a \in Addr : h[a] # Null =>
        /\ h[a].oid = a[1] /\ OfItsClass(h[a])
        /\ d[a[1]] = a \/ a \in H
        /\ h[a].generation # Null <=> d[a[1]] = a

\* The index leads to entries of its objects.
IndexLeads(h, d) == \A o \in Oids : d[o] # Null => d[o][1] = o /\ h[d[o]] # Null

\* What is held exists and has one value.
HeldExist(h, H) == \A a \in H : h[a] # Null /\ ~ h[a].several

\* The list of a generation has every entry of the generation once.
RingsList(h, r) ==
    \A g \in Generations :
        /\ IsInjective(r[g])
        /\ \A a \in Addr : a \in Range(r[g]) <=> h[a] # Null /\ h[a].generation = g

Memory(h, d, r, H) ==
    /\ h \in [Addr -> Entries \cup {Null}] /\ d \in [Oids -> Addr \cup {Null}]
    /\ r \in [Generations -> Seq(Addr)] /\ H \subseteq Addr
    /\ EntriesPlaced(h, d, H) /\ IndexLeads(h, d) /\ HeldExist(h, H) /\ RingsList(h, r)

\* Entries that are held stay as they are but for the frozen flag.
Stay(h, h2, H) ==
    \A a \in H : /\ h2[a] # Null /\ h2[a].oid = h[a].oid
                 /\ DOMAIN h2[a].values = DOMAIN h[a].values

\* f2 is f, a function from A to B, with value v at x.
Change(f, f2, x, v, A, B) ==
    f2 \in [A -> B] /\ f2[x] = v /\ \A y \in A : y # x => f2[y] = f[y]

ChangeHeap(h, h2, a, e) == Change(h, h2, a, e, Addr, Entries \cup {Null})
ChangeIndex(d, d2, o, a) == Change(d, d2, o, a, Oids, Addr \cup {Null})
ChangeRing(r, r2, g, s) == Change(r, r2, g, s, Generations, Seq(Addr))

\* What is left of entry a of h when it has been unlinked.
Left(h, a, H) == IF a \in H THEN Outside(h[a]) ELSE Null

\* Entry a moves from list f to list g.
MoveRing(r, r2, a, f, g) ==
    /\ r2 \in [Generations -> Seq(Addr)]
    /\ r2[f] = RemoveFirst(r[f], a) /\ r2[g] = Cons(a, r[g])
    /\ \A k \in Generations : k # f /\ k # g => r2[k] = r[k]

\* Entry e, at b, takes the place of entry a.
ReplaceHeap(h, h2, a, b, e, H) ==
    /\ h2 \in [Addr -> Entries \cup {Null}]
    /\ h2[a] = Left(h, a, H) /\ h2[b] = e
    /\ \A c \in Addr : c # a /\ c # b => h2[c] = h[c]

\* Entries change nothing but values and frequencies.
SameShape(h, h2) ==
    /\ h2 \in [Addr -> Entries \cup {Null}]
    /\ \A a \in Addr : h2[a] = Null <=> h[a] = Null
    /\ \A a \in Addr : h[a] # Null =>
          /\ h2[a].oid = h[a].oid /\ h2[a].several = h[a].several
          /\ h2[a].generation = h[a].generation /\ OfItsClass(h2[a])

\* The memory after a step, in which entries held before it stay.
After(h, h2, d2, r2, H, H2) == Memory(h2, d2, r2, H2) /\ Stay(h, h2, H)

\* An address belongs to an object.
LEMMA AddrShape ==
    ASSUME NEW a \in Addr
    PROVE  a[1] \in Oids /\ a # Null
BY Sizes DEF Addr

\* What the index leads to.
LEMMA Indexed ==
    ASSUME NEW h, NEW d, NEW r, NEW H, Memory(h, d, r, H), NEW o \in Oids, d[o] # Null
    PROVE  /\ d[o] \in Addr /\ d[o][1] = o /\ h[d[o]] \in Entries /\ h[d[o]].oid = o
           /\ h[d[o]] # Null /\ OfItsClass(h[d[o]])
           /\ h[d[o]].generation \in Generations /\ h[d[o]].generation # Null
           /\ d[o] \in Range(r[h[d[o]].generation])
           /\ \A g \in Generations : d[o] \in Range(r[g]) => g = h[d[o]].generation
<1>1. d[o] \in Addr /\ d[o][1] = o /\ h[d[o]] # Null /\ h[d[o]] \in Entries
  BY DEF Memory, IndexLeads
<1>2. /\ h[d[o]].generation \in Generations /\ h[d[o]].generation # Null
      /\ OfItsClass(h[d[o]]) /\ h[d[o]].oid = o
  BY <1>1, EntryFields DEF Memory, EntriesPlaced
<1> QED BY <1>1, <1>2 DEF Memory, RingsList

\* What the lists have.
LEMMA Listed ==
    ASSUME NEW h, NEW d, NEW r, NEW H, Memory(h, d, r, H), NEW g \in Generations
    PROVE  /\ r[g] \in Seq(Addr) /\ IsInjective(r[g])
           /\ \A a \in Range(r[g]) :
                 /\ a \in Addr /\ a[1] \in Oids /\ d[a[1]] = a
                 /\ h[a] \in Entries /\ h[a].oid = a[1] /\ h[a].generation = g
<1>1. r[g] \in Seq(Addr) /\ IsInjective(r[g])
  BY DEF Memory, RingsList
<1>2. ASSUME NEW a \in Range(r[g])
      PROVE  /\ a \in Addr /\ a[1] \in Oids /\ d[a[1]] = a
             /\ h[a] \in Entries /\ h[a].oid = a[1] /\ h[a].generation = g
  <2>1. a \in Addr
    BY <1>1, ListShape
  <2>2. h[a] # Null /\ h[a].generation = g /\ h[a] \in Entries
    BY <2>1 DEF Memory, RingsList
  <2> QED BY <2>1, <2>2, AddrShape, Sizes DEF Memory, EntriesPlaced
<1> QED BY <1>1, <1>2

\* Two entries of an object that are in the cache are the same one.
LEMMA OneEntry ==
    ASSUME NEW h, NEW d, NEW r, NEW H, Memory(h, d, r, H), NEW a \in Addr, h[a] # Null
    PROVE  /\ h[a] \in Entries /\ h[a].oid = a[1] /\ OfItsClass(h[a]) /\ a[1] \in Oids
           /\ h[a].generation \in Generations <=> d[a[1]] = a
           /\ h[a].generation \in Generations \cup {Null}
           /\ \A o \in Oids : d[o] = a => o = a[1]
BY AddrShape, EntryFields, Sizes DEF Memory, EntriesPlaced, IndexLeads

\* A new entry comes into the cache.
LEMMA InsertMemory ==
    ASSUME NEW h, NEW d, NEW r, NEW H, Memory(h, d, r, H),
           NEW o \in Oids, d[o] = Null, NEW b \in Addr, b[1] = o, h[b] = Null,
           NEW e \in Entries, e.oid = o, OfItsClass(e), NEW g \in Generations, e.generation = g,
           NEW h2, ChangeHeap(h, h2, b, e), NEW d2, ChangeIndex(d, d2, o, b),
           NEW r2, ChangeRing(r, r2, g, Cons(b, r[g]))
    PROVE  After(h, h2, d2, r2, H, H)
<1>1. /\ h2 \in [Addr -> Entries \cup {Null}] /\ d2 \in [Oids -> Addr \cup {Null}]
      /\ h2[b] = e /\ \A a \in Addr : a # b => h2[a] = h[a]
      /\ d2[o] = b /\ \A p \in Oids : p # o => d2[p] = d[p]
      /\ H \subseteq Addr /\ e # Null
  BY EntryFields DEF Memory, Change, ChangeHeap, ChangeIndex
<1>2. /\ r[g] \in Seq(Addr) /\ IsInjective(r[g]) /\ b \notin Range(r[g])
      /\ r2 \in [Generations -> Seq(Addr)] /\ r2[g] = Cons(b, r[g])
      /\ \A f \in Generations : f # g => r2[f] = r[f]
  BY DEF Memory, RingsList, Change, ChangeRing
<1>3. IsInjective(r2[g]) /\ Range(r2[g]) = Range(r[g]) \cup {b}
  BY <1>2, ConsList
<1>4. EntriesPlaced(h2, d2, H)
  <2> SUFFICES ASSUME NEW c \in Addr, h2[c] # Null
               PROVE  /\ h2[c].oid = c[1] /\ OfItsClass(h2[c])
                      /\ d2[c[1]] = c \/ c \in H
                      /\ h2[c].generation # Null <=> d2[c[1]] = c
    BY DEF EntriesPlaced
  <2>1. CASE c = b
    BY <1>1, <2>1, Sizes
  <2>2. CASE c # b
    <3>1. /\ h2[c] = h[c] /\ h[c].oid = c[1] /\ OfItsClass(h[c])
          /\ d[c[1]] = c \/ c \in H
          /\ h[c].generation # Null <=> d[c[1]] = c
      BY <1>1, <2>2 DEF Memory, EntriesPlaced
    <3>2. c[1] \in Oids /\ c # Null
      BY AddrShape
    <3> QED BY <1>1, <2>2, <3>1, <3>2
  <2> QED BY <2>1, <2>2
<1>5. IndexLeads(h2, d2)
  BY <1>1 DEF Memory, IndexLeads
<1>6. HeldExist(h2, H)
  BY <1>1 DEF Memory, HeldExist
<1>7. RingsList(h2, r2)
  <2> SUFFICES ASSUME NEW k \in Generations
               PROVE  /\ IsInjective(r2[k])
                      /\ \A a \in Addr :
                            a \in Range(r2[k]) <=> h2[a] # Null /\ h2[a].generation = k
    BY DEF RingsList
  <2>1. /\ IsInjective(r[k])
        /\ \A a \in Addr : a \in Range(r[k]) <=> h[a] # Null /\ h[a].generation = k
    BY DEF Memory, RingsList
  <2>2. CASE k = g
    <3>1. ASSUME NEW c \in Addr
          PROVE  c \in Range(r2[k]) <=> h2[c] # Null /\ h2[c].generation = k
      <4>1. CASE c = b
        BY <1>1, <1>3, <2>2, <4>1
      <4>2. CASE c # b
        BY <1>1, <1>3, <2>1, <2>2, <4>2
      <4> QED BY <4>1, <4>2
    <3> QED BY <1>3, <2>2, <3>1
  <2>3. CASE k # g
    <3>1. r2[k] = r[k]
      BY <1>2, <2>3
    <3>2. ASSUME NEW c \in Addr
          PROVE  c \in Range(r2[k]) <=> h2[c] # Null /\ h2[c].generation = k
      <4>1. CASE c = b
        BY <1>1, <2>1, <2>3, <3>1, <4>1
      <4>2. CASE c # b
        BY <1>1, <2>1, <3>1, <4>2
      <4> QED BY <4>1, <4>2
    <3> QED BY <2>1, <3>1, <3>2
  <2> QED BY <2>2, <2>3
<1>8. Stay(h, h2, H)
  BY <1>1 DEF Memory, HeldExist, Stay
<1> QED BY <1>1, <1>2, <1>4, <1>5, <1>6, <1>7, <1>8 DEF Memory, After

\* An entry leaves the cache.
LEMMA DropMemory ==
    ASSUME NEW h, NEW d, NEW r, NEW H, Memory(h, d, r, H),
           NEW o \in Oids, d[o] # Null, NEW a, a = d[o], NEW g, g = h[a].generation,
           NEW h2, ChangeHeap(h, h2, a, Left(h, a, H)), NEW d2, ChangeIndex(d, d2, o, Null),
           NEW r2, ChangeRing(r, r2, g, RemoveFirst(r[g], a))
    PROVE  After(h, h2, d2, r2, H, H)
<1> DEFINE m == Outside(h[a])
<1>1. /\ a \in Addr /\ a[1] = o /\ h[a] \in Entries /\ h[a].oid = o
      /\ g \in Generations /\ a \in Range(r[g]) /\ OfItsClass(h[a])
  BY Indexed
<1>2. /\ m \in Entries /\ m.oid = o /\ m.several = h[a].several
      /\ m.values = h[a].values /\ m.generation = Null /\ m # Null
  BY <1>1, EntryOutside DEF m
<1> HIDE DEF m
<1>3. /\ h2 \in [Addr -> Entries \cup {Null}] /\ d2 \in [Oids -> Addr \cup {Null}]
      /\ h2[a] = (IF a \in H THEN m ELSE Null) /\ \A b \in Addr : b # a => h2[b] = h[b]
      /\ d2[o] = Null /\ \A p \in Oids : p # o => d2[p] = d[p]
      /\ H \subseteq Addr
  BY DEF Memory, m, Left, Change, ChangeHeap, ChangeIndex
<1>4. /\ r2 \in [Generations -> Seq(Addr)] /\ IsInjective(r2[g])
      /\ Range(r2[g]) = Range(r[g]) \ {a}
      /\ \A f \in Generations : f # g => r2[f] = r[f]
  <2>1. /\ r2 \in [Generations -> Seq(Addr)] /\ r2[g] = RemoveFirst(r[g], a)
        /\ \A f \in Generations : f # g => r2[f] = r[f]
    BY DEF Change, ChangeRing
  <2>2. r[g] \in Seq(Addr) /\ IsInjective(r[g])
    BY <1>1, Listed
  <2>3. IsInjective(r2[g]) /\ Range(r2[g]) = Range(r[g]) \ {a}
    BY <1>1, <2>1, <2>2, RemoveList
  <2> QED BY <2>1, <2>3
<1>5. OfItsClass(m)
  BY <1>1, <1>2 DEF OfItsClass
<1>6. EntriesPlaced(h2, d2, H)
  BY <1>1, <1>2, <1>3, <1>5, AddrShape DEF Memory, EntriesPlaced
<1>7. IndexLeads(h2, d2)
  BY <1>1, <1>3 DEF Memory, IndexLeads
<1>8. HeldExist(h2, H)
  BY <1>1, <1>2, <1>3 DEF Memory, HeldExist
<1>9. RingsList(h2, r2)
  <2> SUFFICES ASSUME NEW k \in Generations
               PROVE  /\ IsInjective(r2[k])
                      /\ \A b \in Addr :
                            b \in Range(r2[k]) <=> h2[b] # Null /\ h2[b].generation = k
    BY DEF RingsList
  <2>1. /\ IsInjective(r[k])
        /\ \A b \in Addr : b \in Range(r[k]) <=> h[b] # Null /\ h[b].generation = k
    BY DEF Memory, RingsList
  <2>2. h2[a] = Null \/ h2[a].generation = Null
    BY <1>2, <1>3
  <2>3. CASE k = g
    <3>1. IsInjective(r2[k])
      BY <1>1, <1>3, <1>4, <2>1, <2>3
    <3>2. ASSUME NEW b \in Addr
          PROVE  b \in Range(r2[k]) <=> h2[b] # Null /\ h2[b].generation = k
      <4>1. CASE b = a
        BY <1>1, <1>3, <1>4, <2>1, <2>2, <2>3, <4>1, Sizes
      <4>2. CASE b # a
        BY <1>1, <1>3, <1>4, <2>1, <2>3, <4>2
      <4> QED BY <4>1, <4>2
    <3> QED BY <3>1, <3>2
  <2>4. CASE k # g
    <3>1. r2[k] = r[k]
      BY <1>4, <2>4
    <3>2. ASSUME NEW b \in Addr
          PROVE  b \in Range(r2[k]) <=> h2[b] # Null /\ h2[b].generation = k
      <4>1. CASE b = a
        BY <1>1, <1>3, <2>1, <2>2, <2>4, <3>1, <4>1, Sizes
      <4>2. CASE b # a
        BY <1>1, <1>3, <2>1, <3>1, <4>2
      <4> QED BY <4>1, <4>2
    <3> QED BY <2>1, <3>1, <3>2
  <2> QED BY <2>3, <2>4
<1>10. Stay(h, h2, H)
  BY <1>1, <1>2, <1>3 DEF Memory, HeldExist, Stay
<1> QED BY <1>3, <1>4, <1>6, <1>7, <1>8, <1>9, <1>10 DEF Memory, After

\* Entries change their values or frequencies only.
LEMMA TouchMemory ==
    ASSUME NEW h, NEW d, NEW r, NEW H, Memory(h, d, r, H),
           NEW h2, SameShape(h, h2)
    PROVE  Memory(h2, d, r, H)
<1>1. EntriesPlaced(h2, d, H)
  BY DEF Memory, EntriesPlaced, SameShape
<1>2. IndexLeads(h2, d)
  BY DEF Memory, IndexLeads, SameShape
<1>3. HeldExist(h2, H)
  BY DEF Memory, HeldExist, SameShape
<1>4. RingsList(h2, r)
  BY DEF Memory, RingsList, SameShape
<1> QED BY <1>1, <1>2, <1>3, <1>4 DEF Memory, SameShape

\* References come and go.
LEMMA HoldMemory ==
    ASSUME NEW h, NEW d, NEW r, NEW H, Memory(h, d, r, H),
           NEW H2 \in SUBSET Addr, HeldExist(h, H2),
           \A a \in Addr : h[a] # Null => d[a[1]] = a \/ a \in H2
    PROVE  Memory(h, d, r, H2)
BY DEF Memory, EntriesPlaced

\* An entry is made that is held and never was in the cache.
LEMMA OutsideMemory ==
    ASSUME NEW h, NEW d, NEW r, NEW H, Memory(h, d, r, H),
           NEW b \in Addr, h[b] = Null,
           NEW e \in Entries, e.oid = b[1], OfItsClass(e), ~ e.several, e.generation = Null,
           NEW h2, ChangeHeap(h, h2, b, e)
    PROVE  After(h, h2, d, r, H, H \cup {b})
<1>1. /\ h2 \in [Addr -> Entries \cup {Null}] /\ e # Null
      /\ h2[b] = e /\ \A a \in Addr : a # b => h2[a] = h[a]
      /\ H \subseteq Addr
  BY EntryFields DEF Memory, Change, ChangeHeap
<1>2. EntriesPlaced(h2, d, H \cup {b})
  <2>1. d[b[1]] # b
    BY AddrShape DEF Memory, IndexLeads
  <2> QED BY <1>1, <2>1 DEF Memory, EntriesPlaced
<1>3. IndexLeads(h2, d)
  BY <1>1 DEF Memory, IndexLeads
<1>4. HeldExist(h2, H \cup {b})
  BY <1>1 DEF Memory, HeldExist
<1>5. RingsList(h2, r)
  BY <1>1, Sizes DEF Memory, RingsList
<1>6. Stay(h, h2, H)
  BY <1>1 DEF Memory, HeldExist, Stay
<1> QED BY <1>1, <1>2, <1>3, <1>4, <1>5, <1>6 DEF Memory, After

\* An entry moves to another generation.
LEMMA MoveMemory ==
    ASSUME NEW h, NEW d, NEW r, NEW H, Memory(h, d, r, H),
           NEW f \in Generations, NEW g \in Generations, f # g, NEW a \in Range(r[f]),
           NEW e \in Entries, e.oid = h[a].oid, e.several = h[a].several,
           e.values = h[a].values, e.generation = g,
           NEW h2, ChangeHeap(h, h2, a, e), NEW r2, MoveRing(r, r2, a, f, g)
    PROVE  After(h, h2, d, r2, H, H)
<1>1. /\ a \in Addr /\ a[1] \in Oids /\ d[a[1]] = a /\ e # Null /\ h[a] # Null
      /\ h[a] \in Entries /\ h[a].oid = a[1] /\ h[a].generation = f
      /\ r[f] \in Seq(Addr) /\ IsInjective(r[f])
      /\ r[g] \in Seq(Addr) /\ IsInjective(r[g])
  BY Listed, EntryFields
<1>2. a \notin Range(r[g])
  BY <1>1, Listed
<1>3. /\ h2 \in [Addr -> Entries \cup {Null}]
      /\ h2[a] = e /\ \A b \in Addr : b # a => h2[b] = h[b]
      /\ H \subseteq Addr
  BY DEF Memory, Change, ChangeHeap
<1>4. /\ r2 \in [Generations -> Seq(Addr)] /\ IsInjective(r2[f]) /\ IsInjective(r2[g])
      /\ Range(r2[f]) = Range(r[f]) \ {a} /\ Range(r2[g]) = Range(r[g]) \cup {a}
      /\ \A k \in Generations : k # f /\ k # g => r2[k] = r[k]
  <2>1. /\ r2 \in [Generations -> Seq(Addr)]
        /\ r2[f] = RemoveFirst(r[f], a) /\ r2[g] = Cons(a, r[g])
        /\ \A k \in Generations : k # f /\ k # g => r2[k] = r[k]
    BY DEF MoveRing
  <2>2. IsInjective(r2[f]) /\ Range(r2[f]) = Range(r[f]) \ {a}
    BY <1>1, <2>1, RemoveList
  <2>3. IsInjective(r2[g]) /\ Range(r2[g]) = Range(r[g]) \cup {a}
    BY <1>1, <1>2, <2>1, ConsList
  <2> QED BY <2>1, <2>2, <2>3
<1>5. OfItsClass(e)
  BY <1>1 DEF OfItsClass, Memory, EntriesPlaced
<1>6. EntriesPlaced(h2, d, H)
  BY <1>1, <1>3, <1>5, Sizes DEF Memory, EntriesPlaced
<1>7. IndexLeads(h2, d)
  BY <1>1, <1>3 DEF Memory, IndexLeads
<1>8. HeldExist(h2, H)
  BY <1>1, <1>3 DEF Memory, HeldExist
<1>9. RingsList(h2, r2)
  <2> SUFFICES ASSUME NEW k \in Generations
               PROVE  /\ IsInjective(r2[k])
                      /\ \A b \in Addr :
                            b \in Range(r2[k]) <=> h2[b] # Null /\ h2[b].generation = k
    BY DEF RingsList
  <2>1. /\ IsInjective(r[k])
        /\ \A b \in Addr : b \in Range(r[k]) <=> h[b] # Null /\ h[b].generation = k
    BY DEF Memory, RingsList
  <2>2. IsInjective(r2[k])
    BY <1>4, <2>1
  <2>3. ASSUME NEW c \in Addr, c # a
        PROVE  c \in Range(r2[k]) <=> h2[c] # Null /\ h2[c].generation = k
    <3>1. c \in Range(r2[k]) <=> c \in Range(r[k])
      <4>1. CASE k = f
        BY <1>4, <2>3, <4>1
      <4>2. CASE k = g
        BY <1>4, <2>3, <4>2
      <4>3. CASE k # f /\ k # g
        BY <1>4, <4>3
      <4> QED BY <4>1, <4>2, <4>3
    <3>2. h2[c] = h[c]
      BY <1>3, <2>3
    <3> QED BY <2>1, <3>1, <3>2
  <2>4. a \in Range(r2[k]) <=> h2[a] # Null /\ h2[a].generation = k
    <3>1. CASE k = f
      BY <1>3, <1>4, <3>1
    <3>2. CASE k = g
      BY <1>1, <1>3, <1>4, <3>2
    <3>3. CASE k # f /\ k # g
      BY <1>1, <1>3, <1>4, <2>1, <3>3
    <3> QED BY <3>1, <3>2, <3>3
  <2> QED BY <2>2, <2>3, <2>4
<1>10. Stay(h, h2, H)
  BY <1>1, <1>3 DEF Memory, HeldExist, Stay
<1> QED BY <1>3, <1>4, <1>6, <1>7, <1>8, <1>9, <1>10 DEF Memory, After

\* An entry becomes the most recently used one of its generation.
LEMMA RefreshMemory ==
    ASSUME NEW h, NEW d, NEW r, NEW H, Memory(h, d, r, H),
           NEW g \in Generations, NEW a \in Range(r[g]),
           NEW e \in Entries, e.oid = h[a].oid, e.several = h[a].several,
           e.values = h[a].values, e.generation = g,
           NEW h2, ChangeHeap(h, h2, a, e),
           NEW r2, ChangeRing(r, r2, g, Cons(a, RemoveFirst(r[g], a)))
    PROVE  After(h, h2, d, r2, H, H)
<1>1. /\ a \in Addr /\ a[1] \in Oids /\ d[a[1]] = a /\ e # Null /\ h[a] # Null
      /\ h[a] \in Entries /\ h[a].oid = a[1] /\ h[a].generation = g
      /\ r[g] \in Seq(Addr) /\ IsInjective(r[g])
  BY Listed, EntryFields
<1>2. /\ h2 \in [Addr -> Entries \cup {Null}]
      /\ h2[a] = e /\ \A b \in Addr : b # a => h2[b] = h[b]
      /\ H \subseteq Addr
  BY DEF Memory, Change, ChangeHeap
<1>3. /\ r2 \in [Generations -> Seq(Addr)]
      /\ r2[g] = Cons(a, RemoveFirst(r[g], a))
      /\ \A k \in Generations : k # g => r2[k] = r[k]
  BY DEF Change, ChangeRing
<1>4. IsInjective(r2[g]) /\ Range(r2[g]) = Range(r[g])
  BY <1>1, <1>3, RefreshList
<1>5. OfItsClass(e)
  BY <1>1 DEF OfItsClass, Memory, EntriesPlaced
<1>6. EntriesPlaced(h2, d, H)
  BY <1>1, <1>2, <1>5, Sizes DEF Memory, EntriesPlaced
<1>7. IndexLeads(h2, d)
  BY <1>1, <1>2 DEF Memory, IndexLeads
<1>8. HeldExist(h2, H)
  BY <1>1, <1>2 DEF Memory, HeldExist
<1>9. RingsList(h2, r2)
  <2> SUFFICES ASSUME NEW k \in Generations
               PROVE  /\ IsInjective(r2[k])
                      /\ \A b \in Addr :
                            b \in Range(r2[k]) <=> h2[b] # Null /\ h2[b].generation = k
    BY DEF RingsList
  <2>1. /\ IsInjective(r[k])
        /\ \A b \in Addr : b \in Range(r[k]) <=> h[b] # Null /\ h[b].generation = k
    BY DEF Memory, RingsList
  <2>2. IsInjective(r2[k]) /\ Range(r2[k]) = Range(r[k])
    BY <1>3, <1>4, <2>1
  <2>3. ASSUME NEW c \in Addr
        PROVE  c \in Range(r2[k]) <=> h2[c] # Null /\ h2[c].generation = k
    <3>1. CASE c = a
      BY <1>1, <1>2, <2>1, <2>2, <3>1
    <3>2. CASE c # a
      BY <1>2, <2>1, <2>2, <3>2
    <3> QED BY <3>1, <3>2
  <2> QED BY <2>2, <2>3
<1>10. Stay(h, h2, H)
  BY <1>1, <1>2 DEF Memory, HeldExist, Stay
<1> QED BY <1>2, <1>3, <1>6, <1>7, <1>8, <1>9, <1>10 DEF Memory, After

\* A new entry takes the place of an entry.
LEMMA ReplaceMemory ==
    ASSUME NEW h, NEW d, NEW r, NEW H, Memory(h, d, r, H),
           NEW o \in Oids, d[o] # Null, NEW a, a = d[o], NEW g, g = h[a].generation,
           NEW b \in Addr, b[1] = o, h[b] = Null,
           NEW e \in Entries, e.oid = o, OfItsClass(e), e.generation = g,
           NEW h2, ReplaceHeap(h, h2, a, b, e, H), NEW d2, ChangeIndex(d, d2, o, b),
           NEW r2, ChangeRing(r, r2, g, ReplaceAll(r[g], a, b))
    PROVE  After(h, h2, d2, r2, H, H)
<1> DEFINE m == Outside(h[a])
<1>1. /\ a \in Addr /\ a[1] = o /\ h[a] \in Entries /\ h[a].oid = o
      /\ g \in Generations /\ a \in Range(r[g]) /\ OfItsClass(h[a]) /\ h[a] # Null
  BY Indexed, EntryFields
<1>2. /\ m \in Entries /\ m.oid = o /\ m.several = h[a].several
      /\ m.values = h[a].values /\ m.generation = Null /\ m # Null
  BY <1>1, EntryOutside DEF m
<1>3. /\ h2 \in [Addr -> Entries \cup {Null}]
      /\ h2[a] = (IF a \in H THEN m ELSE Null) /\ h2[b] = e
      /\ \A c \in Addr : c # a /\ c # b => h2[c] = h[c]
  BY DEF ReplaceHeap, Left
<1> HIDE DEF m
<1>4. /\ a # b /\ e # Null /\ H \subseteq Addr
      /\ d2 \in [Oids -> Addr \cup {Null}]
      /\ d2[o] = b /\ \A p \in Oids : p # o => d2[p] = d[p]
  BY <1>1, EntryFields DEF Memory, Change, ChangeIndex
<1>5. b \notin Range(r[g])
  BY <1>1 DEF Memory, RingsList
<1>6. /\ r2 \in [Generations -> Seq(Addr)] /\ IsInjective(r2[g])
      /\ Range(r2[g]) = (Range(r[g]) \ {a}) \cup {b}
      /\ \A f \in Generations : f # g => r2[f] = r[f]
  <2>1. /\ r2 \in [Generations -> Seq(Addr)] /\ r2[g] = ReplaceAll(r[g], a, b)
        /\ \A f \in Generations : f # g => r2[f] = r[f]
    BY DEF Change, ChangeRing
  <2>2. r[g] \in Seq(Addr) /\ IsInjective(r[g])
    BY <1>1, Listed
  <2>3. IsInjective(r2[g]) /\ Range(r2[g]) = (Range(r[g]) \ {a}) \cup {b}
    BY <1>1, <1>5, <2>1, <2>2, ReplaceList
  <2> QED BY <2>1, <2>3
<1>7. OfItsClass(m)
  BY <1>1, <1>2 DEF OfItsClass
<1>8. EntriesPlaced(h2, d2, H)
  <2> SUFFICES ASSUME NEW c \in Addr, h2[c] # Null
               PROVE  /\ h2[c].oid = c[1] /\ OfItsClass(h2[c])
                      /\ d2[c[1]] = c \/ c \in H
                      /\ h2[c].generation # Null <=> d2[c[1]] = c
    BY DEF EntriesPlaced
  <2>1. CASE c = a
    BY <1>1, <1>2, <1>3, <1>4, <1>7, <2>1
  <2>2. CASE c = b
    BY <1>1, <1>3, <1>4, <2>2, Sizes
  <2>3. CASE c # a /\ c # b
    <3>1. /\ h2[c] = h[c] /\ h[c].oid = c[1] /\ OfItsClass(h[c])
          /\ d[c[1]] = c \/ c \in H
          /\ h[c].generation # Null <=> d[c[1]] = c
      BY <1>3, <1>4, <2>3 DEF Memory, EntriesPlaced
    <3>2. c[1] \in Oids
      BY AddrShape
    <3> QED BY <1>3, <1>4, <2>3, <3>1, <3>2
  <2> QED BY <2>1, <2>2, <2>3
<1>9. IndexLeads(h2, d2)
  BY <1>1, <1>3, <1>4 DEF Memory, IndexLeads
<1>10. HeldExist(h2, H)
  BY <1>1, <1>2, <1>3, <1>4 DEF Memory, HeldExist
<1>11. RingsList(h2, r2)
  <2> SUFFICES ASSUME NEW k \in Generations
               PROVE  /\ IsInjective(r2[k])
                      /\ \A c \in Addr :
                            c \in Range(r2[k]) <=> h2[c] # Null /\ h2[c].generation = k
    BY DEF RingsList
  <2>1. /\ IsInjective(r[k])
        /\ \A c \in Addr : c \in Range(r[k]) <=> h[c] # Null /\ h[c].generation = k
    BY DEF Memory, RingsList
  <2>2. h2[a] = Null \/ h2[a].generation = Null
    BY <1>2, <1>3, <1>4
  <2>3. CASE k # g
    <3>1. r2[k] = r[k]
      BY <1>6, <2>3
    <3>2. ~ (h[a] # Null /\ h[a].generation = k) /\ h[b] = Null
      BY <1>1, <2>3
    <3> QED BY <1>3, <1>4, <2>1, <2>2, <2>3, <3>1, <3>2, Sizes
  <2>4. CASE k = g
    <3>1. ASSUME NEW c \in Addr
          PROVE  c \in Range(r2[k]) <=> h2[c] # Null /\ h2[c].generation = k
      <4>1. CASE c = a
        BY <1>3, <1>4, <1>6, <2>2, <2>4, <4>1, Sizes
      <4>2. CASE c = b
        BY <1>3, <1>4, <1>6, <2>4, <4>2
      <4>3. CASE c # a /\ c # b
        BY <1>3, <1>4, <1>6, <2>1, <2>4, <4>3
      <4> QED BY <4>1, <4>2, <4>3
    <3> QED BY <1>6, <2>4, <3>1
  <2> QED BY <2>3, <2>4
<1>12. Stay(h, h2, H)
  <2>1. ASSUME NEW c \in H
        PROVE  /\ h2[c] # Null /\ h2[c].oid = h[c].oid
               /\ DOMAIN h2[c].values = DOMAIN h[c].values
    <3>1. c \in Addr /\ h[c] # Null /\ c # b
      BY <1>3, <1>4 DEF Memory, HeldExist
    <3>2. CASE c = a
      BY <1>1, <1>2, <1>3, <1>4, <3>2
    <3>3. CASE c # a
      BY <1>3, <1>4, <3>1, <3>3
    <3> QED BY <3>2, <3>3
  <2> QED BY <2>1 DEF Stay
<1> QED BY <1>3, <1>4, <1>6, <1>8, <1>9, <1>10, <1>11, <1>12 DEF Memory, After

\* The cache is thrown away: only what is held is left.
LEMMA FlushMemory ==
    ASSUME NEW h, NEW d, NEW r, NEW H, Memory(h, d, r, H),
           NEW h2, h2 = [a \in Addr |-> IF a \in H THEN Outside(h[a]) ELSE Null],
           NEW d2, d2 = [o \in Oids |-> Null],
           NEW r2, r2 = [g \in Generations |-> <<>>]
    PROVE  After(h, h2, d2, r2, H, H)
<1>1. H \subseteq Addr /\ \A a \in H : h[a] \in Entries
  BY DEF Memory, HeldExist
<1>2. \A a \in H : /\ h2[a] \in Entries /\ h2[a].oid = h[a].oid
                   /\ h2[a].several = h[a].several /\ h2[a].values = h[a].values
                   /\ h2[a].generation = Null /\ h2[a] # Null
  BY <1>1, EntryOutside
<1>3. \A a \in Addr : a \notin H => h2[a] = Null
  OBVIOUS
<1>4. h2 \in [Addr -> Entries \cup {Null}]
  <2>1. \A a \in Addr : (IF a \in H THEN Outside(h[a]) ELSE Null) \in Entries \cup {Null}
    BY <1>1, EntryOutside
  <2> QED BY <2>1
<1>5. d2 \in [Oids -> Addr \cup {Null}] /\ r2 \in [Generations -> Seq(Addr)]
  OBVIOUS
<1>6. EntriesPlaced(h2, d2, H)
  <2>1. ASSUME NEW a \in H PROVE OfItsClass(h2[a])
    <3>1. OfItsClass(h[a])
      BY <1>1 DEF Memory, EntriesPlaced, HeldExist
    <3>2. h2[a].several = h[a].several /\ h2[a].values = h[a].values
      BY <1>2
    <3> QED BY <3>1, <3>2 DEF OfItsClass
  <2>2. ASSUME NEW a \in Addr, h2[a] # Null
        PROVE  /\ h2[a].oid = a[1] /\ OfItsClass(h2[a])
               /\ d2[a[1]] = a \/ a \in H
               /\ h2[a].generation # Null <=> d2[a[1]] = a
    <3>1. a \in H /\ a[1] \in Oids /\ a # Null
      BY <1>3, <2>2, AddrShape
    <3>2. d2[a[1]] = Null
      BY <3>1
    <3>3. h[a] # Null /\ h[a].oid = a[1]
      BY <3>1 DEF Memory, EntriesPlaced, HeldExist
    <3>4. h2[a].oid = a[1] /\ h2[a].generation = Null
      BY <1>2, <3>1, <3>3
    <3> QED BY <2>1, <3>1, <3>2, <3>4
  <2> QED BY <2>2 DEF EntriesPlaced
<1>7. IndexLeads(h2, d2)
  BY DEF IndexLeads
<1>8. HeldExist(h2, H)
  BY <1>2 DEF Memory, HeldExist
<1>9. RingsList(h2, r2)
  <2>1. IsInjective(<<>>) /\ Range(<<>>) = {}
    BY DEF IsInjective, Range
  <2>2. \A a \in Addr : h2[a] = Null \/ h2[a].generation = Null
    BY <1>2, <1>3
  <2> QED BY <2>1, <2>2, Sizes DEF RingsList
<1>10. Stay(h, h2, H)
  BY <1>2 DEF Stay
<1> QED BY <1>1, <1>4, <1>5, <1>6, <1>7, <1>8, <1>9, <1>10 DEF Memory, After

-----------------------------------------------------------------------------
(* The inductive invariant. *)

\* What a thread holds, or the running call returns.
Held == {a \in Addr : InPython(a) \/ call.result = a}

MemoryInv == Memory(heap, data, ring, Held)

\* The object of the running call is in the cache, and a thread that gets a
\* result holds nothing yet.
CallInv ==
    /\ pc = "idle" => call = NoCall
    /\ call.oid # Null => data[call.oid] # Null
    /\ call.thread = Null <=> call.result = Null
    /\ call.thread # Null => python[call.thread] = Null /\ call.result[1] = call.oid
    /\ pc = "hit" => call.oid # Null /\ heap[data[call.oid]].frequency < MaxFrequency

\* Where a spill goes, and whether it evicts.
SpillRoutes ==
    \/ spill.from = "eden" /\ spill.to = "probation" /\ spill.rejects
    \/ spill.from = "eden" /\ spill.to = "protected" /\ ~ spill.rejects /\ spill.ignore = Null
    \/ spill.from = "protected" /\ spill.to = "probation" /\ spill.rejects

\* The entry that a spill ignores is the one of the running call, and the
\* most recently used one of the list that entries leave.
SpillInv ==
    /\ pc \in {"idle", "hit", "load", "return"} => spill = NoSpill
    /\ pc = "fill" => spill.from = "eden" /\ spill.ignore # Null
    /\ pc = "spill" => SpillRoutes
    /\ pc \in {"fill", "spill"} /\ spill.ignore = Null => call.oid = Null
    /\ pc \in {"fill", "spill"} /\ spill.ignore # Null =>
           /\ call.oid # Null /\ spill.ignore = data[call.oid]
           /\ spill.ignore \in Range(ring[spill.from])
           /\ ring[spill.from][1] = spill.ignore

\* Rows that are still to be loaded are of objects that are not cached.
LoadInv ==
    /\ pc # "load" => rows = <<>>
    /\ pc = "load" => call.oid = Null
    /\ \A i \in 1..Len(rows) : data[rows[i].oid] = Null
    /\ \A i, j \in 1..Len(rows) : rows[i].oid = rows[j].oid => i = j

CoreInv == TypeOK /\ MemoryInv /\ CallInv /\ SpillInv /\ LoadInv

\* What HeldValuesStay says of a step, for the references that outlast it.
Kept == {a \in Addr : \/ \E t \in Threads : python[t] = a /\ python'[t] = a
                      \/ pc # "idle" /\ call.result = a}

\* A kept entry is held.
LEMMA KeptHeld ==
    ASSUME Stay(heap, heap', Held)
    PROVE  Stay(heap, heap', Kept)
BY DEF Stay, Held, Kept, InPython

\* The variables that are not about memory have their types.
OthersTyped ==
    /\ sum \in [Generations -> 0..SizeModulus - 1]
    /\ limit \in Limits /\ written \in Workloads /\ sets \in 0..MaxSets
    /\ python \in [Threads -> Addr \cup {Null}]
    /\ pc \in {"idle", "hit", "fill", "spill", "load", "return"}
    /\ spill \in [from: Generations \cup {Null}, to: Generations \cup {Null},
                  ignore: Addr \cup {Null}, rejects: BOOLEAN]
    /\ evicting \in BOOLEAN /\ multiple \in BOOLEAN
    /\ call \in [oid: Oids \cup {Null}, thread: Threads \cup {Null},
                 result: Addr \cup {Null}]
    /\ rows \in Seq(Rows)

\* The types after a step.
LEMMA TypesAfter ==
    ASSUME MemoryInv', OthersTyped'
    PROVE  TypeOK'
BY DEF MemoryInv, Memory, TypeOK, OthersTyped

\* What every step is shown to do.
StepSafe == CoreInv' /\ Stay(heap, heap', Kept)

\* Between calls nothing runs.
LEMMA Idle ==
    ASSUME CoreInv, pc = "idle"
    PROVE  /\ call = NoCall /\ spill = NoSpill /\ rows = <<>>
           /\ call.oid = Null /\ call.thread = Null /\ call.result = Null
BY DEF CoreInv, CallInv, SpillInv, LoadInv, NoCall

\* A call that is over before another can start leaves no trace.
LEMMA StaysIdle ==
    ASSUME CoreInv, pc = "idle", pc' = pc, spill' = spill, rows' = rows, call' = call
    PROVE  CallInv' /\ SpillInv' /\ LoadInv'
<1>1. /\ call' = NoCall /\ spill' = NoSpill /\ rows' = <<>> /\ pc' = "idle"
      /\ call'.oid = Null /\ call'.thread = Null /\ call'.result = Null
  BY Idle
<1>2. Len(rows') = 0
  BY <1>1
<1> QED BY <1>1, <1>2 DEF CallInv, SpillInv, LoadInv

\* There is room for an entry of every object that no call returns: there are
\* more addresses than an entry in the cache and one for each thread.
LEMMA FreshFree ==
    ASSUME CoreInv, call.result = Null, NEW o \in Oids
    PROVE  Fresh(o) \in Addr /\ Fresh(o)[1] = o /\ heap[Fresh(o)] = Null
<1> DEFINE I == {i \in 1..Copies : heap[<<o, i>>] = Null}
<1>1. ASSUME I = {} PROVE FALSE
  <2> DEFINE holder(i) == CHOOSE t \in Threads : python[t] = <<o, i>>
             S == Threads \cup {Null}
             f == [i \in 1..Copies |-> IF data[o] = <<o, i>> THEN Null ELSE holder(i)]
  <2>1. ASSUME NEW i \in 1..Copies, data[o] # <<o, i>>
        PROVE  holder(i) \in Threads /\ python[holder(i)] = <<o, i>>
    <3>1. <<o, i>> \in Addr /\ heap[<<o, i>>] # Null
      BY <1>1 DEF Addr
    <3>2. <<o, i>> \in Held
      BY <2>1, <3>1 DEF CoreInv, MemoryInv, Memory, EntriesPlaced
    <3>3. InPython(<<o, i>>)
      BY <3>1, <3>2, AddrShape DEF Held
    <3> QED BY <3>3 DEF InPython
  <2> HIDE DEF holder
  <2>2. \A i \in 1..Copies : f[i] \in S
    BY <2>1
  <2>3. ASSUME NEW i \in 1..Copies, NEW j \in 1..Copies, f[i] = f[j] PROVE i = j
    <3>1. CASE data[o] = <<o, i>>
      BY <2>1, <2>3, <3>1, Sizes
    <3>2. CASE data[o] # <<o, i>>
      BY <2>1, <2>3, <3>2, Sizes
    <3> QED BY <3>1, <3>2
  <2>4. f \in [1..Copies -> S]
    BY <2>2
  <2>5. f \in Injection(1..Copies, S)
    <3> HIDE DEF f, S
    <3> QED BY <2>3, <2>4 DEF Injection, IsInjective
  <2>6. IsFiniteSet(S) /\ Cardinality(S) = Cardinality(Threads) + 1
    BY Sizes, FS_AddElement
  <2>7. Cardinality(1..Copies) = Copies
    BY Sizes, FS_Interval
  <2>8. Cardinality(1..Copies) <= Cardinality(S)
    <3> HIDE DEF f, S
    <3> QED BY <2>5, <2>6, FS_Injection
  <2>9. Cardinality(Threads) \in Nat
    BY Sizes, FS_CardinalityType
  <2> QED BY <2>6, <2>7, <2>8, <2>9, Sizes
<1>2. IsFiniteSet(I) /\ I \subseteq Nat
  <2>1. IsFiniteSet(1..Copies) /\ I \in SUBSET (1..Copies)
    BY Sizes, FS_Interval
  <2>2. IsFiniteSet(I)
    <3> HIDE DEF I
    <3> QED BY <2>1, FS_Subset
  <2> QED BY <2>1, <2>2
<1>3. Min(I) \in I
  <2> HIDE DEF I
  <2> QED BY <1>1, <1>2, MinMax
<1>4. Fresh(o) = <<o, Min(I)>>
  BY DEF Fresh
<1>5. Min(I) \in 1..Copies /\ heap[<<o, Min(I)>>] = Null
  BY <1>3
<1> HIDE DEF I
<1> QED BY <1>4, <1>5 DEF Addr

\* The subtraction and addition of weights stay in the range of size_t.
LEMMA SumsTyped ==
    ASSUME sum \in [Generations -> 0..SizeModulus - 1], NEW v \in Nat, NEW w \in Nat,
           NEW f \in Generations, NEW g \in Generations
    PROVE  /\ sum[f] \in Nat /\ sum[g] \in Nat
           /\ [sum EXCEPT ![f] = SizeT(@ - v)] \in [Generations -> 0..SizeModulus - 1]
           /\ [sum EXCEPT ![f] = SizeT(@ + v)] \in [Generations -> 0..SizeModulus - 1]
           /\ [sum EXCEPT ![f] = SizeT(@ - v + w)] \in [Generations -> 0..SizeModulus - 1]
           /\ [sum EXCEPT ![f] = SizeT(@ - v), ![g] = SizeT(@ + v)]
                 \in [Generations -> 0..SizeModulus - 1]
<1>1. sum[f] \in Nat /\ sum[g] \in Nat /\ 0 \in Nat /\ SizeModulus \in Nat
  BY Sizes
<1>2. \A n \in Int : SizeT(n) \in 0..SizeModulus - 1
  BY SizeTRange
<1>3. /\ SizeT(sum[f] - v) \in 0..SizeModulus - 1 /\ SizeT(sum[f] + v) \in 0..SizeModulus - 1
      /\ SizeT(sum[f] - v + w) \in 0..SizeModulus - 1
      /\ SizeT(sum[g] + v) \in 0..SizeModulus - 1
      /\ SizeT(SizeT(sum[f] - v) + v) \in 0..SizeModulus - 1
  BY <1>1, <1>2
<1> HIDE DEF SizeT
<1> QED BY <1>1, <1>3

\* The entry of an object leaves the cache.
LEMMA DropStep ==
    ASSUME CoreInv, NEW o \in Oids, NEW a, a = data[o], a # Null, a # call.result,
           NEW w \in Nat, Drop(a, w), python' = python, call' = call
    PROVE  /\ MemoryInv' /\ Stay(heap, heap', Held)
           /\ sum' \in [Generations -> 0..SizeModulus - 1]
<1> DEFINE g == heap[a].generation
<1>1. /\ a \in Addr /\ heap[a] \in Entries /\ heap[a].oid = o
      /\ g \in Generations /\ a \in Range(ring[g]) /\ Memory(heap, data, ring, Held)
  BY Indexed DEF CoreInv, MemoryInv
<1>2. a \in Held <=> InPython(a)
  BY <1>1 DEF Held
<1>3. /\ heap' = [heap EXCEPT ![a] = Left(heap, a, Held)]
      /\ data' = [data EXCEPT ![o] = Null]
      /\ ring' = [ring EXCEPT ![g] = RemoveFirst(ring[g], a)]
      /\ sum' = [sum EXCEPT ![g] = SizeT(@ - w)]
  BY <1>1, <1>2 DEF Drop, Unlinked, Left
<1>4. Held' = Held
  BY DEF Held, InPython
<1>5. After(heap, heap', data', ring', Held, Held)
  <2>1. Left(heap, a, Held) \in Entries \cup {Null}
    BY <1>1, EntryOutside DEF Left
  <2>2. ChangeHeap(heap, heap', a, Left(heap, a, Held))
    BY <1>1, <1>3, <2>1 DEF Change, ChangeHeap, Memory
  <2>3. ChangeIndex(data, data', o, Null)
    BY <1>3 DEF Change, ChangeIndex, CoreInv, TypeOK
  <2>4. ChangeRing(ring, ring', g, RemoveFirst(ring[g], a))
    <3>1. RemoveFirst(ring[g], a) \in Seq(Addr)
      BY <1>1, Listed, RemoveList
    <3> QED BY <1>1, <1>3, <3>1 DEF Change, ChangeRing, CoreInv, TypeOK
  <2> QED BY <1>1, <2>2, <2>3, <2>4, DropMemory
<1>6. sum' \in [Generations -> 0..SizeModulus - 1]
  BY <1>1, <1>3, SumsTyped DEF CoreInv, TypeOK
<1> QED BY <1>3, <1>4, <1>5, <1>6 DEF MemoryInv, After

\* A new entry takes the place of the entry of an object.
LEMMA ReplaceStep ==
    ASSUME CoreInv, call.result = Null, NEW o \in Oids, NEW a, a = data[o], a # Null,
           NEW b \in Entries, b.oid = o, OfItsClass(b), b.generation = heap[a].generation,
           NEW w \in Nat, ReplaceWith(a, w, b), Held' = Held
    PROVE  /\ MemoryInv' /\ Stay(heap, heap', Held)
           /\ sum' \in [Generations -> 0..SizeModulus - 1]
           /\ data' = [data EXCEPT ![o] = Fresh(o)] /\ Fresh(o) \in Addr
           /\ heap'[Fresh(o)] = b
<1> DEFINE g == heap[a].generation
<1>1. /\ a \in Addr /\ heap[a] \in Entries /\ heap[a].oid = o
      /\ g \in Generations /\ a \in Range(ring[g]) /\ Memory(heap, data, ring, Held)
  BY Indexed DEF CoreInv, MemoryInv
<1>2. a \in Held <=> InPython(a)
  BY <1>1 DEF Held
<1>3. Fresh(o) \in Addr /\ Fresh(o)[1] = o /\ heap[Fresh(o)] = Null
  BY FreshFree
<1>4. /\ heap' = [[heap EXCEPT ![a] = Left(heap, a, Held)] EXCEPT ![Fresh(o)] = b]
      /\ data' = [data EXCEPT ![o] = Fresh(o)]
      /\ ring' = [ring EXCEPT ![g] = ReplaceAll(ring[g], a, Fresh(o))]
      /\ sum' = [sum EXCEPT ![g] = SizeT(@ - w + Weight(b))]
  BY <1>1, <1>2 DEF ReplaceWith, Unlinked, Left
<1>5. ReplaceHeap(heap, heap', a, Fresh(o), b, Held)
  <2>1. Left(heap, a, Held) \in Entries \cup {Null} /\ a # Fresh(o)
    BY <1>1, <1>3, EntryOutside, EntryFields DEF Left
  <2> QED BY <1>1, <1>3, <1>4, <2>1 DEF ReplaceHeap, Memory
<1>6. After(heap, heap', data', ring', Held, Held)
  <2>1. ChangeIndex(data, data', o, Fresh(o))
    BY <1>3, <1>4 DEF Change, ChangeIndex, CoreInv, TypeOK
  <2>2. ChangeRing(ring, ring', g, ReplaceAll(ring[g], a, Fresh(o)))
    <3>1. ReplaceAll(ring[g], a, Fresh(o)) \in Seq(Addr)
      <4>1. Fresh(o) \notin Range(ring[g])
        BY <1>1, <1>3 DEF Memory, RingsList
      <4> QED BY <1>1, <1>3, <4>1, Listed, ReplaceList
    <3> QED BY <1>1, <1>4, <3>1 DEF Change, ChangeRing, CoreInv, TypeOK
  <2> QED BY <1>1, <1>3, <1>5, <2>1, <2>2, ReplaceMemory
<1>7. sum' \in [Generations -> 0..SizeModulus - 1]
  BY <1>1, <1>4, SumsTyped, EntryFields DEF CoreInv, TypeOK
<1> QED BY <1>3, <1>4, <1>5, <1>6, <1>7 DEF MemoryInv, After, ReplaceHeap

\* The entry of an object changes its values.
LEMMA TouchStep ==
    ASSUME CoreInv, NEW o \in Oids, NEW a, a = data[o], a # Null,
           NEW e \in Entries, e.oid = o, e.several = heap[a].several, OfItsClass(e),
           e.generation = heap[a].generation,
           e.several \/ DOMAIN e.values = DOMAIN heap[a].values,
           heap' = [heap EXCEPT ![a] = e], data' = data, ring' = ring, Held' = Held
    PROVE  /\ MemoryInv' /\ Stay(heap, heap', Held)
           /\ heap'[a] = e
<1>1. /\ a \in Addr /\ heap[a].oid = o /\ heap[a] # Null /\ heap[a] \in Entries
      /\ Memory(heap, data, ring, Held)
  BY Indexed DEF CoreInv, MemoryInv
<1>2. /\ heap' \in [Addr -> Entries \cup {Null}] /\ e # Null
      /\ heap'[a] = e /\ \A b \in Addr : b # a => heap'[b] = heap[b]
  BY <1>1, EntryFields DEF Memory
<1>3. \A b \in Addr : heap'[b] = Null <=> heap[b] = Null
  BY <1>1, <1>2
<1>4. \A b \in Addr : heap[b] # Null =>
          /\ heap'[b].oid = heap[b].oid /\ heap'[b].several = heap[b].several
          /\ heap'[b].generation = heap[b].generation /\ OfItsClass(heap'[b])
  BY <1>1, <1>2 DEF Memory, EntriesPlaced
<1>5. Memory(heap', data, ring, Held)
  <2>1. SameShape(heap, heap')
    BY <1>2, <1>3, <1>4 DEF SameShape
  <2> QED BY <1>1, <2>1, TouchMemory
<1>6. ASSUME NEW b \in Held
      PROVE  /\ heap'[b] # Null /\ heap'[b].oid = heap[b].oid
             /\ DOMAIN heap'[b].values = DOMAIN heap[b].values
  <2>1. b \in Addr /\ heap[b] # Null /\ ~ heap[b].several
    BY <1>1 DEF Memory, HeldExist
  <2> QED BY <1>1, <1>2, <2>1
<1> QED BY <1>2, <1>5, <1>6 DEF MemoryInv, Stay

\* The value left when the others are gone.
LEMMA SingleValueMade ==
    ASSUME NEW e, e.oid \in Oids, e.frequency \in 0..MaxFrequency,
           e.generation \in Generations \cup {Null},
           NEW t \in Tids, NEW b \in BOOLEAN
    PROVE  /\ SingleValue(e, t, b) \in Entries /\ OfItsClass(SingleValue(e, t, b))
           /\ SingleValue(e, t, b).oid = e.oid /\ SingleValue(e, t, b).several = FALSE
           /\ SingleValue(e, t, b).values = [u \in {t} |-> b]
           /\ SingleValue(e, t, b).frequency = e.frequency
           /\ SingleValue(e, t, b).generation = e.generation
<1> DEFINE v == [u \in {t} |-> b]
           s == SingleValue(e, t, b)
<1>1. v \in Valuations /\ DOMAIN v = {t}
  <2>1. DOMAIN v = {t} /\ v[t] = b /\ v = [u \in {t} |-> v[u]]
    OBVIOUS
  <2>2. \A u \in {t} : v[u] \in BOOLEAN
    BY <2>1, Zenon
  <2> HIDE DEF v
  <2> QED BY <2>1, <2>2, ValuationShape
<1>2. s = Entry(e.oid, FALSE, v, e.frequency, e.generation)
  BY DEF SingleValue
<1> HIDE DEF v, s
<1>3. /\ s \in Entries /\ s.oid = e.oid /\ s.several = FALSE
      /\ s.values = v /\ s.frequency = e.frequency
      /\ s.generation = e.generation
  BY <1>1, <1>2 DEF Entry, Entries
<1>4. OfItsClass(s)
  BY <1>1, <1>3 DEF OfItsClass
<1> QED BY <1>3, <1>4 DEF v, s

\* Values of an entry with several values are removed or frozen.
LEMMA ShrinkStep ==
    ASSUME CoreInv, pc = "idle", NEW o \in Oids, NEW a, a = data[o], a # Null,
           heap[a].several,
           NEW v, v = [t \in DOMAIN v |-> v[t]], DOMAIN v \subseteq DOMAIN heap[a].values,
           \A t \in DOMAIN v : v[t] \in BOOLEAN,
           NEW e, e = [heap[a] EXCEPT !.values = v],
           Shrink(a, e), python' = python, call' = call
    PROVE  /\ MemoryInv' /\ Stay(heap, heap', Held)
           /\ sum' \in [Generations -> 0..SizeModulus - 1]
<1>1. /\ a \in Addr /\ heap[a].oid = o /\ heap[a] # Null /\ heap[a] \in Entries
      /\ call.result = Null
  BY Indexed, Idle DEF CoreInv, MemoryInv
<1>2. /\ e.oid = o /\ e.several = heap[a].several /\ e.values = v
      /\ e.frequency = heap[a].frequency /\ e.generation = heap[a].generation
  BY <1>1 DEF Entries
<1>3. /\ DOMAIN v \subseteq Tids /\ e.frequency \in 0..MaxFrequency
      /\ e.generation \in Generations \cup {Null}
  BY <1>1, <1>2, EntryFields
<1>4. Held' = Held /\ sum \in [Generations -> 0..SizeModulus - 1]
  BY DEF Held, InPython, CoreInv, TypeOK
<1>5. CASE DOMAIN v = {} /\ Drop(a, Weight(e))
  <2>1. Weight(e) \in Nat
    BY <1>2, <1>3, WeightType
  <2> QED BY <1>1, <1>5, <2>1, DropStep
<1>6. ASSUME NEW t \in Tids, DOMAIN v = {t},
             ReplaceWith(a, Weight(Without(e, {t})), SingleValue(e, t, v[t]))
      PROVE  /\ MemoryInv' /\ Stay(heap, heap', Held)
             /\ sum' \in [Generations -> 0..SizeModulus - 1]
  <2>1. PICK b \in BOOLEAN : b = v[t]
    BY <1>6, Zenon
  <2> DEFINE s == SingleValue(e, t, b)
             w == Without(e, {t})
  <2>2. /\ s \in Entries /\ s.oid = o /\ OfItsClass(s) /\ s.generation = heap[a].generation
    <3>1. e.oid \in Oids
      BY <1>2
    <3>2. s \in Entries
      BY <1>3, <3>1, SingleValueMade, Zenon
    <3>3. OfItsClass(s)
      BY <1>3, <3>1, SingleValueMade, Zenon
    <3>4. s.oid = e.oid /\ s.generation = e.generation
      BY DEF SingleValue, Entry
    <3> HIDE DEF s
    <3> QED BY <1>2, <3>2, <3>3, <3>4, Zenon
  <2>3. Weight(w) \in Nat
    <3>1. w.oid = o /\ DOMAIN w.values = DOMAIN v \ {t}
      BY <1>1, <1>2 DEF Without, Entries
    <3> HIDE DEF w
    <3> QED BY <1>3, <3>1, WeightType
  <2> HIDE DEF s, w
  <2>4. ReplaceWith(a, Weight(w), s)
    BY <1>6, <2>1, Zenon DEF s, w
  <2> QED BY <1>1, <1>4, <2>2, <2>3, <2>4, ReplaceStep
<1>7. CASE /\ Cardinality(DOMAIN v) > 1
           /\ heap' = [heap EXCEPT ![a] = e] /\ UNCHANGED <<data, ring, sum>>
  <2>1. \E t, u \in DOMAIN v : t # u
    <3> SUFFICES ASSUME \A t, u \in DOMAIN v : t = u PROVE FALSE
      OBVIOUS
    <3>1. CASE DOMAIN v = {}
      BY <1>7, <3>1, FS_EmptySet
    <3>2. ASSUME NEW t \in DOMAIN v PROVE FALSE
      <4>1. DOMAIN v = {t}
        BY <3>2
      <4>2. Cardinality(DOMAIN v) = 1
        BY <4>1, FS_Singleton
      <4> QED BY <1>7, <4>2
    <3> QED BY <3>1, <3>2
  <2>2. v \in Valuations
    BY <1>3, <2>1, ValuationShape
  <2>3. e \in Entries
    BY <1>1, <2>2, EntryValued
  <2>4. OfItsClass(e)
    BY <1>2, <2>1 DEF OfItsClass
  <2>5. MemoryInv' /\ Stay(heap, heap', Held)
    BY <1>1, <1>2, <1>4, <1>7, <2>3, <2>4, TouchStep, ZenonT(60)
  <2> QED BY <1>4, <1>7, <2>5
<1> QED BY <1>2, <1>5, <1>6, <1>7 DEF Shrink

-----------------------------------------------------------------------------
(* The calls that are over in one step. *)

\* A call that is over in one step keeps what is about the running call.
LEMMA IdleStep ==
    ASSUME CoreInv, pc = "idle", MemoryInv', Stay(heap, heap', Kept),
           sum' \in [Generations -> 0..SizeModulus - 1], sets' \in 0..MaxSets,
           python' \in [Threads -> Addr \cup {Null}], multiple' \in BOOLEAN,
           UNCHANGED <<limit, pc, loopVars, call, written>>
    PROVE  StepSafe
<1>1. /\ limit' = limit /\ pc' = pc /\ spill' = spill /\ evicting' = evicting
      /\ rows' = rows /\ call' = call /\ written' = written
  BY DEF loopVars
<1>2. CallInv' /\ SpillInv' /\ LoadInv'
  BY <1>1, StaysIdle
<1>3. OthersTyped'
  BY <1>1 DEF CoreInv, TypeOK, OthersTyped
<1> QED BY <1>2, <1>3, TypesAfter DEF CoreInv, StepSafe

\* Cache::delitem(key)
LEMMA DelitemSafe ==
    ASSUME CoreInv, NEW o \in Oids, Delitem(o)
    PROVE  StepSafe
<1>1. pc = "idle" /\ data[o] # Null /\ call.result = Null
  BY Idle DEF Delitem
<1>2. Weight(heap[data[o]]) \in Nat
  BY <1>1, Indexed, EntryFields DEF CoreInv, MemoryInv
<1>3. /\ Drop(data[o], Weight(heap[data[o]]))
      /\ UNCHANGED <<limit, sets, python, pc, loopVars, call, multiple, written>>
  BY DEF Delitem
<1>4. /\ MemoryInv' /\ Stay(heap, heap', Held)
      /\ sum' \in [Generations -> 0..SizeModulus - 1]
  BY <1>1, <1>2, <1>3, DropStep
<1>5. Stay(heap, heap', Kept)
  BY <1>4, KeptHeld
<1> QED BY <1>1, <1>3, <1>4, <1>5, IdleStep DEF CoreInv, TypeOK

\* Cache::delitem(key, tid)
LEMMA DelitemBeforeSafe ==
    ASSUME CoreInv, NEW o \in Oids, NEW t \in Tids, DelitemBefore(o, t)
    PROVE  StepSafe
<1> DEFINE a == data[o]
           e == heap[a]
<1>1. pc = "idle" /\ a # Null /\ call.result = Null
  BY Idle DEF DelitemBefore
<1>2. UNCHANGED <<limit, sets, python, pc, loopVars, call, multiple, written>>
  BY DEF DelitemBefore
<1>3. e \in Entries /\ Weight(e) \in Nat
  BY <1>1, Indexed, EntryFields DEF CoreInv, MemoryInv
<1>4. /\ MemoryInv' /\ Stay(heap, heap', Held)
      /\ sum' \in [Generations -> 0..SizeModulus - 1]
  <2>1. CASE e.several /\ Shrink(a, Without(e, Older(e, t) \cup {t}))
    <3> DEFINE v == [u \in DOMAIN e.values \ (Older(e, t) \cup {t}) |-> e.values[u]]
    <3>1. Without(e, Older(e, t) \cup {t}) = [e EXCEPT !.values = v]
      BY <1>3 DEF Without, Entries
    <3>2. /\ v = [u \in DOMAIN v |-> v[u]] /\ DOMAIN v \subseteq DOMAIN e.values
          /\ \A u \in DOMAIN v : v[u] = e.values[u]
      OBVIOUS
    <3>3. \A u \in DOMAIN v : v[u] \in BOOLEAN
      BY <1>3, <3>2, EntryFields, Zenon
    <3> HIDE DEF v
    <3> QED BY <1>1, <1>2, <2>1, <3>1, <3>2, <3>3, ShrinkStep
  <2>2. CASE Drop(a, Weight(e))
    BY <1>1, <1>2, <1>3, <2>2, DropStep
  <2> QED BY <2>1, <2>2 DEF DelitemBefore
<1>5. Stay(heap, heap', Kept)
  BY <1>4, KeptHeld
<1> QED BY <1>1, <1>2, <1>4, <1>5, IdleStep DEF CoreInv, TypeOK

\* Cache::freeze
LEMMA FreezeSafe ==
    ASSUME CoreInv, NEW o \in Oids, NEW t \in Tids, Freeze(o, t)
    PROVE  StepSafe
<1> DEFINE a == data[o]
           e == heap[a]
           frozen(f) == [f EXCEPT !.values = [u \in DOMAIN @ |-> @[u] \/ u = t]]
<1>1. pc = "idle" /\ a # Null /\ call.result = Null
  BY Idle DEF Freeze
<1>2. UNCHANGED <<limit, sets, python, pc, loopVars, call, multiple, written>>
  BY DEF Freeze
<1>3. /\ e \in Entries /\ Weight(e) \in Nat /\ e.oid = o /\ OfItsClass(e)
      /\ \A u \in DOMAIN e.values : e.values[u] \in BOOLEAN
      /\ DOMAIN e.values \subseteq Tids /\ DOMAIN e.values # {}
  BY <1>1, Indexed, EntryFields DEF CoreInv, MemoryInv
<1>4. \/ e.several /\ Shrink(a, frozen(Without(e, Older(e, t))))
      \/ Drop(a, Weight(e))
      \/ heap' = [heap EXCEPT ![a] = frozen(e)] /\ UNCHANGED <<data, ring, sum>> /\ ~ e.several
  BY DEF Freeze
<1>5. /\ MemoryInv' /\ Stay(heap, heap', Held)
      /\ sum' \in [Generations -> 0..SizeModulus - 1]
  <2>1. CASE e.several /\ Shrink(a, frozen(Without(e, Older(e, t))))
    <3> DEFINE v == [u \in DOMAIN e.values \ Older(e, t) |-> e.values[u] \/ u = t]
    <3>1. frozen(Without(e, Older(e, t))) = [e EXCEPT !.values = v]
      BY <1>3 DEF Without, Entries
    <3>2. /\ v = [u \in DOMAIN v |-> v[u]] /\ DOMAIN v \subseteq DOMAIN e.values
          /\ \A u \in DOMAIN v : v[u] = (e.values[u] \/ u = t)
      OBVIOUS
    <3>3. \A u \in DOMAIN v : v[u] \in BOOLEAN
      BY <3>2, Zenon
    <3> HIDE DEF v
    <3> QED BY <1>1, <1>2, <2>1, <3>1, <3>2, <3>3, ShrinkStep
  <2>2. CASE Drop(a, Weight(e))
    BY <1>1, <1>2, <1>3, <2>2, DropStep
  <2>3. CASE /\ heap' = [heap EXCEPT ![a] = frozen(e)] /\ UNCHANGED <<data, ring, sum>>
             /\ ~ e.several
    <3> DEFINE v == [u \in DOMAIN e.values |-> e.values[u] \/ u = t]
               m == [e EXCEPT !.values = v]
    <3>1. /\ v = [u \in DOMAIN v |-> v[u]] /\ DOMAIN v = DOMAIN e.values
          /\ \A u \in DOMAIN v : v[u] = (e.values[u] \/ u = t)
      OBVIOUS
    <3>2. \A u \in DOMAIN v : v[u] \in BOOLEAN
      BY <3>1, Zenon
    <3>3. frozen(e) = m
      BY <1>3 DEF Entries
    <3> HIDE DEF v
    <3>4. v \in Valuations
      BY <1>3, <3>1, <3>2, ValuationShape
    <3>5. /\ m \in Entries /\ m.oid = e.oid /\ m.several = e.several
          /\ m.values = v /\ m.frequency = e.frequency /\ m.generation = e.generation
      BY <1>3, <3>4, EntryValued
    <3> HIDE DEF m
    <3>6. OfItsClass(m)
      BY <1>3, <3>1, <3>5 DEF OfItsClass
    <3>7. /\ heap' = [heap EXCEPT ![a] = m] /\ data' = data /\ ring' = ring /\ sum' = sum
          /\ Held' = Held
      BY <1>2, <2>3, <3>3 DEF Held, InPython
    <3>8. MemoryInv' /\ Stay(heap, heap', Held)
      BY <1>1, <1>3, <3>1, <3>5, <3>6, <3>7, TouchStep
    <3> QED BY <3>7, <3>8 DEF CoreInv, TypeOK
  <2> QED BY <1>4, <2>1, <2>2, <2>3
<1>6. Stay(heap, heap', Kept)
  BY <1>5, KeptHeld
<1> QED BY <1>1, <1>2, <1>5, <1>6, IdleStep DEF CoreInv, TypeOK

\* Cache::age_frequencies
LEMMA AgeFrequenciesSafe ==
    ASSUME CoreInv, AgeFrequencies
    PROVE  StepSafe
<1> DEFINE old(a) == [heap[a] EXCEPT !.frequency = @ \div 2]
<1>1. /\ pc = "idle" /\ Memory(heap, data, ring, Held)
      /\ UNCHANGED <<data, ring, sum, limit, sets, python, pc, loopVars, call, multiple, written>>
  BY DEF AgeFrequencies, CoreInv, MemoryInv
<1>2. ASSUME NEW a \in Addr, NEW o \in Oids, data[o] = a
      PROVE  /\ heap[a] # Null /\ old(a) # Null
             /\ old(a) \in Entries /\ old(a).oid = heap[a].oid
             /\ old(a).several = heap[a].several /\ old(a).values = heap[a].values
             /\ old(a).generation = heap[a].generation /\ OfItsClass(old(a))
  <2>1. heap[a] \in Entries /\ heap[a] # Null /\ OfItsClass(heap[a])
    BY <1>1, <1>2, Indexed, AddrShape
  <2>2. heap[a].frequency \in 0..MaxFrequency /\ MaxFrequency \in Nat
    BY <2>1, EntryFields, Sizes
  <2>3. heap[a].frequency \div 2 \in 0..MaxFrequency
    BY <2>2
  <2>4. /\ old(a) \in Entries /\ old(a).oid = heap[a].oid
        /\ old(a).several = heap[a].several /\ old(a).values = heap[a].values
        /\ old(a).generation = heap[a].generation
    BY <2>1, <2>3 DEF Entries
  <2> HIDE DEF old
  <2>5. OfItsClass(old(a)) /\ old(a) # Null
    BY <2>1, <2>4, Sizes DEF OfItsClass
  <2> QED BY <2>1, <2>4, <2>5
<1>3. heap' = [a \in Addr |-> IF \E o \in Oids : data[o] = a THEN old(a) ELSE heap[a]]
  BY DEF AgeFrequencies
<1> HIDE DEF old
<1>4. /\ heap' \in [Addr -> Entries \cup {Null}]
      /\ \A a \in Addr : \/ heap'[a] = old(a) /\ \E o \in Oids : data[o] = a
                         \/ heap'[a] = heap[a]
  <2>1. heap \in [Addr -> Entries \cup {Null}]
    BY <1>1 DEF Memory
  <2> QED BY <1>2, <1>3, <2>1
<1>5. ASSUME NEW a \in Addr
      PROVE  /\ heap'[a] = Null <=> heap[a] = Null
             /\ heap[a] # Null =>
                   /\ heap'[a].oid = heap[a].oid /\ heap'[a].several = heap[a].several
                   /\ heap'[a].values = heap[a].values
                   /\ heap'[a].generation = heap[a].generation /\ OfItsClass(heap'[a])
  <2>1. CASE heap'[a] = heap[a]
    BY <1>1, <2>1 DEF Memory, EntriesPlaced
  <2>2. CASE heap'[a] = old(a) /\ \E o \in Oids : data[o] = a
    BY <1>2, <2>2
  <2> QED BY <1>4, <2>1, <2>2
<1>6. SameShape(heap, heap')
  BY <1>4, <1>5 DEF SameShape
<1>7. Held' = Held
  BY <1>1 DEF Held, InPython
<1>8. MemoryInv'
  <2>1. Memory(heap', data, ring, Held)
    BY <1>1, <1>6, TouchMemory
  <2> QED BY <1>1, <1>7, <2>1 DEF MemoryInv
<1>9. Stay(heap, heap', Kept)
  <2>1. Stay(heap, heap', Held)
    BY <1>1, <1>5 DEF Memory, HeldExist, Stay
  <2> QED BY <2>1, KeptHeld
<1> QED BY <1>1, <1>8, <1>9, IdleStep DEF CoreInv, TypeOK

\* release_entry
LEMMA PyReleaseSafe ==
    ASSUME CoreInv, NEW th \in Threads, PyRelease(th)
    PROVE  StepSafe
<1> DEFINE a == python[th]
<1>1. /\ pc = "idle" /\ a # Null /\ call.result = Null
      /\ UNCHANGED <<data, ring, sum, limit, sets, pc, loopVars, call, multiple, written>>
      /\ python' = [python EXCEPT ![th] = Null]
      /\ Memory(heap, data, ring, Held)
  BY Idle DEF PyRelease, CoreInv, MemoryInv
<1>2. /\ python \in [Threads -> Addr \cup {Null}] /\ a \in Addr
      /\ python' \in [Threads -> Addr \cup {Null}]
      /\ \A t \in Threads \ {th} : python'[t] = python[t]
      /\ python'[th] = Null /\ call'.result = Null
  BY <1>1 DEF CoreInv, TypeOK
<1>3. \A b \in Addr : b \in Held <=> \E t \in Threads : python[t] = b
  BY <1>1, AddrShape DEF Held, InPython
<1>4. \A b \in Addr : b \in Held' <=> \E t \in Threads \ {th} : python[t] = b
  <2>1. \A b \in Addr : b \in Held' <=> \E t \in Threads : python'[t] = b
    BY <1>2, AddrShape DEF Held, InPython
  <2> QED BY <1>2, <2>1, AddrShape
<1>5. a \in Held /\ heap[a] # Null /\ heap[a] \in Entries
  <2>1. a \in Held
    BY <1>2, <1>3
  <2> QED BY <1>1, <1>2, <2>1 DEF Memory, HeldExist
<1>6. /\ Held' \subseteq Addr /\ Held' \subseteq Held
      /\ \A b \in Held : b \in Held' \/ b = a
  BY <1>2, <1>3, <1>4 DEF Held
<1>7. Kept \subseteq Held'
  BY <1>1, <1>2, <1>4 DEF Kept
<1>8. CASE heap[a].generation = Null /\ \A t \in Threads \ {th} : python[t] # a
  <2>1. heap' = [heap EXCEPT ![a] = Null]
    BY <1>8 DEF PyRelease
  <2>2. /\ heap' \in [Addr -> Entries \cup {Null}] /\ heap'[a] = Null
        /\ \A b \in Addr : b # a => heap'[b] = heap[b]
    BY <1>1, <1>2, <2>1 DEF Memory
  <2>3. a \notin Held' /\ data[a[1]] # a /\ a[1] \in Oids
    BY <1>1, <1>2, <1>4, <1>5, <1>8, AddrShape DEF Memory, EntriesPlaced
  <2>4. EntriesPlaced(heap', data, Held')
    BY <1>1, <1>6, <2>2 DEF Memory, EntriesPlaced
  <2>5. IndexLeads(heap', data)
    BY <1>1, <2>2, <2>3 DEF Memory, IndexLeads
  <2>6. HeldExist(heap', Held')
    BY <1>1, <1>6, <2>2, <2>3 DEF Memory, HeldExist
  <2>7. RingsList(heap', ring)
    BY <1>1, <1>2, <1>8, <2>2, Sizes DEF Memory, RingsList
  <2>8. MemoryInv'
    BY <1>1, <1>6, <2>2, <2>4, <2>5, <2>6, <2>7 DEF Memory, MemoryInv
  <2>9. Stay(heap, heap', Kept)
    BY <1>1, <1>6, <1>7, <2>2, <2>3 DEF Memory, HeldExist, Stay
  <2> QED BY <1>1, <1>2, <2>8, <2>9, IdleStep DEF CoreInv, TypeOK
<1>9. CASE ~ (heap[a].generation = Null /\ \A t \in Threads \ {th} : python[t] # a)
  <2>1. heap' = heap
    BY <1>9 DEF PyRelease
  <2>2. data[a[1]] = a \/ a \in Held'
    BY <1>1, <1>2, <1>4, <1>5, <1>9 DEF Memory, EntriesPlaced
  <2>3. Memory(heap, data, ring, Held')
    BY <1>1, <1>6, <2>2 DEF Memory, EntriesPlaced, HeldExist
  <2>4. MemoryInv'
    BY <1>1, <2>1, <2>3 DEF MemoryInv
  <2>5. Stay(heap, heap', Kept)
    BY <1>1, <1>6, <1>7, <2>1 DEF Memory, HeldExist, Stay
  <2> QED BY <1>1, <1>2, <2>4, <2>5, IdleStep DEF CoreInv, TypeOK
<1> QED BY <1>8, <1>9

\* LocalClient.flush_all
LEMMA FlushAllSafe ==
    ASSUME CoreInv, FlushAll
    PROVE  StepSafe
<1>1. /\ pc = "idle" /\ call.result = Null /\ Memory(heap, data, ring, Held)
      /\ UNCHANGED <<limit, python, pc, loopVars, call, written>>
      /\ sets' = 0 /\ multiple' = FALSE /\ sum' = [g \in Generations |-> 0]
  BY Idle DEF FlushAll, CoreInv, MemoryInv
<1>2. \A a \in Addr : a \in Held <=> InPython(a)
  BY <1>1, AddrShape DEF Held
<1>3. /\ heap' = [a \in Addr |-> IF a \in Held THEN Outside(heap[a]) ELSE Null]
      /\ data' = [o \in Oids |-> Null] /\ ring' = [g \in Generations |-> <<>>]
  BY <1>2 DEF FlushAll
<1>4. Held' = Held
  BY <1>1 DEF Held, InPython
<1>5. After(heap, heap', data', ring', Held, Held)
  BY <1>1, <1>3, FlushMemory
<1>6. MemoryInv' /\ Stay(heap, heap', Kept)
  BY <1>4, <1>5, KeptHeld DEF After, MemoryInv
<1>7. /\ sum' \in [Generations -> 0..SizeModulus - 1] /\ sets' \in 0..MaxSets
      /\ python' \in [Threads -> Addr \cup {Null}]
  BY <1>1, Sizes DEF CoreInv, TypeOK
<1>8. multiple' \in BOOLEAN
  BY <1>1, Zenon
<1> QED BY <1>1, <1>6, <1>7, <1>8, IdleStep

-----------------------------------------------------------------------------
(* The calls that start a loop. *)

\* The values of an entry that has one.
LEMMA OneValue ==
    ASSUME NEW t \in Tids, NEW v, v = [u \in {t} |-> v[u]], v[t] \in BOOLEAN
    PROVE  v \in Valuations /\ DOMAIN v = {t}
<1>1. DOMAIN v = {t}
  OBVIOUS
<1>2. \A u \in {t} : v[u] \in BOOLEAN
  BY Zenon
<1> QED BY <1>1, <1>2, ValuationShape

\* An entry that gets one more value.
LEMMA AddValueMade ==
    ASSUME NEW e \in Entries, OfItsClass(e), NEW t \in Tids,
           e.several \/ t \notin DOMAIN e.values
    PROVE  LET m == AddValue(e, t) IN
           /\ m \in Entries /\ OfItsClass(m) /\ m.oid = e.oid /\ m.several = TRUE
           /\ DOMAIN m.values = DOMAIN e.values \cup {t}
           /\ m.frequency = e.frequency /\ m.generation = e.generation
<1> DEFINE m == AddValue(e, t)
           S == DOMAIN e.values \cup {t}
           v == [u \in S |-> IF u \in DOMAIN e.values THEN e.values[u] ELSE FALSE]
<1>1. /\ DOMAIN v = S /\ v = [u \in S |-> v[u]]
      /\ \A u \in S : v[u] = IF u \in DOMAIN e.values THEN e.values[u] ELSE FALSE
  OBVIOUS
<1>2. /\ DOMAIN e.values \subseteq Tids /\ DOMAIN e.values # {}
      /\ \A u \in DOMAIN e.values : e.values[u] \in BOOLEAN
      /\ e.oid \in Oids /\ e.frequency \in 0..MaxFrequency
      /\ e.generation \in Generations \cup {Null}
  BY EntryFields
<1>3. \A u \in S : v[u] \in BOOLEAN
  BY <1>1, <1>2, Zenon
<1>4. m = Entry(e.oid, TRUE, v, e.frequency, e.generation)
  BY DEF AddValue
<1>5. S \subseteq Tids /\ S # {}
  BY <1>2
<1> HIDE DEF v, m
<1>6. v \in Valuations
  BY <1>1, <1>3, <1>5, ValuationShape
<1>7. /\ m \in Entries /\ m.oid = e.oid /\ m.several = TRUE /\ m.values = v
      /\ m.frequency = e.frequency /\ m.generation = e.generation
  BY <1>2, <1>4, <1>6 DEF Entry, Entries
<1>8. \E u, w \in S : u # w
  <2>1. CASE e.several
    BY <2>1 DEF OfItsClass
  <2>2. CASE t \notin DOMAIN e.values
    BY <1>2, <2>2
  <2> QED BY <2>1, <2>2
<1>9. OfItsClass(m)
  BY <1>1, <1>7, <1>8 DEF OfItsClass
<1> QED BY <1>1, <1>7, <1>9 DEF m

\* An entry comes into eden.
LEMMA InsertStep ==
    ASSUME CoreInv, call.result = Null, NEW o \in Oids, data[o] = Null,
           NEW e \in Entries, e.oid = o, OfItsClass(e), e.generation = "eden",
           heap' = [heap EXCEPT ![Fresh(o)] = e], data' = [data EXCEPT ![o] = Fresh(o)],
           ring' = [ring EXCEPT !["eden"] = Cons(Fresh(o), @)],
           sum' = [sum EXCEPT !["eden"] = SizeT(@ + Weight(e))], Held' = Held
    PROVE  /\ MemoryInv' /\ Stay(heap, heap', Held)
           /\ sum' \in [Generations -> 0..SizeModulus - 1]
           /\ Fresh(o) \in Addr /\ data'[o] = Fresh(o) /\ Fresh(o) # Null
           /\ Fresh(o) \in Range(ring'["eden"]) /\ ring'["eden"][1] = Fresh(o)
           /\ \A p \in Oids : p # o => data'[p] = data[p]
<1> DEFINE b == Fresh(o)
           q == Cons(b, ring["eden"])
<1>1. b \in Addr /\ b[1] = o /\ heap[b] = Null /\ b # Null
  BY FreshFree, Sizes
<1>2. /\ Memory(heap, data, ring, Held) /\ "eden" \in Generations
      /\ heap \in [Addr -> Entries \cup {Null}] /\ data \in [Oids -> Addr \cup {Null}]
      /\ ring \in [Generations -> Seq(Addr)] /\ sum \in [Generations -> 0..SizeModulus - 1]
  BY DEF CoreInv, MemoryInv, Memory, TypeOK, Generations
<1> HIDE DEF b
<1>3. /\ heap' = [heap EXCEPT ![b] = e] /\ data' = [data EXCEPT ![o] = b]
      /\ ring' = [ring EXCEPT !["eden"] = q]
  BY DEF b
<1>4. /\ q \in Seq(Addr) /\ Range(q) = Range(ring["eden"]) \cup {b} /\ q[1] = b
  <2>1. b \notin Range(ring["eden"])
    BY <1>1, <1>2 DEF Memory, RingsList
  <2>2. ring["eden"] \in Seq(Addr) /\ IsInjective(ring["eden"])
    BY <1>2, Listed
  <2> QED BY <1>1, <2>1, <2>2, ConsList
<1>5. ChangeHeap(heap, heap', b, e)
  BY <1>1, <1>2, <1>3 DEF Change, ChangeHeap
<1>6. ChangeIndex(data, data', o, b)
  BY <1>1, <1>2, <1>3 DEF Change, ChangeIndex
<1>7. ChangeRing(ring, ring', "eden", Cons(b, ring["eden"]))
  BY <1>2, <1>3, <1>4 DEF Change, ChangeRing
<1>8. After(heap, heap', data', ring', Held, Held)
  BY <1>1, <1>2, <1>5, <1>6, <1>7, InsertMemory
<1>9. sum' \in [Generations -> 0..SizeModulus - 1]
  BY <1>2, SumsTyped, EntryFields
<1>10. b \in Range(ring'["eden"]) /\ ring'["eden"][1] = b
  BY <1>2, <1>3, <1>4
<1>11. data'[o] = b /\ \A p \in Oids : p # o => data'[p] = data[p]
  BY <1>2, <1>3
<1> QED BY <1>1, <1>8, <1>9, <1>10, <1>11 DEF MemoryInv, After, b

\* The loops that _balance_rings starts leave the entry of the call alone.
LEMMA BalanceInv ==
    ASSUME NEW a \in Addr, BalanceRings(a), call'.oid # Null, a = data'[call'.oid],
           a \in Range(ring'["eden"]), ring'["eden"][1] = a
    PROVE  /\ SpillInv' /\ pc' \in {"return", "fill", "spill"}
           /\ spill' \in [from: Generations \cup {Null}, to: Generations \cup {Null},
                          ignore: Addr \cup {Null}, rejects: BOOLEAN]
<1>0. a # Null /\ {"eden", "protected", "probation"} = Generations
  BY Sizes DEF Generations
<1>1. CASE Return
  BY <1>1 DEF Return, SpillInv, NoSpill
<1>2. CASE Loop("fill", "eden", "protected", a, TRUE)
  BY <1>0, <1>2 DEF Loop, SpillInv
<1>3. CASE Loop("spill", "eden", "probation", a, TRUE)
  BY <1>0, <1>3 DEF Loop, SpillInv, SpillRoutes
<1> QED BY <1>1, <1>2, <1>3 DEF BalanceRings

\* A step outside the bulk load leaves no rows.
LEMMA NoRows ==
    ASSUME rows' = <<>>, pc' # "load"
    PROVE  LoadInv'
<1>1. Len(rows') = 0
  OBVIOUS
<1> QED BY <1>1 DEF LoadInv

\* Transactions that wrote an object are transactions.
LEMMA WrittenTids ==
    ASSUME CoreInv, NEW o \in Oids
    PROVE  written[o] \subseteq Tids
BY ConstantsAssumption DEF CoreInv, TypeOK

\* Cache::add_to_eden
LEMMA AddToEdenSafe ==
    ASSUME CoreInv, NEW o \in Oids, NEW t \in Tids, AddToEden(o, t)
    PROVE  StepSafe
<1> DEFINE e == Entry(o, FALSE, [u \in {t} |-> FALSE], 1, "eden")
           b == Fresh(o)
<1>1. /\ pc = "idle" /\ call.result = Null /\ rows = <<>> /\ data[o] = Null
      /\ call' = [oid |-> o, thread |-> Null, result |-> Null]
      /\ sets < MaxSets /\ sets' = sets + 1
      /\ heap' = [heap EXCEPT ![Fresh(o)] = e]
      /\ data' = [data EXCEPT ![o] = Fresh(o)]
      /\ ring' = [ring EXCEPT !["eden"] = Cons(Fresh(o), @)]
      /\ sum' = [sum EXCEPT !["eden"] = SizeT(@ + Weight(e))]
      /\ BalanceRings(Fresh(o))
      /\ UNCHANGED <<limit, python, evicting, rows, multiple, written>>
  BY Idle DEF AddToEden, Begin
<1>2. 1 \in 0..MaxFrequency /\ "eden" \in Generations /\ FALSE \in BOOLEAN
  BY Sizes DEF Generations
<1>3. e \in Entries /\ OfItsClass(e) /\ e.oid = o /\ e.generation = "eden"
  <2> DEFINE v == [u \in {t} |-> FALSE]
  <2>1. v = [u \in {t} |-> v[u]] /\ v[t] = FALSE
    OBVIOUS
  <2>2. v[t] \in BOOLEAN
    BY <2>1, Zenon
  <2> HIDE DEF v
  <2>3. v \in Valuations /\ DOMAIN v = {t}
    BY <2>1, <2>2, OneValue
  <2>4. e = Entry(o, FALSE, v, 1, "eden")
    BY DEF v
  <2>5. /\ e \in Entries /\ e.oid = o /\ e.generation = "eden"
        /\ e.several = FALSE /\ e.values = v
    BY <1>2, <2>3, <2>4 DEF Entry, Entries
  <2> HIDE DEF e
  <2>6. OfItsClass(e)
    BY <2>3, <2>5 DEF OfItsClass
  <2> QED BY <2>5, <2>6
<1>4. call'.oid = o /\ call'.thread = Null /\ call'.result = Null /\ o # Null
  BY <1>1, Sizes
<1>5. Held' = Held
  BY <1>1, <1>4 DEF Held, InPython
<1> HIDE DEF e
<1>6. /\ MemoryInv' /\ Stay(heap, heap', Held)
      /\ sum' \in [Generations -> 0..SizeModulus - 1]
      /\ b \in Addr /\ data'[o] = b /\ b # Null
      /\ b \in Range(ring'["eden"]) /\ ring'["eden"][1] = b
  BY <1>1, <1>3, <1>5, InsertStep
<1> HIDE DEF b
<1>7. /\ SpillInv' /\ pc' \in {"return", "fill", "spill"}
      /\ spill' \in [from: Generations \cup {Null}, to: Generations \cup {Null},
                     ignore: Addr \cup {Null}, rejects: BOOLEAN]
  <2>1. BalanceRings(b) /\ b = data'[call'.oid] /\ call'.oid # Null
    BY <1>1, <1>4, <1>6 DEF b
  <2> QED BY <1>6, <2>1, BalanceInv
<1>8. CallInv'
  BY <1>4, <1>6, <1>7 DEF CallInv
<1>9. LoadInv'
  BY <1>1, <1>7, NoRows
<1>10. OthersTyped'
  <2>1. sets' \in 0..MaxSets
    BY <1>1, Sizes DEF CoreInv, TypeOK
  <2>2. call' \in [oid: Oids \cup {Null}, thread: Threads \cup {Null}, result: Addr \cup {Null}]
    BY <1>1
  <2> QED BY <1>1, <1>6, <1>7, <2>1, <2>2 DEF CoreInv, TypeOK, OthersTyped
<1>11. Stay(heap, heap', Kept)
  BY <1>6, KeptHeld
<1> QED BY <1>6, <1>7, <1>8, <1>9, <1>10, <1>11, TypesAfter DEF CoreInv, StepSafe

\* Cache::store_and_make_MRU
LEMMA StoreAndMakeMRUSafe ==
    ASSUME CoreInv, NEW o \in Oids, NEW t \in Tids, StoreAndMakeMRU(o, t)
    PROVE  StepSafe
<1> DEFINE a == data[o]
           e == heap[a]
           m == AddValue(e, t)
<1>1. /\ pc = "idle" /\ call.result = Null /\ rows = <<>> /\ spill = NoSpill /\ a # Null
      /\ e.frequency < MaxFrequency
      /\ call' = [oid |-> o, thread |-> Null, result |-> Null]
      /\ sets < MaxSets /\ sets' = sets + 1
      /\ AddingValue(a, t) /\ pc' = "hit"
      /\ UNCHANGED <<limit, python, written>>
      /\ spill' = spill /\ evicting' = evicting /\ rows' = rows
  BY Idle DEF StoreAndMakeMRU, Begin, loopVars
<1>2. multiple' \in BOOLEAN
  BY Zenon DEF StoreAndMakeMRU
<1>3. /\ a \in Addr /\ e \in Entries /\ OfItsClass(e) /\ e.oid = o /\ e # Null
      /\ Weight(e) \in Nat
  BY <1>1, Indexed, EntryFields DEF CoreInv, MemoryInv
<1>4. call'.oid = o /\ call'.thread = Null /\ call'.result = Null /\ o # Null
  BY <1>1, Sizes
<1>5. Held' = Held
  BY <1>1, <1>4 DEF Held, InPython
<1>6. sum \in [Generations -> 0..SizeModulus - 1] /\ data \in [Oids -> Addr \cup {Null}]
  BY DEF CoreInv, TypeOK
<1>7. /\ MemoryInv' /\ Stay(heap, heap', Held)
      /\ sum' \in [Generations -> 0..SizeModulus - 1]
      /\ data'[o] # Null /\ heap'[data'[o]].frequency = e.frequency
  <2>1. CASE UNCHANGED cacheVars
    <3>1. heap' = heap /\ data' = data /\ ring' = ring /\ sum' = sum
      BY <2>1 DEF cacheVars
    <3>2. MemoryInv'
      BY <1>5, <3>1 DEF CoreInv, MemoryInv
    <3>3. Stay(heap, heap', Held)
      BY <3>1 DEF CoreInv, MemoryInv, Memory, HeldExist, Stay
    <3> QED BY <1>1, <1>6, <3>1, <3>2, <3>3
  <2>2. CASE t \notin DOMAIN e.values /\ ReplaceWith(a, Weight(e), m)
    <3>1. /\ m \in Entries /\ OfItsClass(m) /\ m.oid = o
          /\ m.frequency = e.frequency /\ m.generation = e.generation
      BY <1>3, <2>2, AddValueMade
    <3> HIDE DEF m
    <3>2. /\ MemoryInv' /\ Stay(heap, heap', Held)
          /\ sum' \in [Generations -> 0..SizeModulus - 1]
          /\ data' = [data EXCEPT ![o] = Fresh(o)] /\ Fresh(o) \in Addr
          /\ heap'[Fresh(o)] = m
      BY <1>1, <1>3, <1>5, <2>2, <3>1, ReplaceStep
    <3>3. data'[o] = Fresh(o) /\ Fresh(o) # Null
      BY <1>6, <3>2, Sizes
    <3> QED BY <3>1, <3>2, <3>3
  <2>3. CASE e.several /\ heap' = [heap EXCEPT ![a] = m] /\ UNCHANGED <<data, ring, sum>>
    <3>1. /\ m \in Entries /\ OfItsClass(m) /\ m.oid = o /\ m.several = e.several
          /\ m.frequency = e.frequency /\ m.generation = e.generation
      <4>1. m.several = TRUE /\ e.several = TRUE
        <5>1. e.several \in BOOLEAN
          BY <1>3, EntryFields
        <5> QED BY <2>3, <5>1 DEF AddValue, Entry
      <4> QED BY <1>3, <2>3, <4>1, AddValueMade
    <3> HIDE DEF m
    <3>2. MemoryInv' /\ Stay(heap, heap', Held) /\ heap'[a] = m
      <4>1. m.several \/ DOMAIN m.values = DOMAIN heap[a].values
        BY <2>3, <3>1
      <4>2. heap' = [heap EXCEPT ![a] = m] /\ data' = data /\ ring' = ring
        BY <2>3
      <4>3. m.oid = o /\ m.several = heap[a].several /\ m.generation = heap[a].generation
        BY <3>1
      <4> QED BY <1>1, <1>3, <1>5, <3>1, <4>1, <4>2, <4>3, TouchStep, ZenonT(60)
    <3> QED BY <1>1, <1>6, <2>3, <3>1, <3>2
  <2> QED BY <1>1, <2>1, <2>2, <2>3 DEF AddingValue
<1>8. CallInv'
  BY <1>1, <1>4, <1>7 DEF CallInv
<1>9. SpillInv'
  BY <1>1 DEF SpillInv
<1>10. LoadInv'
  BY <1>1, NoRows
<1>11. OthersTyped'
  <2>1. sets' \in 0..MaxSets
    BY <1>1, Sizes DEF CoreInv, TypeOK
  <2>2. call' \in [oid: Oids \cup {Null}, thread: Threads \cup {Null}, result: Addr \cup {Null}]
    BY <1>1
  <2> QED BY <1>1, <1>2, <1>7, <2>1, <2>2 DEF CoreInv, TypeOK, OthersTyped
<1>12. Stay(heap, heap', Kept)
  BY <1>7, KeptHeld
<1> QED BY <1>7, <1>8, <1>9, <1>10, <1>11, <1>12, TypesAfter DEF CoreInv, StepSafe

\* The newest value that matches a request is a value of the entry.
LEMMA MaxMatching ==
    ASSUME NEW e \in Entries, NEW wanted, Matching(e, wanted) # {}
    PROVE  Max(Matching(e, wanted)) \in DOMAIN e.values
<1> DEFINE S == Matching(e, wanted)
<1>1. S \subseteq DOMAIN e.values
  BY DEF Matching
<1>2. DOMAIN e.values \subseteq Nat /\ IsFiniteSet(DOMAIN e.values)
  BY EntryFields, Sizes, FS_Subset
<1>3. IsFiniteSet(S)
  <2> HIDE DEF S
  <2> QED BY <1>1, <1>2, FS_Subset
<1> HIDE DEF S
<1>4. Max(S) \in S
  BY <1>1, <1>2, <1>3, MinMax DEF S
<1> QED BY <1>1, <1>4 DEF S

\* Cache::_get_or_peek
LEMMA GetOrPeekSafe ==
    ASSUME CoreInv, NEW o \in Oids, NEW th \in Threads, NEW wanted, NEW peek \in BOOLEAN,
           GetOrPeek(th, o, wanted, peek)
    PROVE  StepSafe
<1> DEFINE a == data[o]
           e == heap[a]
           t == Max(Matching(e, wanted))
           res == IF e.several THEN Fresh(o) ELSE a
<1>1. /\ pc = "idle" /\ call.result = Null /\ rows = <<>> /\ spill = NoSpill
      /\ a # Null /\ python[th] = Null
      /\ call' = [oid |-> o, thread |-> th, result |-> res]
      /\ Matching(e, wanted) # {}
      /\ UNCHANGED <<data, ring, sum, limit, sets, python, multiple, written>>
      /\ spill' = spill /\ evicting' = evicting /\ rows' = rows
  BY Idle DEF GetOrPeek, Begin, loopVars
<1>2. /\ heap' = IF e.several
                 THEN [heap EXCEPT ![Fresh(o)] = Outside(SingleValue(e, t, e.values[t]))]
                 ELSE heap
      /\ pc' \in {"return", "hit"}
      /\ pc' = "hit" => e.frequency < MaxFrequency
  BY DEF GetOrPeek
<1>3. /\ Memory(heap, data, ring, Held) /\ a \in Addr /\ a[1] = o /\ e \in Entries
      /\ OfItsClass(e) /\ e.oid = o /\ e # Null
  BY <1>1, Indexed DEF CoreInv, MemoryInv
<1>4. /\ MemoryInv' /\ Stay(heap, heap', Held) /\ heap'[a] = e
      /\ res \in Addr /\ res # Null /\ res[1] = o
  <2>1. CASE e.several
    <3> DEFINE b == Fresh(o)
    <3>1. b \in Addr /\ b[1] = o /\ heap[b] = Null /\ b # Null
      BY <1>1, FreshFree, Sizes
    <3>2. res = b
      BY <2>1
    <3>3. t \in DOMAIN e.values
      BY <1>1, <1>3, MaxMatching
    <3> HIDE DEF b
    <3>4. PICK m \in Entries : /\ m.oid = o /\ OfItsClass(m) /\ m.several = FALSE
                               /\ m.generation = Null
                               /\ m = Outside(SingleValue(e, t, e.values[t]))
      <4> HIDE DEF t
      <4> DEFINE s == SingleValue(e, t, e.values[t])
                 v == [u \in {t} |-> e.values[t]]
      <4>1. /\ t \in Tids /\ e.values[t] \in BOOLEAN /\ e.frequency \in 0..MaxFrequency
            /\ e.generation \in Generations \cup {Null}
        BY <1>3, <3>3, EntryFields
      <4>2. v = [u \in {t} |-> v[u]] /\ v[t] = e.values[t]
        OBVIOUS
      <4>3. v[t] \in BOOLEAN
        BY <4>1, <4>2, Zenon
      <4>4. s = Entry(e.oid, FALSE, v, e.frequency, e.generation)
        BY DEF SingleValue
      <4> HIDE DEF v
      <4>5. v \in Valuations /\ DOMAIN v = {t}
        BY <4>1, <4>2, <4>3, OneValue
      <4>6. s \in Entries /\ s.oid = o /\ s.several = FALSE /\ s.values = v
        BY <1>3, <4>1, <4>4, <4>5 DEF Entry, Entries
      <4> DEFINE m == Outside(s)
      <4> HIDE DEF s
      <4>7. /\ m \in Entries /\ m.oid = o /\ m.several = FALSE /\ m.values = v
            /\ m.generation = Null
        BY <4>6, EntryOutside
      <4>8. m = Outside(SingleValue(e, t, e.values[t]))
        BY DEF s
      <4> HIDE DEF m
      <4>9. OfItsClass(m)
        BY <4>1, <4>5, <4>7 DEF OfItsClass
      <4> QED BY <4>7, <4>8, <4>9
    <3>5. heap' = [heap EXCEPT ![b] = m]
      BY <1>2, <2>1, <3>4 DEF b
    <3>6. ChangeHeap(heap, heap', b, m)
      BY <1>3, <3>1, <3>5 DEF Memory, Change, ChangeHeap
    <3>7. After(heap, heap', data, ring, Held, Held \cup {b})
      BY <1>3, <3>1, <3>4, <3>6, OutsideMemory
    <3>8. Held' = Held \cup {b}
      BY <1>1, <3>1, <3>2, AddrShape DEF Held, InPython
    <3>9. heap'[a] = e
      BY <1>3, <3>1, <3>5 DEF Memory
    <3> QED BY <1>1, <3>1, <3>2, <3>7, <3>8, <3>9 DEF After, MemoryInv
  <2>2. CASE ~ e.several
    <3>1. res = a /\ heap' = heap
      BY <1>2, <2>2
    <3>2. Held' = Held \cup {a}
      BY <1>1, <1>3, <3>1, AddrShape DEF Held, InPython
    <3>3. Memory(heap, data, ring, Held \cup {a})
      <4>1. HeldExist(heap, Held \cup {a})
        BY <1>3, <2>2 DEF Memory, HeldExist
      <4>2. EntriesPlaced(heap, data, Held \cup {a}) /\ Held \cup {a} \subseteq Addr
        BY <1>3 DEF Memory, EntriesPlaced
      <4> QED BY <1>3, <4>1, <4>2 DEF Memory
    <3>4. Stay(heap, heap', Held)
      BY <1>3, <3>1 DEF Memory, HeldExist, Stay
    <3> QED BY <1>1, <1>3, <3>1, <3>2, <3>3, <3>4 DEF MemoryInv
  <2> QED BY <2>1, <2>2
<1> HIDE DEF res
<1>5. call'.oid = o /\ call'.thread = th /\ call'.result = res /\ o # Null /\ th # Null
  BY <1>1, Sizes
<1>6. CallInv'
  BY <1>1, <1>2, <1>4, <1>5 DEF CallInv
<1>7. SpillInv'
  BY <1>1, <1>2 DEF SpillInv
<1>8. LoadInv'
  BY <1>1, <1>2, NoRows
<1>9. OthersTyped'
  <2>1. call' \in [oid: Oids \cup {Null}, thread: Threads \cup {Null}, result: Addr \cup {Null}]
    BY <1>1, <1>4
  <2> QED BY <1>1, <1>2, <2>1 DEF CoreInv, TypeOK, OthersTyped
<1>10. Stay(heap, heap', Kept)
  BY <1>4, KeptHeld
<1> QED BY <1>4, <1>6, <1>7, <1>8, <1>9, <1>10, TypesAfter DEF CoreInv, StepSafe

\* Cache::add_many, up to its loops
LEMMA AddManySafe ==
    ASSUME CoreInv, NEW file \in Files, AddMany(file)
    PROVE  StepSafe
<1>1. /\ pc = "idle" /\ call.result = Null /\ spill = NoSpill
      /\ call' = [oid |-> Null, thread |-> Null, result |-> Null]
      /\ \A o \in Oids : data[o] = Null
      /\ pc' = "load" /\ rows' = file
      /\ UNCHANGED <<heap, data, ring, sum, limit, sets, python, spill, multiple, written>>
  BY Idle DEF AddMany, Begin
<1>2. evicting' \in BOOLEAN
  BY Zenon DEF AddMany
<1>3. call'.oid = Null /\ call'.thread = Null /\ call'.result = Null
  BY <1>1
<1>4. Held' = Held
  BY <1>1, <1>3 DEF Held, InPython
<1>5. MemoryInv'
  BY <1>1, <1>4 DEF CoreInv, MemoryInv
<1>6. CallInv' /\ SpillInv'
  BY <1>1, <1>3 DEF CallInv, SpillInv
<1>7. LoadInv'
  <2>1. file \in Seq(Rows) /\ \A i, j \in DOMAIN file : file[i].oid = file[j].oid => i = j
    BY ConstantsAssumption
  <2>2. DOMAIN file = 1..Len(file) /\ \A i \in 1..Len(file) : file[i] \in Rows
    BY <2>1, ListShape
  <2>3. \A i \in 1..Len(file) : file[i].oid \in Oids
    BY <2>2 DEF Rows
  <2> QED BY <1>1, <1>3, <2>1, <2>2, <2>3 DEF LoadInv
<1>8. OthersTyped'
  <2>1. call' \in [oid: Oids \cup {Null}, thread: Threads \cup {Null}, result: Addr \cup {Null}]
    BY <1>1
  <2>2. rows' \in Seq(Rows)
    BY <1>1, ConstantsAssumption
  <2> QED BY <1>1, <1>2, <2>1, <2>2 DEF CoreInv, TypeOK, OthersTyped
<1>9. Stay(heap, heap', Kept)
  <2>1. Stay(heap, heap', Held)
    BY <1>1 DEF CoreInv, MemoryInv, Memory, HeldExist, Stay
  <2> QED BY <2>1, KeptHeld
<1> QED BY <1>5, <1>6, <1>7, <1>8, <1>9, TypesAfter DEF CoreInv, StepSafe

-----------------------------------------------------------------------------
(* The loops. *)

\* What a step of a loop leaves alone.
LEMMA LoopTyped ==
    ASSUME CoreInv, sum' \in [Generations -> 0..SizeModulus - 1],
           pc' \in {"idle", "hit", "fill", "spill", "load", "return"},
           spill' \in [from: Generations \cup {Null}, to: Generations \cup {Null},
                       ignore: Addr \cup {Null}, rejects: BOOLEAN],
           evicting' \in BOOLEAN, rows' \in Seq(Rows),
           UNCHANGED <<limit, sets, python, call, multiple, written>>
    PROVE  OthersTyped' /\ Held' = Held
BY DEF CoreInv, TypeOK, OthersTyped, Held, InPython

\* Steps that leave entries, index and lists alone.
LEMMA SameMemory ==
    ASSUME CoreInv, heap' = heap, data' = data, ring' = ring, Held' = Held
    PROVE  MemoryInv' /\ Stay(heap, heap', Kept)
<1>1. MemoryInv'
  BY DEF CoreInv, MemoryInv
<1>2. Stay(heap, heap', Held)
  BY DEF CoreInv, MemoryInv, Memory, HeldExist, Stay
<1> QED BY <1>1, <1>2, KeptHeld

\* The least recently used entry of a list that is not empty.
LEMMA LruListed ==
    ASSUME CoreInv, NEW g \in Generations, ring[g] # <<>>
    PROVE  /\ Lru(g) \in Range(ring[g]) /\ Lru(g) \in Addr
           /\ ring[g] \in Seq(Addr) /\ IsInjective(ring[g])
           /\ heap[Lru(g)] \in Entries /\ heap[Lru(g)].generation = g
           /\ Lru(g)[1] \in Oids /\ data[Lru(g)[1]] = Lru(g) /\ Weight(heap[Lru(g)]) \in Nat
<1>1. Memory(heap, data, ring, Held)
  BY DEF CoreInv, MemoryInv
<1>2. ring[g] \in Seq(Addr) /\ IsInjective(ring[g])
  BY <1>1, Listed
<1>3. Lru(g) \in Range(ring[g])
  BY <1>2, LastOfList DEF Lru
<1> HIDE DEF Lru
<1> QED BY <1>1, <1>2, <1>3, Listed, EntryFields

\* Generation::adopt
LEMMA AdoptStep ==
    ASSUME CoreInv, NEW f \in Generations, NEW g \in Generations, f # g,
           NEW a \in Range(ring[f]), Adopt(a, g), data' = data, Held' = Held
    PROVE  /\ MemoryInv' /\ Stay(heap, heap', Kept)
           /\ sum' \in [Generations -> 0..SizeModulus - 1]
           /\ ring'[f] = RemoveFirst(ring[f], a) /\ ring'[g] = Cons(a, ring[g])
<1>1. /\ Memory(heap, data, ring, Held)
      /\ heap \in [Addr -> Entries \cup {Null}] /\ ring \in [Generations -> Seq(Addr)]
      /\ sum \in [Generations -> 0..SizeModulus - 1]
  BY DEF CoreInv, MemoryInv, TypeOK
<1>2. /\ a \in Addr /\ heap[a] \in Entries /\ heap[a].generation = f
      /\ ring[f] \in Seq(Addr) /\ IsInjective(ring[f])
      /\ ring[g] \in Seq(Addr) /\ IsInjective(ring[g]) /\ a \notin Range(ring[g])
      /\ Weight(heap[a]) \in Nat
  BY <1>1, Listed, EntryFields
<1> DEFINE e == [heap[a] EXCEPT !.generation = g]
<1>3. /\ e \in Entries /\ e.oid = heap[a].oid /\ e.several = heap[a].several
      /\ e.values = heap[a].values /\ e.generation = g
  BY <1>2 DEF Entries
<1>4. /\ heap' = [heap EXCEPT ![a] = e]
      /\ ring' = [ring EXCEPT ![f] = RemoveFirst(@, a), ![g] = Cons(a, @)]
      /\ sum' = [sum EXCEPT ![f] = SizeT(@ - Weight(heap[a])),
                            ![g] = SizeT(@ + Weight(heap[a]))]
  BY <1>2 DEF Adopt
<1> HIDE DEF e
<1>5. RemoveFirst(ring[f], a) \in Seq(Addr) /\ Cons(a, ring[g]) \in Seq(Addr)
  BY <1>2, RemoveList, ConsList
<1>6. MoveRing(ring, ring', a, f, g)
  BY <1>1, <1>4, <1>5 DEF MoveRing
<1>7. ChangeHeap(heap, heap', a, e)
  BY <1>1, <1>2, <1>3, <1>4 DEF Change, ChangeHeap
<1>8. After(heap, heap', data, ring', Held, Held)
  BY <1>1, <1>3, <1>6, <1>7, MoveMemory
<1>9. sum' \in [Generations -> 0..SizeModulus - 1]
  BY <1>1, <1>2, <1>4, SumsTyped
<1> QED BY <1>6, <1>8, <1>9, KeptHeld DEF After, MemoryInv, MoveRing

\* The loops leave the entry of the running call alone.
LEMMA VictimOther ==
    ASSUME CoreInv, pc \in {"fill", "spill"}, NEW g \in Generations,
           NEW x \in Range(ring[g]), x # spill.ignore
    PROVE  /\ x # call.result
           /\ call.oid # Null => x[1] # call.oid
<1>1. x \in Addr /\ x[1] \in Oids /\ data[x[1]] = x /\ x # Null
  BY Listed, Sizes DEF CoreInv, MemoryInv
<1>2. call.oid # Null => spill.ignore = data[call.oid]
  BY DEF CoreInv, SpillInv
<1>3. call.result = x => x[1] = call.oid
  BY <1>1 DEF CoreInv, CallInv
<1> QED BY <1>1, <1>2, <1>3, Sizes

\* The entry that is ignored stays where it is when another entry leaves.
LEMMA IgnoredStays ==
    ASSUME CoreInv, pc \in {"fill", "spill"}, spill.from \in Generations,
           NEW a \in Range(ring[spill.from]), a # spill.ignore,
           ring'[spill.from] = RemoveFirst(ring[spill.from], a),
           pc' = pc, spill' = spill, call' = call,
           call.oid # Null => data'[call.oid] = data[call.oid]
    PROVE  SpillInv'
<1>1. ring[spill.from] \in Seq(Addr) /\ IsInjective(ring[spill.from])
  BY Listed DEF CoreInv, MemoryInv
<1>2. /\ Range(ring'[spill.from]) = Range(ring[spill.from]) \ {a}
      /\ ring[spill.from][1] # a => ring'[spill.from][1] = ring[spill.from][1]
  BY <1>1, RemoveList
<1>3. spill.ignore # Null =>
          /\ call.oid # Null /\ spill.ignore = data'[call.oid]
          /\ spill.ignore \in Range(ring'[spill.from])
          /\ ring'[spill.from][1] = spill.ignore
  BY <1>2 DEF CoreInv, SpillInv
<1> QED BY <1>3 DEF CoreInv, SpillInv, SpillRoutes

\* The end of _spill_from_ring_to_ring.
LEMMA SpillDoneInv ==
    ASSUME CoreInv, pc = "spill", SpillDone, call' = call
    PROVE  /\ SpillInv' /\ pc' \in {"return", "spill", "load"}
           /\ pc' = "load" => call.oid = Null
           /\ spill' \in [from: Generations \cup {Null}, to: Generations \cup {Null},
                          ignore: Addr \cup {Null}, rejects: BOOLEAN]
<1>0. /\ {"eden", "protected", "probation"} = Generations
      /\ spill.ignore = Null => call.oid = Null
  BY DEF Generations, CoreInv, SpillInv
<1>1. CASE spill.ignore # Null /\ Return
  BY <1>1 DEF Return, SpillInv, NoSpill
<1>2. CASE spill.ignore = Null /\ Loop("spill", "protected", "probation", Null, TRUE)
  BY <1>0, <1>2 DEF Loop, SpillInv, SpillRoutes
<1>3. CASE spill.ignore = Null /\ pc' = "load" /\ spill' = NoSpill
  BY <1>0, <1>3 DEF SpillInv, NoSpill
<1> QED BY <1>1, <1>2, <1>3 DEF SpillDone

\* The loops leave the running call and its object alone.
LEMMA CallStays ==
    ASSUME CoreInv, call' = call, python' = python, pc' \notin {"idle", "hit"},
           call.oid # Null => data'[call.oid] # Null
    PROVE  CallInv'
BY DEF CoreInv, CallInv

\* What on_hit leads to, whatever the generation.
LEMMA OnHitEnds ==
    ASSUME CoreInv, pc = "hit", MemoryInv', Stay(heap, heap', Held),
           sum' \in [Generations -> 0..SizeModulus - 1],
           UNCHANGED <<data, limit, sets, python, evicting, rows, call, multiple, written>>,
           NEW a \in Addr, a = data[call.oid],
           \/ Return
           \/ /\ Loop("spill", "protected", "probation", a, TRUE)
              /\ ring'["protected"][1] = a /\ a \in Range(ring'["protected"])
           \/ /\ BalanceRings(a)
              /\ ring'["eden"][1] = a /\ a \in Range(ring'["eden"])
    PROVE  StepSafe
<1>1. call.oid # Null /\ rows = <<>> /\ a # Null
  BY Sizes DEF CoreInv, CallInv, LoadInv
<1>2. /\ SpillInv' /\ pc' \in {"return", "fill", "spill"}
      /\ spill' \in [from: Generations \cup {Null}, to: Generations \cup {Null},
                     ignore: Addr \cup {Null}, rejects: BOOLEAN]
  <2>1. CASE Return
    BY <2>1 DEF Return, SpillInv, NoSpill
  <2>2. CASE /\ Loop("spill", "protected", "probation", a, TRUE)
             /\ ring'["protected"][1] = a /\ a \in Range(ring'["protected"])
    BY <1>1, <2>2 DEF Loop, SpillInv, SpillRoutes, Generations
  <2>3. CASE /\ BalanceRings(a)
             /\ ring'["eden"][1] = a /\ a \in Range(ring'["eden"])
    BY <1>1, <2>3, BalanceInv
  <2> QED BY <2>1, <2>2, <2>3
<1>3. CallInv'
  BY <1>1, <1>2, CallStays
<1>4. LoadInv'
  BY <1>1, <1>2, NoRows
<1>5. OthersTyped'
  BY <1>2, LoopTyped DEF CoreInv, TypeOK
<1>6. Stay(heap, heap', Kept)
  BY KeptHeld
<1> QED BY <1>2, <1>3, <1>4, <1>5, <1>6, TypesAfter DEF CoreInv, StepSafe

\* on_hit of the three generations
LEMMA OnHitSafe ==
    ASSUME CoreInv, OnHit
    PROVE  StepSafe
<1> DEFINE o == call.oid
           a == data[o]
           g == heap[a].generation
           g2 == IF g = "eden" THEN g ELSE "protected"
           e == [heap[a] EXCEPT !.frequency = @ + 1, !.generation = g2]
<1>1. /\ pc = "hit" /\ o # Null /\ a # Null /\ heap[a].frequency < MaxFrequency
      /\ o \in Oids /\ rows = <<>> /\ Memory(heap, data, ring, Held)
      /\ UNCHANGED <<data, limit, sets, python, evicting, rows, call, multiple, written>>
  BY DEF OnHit, CoreInv, CallInv, MemoryInv, LoadInv, TypeOK
<1>2. /\ heap \in [Addr -> Entries \cup {Null}] /\ ring \in [Generations -> Seq(Addr)]
      /\ sum \in [Generations -> 0..SizeModulus - 1]
  BY DEF CoreInv, TypeOK
<1>3. /\ a \in Addr /\ heap[a] \in Entries /\ g \in Generations /\ a \in Range(ring[g])
      /\ ring[g] \in Seq(Addr) /\ IsInjective(ring[g]) /\ Weight(heap[a]) \in Nat
  BY <1>1, Indexed, Listed, EntryFields
<1>4. /\ e \in Entries /\ e.oid = heap[a].oid /\ e.several = heap[a].several
      /\ e.values = heap[a].values /\ e.generation = g2
  <2>1. heap[a].frequency + 1 \in 0..MaxFrequency /\ g2 \in Generations
    BY <1>1, <1>3, EntryFields, Sizes DEF Generations
  <2> QED BY <1>3, <2>1 DEF Entries
<1>5. heap' = [heap EXCEPT ![a] = e]
  BY <1>2, <1>3 DEF OnHit
<1> HIDE DEF e
<1>6. Held' = Held
  BY <1>1 DEF Held, InPython
<1>7. ChangeHeap(heap, heap', a, e)
  BY <1>2, <1>3, <1>4, <1>5 DEF Change, ChangeHeap
<1>8. CASE g = "probation"
  <2>1. g2 = "protected" /\ "probation" \in Generations /\ "protected" \in Generations
    BY <1>8 DEF Generations
  <2>2. /\ ring' = [ring EXCEPT !["probation"] = RemoveFirst(@, a),
                                !["protected"] = Cons(a, @)]
        /\ sum' = [sum EXCEPT !["probation"] = SizeT(@ - Weight(heap[a])),
                              !["protected"] = SizeT(@ + Weight(heap[a]))]
        /\ Return \/ Loop("spill", "protected", "probation", a, TRUE)
    BY <1>8 DEF OnHit
  <2>3. /\ ring["protected"] \in Seq(Addr) /\ IsInjective(ring["protected"])
        /\ a \notin Range(ring["protected"])
    BY <1>1, <1>8, <2>1, Listed
  <2>4. RemoveFirst(ring["probation"], a) \in Seq(Addr)
    BY <1>3, <1>8, RemoveList
  <2>5. /\ Cons(a, ring["protected"]) \in Seq(Addr) /\ Cons(a, ring["protected"])[1] = a
        /\ Range(Cons(a, ring["protected"])) = Range(ring["protected"]) \cup {a}
    BY <1>3, <2>3, ConsList
  <2>6. MoveRing(ring, ring', a, "probation", "protected")
    BY <1>2, <2>1, <2>2, <2>4, <2>5 DEF MoveRing
  <2>7. After(heap, heap', data, ring', Held, Held)
    BY <1>1, <1>3, <1>4, <1>7, <1>8, <2>1, <2>6, MoveMemory
  <2>8. sum' \in [Generations -> 0..SizeModulus - 1]
    BY <1>2, <1>3, <2>1, <2>2, SumsTyped
  <2>9. ring'["protected"][1] = a /\ a \in Range(ring'["protected"])
    BY <2>5, <2>6 DEF MoveRing
  <2>10. MemoryInv' /\ Stay(heap, heap', Held)
    BY <1>1, <1>6, <2>7 DEF After, MemoryInv
  <2> QED BY <1>1, <1>3, <2>2, <2>8, <2>9, <2>10, OnHitEnds
<1>9. CASE g # "probation"
  <2>1. g2 = g /\ g \in {"eden", "protected"}
    BY <1>3, <1>9 DEF Generations
  <2>2. /\ ring' = [ring EXCEPT ![g] = Cons(a, RemoveFirst(@, a))] /\ sum' = sum
        /\ IF g = "eden" THEN BalanceRings(a)
           ELSE Return \/ Loop("spill", "protected", "probation", a, TRUE)
    BY <1>9 DEF OnHit
  <2>3. /\ Cons(a, RemoveFirst(ring[g], a)) \in Seq(Addr)
        /\ Cons(a, RemoveFirst(ring[g], a))[1] = a
        /\ Range(Cons(a, RemoveFirst(ring[g], a))) = Range(ring[g])
    BY <1>3, RefreshList
  <2>4. ChangeRing(ring, ring', g, Cons(a, RemoveFirst(ring[g], a)))
    BY <1>2, <1>3, <2>2, <2>3 DEF Change, ChangeRing
  <2>5. After(heap, heap', data, ring', Held, Held)
    BY <1>1, <1>3, <1>4, <1>7, <2>1, <2>4, RefreshMemory
  <2>6. ring'[g][1] = a /\ a \in Range(ring'[g])
    BY <1>3, <2>3, <2>4 DEF Change, ChangeRing
  <2>7. sum' \in [Generations -> 0..SizeModulus - 1]
    BY <1>2, <2>2
  <2>8. MemoryInv' /\ Stay(heap, heap', Held)
    BY <1>1, <1>6, <2>5 DEF After, MemoryInv
  <2> HIDE DEF g, g2
  <2>9. CASE g = "eden"
    BY <1>1, <1>3, <2>2, <2>6, <2>7, <2>8, <2>9, OnHitEnds
  <2>10. CASE g = "protected"
    BY <1>1, <1>3, <2>2, <2>6, <2>7, <2>8, <2>10, OnHitEnds
  <2> QED BY <2>1, <2>9, <2>10
<1> QED BY <1>8, <1>9

\* The bulk load returns nothing.
LEMMA NoResult ==
    ASSUME CoreInv, call.oid = Null
    PROVE  call.result = Null /\ call.thread = Null
<1>1. call.result \in Addr => call.result[1] \in Oids
  BY AddrShape
<1>2. call.result \in Addr \cup {Null}
  BY DEF CoreInv, TypeOK
<1> QED BY <1>1, <1>2, Sizes DEF CoreInv, CallInv

\* The rows of a file without the first one.
LEMMA TailRows ==
    ASSUME NEW s \in Seq(Rows), s # <<>>
    PROVE  /\ Tail(s) \in Seq(Rows) /\ Len(s) \in Nat /\ 1 \in 1..Len(s) /\ Head(s) = s[1]
           /\ Head(s) \in Rows /\ Len(Tail(s)) = Len(s) - 1
           /\ \A i \in 1..Len(Tail(s)) :
                 Tail(s)[i] = s[i + 1] /\ i + 1 \in 1..Len(s) /\ i + 1 # 1
<1>1. Len(s) \in Nat /\ Len(s) # 0
  BY ListShape
<1>2. /\ Tail(s) \in Seq(Rows) /\ Head(s) = s[1] /\ Head(s) \in Rows
      /\ Len(Tail(s)) = Len(s) - 1
      /\ \A i \in 1..Len(Tail(s)) : Tail(s)[i] = s[i + 1]
  BY <1>1, HeadTailProperties
<1> QED BY <1>1, <1>2

\* One row of add_many
LEMMA LoadRowSafe ==
    ASSUME CoreInv, LoadRow
    PROVE  StepSafe
<1> DEFINE row == Head(rows)
           o == row.oid
           e == Entry(row.oid, FALSE, [u \in {row.tid} |-> row.frozen], row.frequency, "eden")
<1>1. /\ pc = "load" /\ rows # <<>> /\ rows \in Seq(Rows) /\ spill = NoSpill
      /\ pc' = pc /\ spill' = spill /\ evicting' = evicting
      /\ UNCHANGED <<limit, sets, python, call, multiple, written>>
      /\ call.oid = Null /\ call.result = Null
  BY NoResult DEF LoadRow, CoreInv, TypeOK, LoadInv, SpillInv
<1>2. /\ Tail(rows) \in Seq(Rows) /\ Len(rows) \in Nat /\ 1 \in 1..Len(rows) /\ row = rows[1]
      /\ row \in Rows /\ Len(Tail(rows)) = Len(rows) - 1
      /\ \A i \in 1..Len(Tail(rows)) :
            Tail(rows)[i] = rows[i + 1] /\ i + 1 \in 1..Len(rows) /\ i + 1 # 1
  BY <1>1, TailRows
<1>3. /\ o \in Oids /\ data[o] = Null
      /\ \A i \in 1..Len(Tail(rows)) : Tail(rows)[i].oid # o /\ Tail(rows)[i].oid \in Oids
      /\ \A i \in 1..Len(Tail(rows)) : data[Tail(rows)[i].oid] = Null
      /\ \A i, j \in 1..Len(Tail(rows)) : Tail(rows)[i].oid = Tail(rows)[j].oid => i = j
  <2>1. o \in Oids /\ data[o] = Null
    BY <1>2 DEF Rows, CoreInv, LoadInv
  <2>2. \A i \in 1..Len(Tail(rows)) : Tail(rows)[i].oid # o /\ Tail(rows)[i].oid \in Oids
    <3> SUFFICES ASSUME NEW i \in 1..Len(Tail(rows))
                 PROVE  Tail(rows)[i].oid # o /\ Tail(rows)[i].oid \in Oids
      OBVIOUS
    <3>1. Tail(rows)[i] = rows[i + 1] /\ i + 1 \in 1..Len(rows) /\ i + 1 # 1
      BY <1>2
    <3>2. rows[i + 1] \in Rows
      BY <1>1, <3>1, ListShape
    <3>3. rows[i + 1].oid # rows[1].oid
      BY <1>2, <3>1 DEF CoreInv, LoadInv
    <3> QED BY <1>2, <3>1, <3>2, <3>3 DEF Rows
  <2>3. \A i \in 1..Len(Tail(rows)) : data[Tail(rows)[i].oid] = Null
    BY <1>2 DEF CoreInv, LoadInv
  <2>4. ASSUME NEW i \in 1..Len(Tail(rows)), NEW j \in 1..Len(Tail(rows)),
               Tail(rows)[i].oid = Tail(rows)[j].oid
        PROVE  i = j
    <3>1. i + 1 = j + 1
      BY <1>2, <2>4 DEF CoreInv, LoadInv
    <3> QED BY <3>1
  <2> QED BY <2>1, <2>2, <2>3, <2>4
<1>4. e \in Entries /\ OfItsClass(e) /\ e.oid = o /\ e.generation = "eden"
  <2> DEFINE v == [u \in {row.tid} |-> row.frozen]
  <2>1. row.tid \in Tids /\ row.frozen \in BOOLEAN /\ row.frequency \in 0..MaxFrequency
    BY <1>2 DEF Rows
  <2>2. v = [u \in {row.tid} |-> v[u]] /\ v[row.tid] = row.frozen
    OBVIOUS
  <2>3. v[row.tid] \in BOOLEAN
    BY <2>1, <2>2, Zenon
  <2>4. e = Entry(row.oid, FALSE, v, row.frequency, "eden")
    OBVIOUS
  <2> HIDE DEF v, row
  <2>5. v \in Valuations /\ DOMAIN v = {row.tid}
    BY <2>1, <2>2, <2>3, OneValue
  <2>6. /\ e \in Entries /\ e.oid = o /\ e.generation = "eden"
        /\ e.several = FALSE /\ e.values = v
    BY <1>3, <2>1, <2>4, <2>5 DEF Entry, Entries, Generations
  <2> HIDE DEF e
  <2>7. OfItsClass(e)
    BY <2>1, <2>5, <2>6 DEF OfItsClass
  <2> QED BY <2>6, <2>7
<1>5. \/ /\ heap' = [heap EXCEPT ![Fresh(o)] = e] /\ data' = [data EXCEPT ![o] = Fresh(o)]
         /\ ring' = [ring EXCEPT !["eden"] = Cons(Fresh(o), @)]
         /\ sum' = [sum EXCEPT !["eden"] = SizeT(@ + Weight(e))]
         /\ rows' = <<>> \/ rows' = Tail(rows)
      \/ rows' = Tail(rows) /\ UNCHANGED cacheVars
  BY DEF LoadRow
<1> HIDE DEF e, row
<1>6. Held' = Held
  BY <1>1 DEF Held, InPython
<1>7. /\ MemoryInv' /\ Stay(heap, heap', Kept)
      /\ sum' \in [Generations -> 0..SizeModulus - 1]
      /\ \A p \in Oids : p # o => data'[p] = data[p]
      /\ rows' = <<>> \/ rows' = Tail(rows)
  <2>1. CASE rows' = Tail(rows) /\ UNCHANGED cacheVars
    <3>1. heap' = heap /\ data' = data /\ ring' = ring /\ sum' = sum
      BY <2>1 DEF cacheVars
    <3>2. MemoryInv' /\ Stay(heap, heap', Kept)
      BY <1>6, <3>1, SameMemory
    <3> QED BY <2>1, <3>1, <3>2 DEF CoreInv, TypeOK
  <2>2. CASE /\ heap' = [heap EXCEPT ![Fresh(o)] = e] /\ data' = [data EXCEPT ![o] = Fresh(o)]
             /\ ring' = [ring EXCEPT !["eden"] = Cons(Fresh(o), @)]
             /\ sum' = [sum EXCEPT !["eden"] = SizeT(@ + Weight(e))]
             /\ rows' = <<>> \/ rows' = Tail(rows)
    <3>1. /\ MemoryInv' /\ Stay(heap, heap', Held)
          /\ sum' \in [Generations -> 0..SizeModulus - 1]
          /\ \A p \in Oids : p # o => data'[p] = data[p]
      BY <1>1, <1>3, <1>4, <1>6, <2>2, InsertStep
    <3>2. Stay(heap, heap', Kept)
      BY <3>1, KeptHeld
    <3> QED BY <2>2, <3>1, <3>2
  <2> QED BY <1>5, <2>1, <2>2
<1>8. LoadInv'
  <2>1. CASE rows' = <<>>
    <3>1. Len(rows') = 0
      BY <2>1
    <3> QED BY <1>1, <3>1 DEF LoadInv
  <2>2. CASE rows' = Tail(rows)
    <3>1. \A i \in 1..Len(rows') : data'[rows'[i].oid] = Null
      BY <1>3, <1>7, <2>2
    <3>2. \A i, j \in 1..Len(rows') : rows'[i].oid = rows'[j].oid => i = j
      BY <1>3, <2>2
    <3> QED BY <1>1, <3>1, <3>2 DEF LoadInv
  <2> QED BY <1>7, <2>1, <2>2
<1>9. CallInv'
  BY <1>1, CallStays
<1>10. SpillInv'
  BY <1>1 DEF SpillInv
<1>11. OthersTyped'
  <2>1. rows' \in Seq(Rows)
    <3>1. <<>> \in Seq(Rows)
      OBVIOUS
    <3> QED BY <1>2, <1>7, <3>1
  <2> QED BY <1>1, <1>7, <2>1, LoopTyped DEF CoreInv, TypeOK
<1> QED BY <1>7, <1>8, <1>9, <1>10, <1>11, TypesAfter DEF CoreInv, StepSafe

\* The loop condition of add_many's rounds
LEMMA LoadRoundSafe ==
    ASSUME CoreInv, LoadRound
    PROVE  StepSafe
<1>1. /\ pc = "load" /\ rows = <<>> /\ UNCHANGED cacheVars
      /\ UNCHANGED <<limit, sets, python, rows, call, multiple, written>>
      /\ Return \/ Loop("spill", "eden", "protected", Null, FALSE)
      /\ call.oid = Null
  BY DEF LoadRound, CoreInv, LoadInv
<1>2. evicting' \in BOOLEAN
  <2>1. evicting' = FALSE \/ evicting' = evicting
    BY DEF LoadRound
  <2>2. evicting \in BOOLEAN
    BY DEF CoreInv, TypeOK
  <2> QED BY <2>1, <2>2, Zenon
<1>3. heap' = heap /\ data' = data /\ ring' = ring /\ sum' = sum
  BY <1>1 DEF cacheVars
<1>4. /\ SpillInv' /\ pc' \in {"return", "spill"}
      /\ spill' \in [from: Generations \cup {Null}, to: Generations \cup {Null},
                     ignore: Addr \cup {Null}, rejects: BOOLEAN]
  <2>1. CASE Return
    BY <2>1 DEF Return, SpillInv, NoSpill
  <2>2. CASE Loop("spill", "eden", "protected", Null, FALSE)
    BY <1>1, <2>2 DEF Loop, SpillInv, SpillRoutes, Generations
  <2> QED BY <1>1, <2>1, <2>2
<1>5. CallInv'
  BY <1>1, <1>3, <1>4, CallStays
<1>6. LoadInv'
  BY <1>1, <1>4, NoRows
<1>7. OthersTyped' /\ Held' = Held
  BY <1>1, <1>2, <1>3, <1>4, LoopTyped DEF CoreInv, TypeOK
<1>8. MemoryInv' /\ Stay(heap, heap', Kept)
  BY <1>3, <1>7, SameMemory
<1> QED BY <1>4, <1>5, <1>6, <1>7, <1>8, TypesAfter DEF CoreInv, StepSafe

\* The call returns.
LEMMA ReturnToPythonSafe ==
    ASSUME CoreInv, ReturnToPython
    PROVE  StepSafe
<1>1. /\ pc = "return" /\ pc' = "idle" /\ call' = NoCall /\ spill = NoSpill /\ rows = <<>>
      /\ python' = (IF call.thread = Null THEN python
                    ELSE [python EXCEPT ![call.thread] = call.result])
      /\ UNCHANGED cacheVars
      /\ UNCHANGED <<limit, sets, spill, rows, multiple, written>>
  BY DEF ReturnToPython, CoreInv, SpillInv, LoadInv
<1>2. evicting' \in BOOLEAN
  BY Zenon DEF ReturnToPython
<1>3. heap' = heap /\ data' = data /\ ring' = ring /\ sum' = sum
  BY <1>1 DEF cacheVars
<1>4. /\ call'.oid = Null /\ call'.thread = Null /\ call'.result = Null
      /\ call' \in [oid: Oids \cup {Null}, thread: Threads \cup {Null}, result: Addr \cup {Null}]
  BY <1>1 DEF NoCall
<1>5. /\ python \in [Threads -> Addr \cup {Null}]
      /\ call.thread \in Threads \cup {Null} /\ call.result \in Addr \cup {Null}
      /\ call.thread = Null <=> call.result = Null
      /\ call.thread # Null => python[call.thread] = Null
  BY DEF CoreInv, TypeOK, CallInv
<1>6. python' \in [Threads -> Addr \cup {Null}]
  BY <1>1, <1>5
<1>7. Held' = Held
  <2>1. ASSUME NEW b \in Addr PROVE b \in Held' <=> b \in Held
    <3>1. b # Null
      BY Sizes
    <3>2. CASE call.thread = Null
      BY <1>1, <1>4, <1>5, <3>1, <3>2 DEF Held, InPython
    <3>3. CASE call.thread # Null
      <4>1. /\ python'[call.thread] = call.result /\ call.thread \in Threads
            /\ \A t \in Threads : t # call.thread => python'[t] = python[t]
        BY <1>1, <1>5, <3>3
      <4>2. b \in Held <=> call.result = b \/ \E t \in Threads : python[t] = b
        BY DEF Held, InPython
      <4>3. b \in Held' <=> \E t \in Threads : python'[t] = b
        BY <1>4, <3>1 DEF Held, InPython
      <4> QED BY <1>5, <3>1, <3>3, <4>1, <4>2, <4>3
    <3> QED BY <3>2, <3>3
  <2>2. Held \subseteq Addr /\ Held' \subseteq Addr
    BY DEF Held
  <2> QED BY <2>1, <2>2
<1>8. MemoryInv' /\ Stay(heap, heap', Kept)
  BY <1>3, <1>7, SameMemory
<1>9. CallInv' /\ SpillInv'
  BY <1>1, <1>4 DEF CallInv, SpillInv
<1>10. LoadInv'
  BY <1>1, NoRows
<1>11. OthersTyped'
  BY <1>1, <1>2, <1>3, <1>4, <1>6 DEF CoreInv, TypeOK, OthersTyped
<1> QED BY <1>8, <1>9, <1>10, <1>11, TypesAfter DEF CoreInv, StepSafe

\* One iteration of the first loop of Eden::_balance_rings
LEMMA FillSafe ==
    ASSUME CoreInv, Fill
    PROVE  StepSafe
<1> DEFINE a == Lru("eden")
<1>1. /\ pc = "fill" /\ rows = <<>> /\ spill.from = "eden" /\ spill.ignore # Null
      /\ spill.ignore \in Range(ring["eden"])
      /\ "eden" \in Generations /\ "protected" \in Generations /\ "probation" \in Generations
      /\ data' = data /\ evicting' = evicting /\ rows' = rows
      /\ UNCHANGED <<limit, sets, python, call, multiple, written>>
      /\ call.oid # Null => data[call.oid] # Null
  BY DEF Fill, CoreInv, LoadInv, SpillInv, CallInv, Generations
<1>2. Held' = Held
  BY <1>1 DEF Held, InPython
<1>3. ring["eden"] # <<>>
  <2>1. ring["eden"] \in Seq(Addr)
    BY <1>1, Listed DEF CoreInv, MemoryInv
  <2> QED BY <1>1, <2>1, ListShape
<1>4. a \in Range(ring["eden"])
  BY <1>1, <1>3, LruListed
<1>5. /\ MemoryInv' /\ Stay(heap, heap', Kept) /\ SpillInv'
      /\ sum' \in [Generations -> 0..SizeModulus - 1]
      /\ pc' \in {"fill", "return"}
      /\ spill' \in [from: Generations \cup {Null}, to: Generations \cup {Null},
                     ignore: Addr \cup {Null}, rejects: BOOLEAN]
  <2>1. ASSUME Return
        PROVE  /\ SpillInv' /\ pc' = "return"
               /\ spill' \in [from: Generations \cup {Null}, to: Generations \cup {Null},
                              ignore: Addr \cup {Null}, rejects: BOOLEAN]
    BY <2>1 DEF Return, SpillInv, NoSpill
  <2>2. CASE Return /\ UNCHANGED <<heap, ring, sum>>
    <3>1. MemoryInv' /\ Stay(heap, heap', Kept)
      BY <1>1, <1>2, <2>2, SameMemory
    <3> QED BY <2>1, <2>2, <3>1 DEF CoreInv, TypeOK
  <2>3. CASE a # spill.ignore /\ Adopt(a, "protected") /\ UNCHANGED <<pc, spill>>
    <3>1. /\ MemoryInv' /\ Stay(heap, heap', Kept)
          /\ sum' \in [Generations -> 0..SizeModulus - 1]
          /\ ring'["eden"] = RemoveFirst(ring["eden"], a)
      BY <1>1, <1>2, <1>4, <2>3, AdoptStep
    <3>2. SpillInv'
      BY <1>1, <1>4, <2>3, <3>1, IgnoredStays
    <3> QED BY <1>1, <2>3, <3>1, <3>2 DEF CoreInv, TypeOK
  <2>4. CASE Adopt(a, "probation") /\ Return
    <3>1. /\ MemoryInv' /\ Stay(heap, heap', Kept)
          /\ sum' \in [Generations -> 0..SizeModulus - 1]
      BY <1>1, <1>2, <1>4, <2>4, AdoptStep
    <3> QED BY <2>1, <2>4, <3>1
  <2> QED BY <2>2, <2>3, <2>4 DEF Fill
<1>6. CallInv'
  BY <1>1, <1>5, CallStays
<1>7. LoadInv'
  BY <1>1, <1>5, NoRows
<1>8. OthersTyped'
  BY <1>1, <1>5, LoopTyped DEF CoreInv, TypeOK
<1> QED BY <1>5, <1>6, <1>7, <1>8, TypesAfter DEF CoreInv, StepSafe

\* Where entries are spilled from and to.
LEMMA SpillLists ==
    ASSUME CoreInv, pc = "spill"
    PROVE  /\ spill.from \in Generations /\ spill.to \in Generations /\ spill.from # spill.to
           /\ rows = <<>>
           /\ call.oid # Null => data[call.oid] # Null
           /\ SpillGoesOn => /\ ring[spill.from] # <<>>
                             /\ Lru(spill.from) \in Range(ring[spill.from])
                             /\ Lru(spill.from) # spill.ignore
<1>1. /\ spill.from \in Generations /\ spill.to \in Generations /\ spill.from # spill.to
      /\ rows = <<>>
      /\ call.oid # Null => data[call.oid] # Null
  BY DEF CoreInv, SpillInv, SpillRoutes, LoadInv, CallInv, Generations
<1>2. ASSUME SpillGoesOn PROVE ring[spill.from] # <<>>
  <2>1. ring[spill.from] \in Seq(Addr)
    BY <1>1, Listed DEF CoreInv, MemoryInv
  <2>2. Len(ring[spill.from]) > 1
    BY <1>2 DEF SpillGoesOn
  <2> QED BY <2>1, <2>2, ListShape
<1>3. ASSUME SpillGoesOn PROVE Lru(spill.from) \in Range(ring[spill.from])
  BY <1>1, <1>2, <1>3, LruListed
<1> QED BY <1>1, <1>2, <1>3 DEF SpillGoesOn

\* The loop of a spill is left.
LEMMA SpillStopSafe ==
    ASSUME CoreInv, SpillStop
    PROVE  StepSafe
<1>1. /\ pc = "spill" /\ SpillDone /\ UNCHANGED cacheVars /\ evicting' = evicting
      /\ rows' = rows /\ call' = call
      /\ UNCHANGED <<limit, sets, python, call, multiple, written>>
  BY DEF SpillStop
<1>2. heap' = heap /\ data' = data /\ ring' = ring /\ sum' = sum
  BY <1>1 DEF cacheVars
<1>3. /\ rows = <<>>
      /\ call.oid # Null => data[call.oid] # Null
  BY <1>1, SpillLists
<1>4. /\ SpillInv' /\ pc' \in {"return", "spill", "load"}
      /\ pc' = "load" => call.oid = Null
      /\ spill' \in [from: Generations \cup {Null}, to: Generations \cup {Null},
                     ignore: Addr \cup {Null}, rejects: BOOLEAN]
  BY <1>1, SpillDoneInv
<1>5. CallInv'
  BY <1>1, <1>2, <1>3, <1>4, CallStays
<1>6. LoadInv'
  <2>1. Len(rows') = 0
    BY <1>1, <1>3
  <2> QED BY <1>1, <1>3, <1>4, <2>1 DEF LoadInv
<1>7. OthersTyped' /\ Held' = Held
  BY <1>1, <1>2, <1>4, LoopTyped DEF CoreInv, TypeOK
<1>8. MemoryInv' /\ Stay(heap, heap', Kept)
  BY <1>2, <1>7, SameMemory
<1> QED BY <1>4, <1>5, <1>6, <1>7, <1>8, TypesAfter DEF CoreInv, StepSafe

\* An entry is spilled into another generation.
LEMMA SpillAdoptSafe ==
    ASSUME CoreInv, SpillAdopt
    PROVE  StepSafe
<1> DEFINE a == Lru(spill.from)
<1>1. /\ pc = "spill" /\ SpillGoesOn /\ Adopt(a, spill.to)
      /\ data' = data /\ rows' = rows /\ call' = call
      /\ UNCHANGED <<limit, sets, python, call, multiple, written>>
      /\ \/ UNCHANGED <<pc, spill, evicting>>
         \/ SpillDone /\ evicting' = TRUE
  BY DEF SpillAdopt
<1>2. evicting' \in BOOLEAN
  <2>1. evicting' = TRUE \/ evicting' = evicting
    BY <1>1
  <2>2. evicting \in BOOLEAN
    BY DEF CoreInv, TypeOK
  <2> QED BY <2>1, <2>2, Zenon
<1>3. /\ spill.from \in Generations /\ spill.to \in Generations /\ spill.from # spill.to
      /\ rows = <<>>
      /\ call.oid # Null => data[call.oid] # Null
      /\ a \in Range(ring[spill.from]) /\ a # spill.ignore
  BY <1>1, SpillLists
<1>4. Held' = Held
  BY <1>1 DEF Held, InPython
<1>5. /\ MemoryInv' /\ Stay(heap, heap', Kept)
      /\ sum' \in [Generations -> 0..SizeModulus - 1]
      /\ ring'[spill.from] = RemoveFirst(ring[spill.from], a)
  BY <1>1, <1>3, <1>4, AdoptStep
<1> HIDE DEF a
<1>6. /\ SpillInv' /\ pc' \in {"return", "spill", "load"}
      /\ pc' = "load" => call.oid = Null
      /\ spill' \in [from: Generations \cup {Null}, to: Generations \cup {Null},
                     ignore: Addr \cup {Null}, rejects: BOOLEAN]
  <2>1. CASE UNCHANGED <<pc, spill, evicting>>
    <3>1. SpillInv'
      BY <1>1, <1>3, <1>5, <2>1, IgnoredStays
    <3> QED BY <1>1, <2>1, <3>1 DEF CoreInv, TypeOK
  <2>2. CASE SpillDone
    BY <1>1, <2>2, SpillDoneInv
  <2> QED BY <1>1, <2>1, <2>2
<1>7. CallInv'
  BY <1>1, <1>3, <1>6, CallStays
<1>8. LoadInv'
  <2>1. Len(rows') = 0
    BY <1>1, <1>3
  <2> QED BY <1>1, <1>3, <1>6, <2>1 DEF LoadInv
<1>9. OthersTyped'
  BY <1>1, <1>2, <1>5, <1>6, LoopTyped DEF CoreInv, TypeOK
<1> QED BY <1>5, <1>6, <1>7, <1>8, <1>9, TypesAfter DEF CoreInv, StepSafe

\* Entry v of list g makes room for entry a of list f.
MakesRoom(a, v, f, g) ==
    /\ heap' = [Unlinked(heap, v) EXCEPT ![a].generation = g]
    /\ data' = [data EXCEPT ![heap[v].oid] = Null]
    /\ ring' = [ring EXCEPT ![f] = RemoveFirst(@, a), ![g] = Cons(a, RemoveFirst(@, v))]

\* The oldest entry of the destination makes room for the one that is spilled.
LEMMA VictimStep ==
    ASSUME CoreInv, NEW f \in Generations, NEW g \in Generations, f # g,
           NEW a \in Range(ring[f]), NEW v \in Range(ring[g]), v # call.result,
           MakesRoom(a, v, f, g), Held' = Held
    PROVE  /\ MemoryInv' /\ Stay(heap, heap', Held)
           /\ ring'[f] = RemoveFirst(ring[f], a)
           /\ v[1] \in Oids /\ \A p \in Oids : p # v[1] => data'[p] = data[p]
<1> DEFINE h == [heap EXCEPT ![v] = Left(heap, v, Held)]
           q == RemoveFirst(ring[g], v)
           r == [ring EXCEPT ![g] = q]
           o == v[1]
           e == [heap[a] EXCEPT !.generation = g]
<1>0. /\ heap' = [Unlinked(heap, v) EXCEPT ![a].generation = g]
      /\ data' = [data EXCEPT ![heap[v].oid] = Null]
      /\ ring' = [ring EXCEPT ![f] = RemoveFirst(@, a), ![g] = Cons(a, RemoveFirst(@, v))]
  BY DEF MakesRoom
<1>1. /\ Memory(heap, data, ring, Held)
      /\ heap \in [Addr -> Entries \cup {Null}] /\ data \in [Oids -> Addr \cup {Null}]
      /\ ring \in [Generations -> Seq(Addr)]
  BY DEF CoreInv, MemoryInv, TypeOK
<1>2. /\ a \in Addr /\ heap[a] \in Entries /\ heap[a].generation = f
      /\ ring[f] \in Seq(Addr) /\ IsInjective(ring[f])
  BY <1>1, Listed
<1>3. /\ v \in Addr /\ heap[v] \in Entries /\ heap[v].generation = g /\ heap[v].oid = o
      /\ o \in Oids /\ data[o] = v /\ v # Null
      /\ ring[g] \in Seq(Addr) /\ IsInjective(ring[g])
  BY <1>1, Listed, Sizes
<1>4. a # v /\ a \notin Range(ring[g])
  BY <1>1, <1>2, <1>3, Listed
<1>5. Left(heap, v, Held) \in Entries \cup {Null}
  BY <1>3, EntryOutside DEF Left
<1>6. /\ q \in Seq(Addr) /\ IsInjective(q) /\ Range(q) = Range(ring[g]) \ {v}
  BY <1>3, RemoveList
<1>7. h = Unlinked(heap, v)
  <2>1. v \in Held <=> InPython(v)
    BY <1>3 DEF Held
  <2> QED BY <1>1, <1>3, <2>1 DEF Unlinked, Left
<1> HIDE DEF q
<1>8. After(heap, h, data', r, Held, Held)
  <2>1. ChangeHeap(heap, h, v, Left(heap, v, Held))
    BY <1>1, <1>3, <1>5 DEF Change, ChangeHeap
  <2>2. ChangeIndex(data, data', o, Null)
    BY <1>0, <1>1, <1>3 DEF Change, ChangeIndex
  <2>3. ChangeRing(ring, r, g, RemoveFirst(ring[g], v))
    BY <1>1, <1>6 DEF Change, ChangeRing, q
  <2> HIDE DEF h, r, o
  <2> QED BY <1>1, <1>3, <2>1, <2>2, <2>3, DropMemory
<1>9. /\ e \in Entries /\ e.oid = heap[a].oid /\ e.several = heap[a].several
      /\ e.values = heap[a].values /\ e.generation = g
  BY <1>2 DEF Entries
<1>10. h \in [Addr -> Entries \cup {Null}] /\ h[a] = heap[a]
  BY <1>1, <1>2, <1>4, <1>5
<1>11. r[f] = ring[f] /\ r[g] = q /\ r \in [Generations -> Seq(Addr)]
  BY <1>1, <1>6
<1>12. heap' = [h EXCEPT ![a] = e]
  <2>1. heap' = [h EXCEPT ![a].generation = g]
    BY <1>0, <1>7
  <2> HIDE DEF h
  <2> QED BY <1>2, <1>10, <2>1
<1>13. ring' = [ring EXCEPT ![f] = RemoveFirst(ring[f], a), ![g] = Cons(a, q)]
  BY <1>0, <1>1 DEF q
<1> HIDE DEF e
<1>14. RemoveFirst(ring[f], a) \in Seq(Addr) /\ Cons(a, q) \in Seq(Addr)
  BY <1>2, <1>4, <1>6, RemoveList, ConsList
<1>15. MoveRing(r, ring', a, f, g)
  BY <1>1, <1>11, <1>13, <1>14 DEF MoveRing
<1>16. ChangeHeap(h, heap', a, e)
  <2> HIDE DEF h
  <2> QED BY <1>2, <1>9, <1>10, <1>12 DEF Change, ChangeHeap
<1> HIDE DEF h, r
<1>17. After(h, heap', data', ring', Held, Held)
  <2>1. Memory(h, data', r, Held)
    BY <1>8 DEF After
  <2>2. /\ a \in Range(r[f]) /\ e.oid = h[a].oid /\ e.several = h[a].several
        /\ e.values = h[a].values
    BY <1>9, <1>10, <1>11
  <2> QED BY <1>9, <1>15, <1>16, <2>1, <2>2, MoveMemory
<1>18. Stay(heap, heap', Held)
  BY <1>8, <1>17 DEF After, Stay
<1>19. MemoryInv'
  BY <1>17 DEF After, MemoryInv
<1>20. ring'[f] = RemoveFirst(ring[f], a) /\ \A p \in Oids : p # o => data'[p] = data[p]
  BY <1>0, <1>1, <1>3, <1>13
<1> QED BY <1>3, <1>18, <1>19, <1>20

\* A spill goes on after an eviction.
LEMMA SpillEvictEnds ==
    ASSUME CoreInv, pc = "spill", MemoryInv', Stay(heap, heap', Held),
           sum' \in [Generations -> 0..SizeModulus - 1], evicting' \in BOOLEAN,
           rows' = rows, call' = call, pc' = pc, spill' = spill,
           UNCHANGED <<limit, sets, python, call, multiple, written>>,
           NEW a \in Range(ring[spill.from]), a # spill.ignore,
           ring'[spill.from] = RemoveFirst(ring[spill.from], a),
           call.oid # Null => data'[call.oid] = data[call.oid]
    PROVE  StepSafe
<1>1. /\ spill.from \in Generations /\ rows = <<>>
      /\ call.oid # Null => data[call.oid] # Null
  BY SpillLists
<1>2. SpillInv'
  BY <1>1, IgnoredStays
<1>3. CallInv'
  BY <1>1, CallStays
<1>4. LoadInv'
  BY <1>1, NoRows
<1>5. OthersTyped'
  BY LoopTyped DEF CoreInv, TypeOK
<1>6. Stay(heap, heap', Kept)
  BY KeptHeld
<1> QED BY <1>2, <1>3, <1>4, <1>5, <1>6, TypesAfter DEF CoreInv, StepSafe

\* A victim is evicted.
LEMMA SpillEvictSafe ==
    ASSUME CoreInv, SpillEvict
    PROVE  StepSafe
<1> DEFINE f == spill.from
           g == spill.to
           a == Lru(f)
           v == Lru(g)
<1>1. /\ pc = "spill" /\ SpillGoesOn
      /\ rows' = rows /\ call' = call /\ pc' = pc /\ spill' = spill
      /\ UNCHANGED <<limit, sets, python, call, multiple, written>>
  BY DEF SpillEvict
<1>2. evicting' \in BOOLEAN
  BY Zenon DEF SpillEvict
<1>3. /\ f \in Generations /\ g \in Generations /\ f # g /\ rows = <<>>
      /\ call.oid # Null => data[call.oid] # Null
      /\ ring[f] # <<>> /\ a \in Range(ring[f]) /\ a # spill.ignore
  BY <1>1, SpillLists
<1>4. Held' = Held
  BY <1>1 DEF Held, InPython
<1>5. /\ a # call.result
      /\ call.oid # Null => a[1] # call.oid
  BY <1>1, <1>3, VictimOther
<1>6. /\ a \in Addr /\ a[1] \in Oids /\ data[a[1]] = a /\ heap[a] \in Entries
      /\ heap[a].generation = f /\ Weight(heap[a]) \in Nat /\ a # Null
      /\ heap[a].oid = a[1] /\ ring[f] \in Seq(Addr)
  BY <1>3, LruListed, Listed, Sizes DEF CoreInv, MemoryInv
<1>7. sum \in [Generations -> 0..SizeModulus - 1] /\ data \in [Oids -> Addr \cup {Null}]
      /\ ring \in [Generations -> Seq(Addr)]
  BY DEF CoreInv, TypeOK
<1>8. CASE Drop(a, Weight(heap[a]))
  <2>1. /\ MemoryInv' /\ Stay(heap, heap', Held)
        /\ sum' \in [Generations -> 0..SizeModulus - 1]
    BY <1>1, <1>5, <1>6, <1>8, DropStep
  <2>2. ring'[f] = RemoveFirst(ring[f], a)
    BY <1>3, <1>6, <1>7, <1>8 DEF Drop
  <2>3. call.oid # Null => data'[call.oid] = data[call.oid]
    BY <1>5, <1>6, <1>7, <1>8 DEF Drop
  <2> HIDE DEF a
  <2> QED BY <1>1, <1>2, <1>3, <2>1, <2>2, <2>3, SpillEvictEnds
<1>9. CASE /\ ring[g] # <<>>
           /\ heap' = [Unlinked(heap, v) EXCEPT ![a].generation = g]
           /\ data' = [data EXCEPT ![heap[v].oid] = Null]
           /\ ring' = [ring EXCEPT ![f] = RemoveFirst(@, a), ![g] = Cons(a, RemoveFirst(@, v))]
           /\ sum' = [sum EXCEPT ![f] = SizeT(@ - Weight(heap[a])),
                                 ![g] = SizeT(@ - Weight(heap[v]) + Weight(heap[a]))]
  <2>1. v \in Range(ring[g]) /\ v \in Addr /\ Weight(heap[v]) \in Nat /\ heap[v].generation = g
    BY <1>3, <1>9, LruListed
  <2>2. v # spill.ignore
    <3>1. spill.ignore # Null => spill.ignore \in Range(ring[f])
      BY <1>1 DEF CoreInv, SpillInv
    <3>2. \A b \in Range(ring[f]) : heap[b].generation = f
      BY <1>3, Listed DEF CoreInv, MemoryInv
    <3> QED BY <1>3, <2>1, <3>1, <3>2, Sizes
  <2>3. /\ v # call.result
        /\ call.oid # Null => v[1] # call.oid
    BY <1>1, <1>3, <2>1, <2>2, VictimOther
  <2> HIDE DEF a, v
  <2>4. /\ MemoryInv' /\ Stay(heap, heap', Held)
        /\ ring'[f] = RemoveFirst(ring[f], a)
        /\ v[1] \in Oids /\ \A p \in Oids : p # v[1] => data'[p] = data[p]
    <3>1. MakesRoom(a, v, f, g)
      BY <1>9 DEF MakesRoom
    <3> QED BY <1>3, <1>4, <2>1, <2>3, <3>1, VictimStep
  <2>5. sum' \in [Generations -> 0..SizeModulus - 1]
    <3>1. /\ SizeT(sum[f] - Weight(heap[a])) \in 0..SizeModulus - 1
          /\ SizeT(sum[g] - Weight(heap[v]) + Weight(heap[a])) \in 0..SizeModulus - 1
      <4>1. sum[f] \in Nat /\ sum[g] \in Nat
        BY <1>3, <1>7, SumsTyped
      <4>2. /\ sum[f] - Weight(heap[a]) \in Int
            /\ sum[g] - Weight(heap[v]) + Weight(heap[a]) \in Int
        BY <1>6, <2>1, <4>1
      <4> QED BY <4>2, SizeTRange
    <3> HIDE DEF f, g
    <3> QED BY <1>3, <1>7, <1>9, <3>1
  <2>6. call.oid # Null => data'[call.oid] = data[call.oid]
    BY <2>3, <2>4 DEF CoreInv, TypeOK
  <2> QED BY <1>1, <1>2, <1>3, <2>4, <2>5, <2>6, SpillEvictEnds
<1> QED BY <1>8, <1>9 DEF SpillEvict

-----------------------------------------------------------------------------
(* The invariant holds. *)

\* An empty cache.
LEMMA InitCore == Init => CoreInv
<1> SUFFICES ASSUME Init PROVE CoreInv
  OBVIOUS
<1>1. /\ heap = [a \in Addr |-> Null] /\ data = [o \in Oids |-> Null]
      /\ ring = [g \in Generations |-> <<>>] /\ sum = [g \in Generations |-> 0]
      /\ limit \in Limits /\ written \in Workloads /\ sets = 0
      /\ python = [t \in Threads |-> Null] /\ pc = "idle" /\ spill = NoSpill
      /\ rows = <<>> /\ call = NoCall
  BY DEF Init
<1>2. Held = {}
  BY <1>1, AddrShape DEF Held, InPython, NoCall
<1>3. Memory(heap, data, ring, {})
  <2>1. IsInjective(<<>>) /\ Range(<<>>) = {}
    BY DEF IsInjective, Range
  <2>2. RingsList(heap, ring)
    BY <1>1, <2>1 DEF RingsList
  <2>3. /\ heap \in [Addr -> Entries \cup {Null}] /\ data \in [Oids -> Addr \cup {Null}]
        /\ ring \in [Generations -> Seq(Addr)]
    BY <1>1
  <2>4. EntriesPlaced(heap, data, {}) /\ IndexLeads(heap, data) /\ HeldExist(heap, {})
    BY <1>1 DEF EntriesPlaced, IndexLeads, HeldExist
  <2> QED BY <2>2, <2>3, <2>4 DEF Memory
<1>4. MemoryInv
  BY <1>2, <1>3 DEF MemoryInv
<1>5. TypeOK
  <2>1. evicting \in BOOLEAN /\ multiple \in BOOLEAN
    BY Zenon DEF Init
  <2>2. /\ spill \in [from: Generations \cup {Null}, to: Generations \cup {Null},
                      ignore: Addr \cup {Null}, rejects: BOOLEAN]
        /\ call \in [oid: Oids \cup {Null}, thread: Threads \cup {Null},
                     result: Addr \cup {Null}]
    BY <1>1 DEF NoSpill, NoCall
  <2>3. /\ sum \in [Generations -> 0..SizeModulus - 1] /\ sets \in 0..MaxSets
        /\ python \in [Threads -> Addr \cup {Null}] /\ rows \in Seq(Rows)
    BY <1>1, Sizes
  <2> QED BY <1>1, <1>3, <2>1, <2>2, <2>3 DEF TypeOK, Memory
<1>6. CallInv /\ SpillInv
  BY <1>1 DEF CallInv, SpillInv, NoCall
<1>7. LoadInv
  <2>1. Len(rows) = 0
    BY <1>1
  <2> QED BY <1>1, <2>1 DEF LoadInv
<1> QED BY <1>4, <1>5, <1>6, <1>7 DEF CoreInv

\* Every step keeps the invariant and the entries that are held.
LEMMA CoreStep ==
    ASSUME CoreInv, [Next]_vars
    PROVE  StepSafe
<1>1. CASE UNCHANGED vars
  <2>1. /\ heap' = heap /\ data' = data /\ ring' = ring /\ sum' = sum /\ limit' = limit
        /\ sets' = sets /\ python' = python /\ pc' = pc /\ spill' = spill
        /\ evicting' = evicting /\ rows' = rows /\ call' = call /\ multiple' = multiple
        /\ written' = written
    BY <1>1 DEF vars
  <2>2. Held' = Held
    BY <2>1 DEF Held, InPython
  <2>3. MemoryInv' /\ Stay(heap, heap', Kept)
    BY <2>1, <2>2, SameMemory
  <2>4. OthersTyped'
    BY <2>1 DEF OthersTyped, CoreInv, TypeOK
  <2>5. CallInv' /\ SpillInv' /\ LoadInv'
    BY <2>1 DEF CoreInv, CallInv, SpillInv, SpillRoutes, LoadInv
  <2> QED BY <2>3, <2>4, <2>5, TypesAfter DEF CoreInv, StepSafe
<1>2. CASE OnHit
  BY <1>2, OnHitSafe
<1>3. CASE LoadRow
  BY <1>3, LoadRowSafe
<1>4. CASE LoadRound
  BY <1>4, LoadRoundSafe
<1>5. CASE Fill
  BY <1>5, FillSafe
<1>6. CASE SpillStop
  BY <1>6, SpillStopSafe
<1>7. CASE SpillAdopt
  BY <1>7, SpillAdoptSafe
<1>8. CASE SpillEvict
  BY <1>8, SpillEvictSafe
<1>9. CASE ReturnToPython
  BY <1>9, ReturnToPythonSafe
<1>10. ASSUME NEW o \in Oids, Delitem(o) PROVE StepSafe
  BY <1>10, DelitemSafe
<1>11. ASSUME NEW o \in Oids, NEW t \in written[o], AddToEden(o, t) PROVE StepSafe
  BY <1>11, WrittenTids, AddToEdenSafe
<1>12. ASSUME NEW o \in Oids, NEW t \in written[o], StoreAndMakeMRU(o, t) PROVE StepSafe
  BY <1>12, WrittenTids, StoreAndMakeMRUSafe
<1>13. ASSUME NEW o \in Oids, NEW t \in Tids, DelitemBefore(o, t) PROVE StepSafe
  BY <1>13, DelitemBeforeSafe
<1>14. ASSUME NEW o \in Oids, NEW t \in Tids, Freeze(o, t) PROVE StepSafe
  BY <1>14, FreezeSafe
<1>15. ASSUME NEW o \in Oids, NEW th \in Threads, NEW wanted \in Tids \cup {Null},
              NEW peek \in BOOLEAN, GetOrPeek(th, o, wanted, peek)
       PROVE  StepSafe
  BY <1>15, GetOrPeekSafe
<1>16. ASSUME NEW th \in Threads, PyRelease(th) PROVE StepSafe
  BY <1>16, PyReleaseSafe
<1>17. ASSUME NEW file \in Files, AddMany(file) PROVE StepSafe
  BY <1>17, AddManySafe
<1>18. CASE AgeFrequencies
  BY <1>18, AgeFrequenciesSafe
<1>19. CASE FlushAll
  BY <1>19, FlushAllSafe
<1> QED
  BY <1>1, <1>2, <1>3, <1>4, <1>5, <1>6, <1>7, <1>8, <1>9, <1>10, <1>11, <1>12, <1>13,
     <1>14, <1>15, <1>16, <1>17, <1>18, <1>19 DEF Next, Step

\* The inductive invariant holds in every behaviour of the specification.
LEMMA CoreAlways == Spec => []CoreInv
<1>1. CoreInv /\ [Next]_vars => CoreInv'
  BY CoreStep DEF StepSafe
<1> QED BY <1>1, InitCore, PTL DEF Spec

\* Every variable of the in-memory cache keeps its type: a sum stays in the
\* range of size_t, an entry always has a value.
THEOREM CacheTypeOK == Spec => []TypeOK
<1>1. CoreInv => TypeOK
  BY DEF CoreInv
<1> QED BY <1>1, CoreAlways, PTL

\* An entry is in a list at most once.
LEMMA PlacesInList ==
    ASSUME NEW s \in Seq(Addr), IsInjective(s), NEW a
    PROVE  Cardinality({i \in DOMAIN s : s[i] = a}) = IF a \in Range(s) THEN 1 ELSE 0
<1> DEFINE I == {i \in DOMAIN s : s[i] = a}
<1>1. DOMAIN s = 1..Len(s) /\ (a \in Range(s) <=> \E k \in 1..Len(s) : a = s[k])
  BY ListShape
<1>2. CASE a \in Range(s)
  <2>1. PICK k \in DOMAIN s : s[k] = a
    BY <1>1, <1>2
  <2>2. I = {k}
    BY <2>1 DEF IsInjective
  <2> QED BY <1>2, <2>2, FS_Singleton
<1>3. CASE a \notin Range(s)
  <2>1. I = {}
    BY <1>1, <1>3
  <2> QED BY <1>3, <2>1, FS_EmptySet
<1> QED BY <1>2, <1>3

\* The assertions of in_index, in_generation and Cache::size hold: an entry is
\* in the index exactly when it is in the list of its generation, once.
THEOREM CacheIndexMatchesRings == Spec => []IndexMatchesRings
<1>1. CoreInv => IndexMatchesRings
  <2> SUFFICES ASSUME CoreInv PROVE IndexMatchesRings
    OBVIOUS
  <2>1. Memory(heap, data, ring, Held)
    BY DEF CoreInv, MemoryInv
  <2>2. ASSUME NEW a \in Addr, NEW g \in Generations
        PROVE  Cardinality({i \in DOMAIN ring[g] : ring[g][i] = a}) =
                   IF \E o \in Oids : data[o] = a /\ heap[a].generation = g THEN 1 ELSE 0
    <3>1. ring[g] \in Seq(Addr) /\ IsInjective(ring[g])
      BY <2>1, Listed
    <3>2. a \in Range(ring[g]) => \E o \in Oids : data[o] = a /\ heap[a].generation = g
      BY <2>1, Listed
    <3>3. ASSUME NEW o \in Oids, data[o] = a, heap[a].generation = g
          PROVE  a \in Range(ring[g])
      BY <2>1, <3>3, AddrShape, Indexed
    <3>4. Cardinality({i \in DOMAIN ring[g] : ring[g][i] = a}) =
              IF a \in Range(ring[g]) THEN 1 ELSE 0
      BY <3>1, PlacesInList
    <3> QED BY <3>2, <3>3, <3>4
  <2>3. ASSUME NEW o \in Oids, data[o] # Null
        PROVE  /\ heap[data[o]] # Null /\ heap[data[o]].oid = o
               /\ heap[data[o]].generation # Null
    BY <2>1, <2>3, Indexed
  <2> QED BY <2>2, <2>3 DEF IndexMatchesRings
<1> QED BY <1>1, CoreAlways, PTL

\* An entry in the cache is of the class for several values exactly when it
\* has several, so that to_single and newest_tid always find one.
THEOREM CacheSeveralValues == Spec => []SeveralValues
<1>1. CoreInv => SeveralValues
  <2> SUFFICES ASSUME CoreInv, NEW o \in Oids, data[o] # Null
               PROVE  heap[data[o]].several <=> Cardinality(DOMAIN heap[data[o]].values) > 1
    BY DEF SeveralValues
  <2> DEFINE e == heap[data[o]]
             S == DOMAIN e.values
  <2>1. OfItsClass(e) /\ IsFiniteSet(S)
    <3>1. e \in Entries /\ OfItsClass(e)
      BY Indexed DEF CoreInv, MemoryInv
    <3> HIDE DEF e
    <3> QED BY <3>1, EntryFields, Sizes, FS_Subset
  <2> HIDE DEF e
  <2>2. CASE e.several
    <3>1. PICK t \in S, u \in S : t # u
      BY <2>1, <2>2 DEF OfItsClass
    <3>2. Cardinality({t, u}) = 2 /\ {t, u} \subseteq S
      <4>1. IsFiniteSet({t}) /\ Cardinality({t}) = 1 /\ u \notin {t}
        BY <3>1, FS_Singleton
      <4>2. Cardinality({t} \cup {u}) = 2
        BY <4>1, FS_AddElement
      <4>3. {t, u} = {t} \cup {u}
        OBVIOUS
      <4> QED BY <4>2, <4>3
    <3>3. Cardinality({t, u}) <= Cardinality(S) /\ Cardinality(S) \in Nat
      BY <2>1, <3>2, FS_Subset, FS_CardinalityType
    <3> QED BY <2>2, <3>2, <3>3 DEF e
  <2>3. CASE ~ e.several
    <3>1. PICK t \in Tids : S = {t}
      BY <2>1, <2>3 DEF OfItsClass
    <3>2. Cardinality(S) = 1
      BY <3>1, FS_Singleton
    <3> QED BY <2>3, <3>2 DEF e
  <2> QED BY <2>2, <2>3
<1> QED BY <1>1, CoreAlways, PTL

\* What Python holds, or the running call returns, is never freed, reused or
\* changed but for being frozen.
THEOREM CacheHeldValuesStay == Spec => HeldValuesStay
<1>1. CoreInv /\ [Next]_vars =>
          [\A a \in Addr :
              ((\E t \in Threads : python[t] = a /\ python'[t] = a) \/
               (pc # "idle" /\ call.result = a))
              => /\ heap'[a] # Null
                 /\ heap'[a].oid = heap[a].oid
                 /\ DOMAIN heap'[a].values = DOMAIN heap[a].values]_vars
  BY CoreStep DEF StepSafe, Stay, Kept
<1> QED BY <1>1, CoreAlways, PTL DEF Spec, HeldValuesStay

-----------------------------------------------------------------------------
(* The sums of the generations. *)

\* The weight of what a list has.
ListWeight(h, r, g) == SumFunction([a \in Range(r[g]) |-> Weight(h[a])])

\* Every entry in the cache has one value.
AllSingle(h, d) == \A o \in Oids : d[o] # Null => ~ h[d[o]].several

Balanced(h, r, s) == \A g \in Generations : s[g] = ListWeight(h, r, g)

\* As long as no entry has had several values, the sums are the weights.
AccountInv == ~ multiple => AllSingle(heap, data) /\ Balanced(heap, ring, sum)

\* The entries in S have kept their weights.
SameWeights(h, h2, S) == \A a \in S : Weight(h2[a]) = Weight(h[a])

\* A list has finitely many entries and each has a weight.
Weighed(h, r, g) == IsFiniteSet(Range(r[g])) /\ \A a \in Range(r[g]) : Weight(h[a]) \in Nat

\* The lists of the cache can be weighed.
LEMMA WeighedList ==
    ASSUME NEW h, NEW d, NEW r, NEW H, Memory(h, d, r, H), NEW g \in Generations
    PROVE  Weighed(h, r, g) /\ ListWeight(h, r, g) \in Nat
<1> DEFINE S == Range(r[g])
           f == [a \in S |-> Weight(h[a])]
<1>1. IsFiniteSet(S)
  <2>1. IsFiniteSet(Addr)
    <3>1. IsFiniteSet(Oids) /\ IsFiniteSet(1..Copies)
      BY Sizes, FS_Interval
    <3> QED BY <3>1, FS_Product DEF Addr
  <2>2. S \subseteq Addr
    BY Listed
  <2> HIDE DEF S
  <2> QED BY <2>1, <2>2, FS_Subset
<1>2. \A a \in S : Weight(h[a]) \in Nat
  BY Listed, EntryFields
<1>3. f \in [S -> Nat]
  BY <1>2
<1>4. SumFunction(f) \in Nat
  <2> HIDE DEF f, S
  <2> QED BY <1>1, <1>3, SumType
<1> QED BY <1>1, <1>2, <1>4 DEF ListWeight, Weighed

\* A list whose entries stay.
LEMMA WeightStays ==
    ASSUME NEW h, NEW r, NEW h2, NEW r2, NEW g,
           Range(r2[g]) = Range(r[g]), SameWeights(h, h2, Range(r[g]))
    PROVE  ListWeight(h2, r2, g) = ListWeight(h, r, g)
<1>1. [a \in Range(r2[g]) |-> Weight(h2[a])] = [a \in Range(r[g]) |-> Weight(h[a])]
  BY DEF SameWeights
<1> QED BY <1>1 DEF ListWeight

\* List g loses the entry a, or gets the entry b.
Loses(r, r2, g, a) == a \in Range(r[g]) /\ Range(r2[g]) = Range(r[g]) \ {a}
Gets(r, r2, g, b) == b \notin Range(r[g]) /\ Range(r2[g]) = Range(r[g]) \cup {b}

\* A list that loses an entry.
LEMMA WeightLess ==
    ASSUME NEW h, NEW r, NEW g, Weighed(h, r, g),
           NEW h2, NEW r2, NEW a, Loses(r, r2, g, a),
           SameWeights(h, h2, Range(r2[g]))
    PROVE  /\ ListWeight(h2, r2, g) = ListWeight(h, r, g) - Weight(h[a])
           /\ ListWeight(h, r, g) \in Nat /\ Weight(h[a]) \in Nat
           /\ ListWeight(h2, r2, g) \in Nat /\ Weighed(h2, r2, g)
<1> DEFINE S == Range(r[g])
           T == S \ {a}
           f == [b \in S |-> Weight(h[b])]
           k == [b \in T |-> Weight(h2[b])]
<1> USE DEF Loses
<1>1. IsFiniteSet(S) /\ \A b \in S : Weight(h[b]) \in Nat
  BY DEF Weighed
<1>2. \A b \in T : Weight(h2[b]) = Weight(h[b])
  BY DEF SameWeights
<1>3. /\ f \in [S -> Nat] /\ k \in [T -> Nat] /\ \A b \in T : f[b] = k[b]
      /\ f[a] = Weight(h[a])
  BY <1>1, <1>2
<1>4. ListWeight(h, r, g) = SumFunction(f) /\ ListWeight(h2, r2, g) = SumFunction(k)
  BY DEF ListWeight
<1>5. /\ SumFunction(f) \in Nat /\ SumFunction(k) \in Nat
      /\ SumFunction(f) = f[a] + SumFunction(k)
  <2>1. a \in S /\ k \in [S \ {a} -> Nat] /\ \A b \in S \ {a} : f[b] = k[b]
    BY <1>3
  <2> HIDE DEF f, k, S
  <2> QED BY <1>1, <1>3, <2>1, SumOne
<1>6. Weighed(h2, r2, g)
  BY <1>1, <1>2, FS_Subset DEF Weighed
<1> HIDE DEF f, k
<1> QED BY <1>1, <1>3, <1>4, <1>5, <1>6

\* A list that gets an entry.
LEMMA WeightMore ==
    ASSUME NEW h, NEW r, NEW g, Weighed(h, r, g),
           NEW h2, NEW r2, NEW b, Gets(r, r2, g, b),
           SameWeights(h, h2, Range(r[g])), Weight(h2[b]) \in Nat
    PROVE  /\ ListWeight(h2, r2, g) = ListWeight(h, r, g) + Weight(h2[b])
           /\ ListWeight(h, r, g) \in Nat
<1> DEFINE S == Range(r[g])
           T == S \cup {b}
           f == [a \in S |-> Weight(h[a])]
           k == [a \in T |-> Weight(h2[a])]
<1> USE DEF Gets
<1>1. IsFiniteSet(S) /\ \A a \in S : Weight(h[a]) \in Nat
  BY DEF Weighed
<1>2. \A a \in S : Weight(h2[a]) = Weight(h[a])
  BY DEF SameWeights
<1>3. /\ f \in [S -> Nat] /\ k \in [T -> Nat] /\ \A a \in S : k[a] = f[a]
      /\ k[b] = Weight(h2[b])
  BY <1>1, <1>2
<1>4. ListWeight(h, r, g) = SumFunction(f) /\ ListWeight(h2, r2, g) = SumFunction(k)
  BY DEF ListWeight
<1>5. /\ SumFunction(f) \in Nat /\ SumFunction(k) \in Nat
      /\ SumFunction(k) = k[b] + SumFunction(f)
  <2>1. b \notin S /\ T = S \cup {b}
    OBVIOUS
  <2> HIDE DEF f, k, S, T
  <2> QED BY <1>1, <1>3, <2>1, SumMore
<1> HIDE DEF f, k
<1> QED BY <1>1, <1>3, <1>4, <1>5

\* A list is in memory: its weight fits a size_t.
LEMMA WeightBound ==
    ASSUME NEW h, NEW d, NEW r, NEW H, Memory(h, d, r, H), AllSingle(h, d),
           NEW g \in Generations
    PROVE  ListWeight(h, r, g) \in 0..SizeModulus - 1
<1> DEFINE S == Range(r[g])
           f == [a \in S |-> Weight(h[a])]
           tid(o) == CHOOSE t \in Tids : d[o] # Null => DOMAIN h[d[o]].values = {t}
           pick == [o \in Oids |-> tid(o)]
           F == [o \in Oids |-> SVSize + StateLength[o][pick[o]]]
<1>1. IsFiniteSet(S) /\ f \in [S -> Nat] /\ ListWeight(h, r, g) \in Nat
  BY WeighedList DEF Weighed
<1>2. CASE Tids = {}
  <2>1. S = {}
    <3> SUFFICES ASSUME NEW a \in S PROVE FALSE
      OBVIOUS
    <3>1. h[a] \in Entries
      BY Listed
    <3> QED BY <1>2, <3>1, EntryFields
  <2>2. SumFunction(f) = 0
    BY <2>1, SumNone
  <2> QED BY <2>2, Sizes DEF ListWeight
<1>3. CASE Tids # {}
  <2>1. ASSUME NEW o \in Oids
        PROVE  /\ tid(o) \in Tids
               /\ d[o] # Null => Weight(h[d[o]]) = SVSize + StateLength[o][tid(o)]
    <3>1. CASE d[o] = Null
      BY <1>3, <3>1
    <3>2. CASE d[o] # Null
      <4>1. h[d[o]] \in Entries /\ h[d[o]].oid = o /\ OfItsClass(h[d[o]]) /\ ~ h[d[o]].several
        BY <3>2, Indexed DEF AllSingle
      <4>2. \E t \in Tids : DOMAIN h[d[o]].values = {t}
        BY <4>1 DEF OfItsClass
      <4>3. tid(o) \in Tids /\ DOMAIN h[d[o]].values = {tid(o)}
        BY <3>2, <4>2
      <4>4. h[d[o]].several = FALSE
        BY <4>1, EntryFields
      <4> HIDE DEF tid
      <4> QED BY <4>1, <4>3, <4>4, WeightSingle
    <3> QED BY <3>1, <3>2
  <2> HIDE DEF tid
  <2>2. pick \in [Oids -> Tids]
    BY <2>1
  <2>3. SumFunction(F) < SizeModulus
    <3> HIDE DEF pick
    <3> QED BY <2>2, AddressSpace
  <2>4. F \in [Oids -> Nat]
    <3>1. \A o \in Oids : pick[o] \in Tids
      BY <2>2
    <3> HIDE DEF pick
    <3>2. ASSUME NEW o \in Oids PROVE SVSize + StateLength[o][pick[o]] \in Nat
      <4>1. pick[o] \in Tids
        BY <3>1
      <4>2. StateLength[o][pick[o]] \in Nat
        BY <4>1, Sizes
      <4> QED BY <4>2, Sizes
    <3> QED BY <3>2
  <2>5. ASSUME NEW a \in S PROVE a[1] \in Oids /\ d[a[1]] = a /\ f[a] = F[a[1]]
    <3>1. a[1] \in Oids /\ d[a[1]] = a /\ a # Null
      BY Listed, Sizes
    <3> QED BY <2>1, <3>1
  <2> HIDE DEF f, F, S
  <2> DEFINE A == Counted(f, S)
             B == Counted(F, Oids)
             m == [p \in A |-> <<p[1][1], p[2]>>]
  <2>6. IsFiniteSet(Oids) /\ DOMAIN f = S /\ DOMAIN F = Oids
    BY <1>1, <2>4, Sizes
  <2>7. /\ SumFunction(f) = Cardinality(A) /\ IsFiniteSet(A) /\ Cardinality(A) \in Nat
    BY <1>1, <2>6, SumCounts, CountedFinite
  <2>8. /\ SumFunction(F) = Cardinality(B) /\ IsFiniteSet(B) /\ Cardinality(B) \in Nat
    BY <2>4, <2>6, SumCounts, CountedFinite
  <2>9. ASSUME NEW p \in A PROVE m[p] \in B /\ p[1] = d[m[p][1]] /\ p[2] = m[p][2]
                                 /\ p = <<p[1], p[2]>>
    <3>1. PICK a \in S : \E k \in 1..f[a] : p = <<a, k>>
      BY CountedMembers
    <3>2. PICK k \in 1..f[a] : p = <<a, k>>
      BY <3>1
    <3>3. m[p] = <<a[1], k>>
      BY <3>2
    <3>4. a[1] \in Oids /\ k \in 1..F[a[1]] /\ d[a[1]] = a
      BY <2>5, <3>2
    <3>5. m[p] \in B
      BY <3>3, <3>4, CountedMembers
    <3> QED BY <3>2, <3>3, <3>4, <3>5
  <2> HIDE DEF A, B
  <2>10. m \in [A -> B] /\ DOMAIN m = A
    BY <2>9
  <2> HIDE DEF m
  <2>11. \A p, q \in A : m[p] = m[q] => p = q
    <3> SUFFICES ASSUME NEW p \in A, NEW q \in A, m[p] = m[q] PROVE p = q
      OBVIOUS
    <3>1. p[1] = q[1] /\ p[2] = q[2] /\ p = <<p[1], p[2]>> /\ q = <<q[1], q[2]>>
      BY <2>9
    <3> QED BY <3>1
  <2>12. m \in Injection(A, B)
    BY <2>10, <2>11 DEF Injection, IsInjective
  <2>13. Cardinality(A) <= Cardinality(B)
    BY <2>8, <2>12, FS_Injection
  <2>14. ListWeight(h, r, g) = SumFunction(f)
    BY DEF ListWeight, f, S
  <2> QED BY <1>1, <2>3, <2>7, <2>8, <2>13, <2>14, Sizes
<1> QED BY <1>2, <1>3

\* The sums after a step.
Accounts == AllSingle(heap', data') /\ Balanced(heap', ring', sum')

\* An entry in the cache keeps what its weight depends on.
SameKind(h, h2, d) ==
    \A o \in Oids : d[o] # Null =>
        /\ h2[d[o]].oid = h[d[o]].oid /\ h2[d[o]].several = h[d[o]].several
        /\ DOMAIN h2[d[o]].values = DOMAIN h[d[o]].values

\* A sum does not wrap.
LEMMA Settled ==
    ASSUME StepSafe, AllSingle(heap', data'), NEW g \in Generations,
           NEW n, n = ListWeight(heap', ring', g), sum'[g] = SizeT(n)
    PROVE  sum'[g] = ListWeight(heap', ring', g)
<1>1. Memory(heap', data', ring', Held')
  BY DEF StepSafe, CoreInv, MemoryInv
<1>2. n \in 0..SizeModulus - 1
  BY <1>1, WeightBound
<1>3. n \in Int
  BY <1>2, Sizes
<1> QED BY <1>2, <1>3, SizeTRange

\* The entries of a list that are left alone keep their weights.
LEMMA WeightsOf ==
    ASSUME CoreInv, NEW S, \A b \in S : heap'[b] = heap[b]
    PROVE  SameWeights(heap, heap', S)
BY DEF SameWeights

\* Steps that leave lists, index and sums alone.
LEMMA AccountSame ==
    ASSUME CoreInv, AllSingle(heap, data), Balanced(heap, ring, sum),
           SameKind(heap, heap', data), data' = data, ring' = ring, sum' = sum
    PROVE  Accounts
<1>1. AllSingle(heap', data')
  BY DEF AllSingle, SameKind
<1>2. ASSUME NEW g \in Generations PROVE sum'[g] = ListWeight(heap', ring', g)
  <2>1. ASSUME NEW a \in Range(ring[g]) PROVE Weight(heap'[a]) = Weight(heap[a])
    <3>1. a[1] \in Oids /\ data[a[1]] = a /\ a # Null
      BY Listed, Sizes DEF CoreInv, MemoryInv
    <3>2. /\ heap'[a].oid = heap[a].oid /\ heap'[a].several = heap[a].several
          /\ DOMAIN heap'[a].values = DOMAIN heap[a].values
      BY <3>1 DEF SameKind
    <3> QED BY <3>2 DEF Weight
  <2>2. SameWeights(heap, heap', Range(ring[g]))
    BY <2>1 DEF SameWeights
  <2>3. ListWeight(heap', ring', g) = ListWeight(heap, ring, g)
    BY <2>2, WeightStays
  <2> QED BY <2>3 DEF Balanced
<1> QED BY <1>1, <1>2 DEF Accounts, Balanced

\* An entry leaves the cache.
LEMMA AccountDrop ==
    ASSUME CoreInv, StepSafe, AllSingle(heap, data), Balanced(heap, ring, sum),
           NEW o \in Oids, NEW a, a = data[o], a # Null, Drop(a, Weight(heap[a]))
    PROVE  /\ Accounts
           /\ \A k \in Generations : sum'[k] <= sum[k] /\
                 (\/ sum'[k] = sum[k] /\ ring'[k] = ring[k]
                  \/ Len(ring'[k]) = Len(ring[k]) - 1)
<1> DEFINE g == heap[a].generation
           w == Weight(heap[a])
<1>1. /\ Memory(heap, data, ring, Held) /\ data \in [Oids -> Addr \cup {Null}]
      /\ heap \in [Addr -> Entries \cup {Null}] /\ ring \in [Generations -> Seq(Addr)]
      /\ sum \in [Generations -> 0..SizeModulus - 1]
  BY DEF CoreInv, MemoryInv, TypeOK
<1>2. /\ a \in Addr /\ heap[a] \in Entries /\ heap[a].oid = o /\ a[1] = o
      /\ g \in Generations /\ a \in Range(ring[g])
      /\ ring[g] \in Seq(Addr) /\ IsInjective(ring[g])
      /\ \A k \in Generations : a \in Range(ring[k]) => k = g
  BY <1>1, Indexed, Listed
<1>3. /\ data' = [data EXCEPT ![o] = Null] /\ ring' = [ring EXCEPT ![g] = RemoveFirst(@, a)]
      /\ sum' = [sum EXCEPT ![g] = SizeT(@ - w)] /\ heap' = Unlinked(heap, a)
  BY <1>2 DEF Drop
<1>4. \A b \in Addr : b # a => heap'[b] = heap[b]
  BY <1>1, <1>3 DEF Unlinked
<1>5. AllSingle(heap', data')
  <2> SUFFICES ASSUME NEW p \in Oids, data'[p] # Null PROVE ~ heap'[data'[p]].several
    BY DEF AllSingle
  <2>1. p # o /\ data'[p] = data[p]
    BY <1>1, <1>3
  <2>2. data[p] \in Addr /\ data[p][1] = p /\ data[p] # a
    BY <1>1, <1>2, <2>1, Indexed
  <2> QED BY <1>4, <2>1, <2>2 DEF AllSingle
<1>6. /\ Range(ring'[g]) = Range(ring[g]) \ {a} /\ Len(ring'[g]) = Len(ring[g]) - 1
  BY <1>1, <1>2, <1>3, RemoveList
<1>7. /\ ListWeight(heap', ring', g) = sum[g] - w /\ w \in Nat /\ sum[g] \in Nat
      /\ sum'[g] = ListWeight(heap', ring', g)
  <2>1. SameWeights(heap, heap', Range(ring'[g]))
    <3>1. \A b \in Range(ring'[g]) : b \in Addr /\ b # a
      BY <1>2, <1>6, ListShape
    <3> QED BY <1>4, <3>1, WeightsOf
  <2>2. Weighed(heap, ring, g)
    BY <1>1, <1>2, WeighedList
  <2>3. /\ ListWeight(heap', ring', g) = ListWeight(heap, ring, g) - w
        /\ ListWeight(heap, ring, g) \in Nat /\ w \in Nat
    <3>1. Loses(ring, ring', g, a)
      BY <1>2, <1>6 DEF Loses
    <3> HIDE DEF g
    <3> QED BY <2>1, <2>2, <3>1, WeightLess
  <2>4. sum[g] = ListWeight(heap, ring, g)
    BY <1>2 DEF Balanced
  <2>5. sum'[g] = SizeT(sum[g] - w)
    BY <1>1, <1>2, <1>3
  <2>6. sum'[g] = ListWeight(heap', ring', g)
    BY <1>2, <1>5, <2>3, <2>4, <2>5, Settled
  <2> QED BY <2>3, <2>4, <2>6
<1>8. ASSUME NEW k \in Generations, k # g
      PROVE  sum'[k] = sum[k] /\ ring'[k] = ring[k] /\ sum'[k] = ListWeight(heap', ring', k)
  <2>1. sum'[k] = sum[k] /\ ring'[k] = ring[k]
    BY <1>1, <1>3, <1>8
  <2>2. \A b \in Range(ring[k]) : b \in Addr /\ b # a
    BY <1>1, <1>2, <1>8, Listed
  <2>3. SameWeights(heap, heap', Range(ring[k]))
    BY <1>4, <2>2, WeightsOf
  <2>4. ListWeight(heap', ring', k) = ListWeight(heap, ring, k)
    BY <2>1, <2>3, WeightStays
  <2> QED BY <2>1, <2>4 DEF Balanced
<1>9. Balanced(heap', ring', sum')
  BY <1>7, <1>8 DEF Balanced
<1>10. ASSUME NEW k \in Generations
       PROVE  sum'[k] <= sum[k] /\ (\/ sum'[k] = sum[k] /\ ring'[k] = ring[k]
                                    \/ Len(ring'[k]) = Len(ring[k]) - 1)
  <2> HIDE DEF g, w
  <2>1. CASE k = g
    BY <1>6, <1>7, <2>1
  <2>2. CASE k # g
    <3>1. sum[k] \in Nat
      BY <1>1, Sizes
    <3> QED BY <1>8, <2>2, <3>1
  <2> QED BY <2>1, <2>2
<1> QED BY <1>5, <1>9, <1>10 DEF Accounts

\* The weight of an entry depends on its class and values only.
LEMMA SameWeight ==
    ASSUME NEW e, NEW m, m.oid = e.oid, m.several = e.several, m.values = e.values
    PROVE  Weight(m) = Weight(e)
BY DEF Weight

\* Entries that stay in the cache stay of their class.
LEMMA SingleStay ==
    ASSUME AllSingle(heap, data),
           \A o \in Oids : data'[o] # Null =>
               data'[o] = data[o] /\ heap'[data[o]].several = heap[data[o]].several
    PROVE  AllSingle(heap', data')
BY DEF AllSingle

\* A list that is left alone.
LEMMA StayAccount ==
    ASSUME Balanced(heap, ring, sum), NEW g \in Generations,
           Range(ring'[g]) = Range(ring[g]), SameWeights(heap, heap', Range(ring[g])),
           sum'[g] = sum[g]
    PROVE  sum'[g] = ListWeight(heap', ring', g)
<1>1. ListWeight(heap', ring', g) = ListWeight(heap, ring, g)
  BY WeightStays
<1> QED BY <1>1 DEF Balanced

\* An entry is taken out of a list.
LEMMA LoseAccount ==
    ASSUME CoreInv, StepSafe, AllSingle(heap', data'), Balanced(heap, ring, sum),
           NEW g \in Generations, NEW a, Loses(ring, ring', g, a),
           SameWeights(heap, heap', Range(ring'[g])),
           sum'[g] = SizeT(sum[g] - Weight(heap[a]))
    PROVE  /\ sum'[g] = ListWeight(heap', ring', g)
           /\ sum'[g] = sum[g] - Weight(heap[a]) /\ Weight(heap[a]) \in Nat
<1>1. Weighed(heap, ring, g)
  BY WeighedList DEF CoreInv, MemoryInv
<1>2. /\ ListWeight(heap', ring', g) = ListWeight(heap, ring, g) - Weight(heap[a])
      /\ Weight(heap[a]) \in Nat
  BY <1>1, WeightLess
<1>3. sum[g] = ListWeight(heap, ring, g)
  BY DEF Balanced
<1>4. sum'[g] = ListWeight(heap', ring', g)
  BY <1>2, <1>3, Settled
<1> QED BY <1>2, <1>3, <1>4

\* An entry is put into a list.
LEMMA GetAccount ==
    ASSUME CoreInv, StepSafe, AllSingle(heap', data'), Balanced(heap, ring, sum),
           NEW g \in Generations, NEW b, Gets(ring, ring', g, b),
           SameWeights(heap, heap', Range(ring[g])), Weight(heap'[b]) \in Nat,
           sum'[g] = SizeT(sum[g] + Weight(heap'[b]))
    PROVE  /\ sum'[g] = ListWeight(heap', ring', g)
           /\ sum'[g] = sum[g] + Weight(heap'[b])
<1>1. Weighed(heap, ring, g)
  BY WeighedList DEF CoreInv, MemoryInv
<1>2. ListWeight(heap', ring', g) = ListWeight(heap, ring, g) + Weight(heap'[b])
  BY <1>1, WeightMore
<1>3. sum[g] = ListWeight(heap, ring, g)
  BY DEF Balanced
<1>4. sum'[g] = ListWeight(heap', ring', g)
  BY <1>2, <1>3, Settled
<1> QED BY <1>2, <1>3, <1>4

\* An entry is put into a list from which another one is taken.
LEMMA SwapAccount ==
    ASSUME CoreInv, StepSafe, AllSingle(heap', data'), Balanced(heap, ring, sum),
           NEW g \in Generations, NEW r, NEW v, Loses(ring, r, g, v),
           NEW b, Gets(r, ring', g, b),
           SameWeights(heap, heap', Range(r[g])), Weight(heap'[b]) \in Nat,
           sum'[g] = SizeT(sum[g] - Weight(heap[v]) + Weight(heap'[b]))
    PROVE  sum'[g] = ListWeight(heap', ring', g)
<1>1. Weighed(heap, ring, g)
  BY WeighedList DEF CoreInv, MemoryInv
<1>2. /\ ListWeight(heap', r, g) = ListWeight(heap, ring, g) - Weight(heap[v])
      /\ Weighed(heap', r, g)
  BY <1>1, WeightLess
<1>3. SameWeights(heap', heap', Range(r[g]))
  BY DEF SameWeights
<1>4. ListWeight(heap', ring', g) = ListWeight(heap', r, g) + Weight(heap'[b])
  BY <1>2, <1>3, WeightMore
<1>5. sum[g] = ListWeight(heap, ring, g)
  BY DEF Balanced
<1> QED BY <1>2, <1>4, <1>5, Settled

\* A new entry comes into eden.
LEMMA AccountInsert ==
    ASSUME CoreInv, StepSafe, AllSingle(heap, data), Balanced(heap, ring, sum),
           call.result = Null, NEW o \in Oids, data[o] = Null,
           NEW e \in Entries, ~ e.several,
           heap' = [heap EXCEPT ![Fresh(o)] = e], data' = [data EXCEPT ![o] = Fresh(o)],
           ring' = [ring EXCEPT !["eden"] = Cons(Fresh(o), @)],
           sum' = [sum EXCEPT !["eden"] = SizeT(@ + Weight(e))]
    PROVE  Accounts
<1> DEFINE b == Fresh(o)
<1>1. b \in Addr /\ b[1] = o /\ heap[b] = Null
  BY FreshFree
<1>2. /\ Memory(heap, data, ring, Held) /\ "eden" \in Generations
      /\ heap \in [Addr -> Entries \cup {Null}] /\ data \in [Oids -> Addr \cup {Null}]
      /\ ring \in [Generations -> Seq(Addr)] /\ sum \in [Generations -> 0..SizeModulus - 1]
  BY DEF CoreInv, MemoryInv, Memory, TypeOK, Generations
<1> HIDE DEF b
<1>3. /\ heap' = [heap EXCEPT ![b] = e] /\ data' = [data EXCEPT ![o] = b]
      /\ ring' = [ring EXCEPT !["eden"] = Cons(b, @)]
  BY DEF b
<1>4. heap'[b] = e /\ Weight(e) \in Nat /\ \A c \in Addr : c # b => heap'[c] = heap[c]
  BY <1>1, <1>2, <1>3, EntryFields
<1>5. \A g \in Generations : \A c \in Range(ring[g]) : c \in Addr /\ c # b
  BY <1>1, <1>2, Listed, Sizes
<1>6. AllSingle(heap', data')
  <2> SUFFICES ASSUME NEW p \in Oids, data'[p] # Null PROVE ~ heap'[data'[p]].several
    BY DEF AllSingle
  <2>1. CASE p = o
    BY <1>2, <1>3, <1>4, <2>1
  <2>2. CASE p # o
    <3>1. data'[p] = data[p]
      BY <1>2, <1>3, <2>2
    <3>2. data[p] \in Addr /\ data[p] # b
      BY <1>1, <1>2, <2>2, <3>1, Indexed
    <3> QED BY <1>4, <3>1, <3>2 DEF AllSingle
  <2> QED BY <2>1, <2>2
<1>7. ASSUME NEW g \in Generations PROVE SameWeights(heap, heap', Range(ring[g]))
  BY <1>4, <1>5, WeightsOf
<1>8. sum'["eden"] = ListWeight(heap', ring', "eden")
  <2>1. ring["eden"] \in Seq(Addr) /\ IsInjective(ring["eden"]) /\ b \notin Range(ring["eden"])
    BY <1>2, <1>5, Listed
  <2>2. Range(Cons(b, ring["eden"])) = Range(ring["eden"]) \cup {b}
    BY <1>1, <2>1, ConsList
  <2>3. ring'["eden"] = Cons(b, ring["eden"]) /\ sum'["eden"] = SizeT(sum["eden"] + Weight(e))
    BY <1>2, <1>3
  <2>4. Gets(ring, ring', "eden", b)
    BY <2>1, <2>2, <2>3 DEF Gets
  <2>5. SameWeights(heap, heap', Range(ring["eden"]))
    BY <1>2, <1>7
  <2>6. Weight(heap'[b]) \in Nat /\ sum'["eden"] = SizeT(sum["eden"] + Weight(heap'[b]))
    BY <1>4, <2>3
  <2> QED BY <1>2, <1>6, <2>4, <2>5, <2>6, GetAccount
<1>9. ASSUME NEW g \in Generations, g # "eden" PROVE sum'[g] = ListWeight(heap', ring', g)
  <2>1. sum'[g] = sum[g] /\ Range(ring'[g]) = Range(ring[g])
    BY <1>2, <1>3, <1>9
  <2> QED BY <1>7, <2>1, StayAccount
<1> QED BY <1>6, <1>8, <1>9 DEF Accounts, Balanced

\* What Python sees of the entry at a stays; all others stay as they are.
KindKept(h, h2, a) ==
    /\ h2[a].oid = h[a].oid /\ h2[a].several = h[a].several /\ h2[a].values = h[a].values
    /\ \A c \in Addr : c # a => h2[c] = h[c]

\* Then all weights stay.
LEMMA KindWeights ==
    ASSUME CoreInv, NEW a \in Addr, KindKept(heap, heap', a)
    PROVE  /\ \A c \in Addr : Weight(heap'[c]) = Weight(heap[c])
           /\ \A c \in Addr : heap'[c].several = heap[c].several
<1>1. Weight(heap'[a]) = Weight(heap[a])
  BY SameWeight DEF KindKept
<1> QED BY <1>1 DEF KindKept

\* An entry moves from one list to another.
LEMMA AccountMove ==
    ASSUME CoreInv, StepSafe, AllSingle(heap, data), Balanced(heap, ring, sum),
           NEW f \in Generations, NEW g \in Generations, f # g, NEW a \in Range(ring[f]),
           KindKept(heap, heap', a), data' = data, MoveRing(ring, ring', a, f, g),
           sum' = [sum EXCEPT ![f] = SizeT(@ - Weight(heap[a])),
                              ![g] = SizeT(@ + Weight(heap[a]))]
    PROVE  /\ Accounts
           /\ sum'[f] <= sum[f]
           /\ sum'[g] = sum[g] + Weight(heap[a])
           /\ \A k \in Generations : k # f /\ k # g => sum'[k] = sum[k]
<1>1. /\ Memory(heap, data, ring, Held) /\ data \in [Oids -> Addr \cup {Null}]
      /\ sum \in [Generations -> 0..SizeModulus - 1]
  BY DEF CoreInv, MemoryInv, TypeOK
<1>2. /\ a \in Addr /\ heap[a] \in Entries /\ heap[a].generation = f /\ Weight(heap[a]) \in Nat
      /\ ring[f] \in Seq(Addr) /\ IsInjective(ring[f])
      /\ ring[g] \in Seq(Addr) /\ IsInjective(ring[g]) /\ a \notin Range(ring[g])
  BY <1>1, Listed, EntryFields
<1>3. /\ \A c \in Addr : Weight(heap'[c]) = Weight(heap[c])
      /\ \A c \in Addr : heap'[c].several = heap[c].several
  BY <1>2, KindWeights
<1>4. AllSingle(heap', data')
  BY <1>1, <1>3, SingleStay
<1>5. /\ Loses(ring, ring', f, a) /\ Gets(ring, ring', g, a)
      /\ \A k \in Generations : k # f /\ k # g => ring'[k] = ring[k]
  <2>1. Range(RemoveFirst(ring[f], a)) = Range(ring[f]) \ {a}
    BY <1>2, RemoveList
  <2>2. Range(Cons(a, ring[g])) = Range(ring[g]) \cup {a}
    BY <1>2, ConsList
  <2> QED BY <1>2, <2>1, <2>2 DEF MoveRing, Loses, Gets
<1>6. ASSUME NEW S, S \subseteq Addr PROVE SameWeights(heap, heap', S)
  BY <1>3, <1>6 DEF SameWeights
<1>7. \A k \in Generations : Range(ring[k]) \subseteq Addr
  BY <1>1, Listed
<1>8. /\ sum'[f] = SizeT(sum[f] - Weight(heap[a])) /\ sum'[g] = SizeT(sum[g] + Weight(heap[a]))
      /\ \A k \in Generations : k # f /\ k # g => sum'[k] = sum[k]
  BY <1>1
<1>9. /\ sum'[f] = ListWeight(heap', ring', f)
      /\ sum'[f] = sum[f] - Weight(heap[a])
  <2>1. Range(ring'[f]) \subseteq Addr
    BY <1>5, <1>7 DEF Loses
  <2>2. SameWeights(heap, heap', Range(ring'[f]))
    BY <1>6, <2>1
  <2> QED BY <1>4, <1>5, <1>8, <2>2, LoseAccount
<1>10. /\ sum'[g] = ListWeight(heap', ring', g)
       /\ sum'[g] = sum[g] + Weight(heap[a])
  <2>1. SameWeights(heap, heap', Range(ring[g]))
    BY <1>6, <1>7
  <2>2. Weight(heap'[a]) = Weight(heap[a])
    BY <1>2, <1>3
  <2>3. sum'[g] = SizeT(sum[g] + Weight(heap'[a])) /\ Weight(heap'[a]) \in Nat
    BY <1>2, <1>8, <2>2
  <2> QED BY <1>4, <1>5, <2>1, <2>2, <2>3, GetAccount
<1>11. ASSUME NEW k \in Generations, k # f, k # g PROVE sum'[k] = ListWeight(heap', ring', k)
  <2>1. sum'[k] = sum[k] /\ Range(ring'[k]) = Range(ring[k])
    BY <1>5, <1>8, <1>11
  <2>2. SameWeights(heap, heap', Range(ring[k]))
    BY <1>6, <1>7
  <2> QED BY <2>1, <2>2, StayAccount
<1>12. Balanced(heap', ring', sum')
  BY <1>9, <1>10, <1>11 DEF Balanced
<1>13. sum'[f] <= sum[f]
  <2>1. sum[f] \in Nat
    BY <1>1, Sizes
  <2> QED BY <1>2, <1>9, <2>1
<1> QED BY <1>4, <1>8, <1>10, <1>12, <1>13 DEF Accounts

\* An entry moves to the front of its list.
LEMMA AccountRefresh ==
    ASSUME CoreInv, StepSafe, AllSingle(heap, data), Balanced(heap, ring, sum),
           NEW g \in Generations, NEW a \in Range(ring[g]),
           KindKept(heap, heap', a), data' = data, sum' = sum,
           ring' = [ring EXCEPT ![g] = Cons(a, RemoveFirst(@, a))]
    PROVE  Accounts /\ \A k \in Generations : Len(ring'[k]) = Len(ring[k])
<1>1. /\ Memory(heap, data, ring, Held) /\ data \in [Oids -> Addr \cup {Null}]
      /\ ring \in [Generations -> Seq(Addr)]
  BY DEF CoreInv, MemoryInv, TypeOK
<1>2. a \in Addr /\ ring[g] \in Seq(Addr) /\ IsInjective(ring[g])
  BY <1>1, Listed
<1>3. /\ \A c \in Addr : Weight(heap'[c]) = Weight(heap[c])
      /\ \A c \in Addr : heap'[c].several = heap[c].several
  BY <1>2, KindWeights
<1>4. AllSingle(heap', data')
  BY <1>1, <1>3, SingleStay
<1>5. ASSUME NEW k \in Generations
      PROVE  Range(ring'[k]) = Range(ring[k]) /\ Len(ring'[k]) = Len(ring[k])
  <2>1. CASE k = g
    <3>1. ring'[g] = Cons(a, RemoveFirst(ring[g], a))
      BY <1>1
    <3> QED BY <1>2, <2>1, <3>1, RefreshList
  <2>2. CASE k # g
    BY <1>1, <2>2
  <2> QED BY <2>1, <2>2
<1>6. ASSUME NEW k \in Generations PROVE sum'[k] = ListWeight(heap', ring', k)
  <2>1. SameWeights(heap, heap', Range(ring[k]))
    BY <1>1, <1>3, Listed DEF SameWeights
  <2> QED BY <1>5, <2>1, StayAccount
<1> QED BY <1>4, <1>5, <1>6 DEF Accounts, Balanced

\* An entry makes room for another one.
LEMMA AccountVictim ==
    ASSUME CoreInv, StepSafe, AllSingle(heap, data), Balanced(heap, ring, sum),
           NEW f \in Generations, NEW g \in Generations, f # g,
           NEW a \in Range(ring[f]), NEW v \in Range(ring[g]), MakesRoom(a, v, f, g),
           sum' = [sum EXCEPT ![f] = SizeT(@ - Weight(heap[a])),
                              ![g] = SizeT(@ - Weight(heap[v]) + Weight(heap[a]))]
    PROVE  Accounts
<1>1. /\ Memory(heap, data, ring, Held) /\ data \in [Oids -> Addr \cup {Null}]
      /\ heap \in [Addr -> Entries \cup {Null}] /\ ring \in [Generations -> Seq(Addr)]
      /\ sum \in [Generations -> 0..SizeModulus - 1]
  BY DEF CoreInv, MemoryInv, TypeOK
<1>2. /\ a \in Addr /\ heap[a] \in Entries /\ heap[a].generation = f /\ Weight(heap[a]) \in Nat
      /\ ring[f] \in Seq(Addr) /\ IsInjective(ring[f])
      /\ v \in Addr /\ heap[v] \in Entries /\ heap[v].generation = g /\ heap[v].oid = v[1]
      /\ v[1] \in Oids /\ data[v[1]] = v
      /\ ring[g] \in Seq(Addr) /\ IsInjective(ring[g]) /\ a \notin Range(ring[g]) /\ a # v
  BY <1>1, Listed, EntryFields
<1>3. /\ data' = [data EXCEPT ![v[1]] = Null]
      /\ ring'[f] = RemoveFirst(ring[f], a) /\ ring'[g] = Cons(a, RemoveFirst(ring[g], v))
      /\ \A k \in Generations : k # f /\ k # g => ring'[k] = ring[k]
      /\ sum'[f] = SizeT(sum[f] - Weight(heap[a]))
      /\ sum'[g] = SizeT(sum[g] - Weight(heap[v]) + Weight(heap[a]))
      /\ \A k \in Generations : k # f /\ k # g => sum'[k] = sum[k]
  BY <1>1, <1>2 DEF MakesRoom
<1>4. /\ heap'[a].oid = heap[a].oid /\ heap'[a].several = heap[a].several
      /\ heap'[a].values = heap[a].values
      /\ \A c \in Addr : c # a /\ c # v => heap'[c] = heap[c]
  <2> DEFINE h == Unlinked(heap, v)
  <2>1. h[a] = heap[a] /\ DOMAIN h = Addr /\ \A c \in Addr : c # v => h[c] = heap[c]
    BY <1>1, <1>2 DEF Unlinked
  <2>2. heap' = [h EXCEPT ![a].generation = g]
    BY DEF MakesRoom
  <2> HIDE DEF h
  <2>3. heap'[a] = [heap[a] EXCEPT !.generation = g] /\ \A c \in Addr : c # a => heap'[c] = h[c]
    BY <1>2, <2>1, <2>2
  <2>4. /\ heap'[a].oid = heap[a].oid /\ heap'[a].several = heap[a].several
        /\ heap'[a].values = heap[a].values
    BY <1>2, <2>3 DEF Entries
  <2> QED BY <2>1, <2>3, <2>4
<1>5. Weight(heap'[a]) = Weight(heap[a])
  BY <1>4, SameWeight
<1>6. /\ \A c \in Addr : c # v => Weight(heap'[c]) = Weight(heap[c])
      /\ \A c \in Addr : c # v => heap'[c].several = heap[c].several
  BY <1>4, <1>5
<1>7. AllSingle(heap', data')
  <2> SUFFICES ASSUME NEW o \in Oids, data'[o] # Null
               PROVE  data'[o] = data[o] /\ heap'[data[o]].several = heap[data[o]].several
    BY SingleStay
  <2>1. o # v[1] /\ data'[o] = data[o]
    BY <1>1, <1>2, <1>3
  <2>2. data[o] \in Addr /\ data[o] # v
    BY <1>1, <2>1, Indexed
  <2> QED BY <1>6, <2>1, <2>2
<1>8. ASSUME NEW S, S \subseteq Addr, v \notin S PROVE SameWeights(heap, heap', S)
  BY <1>6, <1>8 DEF SameWeights
<1>9. \A k \in Generations : Range(ring[k]) \subseteq Addr /\ (k # g => v \notin Range(ring[k]))
  BY <1>1, <1>2, Listed
<1>10. sum'[f] = ListWeight(heap', ring', f)
  <2>1. Loses(ring, ring', f, a)
    BY <1>2, <1>3, RemoveList DEF Loses
  <2>2. Range(ring'[f]) \subseteq Addr /\ v \notin Range(ring'[f])
    BY <1>9, <2>1 DEF Loses
  <2>3. SameWeights(heap, heap', Range(ring'[f]))
    BY <1>8, <2>2
  <2> QED BY <1>3, <1>7, <2>1, <2>3, LoseAccount
<1>11. sum'[g] = ListWeight(heap', ring', g)
  <2> DEFINE q == RemoveFirst(ring[g], v)
             r == [ring EXCEPT ![g] = q]
  <2>1. q \in Seq(Addr) /\ IsInjective(q) /\ Range(q) = Range(ring[g]) \ {v}
    BY <1>2, RemoveList
  <2>2. ring'[g] = Cons(a, q)
    BY <1>3
  <2> HIDE DEF q
  <2>3. r[g] = q
    BY <1>1
  <2> HIDE DEF r
  <2>4. Loses(ring, r, g, v)
    BY <2>1, <2>3 DEF Loses
  <2>5. a \notin Range(q)
    BY <1>2, <2>1
  <2>6. Range(Cons(a, q)) = Range(q) \cup {a}
    BY <1>2, <2>1, <2>5, ConsList
  <2>7. Gets(r, ring', g, a)
    BY <2>2, <2>3, <2>5, <2>6 DEF Gets
  <2>8. Range(r[g]) \subseteq Addr /\ v \notin Range(r[g])
    BY <1>9, <2>1, <2>3
  <2>9. SameWeights(heap, heap', Range(r[g]))
    BY <1>8, <2>8
  <2>10. /\ Weight(heap'[a]) \in Nat
         /\ sum'[g] = SizeT(sum[g] - Weight(heap[v]) + Weight(heap'[a]))
    BY <1>2, <1>3, <1>5
  <2> QED BY <1>7, <2>4, <2>7, <2>9, <2>10, SwapAccount
<1>12. ASSUME NEW k \in Generations, k # f, k # g PROVE sum'[k] = ListWeight(heap', ring', k)
  <2>1. sum'[k] = sum[k] /\ Range(ring'[k]) = Range(ring[k])
    BY <1>3, <1>12
  <2>2. SameWeights(heap, heap', Range(ring[k]))
    BY <1>8, <1>9, <1>12
  <2> QED BY <2>1, <2>2, StayAccount
<1> QED BY <1>7, <1>10, <1>11, <1>12 DEF Accounts, Balanced

\* Lists without entries weigh nothing.
LEMMA EmptyBalanced ==
    ASSUME NEW h, NEW r, r = [g \in Generations |-> <<>>],
           NEW s, s = [g \in Generations |-> 0]
    PROVE  Balanced(h, r, s)
<1> SUFFICES ASSUME NEW g \in Generations PROVE s[g] = ListWeight(h, r, g)
  BY DEF Balanced
<1>1. Range(r[g]) = {}
  BY DEF Range
<1>2. DOMAIN [a \in Range(r[g]) |-> Weight(h[a])] = {}
  BY <1>1
<1>3. ListWeight(h, r, g) = 0
  BY <1>2, SumNone DEF ListWeight
<1> QED BY <1>3

\* Nothing is in a new cache.
LEMMA AccountEmpty ==
    ASSUME Init
    PROVE  AccountInv
<1>1. AllSingle(heap, data)
  BY DEF Init, AllSingle
<1>2. Balanced(heap, ring, sum)
  BY EmptyBalanced DEF Init
<1> QED BY <1>1, <1>2 DEF AccountInv

\* Only a spill that is not over leaves the protected generation too large,
\* unless it has a single entry.
ProtectedInv ==
    ~ multiple /\ Oversize("protected", sum) =>
        \/ Len(ring["protected"]) = 1
        \/ pc = "spill" /\ "protected" \in {spill.from, spill.to}

FullInv == CoreInv /\ AccountInv /\ ProtectedInv

\* What every step is shown to do as long as no entry gets several values.
Sound == Accounts /\ ProtectedInv'

\* Limits are numbers.
LEMMA LimitType ==
    ASSUME CoreInv
    PROVE  /\ \A g \in Generations : limit[g] \in Nat
           /\ "eden" \in Generations /\ "protected" \in Generations
           /\ "probation" \in Generations
<1>1. limit \in [Generations -> 0..SizeModulus - 1]
  BY ConstantsAssumption DEF CoreInv, TypeOK
<1>2. \A g \in Generations : limit[g] \in 0..SizeModulus - 1
  BY <1>1
<1>3. \A n \in 0..SizeModulus - 1 : n \in Nat
  BY Sizes
<1> QED BY <1>2, <1>3 DEF Generations

\* An empty list weighs nothing.
LEMMA EmptyList ==
    ASSUME NEW h, NEW r, NEW g, Range(r[g]) = {}
    PROVE  ListWeight(h, r, g) = 0
<1>1. DOMAIN [a \in Range(r[g]) |-> Weight(h[a])] = {}
  OBVIOUS
<1> QED BY <1>1, SumNone DEF ListWeight

\* The generation was within its limit or had one entry.
LEMMA ProtectedBefore ==
    ASSUME ProtectedInv, ~ multiple, pc # "spill", Oversize("protected", sum)
    PROVE  Len(ring["protected"]) = 1
BY DEF ProtectedInv

\* The protected generation is left alone by a step that is not of a spill.
LEMMA ProtectedStays ==
    ASSUME FullInv, ~ multiple, pc # "spill", limit' = limit,
           sum'["protected"] = sum["protected"],
           Len(ring'["protected"]) = Len(ring["protected"])
    PROVE  ProtectedInv'
BY ProtectedBefore DEF ProtectedInv, Oversize, FullInv

\* Steps that leave lists, index and sums alone.
LEMMA QuietSound ==
    ASSUME FullInv, ~ multiple, pc # "spill", SameKind(heap, heap', data),
           data' = data, ring' = ring, sum' = sum, limit' = limit
    PROVE  Sound
<1>1. Accounts
  BY AccountSame DEF FullInv, AccountInv
<1>2. ProtectedInv'
  BY ProtectedStays
<1> QED BY <1>1, <1>2 DEF Sound

\* The entry of an object leaves the cache.
LEMMA DropSound ==
    ASSUME FullInv, StepSafe, ~ multiple, pc # "spill", limit' = limit,
           NEW o \in Oids, NEW a, a = data[o], a # Null, Drop(a, Weight(heap[a]))
    PROVE  Sound
<1>1. CoreInv /\ AllSingle(heap, data) /\ Balanced(heap, ring, sum)
  BY DEF FullInv, AccountInv
<1>2. /\ Accounts
      /\ \A k \in Generations : sum'[k] <= sum[k] /\
            (\/ sum'[k] = sum[k] /\ ring'[k] = ring[k]
             \/ Len(ring'[k]) = Len(ring[k]) - 1)
  BY <1>1, AccountDrop
<1> DEFINE p == "protected"
<1>3. p \in Generations /\ limit[p] \in Nat
  BY <1>1, LimitType
<1>4. CASE sum'[p] = sum[p] /\ ring'[p] = ring[p]
  BY <1>2, <1>4, ProtectedStays DEF Sound
<1>5. CASE Len(ring'[p]) = Len(ring[p]) - 1
  <2> SUFFICES ASSUME ~ multiple', Oversize(p, sum)' PROVE FALSE
    BY <1>2 DEF Sound, ProtectedInv
  <2>1. sum'[p] > limit[p] /\ sum'[p] <= sum[p] /\ sum[p] \in Nat /\ sum'[p] \in Nat
    <3>1. sum \in [Generations -> 0..SizeModulus - 1]
      BY <1>1 DEF CoreInv, TypeOK
    <3>2. sum' \in [Generations -> 0..SizeModulus - 1]
      BY DEF StepSafe, CoreInv, TypeOK
    <3> QED BY <1>2, <1>3, <3>1, <3>2, Sizes DEF Oversize
  <2>2. Oversize(p, sum)
    BY <1>3, <2>1 DEF Oversize
  <2>3. Len(ring'[p]) = 0
    BY <1>5, <2>2, ProtectedBefore DEF FullInv
  <2>4. Range(ring'[p]) = {}
    <3>1. ring'[p] \in Seq(Addr)
      BY <1>3 DEF StepSafe, CoreInv, TypeOK
    <3> QED BY <2>3, <3>1, ListShape
  <2>5. sum'[p] = ListWeight(heap', ring', p)
    BY <1>2, <1>3 DEF Accounts, Balanced
  <2>6. ListWeight(heap', ring', p) = 0
    BY <2>4, EmptyList
  <2> QED BY <1>3, <2>1, <2>5, <2>6
<1> QED BY <1>2, <1>3, <1>4, <1>5

\* A new entry comes into eden.
LEMMA InsertSound ==
    ASSUME FullInv, StepSafe, ~ multiple, pc # "spill", limit' = limit,
           call.result = Null, NEW o \in Oids, data[o] = Null,
           NEW e \in Entries, ~ e.several,
           heap' = [heap EXCEPT ![Fresh(o)] = e], data' = [data EXCEPT ![o] = Fresh(o)],
           ring' = [ring EXCEPT !["eden"] = Cons(Fresh(o), @)],
           sum' = [sum EXCEPT !["eden"] = SizeT(@ + Weight(e))]
    PROVE  Sound
<1>1. CoreInv /\ AllSingle(heap, data) /\ Balanced(heap, ring, sum)
  BY DEF FullInv, AccountInv
<1>2. Accounts
  BY <1>1, AccountInsert
<1>3. sum'["protected"] = sum["protected"] /\ ring'["protected"] = ring["protected"]
  BY <1>1 DEF CoreInv, TypeOK, Generations
<1>4. ProtectedInv'
  BY <1>3, ProtectedStays
<1> QED BY <1>2, <1>4 DEF Sound

\* Entries of a cache without several values have one value.
LEMMA OneValued ==
    ASSUME FullInv, ~ multiple, NEW o \in Oids, data[o] # Null
    PROVE  /\ ~ heap[data[o]].several /\ heap[data[o]] \in Entries /\ data[o] \in Addr
           /\ heap[data[o]].several = FALSE
<1>1. ~ heap[data[o]].several
  BY DEF FullInv, AccountInv, AllSingle
<1>2. heap[data[o]] \in Entries /\ data[o] \in Addr
  BY Indexed DEF FullInv, CoreInv, MemoryInv
<1> QED BY <1>1, <1>2, EntryFields

\* Cache::add_to_eden
LEMMA AddToEdenSound ==
    ASSUME FullInv, StepSafe, ~ multiple', NEW o \in Oids, NEW t \in Tids, AddToEden(o, t)
    PROVE  Sound
<1> DEFINE e == Entry(o, FALSE, [u \in {t} |-> FALSE], 1, "eden")
<1>1. /\ pc = "idle" /\ data[o] = Null /\ ~ multiple /\ limit' = limit
      /\ heap' = [heap EXCEPT ![Fresh(o)] = e]
      /\ data' = [data EXCEPT ![o] = Fresh(o)]
      /\ ring' = [ring EXCEPT !["eden"] = Cons(Fresh(o), @)]
      /\ sum' = [sum EXCEPT !["eden"] = SizeT(@ + Weight(e))]
  BY DEF AddToEden, Begin
<1>2. call.result = Null
  BY <1>1, Idle DEF FullInv
<1>3. ~ e.several
  BY DEF Entry
<1>4. e \in Entries
  <2> DEFINE v == [u \in {t} |-> FALSE]
  <2>1. v = [u \in {t} |-> v[u]] /\ v[t] = FALSE
    OBVIOUS
  <2>2. v[t] \in BOOLEAN
    BY <2>1, Zenon
  <2>3. e = Entry(o, FALSE, v, 1, "eden")
    OBVIOUS
  <2> HIDE DEF v
  <2>4. v \in Valuations
    BY <2>1, <2>2, OneValue
  <2>5. 1 \in 0..MaxFrequency /\ "eden" \in Generations
    BY Sizes DEF Generations
  <2> QED BY <2>3, <2>4, <2>5 DEF Entry, Entries
<1> HIDE DEF e
<1> QED BY <1>1, <1>2, <1>3, <1>4, InsertSound

\* Cache::store_and_make_MRU: without several values it stores nothing.
LEMMA StoreAndMakeMRUSound ==
    ASSUME FullInv, StepSafe, ~ multiple', NEW o \in Oids, NEW t \in Tids, StoreAndMakeMRU(o, t)
    PROVE  Sound
<1> DEFINE a == data[o]
<1>1. /\ pc = "idle" /\ a # Null /\ limit' = limit /\ AddingValue(a, t)
      /\ ~ multiple /\ t \in DOMAIN heap[a].values
  BY DEF StoreAndMakeMRU, Begin
<1>2. ~ heap[a].several
  BY <1>1, OneValued
<1>3. UNCHANGED cacheVars
  BY <1>1, <1>2 DEF AddingValue
<1>4. heap' = heap /\ data' = data /\ ring' = ring /\ sum' = sum
  BY <1>3 DEF cacheVars
<1>5. SameKind(heap, heap', data)
  BY <1>4 DEF SameKind
<1> QED BY <1>1, <1>4, <1>5, QuietSound

\* Cache::_get_or_peek
LEMMA GetOrPeekSound ==
    ASSUME FullInv, StepSafe, ~ multiple', NEW o \in Oids, NEW th \in Threads, NEW wanted,
           NEW peek, GetOrPeek(th, o, wanted, peek)
    PROVE  Sound
<1>1. /\ pc = "idle" /\ data[o] # Null /\ limit' = limit /\ ~ multiple
      /\ data' = data /\ ring' = ring /\ sum' = sum
  BY DEF GetOrPeek, Begin
<1>2. ~ heap[data[o]].several
  BY <1>1, OneValued
<1>3. heap' = heap
  BY <1>2 DEF GetOrPeek
<1>4. SameKind(heap, heap', data)
  BY <1>3 DEF SameKind
<1> QED BY <1>1, <1>4, QuietSound

\* Cache::delitem(key)
LEMMA DelitemSound ==
    ASSUME FullInv, StepSafe, ~ multiple', NEW o \in Oids, Delitem(o)
    PROVE  Sound
<1>1. /\ pc = "idle" /\ data[o] # Null /\ limit' = limit /\ ~ multiple
      /\ Drop(data[o], Weight(heap[data[o]]))
  BY DEF Delitem
<1> QED BY <1>1, DropSound

\* Cache::delitem(key, tid)
LEMMA DelitemBeforeSound ==
    ASSUME FullInv, StepSafe, ~ multiple', NEW o \in Oids, NEW t \in Tids, DelitemBefore(o, t)
    PROVE  Sound
<1>1. pc = "idle" /\ data[o] # Null /\ limit' = limit /\ ~ multiple
  BY DEF DelitemBefore
<1>2. ~ heap[data[o]].several
  BY <1>1, OneValued
<1>3. Drop(data[o], Weight(heap[data[o]]))
  BY <1>2 DEF DelitemBefore
<1> QED BY <1>1, <1>3, DropSound

\* Cache::freeze
LEMMA FreezeSound ==
    ASSUME FullInv, StepSafe, ~ multiple', NEW o \in Oids, NEW t \in Tids, Freeze(o, t)
    PROVE  Sound
<1> DEFINE a == data[o]
           e == heap[a]
           m == [e EXCEPT !.values = [u \in DOMAIN @ |-> @[u] \/ u = t]]
<1>1. pc = "idle" /\ a # Null /\ limit' = limit /\ ~ multiple
  BY DEF Freeze
<1>2. ~ e.several /\ e \in Entries /\ a \in Addr
  BY <1>1, OneValued
<1>3. CASE Drop(a, Weight(heap[a]))
  BY <1>1, <1>3, DropSound
<1>4. CASE heap' = [heap EXCEPT ![a] = m] /\ UNCHANGED <<data, ring, sum>>
  <2>1. m.oid = e.oid /\ m.several = e.several /\ DOMAIN m.values = DOMAIN e.values
    BY <1>2 DEF Entries
  <2>2. heap'[a] = m /\ \A c \in Addr : c # a => heap'[c] = heap[c]
    BY <1>2, <1>4 DEF FullInv, CoreInv, TypeOK
  <2>3. \A p \in Oids : data[p] # Null => data[p] \in Addr
    BY DEF FullInv, CoreInv, TypeOK
  <2> HIDE DEF m, a
  <2>4. SameKind(heap, heap', data)
    BY <2>1, <2>2, <2>3 DEF SameKind
  <2> QED BY <1>1, <1>4, <2>4, QuietSound
<1> QED BY <1>2, <1>3, <1>4 DEF Freeze

\* Cache::age_frequencies
LEMMA AgeFrequenciesSound ==
    ASSUME FullInv, StepSafe, ~ multiple', AgeFrequencies
    PROVE  Sound
<1>1. /\ pc = "idle" /\ limit' = limit /\ ~ multiple
      /\ data' = data /\ ring' = ring /\ sum' = sum
  BY DEF AgeFrequencies
<1>2. ASSUME NEW o \in Oids, data[o] # Null
      PROVE  /\ heap'[data[o]].oid = heap[data[o]].oid
             /\ heap'[data[o]].several = heap[data[o]].several
             /\ DOMAIN heap'[data[o]].values = DOMAIN heap[data[o]].values
  <2>1. data[o] \in Addr /\ heap[data[o]] \in Entries
    BY <1>1, <1>2, OneValued
  <2>2. heap'[data[o]] = [heap[data[o]] EXCEPT !.frequency = @ \div 2]
    BY <2>1 DEF AgeFrequencies
  <2> QED BY <2>1, <2>2 DEF Entries
<1>3. SameKind(heap, heap', data)
  BY <1>2 DEF SameKind
<1> QED BY <1>1, <1>3, QuietSound

\* release_entry: an entry in the cache is not deleted.
LEMMA PyReleaseSound ==
    ASSUME FullInv, StepSafe, ~ multiple', NEW th \in Threads, PyRelease(th)
    PROVE  Sound
<1> DEFINE a == python[th]
<1>1. /\ pc = "idle" /\ limit' = limit /\ ~ multiple
      /\ data' = data /\ ring' = ring /\ sum' = sum
      /\ \/ heap' = heap
         \/ heap[a].generation = Null /\ heap' = [heap EXCEPT ![a] = Null]
  BY DEF PyRelease
<1>2. ASSUME NEW o \in Oids, data[o] # Null
      PROVE  heap'[data[o]] = heap[data[o]]
  <2>1. heap[data[o]].generation # Null /\ data[o] \in Addr
    BY <1>2, Indexed DEF FullInv, CoreInv, MemoryInv
  <2>2. heap \in [Addr -> Entries \cup {Null}]
    BY DEF FullInv, CoreInv, TypeOK
  <2> HIDE DEF a
  <2> QED BY <1>1, <2>1, <2>2
<1>3. SameKind(heap, heap', data)
  BY <1>2 DEF SameKind
<1> QED BY <1>1, <1>3, QuietSound

\* LocalClient.flush_all
LEMMA FlushAllSound ==
    ASSUME FullInv, FlushAll
    PROVE  Sound
<1>1. /\ limit' = limit /\ data' = [o \in Oids |-> Null]
      /\ ring' = [g \in Generations |-> <<>>] /\ sum' = [g \in Generations |-> 0]
  BY DEF FlushAll
<1>2. AllSingle(heap', data')
  BY <1>1 DEF AllSingle
<1>3. Balanced(heap', ring', sum')
  BY <1>1, EmptyBalanced
<1>4. ProtectedInv'
  <2>1. limit["protected"] \in Nat /\ "protected" \in Generations
    BY LimitType DEF FullInv
  <2>2. ~ Oversize("protected", sum)'
    BY <1>1, <2>1 DEF Oversize
  <2> QED BY <2>2 DEF ProtectedInv
<1> QED BY <1>2, <1>3, <1>4 DEF Accounts, Sound

\* Steps of the loops that leave the cache alone.
LEMMA LoopSound ==
    ASSUME FullInv, ~ multiple, pc # "spill", UNCHANGED cacheVars, limit' = limit
    PROVE  Sound
<1>1. heap' = heap /\ data' = data /\ ring' = ring /\ sum' = sum
  BY DEF cacheVars
<1>2. SameKind(heap, heap', data)
  BY <1>1 DEF SameKind
<1> QED BY <1>1, <1>2, QuietSound

\* Cache::add_many
LEMMA AddManySound ==
    ASSUME FullInv, StepSafe, ~ multiple', NEW file, AddMany(file)
    PROVE  Sound
<1>1. pc # "spill" /\ UNCHANGED cacheVars /\ limit' = limit /\ ~ multiple
  BY DEF AddMany, Begin, cacheVars
<1> QED BY <1>1, LoopSound

\* The loop condition of add_many's rounds
LEMMA LoadRoundSound ==
    ASSUME FullInv, StepSafe, ~ multiple', LoadRound
    PROVE  Sound
<1>1. pc # "spill" /\ UNCHANGED cacheVars /\ limit' = limit /\ ~ multiple
  BY DEF LoadRound
<1> QED BY <1>1, LoopSound

\* The end of a call
LEMMA ReturnToPythonSound ==
    ASSUME FullInv, StepSafe, ~ multiple', ReturnToPython
    PROVE  Sound
<1>1. pc # "spill" /\ UNCHANGED cacheVars /\ limit' = limit /\ ~ multiple
  BY DEF ReturnToPython
<1> QED BY <1>1, LoopSound

\* One row of add_many
LEMMA LoadRowSound ==
    ASSUME FullInv, StepSafe, ~ multiple', LoadRow
    PROVE  Sound
<1> DEFINE row == Head(rows)
           o == row.oid
           e == Entry(row.oid, FALSE, [u \in {row.tid} |-> row.frozen], row.frequency, "eden")
<1>1. /\ pc = "load" /\ rows # <<>> /\ rows \in Seq(Rows) /\ limit' = limit /\ ~ multiple
      /\ call.result = Null /\ CoreInv
  BY NoResult DEF LoadRow, FullInv, CoreInv, TypeOK, LoadInv
<1>2. row \in Rows /\ row = rows[1] /\ 1 \in 1..Len(rows)
  BY <1>1, TailRows
<1>3. o \in Oids /\ data[o] = Null
  BY <1>1, <1>2 DEF Rows, CoreInv, LoadInv
<1>4. ~ e.several
  BY DEF Entry
<1>5. e \in Entries
  <2> DEFINE v == [u \in {row.tid} |-> row.frozen]
  <2>1. row.tid \in Tids /\ row.frozen \in BOOLEAN /\ row.frequency \in 0..MaxFrequency
    BY <1>2 DEF Rows
  <2>2. v = [u \in {row.tid} |-> v[u]] /\ v[row.tid] = row.frozen
    OBVIOUS
  <2>3. v[row.tid] \in BOOLEAN
    BY <2>1, <2>2, Zenon
  <2>4. e = Entry(row.oid, FALSE, v, row.frequency, "eden")
    OBVIOUS
  <2> HIDE DEF v, row
  <2>5. v \in Valuations
    BY <2>1, <2>2, <2>3, OneValue
  <2> QED BY <1>3, <2>1, <2>4, <2>5 DEF Entry, Entries, Generations
<1>6. \/ /\ heap' = [heap EXCEPT ![Fresh(o)] = e] /\ data' = [data EXCEPT ![o] = Fresh(o)]
         /\ ring' = [ring EXCEPT !["eden"] = Cons(Fresh(o), @)]
         /\ sum' = [sum EXCEPT !["eden"] = SizeT(@ + Weight(e))]
      \/ UNCHANGED cacheVars
  BY DEF LoadRow
<1> HIDE DEF e, row
<1>7. CASE UNCHANGED cacheVars
  BY <1>1, <1>7, LoopSound
<1>8. CASE /\ heap' = [heap EXCEPT ![Fresh(o)] = e] /\ data' = [data EXCEPT ![o] = Fresh(o)]
           /\ ring' = [ring EXCEPT !["eden"] = Cons(Fresh(o), @)]
           /\ sum' = [sum EXCEPT !["eden"] = SizeT(@ + Weight(e))]
  BY <1>1, <1>3, <1>4, <1>5, <1>8, InsertSound
<1> QED BY <1>6, <1>7, <1>8

\* on_hit
LEMMA OnHitSound ==
    ASSUME FullInv, StepSafe, ~ multiple', OnHit
    PROVE  Sound
<1> DEFINE o == call.oid
           a == data[o]
           g == heap[a].generation
<1>1. /\ pc = "hit" /\ o # Null /\ a # Null /\ o \in Oids /\ limit' = limit /\ data' = data
      /\ ~ multiple /\ Memory(heap, data, ring, Held) /\ CoreInv
      /\ AllSingle(heap, data) /\ Balanced(heap, ring, sum)
  BY DEF OnHit, FullInv, AccountInv, CoreInv, CallInv, MemoryInv, TypeOK
<1>2. /\ heap \in [Addr -> Entries \cup {Null}] /\ ring \in [Generations -> Seq(Addr)]
      /\ sum \in [Generations -> 0..SizeModulus - 1]
      /\ "protected" \in Generations /\ "probation" \in Generations
  BY <1>1 DEF CoreInv, TypeOK, Generations
<1>3. /\ a \in Addr /\ heap[a] \in Entries /\ g \in Generations /\ a \in Range(ring[g])
      /\ ring[g] \in Seq(Addr) /\ IsInjective(ring[g])
  BY <1>1, Indexed, Listed
<1>4. KindKept(heap, heap', a)
  <2> DEFINE e == [heap[a] EXCEPT !.frequency = @ + 1,
                                  !.generation = IF g = "eden" THEN g ELSE "protected"]
  <2>1. e.oid = heap[a].oid /\ e.several = heap[a].several /\ e.values = heap[a].values
    BY <1>3 DEF Entries
  <2>2. heap' = [heap EXCEPT ![a] = e]
    BY <1>2, <1>3 DEF OnHit
  <2> HIDE DEF e
  <2>3. heap'[a] = e /\ \A c \in Addr : c # a => heap'[c] = heap[c]
    BY <1>2, <1>3, <2>2
  <2> QED BY <2>1, <2>3 DEF KindKept
<1>5. ASSUME g # "eden" PROVE ProtectedInv'
  <2>1. CASE ~ Oversize("protected", sum)'
    BY <2>1 DEF ProtectedInv
  <2>2. CASE Oversize("protected", sum)'
    <3>1. Oversize("protected", sum')
      BY <1>1, <2>2 DEF Oversize
    <3>2. Loop("spill", "protected", "probation", a, TRUE)
      BY <1>5, <3>1 DEF OnHit
    <3>3. pc' = "spill" /\ spill'.from = "protected"
      BY <3>2 DEF Loop
    <3> QED BY <3>3 DEF ProtectedInv
  <2> QED BY <2>1, <2>2
<1>6. CASE g = "probation"
  <2>1. /\ ring' = [ring EXCEPT !["probation"] = RemoveFirst(@, a),
                                !["protected"] = Cons(a, @)]
        /\ sum' = [sum EXCEPT !["probation"] = SizeT(@ - Weight(heap[a])),
                              !["protected"] = SizeT(@ + Weight(heap[a]))]
    BY <1>6 DEF OnHit
  <2>2. a \in Range(ring["probation"])
    BY <1>3, <1>6
  <2>3. MoveRing(ring, ring', a, "probation", "protected")
    <3>1. ring' \in [Generations -> Seq(Addr)]
      BY DEF StepSafe, CoreInv, TypeOK
    <3> QED BY <1>2, <2>1, <3>1 DEF MoveRing
  <2> HIDE DEF a
  <2>4. Accounts
    BY <1>1, <1>2, <1>4, <2>1, <2>2, <2>3, AccountMove
  <2> QED BY <1>5, <1>6, <2>4 DEF Sound
<1>7. CASE g # "probation"
  <2>1. ring' = [ring EXCEPT ![g] = Cons(a, RemoveFirst(@, a))] /\ sum' = sum
    BY <1>7 DEF OnHit
  <2>2. Accounts /\ \A k \in Generations : Len(ring'[k]) = Len(ring[k])
    <3> HIDE DEF a, g
    <3> QED BY <1>1, <1>3, <1>4, <2>1, AccountRefresh
  <2>3. ProtectedInv'
    BY <1>1, <1>2, <2>1, <2>2, ProtectedStays
  <2> QED BY <2>2, <2>3 DEF Sound
<1> QED BY <1>6, <1>7

\* An entry that is adopted keeps its values.
LEMMA AdoptKind ==
    ASSUME CoreInv, StepSafe, NEW f \in Generations, NEW g \in Generations, f # g,
           NEW a \in Range(ring[f]), Adopt(a, g)
    PROVE  /\ KindKept(heap, heap', a) /\ MoveRing(ring, ring', a, f, g)
           /\ sum' = [sum EXCEPT ![f] = SizeT(@ - Weight(heap[a])),
                                 ![g] = SizeT(@ + Weight(heap[a]))]
<1>1. /\ heap \in [Addr -> Entries \cup {Null}] /\ ring \in [Generations -> Seq(Addr)]
  BY DEF CoreInv, TypeOK
<1>2. a \in Addr /\ heap[a] \in Entries /\ heap[a].generation = f
  BY Listed DEF CoreInv, MemoryInv
<1>3. /\ heap' = [heap EXCEPT ![a].generation = g]
      /\ ring' = [ring EXCEPT ![f] = RemoveFirst(@, a), ![g] = Cons(a, @)]
      /\ sum' = [sum EXCEPT ![f] = SizeT(@ - Weight(heap[a])),
                            ![g] = SizeT(@ + Weight(heap[a]))]
  BY <1>2 DEF Adopt
<1>4. /\ heap'[a] = [heap[a] EXCEPT !.generation = g]
      /\ \A c \in Addr : c # a => heap'[c] = heap[c]
  BY <1>1, <1>2, <1>3
<1>5. KindKept(heap, heap', a)
  BY <1>2, <1>4 DEF KindKept, Entries
<1>6. MoveRing(ring, ring', a, f, g)
  <2>1. ring' \in [Generations -> Seq(Addr)]
    BY DEF StepSafe, CoreInv, TypeOK
  <2> QED BY <1>1, <1>3, <2>1 DEF MoveRing
<1> QED BY <1>3, <1>5, <1>6

\* Generation::adopt
LEMMA AccountAdopt ==
    ASSUME FullInv, StepSafe, ~ multiple, NEW f \in Generations, NEW g \in Generations, f # g,
           NEW a \in Range(ring[f]), Adopt(a, g), data' = data
    PROVE  /\ Accounts
           /\ sum'[g] = SizeT(Weight(heap[a]) + sum[g])
           /\ \A k \in Generations : k # f /\ k # g => sum'[k] = sum[k] /\ ring'[k] = ring[k]
<1>1. CoreInv /\ AllSingle(heap, data) /\ Balanced(heap, ring, sum)
  BY DEF FullInv, AccountInv
<1>2. /\ KindKept(heap, heap', a) /\ MoveRing(ring, ring', a, f, g)
      /\ sum' = [sum EXCEPT ![f] = SizeT(@ - Weight(heap[a])),
                            ![g] = SizeT(@ + Weight(heap[a]))]
  BY <1>1, AdoptKind
<1>3. Accounts
  BY <1>1, <1>2, AccountMove
<1>4. sum \in [Generations -> 0..SizeModulus - 1]
  BY <1>1 DEF CoreInv, TypeOK
<1>5. /\ sum'[g] = SizeT(sum[g] + Weight(heap[a]))
      /\ \A k \in Generations : k # f /\ k # g => sum'[k] = sum[k] /\ ring'[k] = ring[k]
  BY <1>2, <1>4 DEF MoveRing
<1>6. sum[g] + Weight(heap[a]) = Weight(heap[a]) + sum[g]
  <2>1. sum[g] \in Nat
    BY <1>4, Sizes
  <2>2. Weight(heap[a]) \in Nat
    BY <1>1, Listed, EntryFields DEF CoreInv, MemoryInv
  <2> QED BY <2>1, <2>2
<1> QED BY <1>3, <1>5, <1>6

\* The first loop of Eden::_balance_rings: the protected generation gets only
\* what fits.
LEMMA FillSound ==
    ASSUME FullInv, StepSafe, ~ multiple', Fill
    PROVE  Sound
<1> DEFINE a == Lru("eden")
<1>1. /\ pc = "fill" /\ data' = data /\ limit' = limit /\ ~ multiple /\ CoreInv
      /\ "eden" \in Generations /\ "protected" \in Generations /\ "probation" \in Generations
  BY LimitType DEF Fill, FullInv
<1>2. a \in Range(ring["eden"])
  <2>1. ring["eden"] \in Seq(Addr)
    BY <1>1, Listed DEF CoreInv, MemoryInv
  <2>2. spill.ignore \in Range(ring["eden"])
    BY <1>1 DEF CoreInv, SpillInv
  <2>3. ring["eden"] # <<>>
    BY <2>1, <2>2, ListShape
  <2> QED BY <1>1, <2>3, LruListed
<1>3. CASE UNCHANGED <<heap, ring, sum>>
  <2>1. UNCHANGED cacheVars
    BY <1>1, <1>3 DEF cacheVars
  <2> QED BY <1>1, <2>1, LoopSound
<1>4. CASE WillFit("protected", heap[a]) /\ Adopt(a, "protected")
  <2> HIDE DEF a
  <2>1. Accounts /\ sum'["protected"] = SizeT(Weight(heap[a]) + sum["protected"])
    BY <1>1, <1>2, <1>4, AccountAdopt
  <2>2. limit["protected"] >= sum'["protected"]
    BY <1>4, <2>1 DEF WillFit
  <2>3. sum'["protected"] \in Nat /\ limit["protected"] \in Nat
    <3>1. sum' \in [Generations -> 0..SizeModulus - 1]
      BY DEF StepSafe, CoreInv, TypeOK
    <3> QED BY <1>1, <3>1, Sizes, LimitType
  <2>4. ~ Oversize("protected", sum)'
    BY <1>1, <2>2, <2>3 DEF Oversize
  <2>5. ProtectedInv'
    BY <2>4 DEF ProtectedInv
  <2> QED BY <2>1, <2>5 DEF Sound
<1>5. CASE Adopt(a, "probation")
  <2> HIDE DEF a
  <2>1. /\ Accounts
        /\ \A k \in Generations : k # "eden" /\ k # "probation" =>
              sum'[k] = sum[k] /\ ring'[k] = ring[k]
    BY <1>1, <1>2, <1>5, AccountAdopt
  <2>2. sum'["protected"] = sum["protected"] /\ ring'["protected"] = ring["protected"]
    BY <1>1, <2>1
  <2>3. ProtectedInv'
    BY <1>1, <2>2, ProtectedStays
  <2> QED BY <2>1, <2>3 DEF Sound
<1> QED BY <1>3, <1>4, <1>5 DEF Fill

\* The protected generation is left alone while entries are spilled from one
\* other generation to the other.
LEMMA SpillStays ==
    ASSUME FullInv, ~ multiple, pc = "spill", pc' = pc, spill' = spill, limit' = limit,
           "protected" \notin {spill.from, spill.to} =>
               sum'["protected"] = sum["protected"] /\ ring'["protected"] = ring["protected"]
    PROVE  ProtectedInv'
<1>1. CASE "protected" \in {spill.from, spill.to}
  BY <1>1 DEF ProtectedInv
<1>2. CASE "protected" \notin {spill.from, spill.to}
  BY <1>2 DEF FullInv, ProtectedInv, Oversize
<1> QED BY <1>1, <1>2

\* add_many goes on with the protected generation.
LEMMA SpillGoesToProtected ==
    ASSUME FullInv, pc = "spill", SpillDone, spill.to = "protected"
    PROVE  ProtectedInv'
<1>1. spill.from = "eden" /\ spill.ignore = Null
  BY DEF FullInv, CoreInv, SpillInv, SpillRoutes
<1>2. Loop("spill", "protected", "probation", Null, TRUE)
  BY <1>1 DEF SpillDone
<1>3. pc' = "spill" /\ spill'.from = "protected"
  BY <1>2 DEF Loop
<1> QED BY <1>3 DEF ProtectedInv

\* A spill stops: the generation is within its limit, or what it still has is
\* the one entry that the call works on.
LEMMA SpillStopSound ==
    ASSUME FullInv, StepSafe, ~ multiple', SpillStop
    PROVE  Sound
<1> DEFINE p == "protected"
<1>1. /\ pc = "spill" /\ ~ SpillGoesOn /\ SpillDone /\ limit' = limit /\ ~ multiple /\ CoreInv
      /\ heap' = heap /\ data' = data /\ ring' = ring /\ sum' = sum /\ p \in Generations
      /\ AllSingle(heap, data) /\ Balanced(heap, ring, sum)
  BY LimitType DEF SpillStop, cacheVars, FullInv, AccountInv
<1>2. Accounts
  <2>1. SameKind(heap, heap', data)
    BY <1>1 DEF SameKind
  <2> QED BY <1>1, <2>1, AccountSame
<1>3. CASE ~ Oversize(p, sum)
  BY <1>1, <1>2, <1>3 DEF Sound, ProtectedInv, Oversize
<1>4. CASE Oversize(p, sum) /\ Len(ring[p]) = 1
  BY <1>1, <1>2, <1>4 DEF Sound, ProtectedInv
<1>5. CASE Oversize(p, sum) /\ spill.from = p
  <2>1. ring[p] \in Seq(Addr) /\ IsInjective(ring[p]) /\ Len(ring[p]) \in Nat
    BY <1>1, Listed, ListShape DEF CoreInv, MemoryInv
  <2>2. Len(ring[p]) # 0
    <3> SUFFICES ASSUME Len(ring[p]) = 0 PROVE FALSE
      OBVIOUS
    <3>1. Range(ring[p]) = {}
      BY <2>1, ListShape
    <3>2. sum[p] = 0
      BY <1>1, <3>1, EmptyList DEF Balanced
    <3>3. limit[p] \in Nat
      BY <1>1, LimitType
    <3> QED BY <1>5, <3>2, <3>3 DEF Oversize
  <2>3. Len(ring[p]) = 1
    <3>1. CASE Len(ring[p]) > 1
      <4>1. Lru(p) = spill.ignore
        BY <1>1, <1>5, <3>1 DEF SpillGoesOn
      <4>2. ring[p] # <<>>
        BY <2>1, <2>2, ListShape
      <4>3. Lru(p) \in Addr
        BY <1>1, <4>2, LruListed
      <4>4. spill.ignore # Null
        BY <4>1, <4>3, Sizes
      <4>5. ring[p][1] = spill.ignore
        BY <1>1, <1>5, <4>4 DEF CoreInv, SpillInv
      <4> QED BY <2>1, <4>1, <4>2, <4>5, LastOfList DEF Lru
    <3> DEFINE n == Len(ring[p])
    <3>2. n \in Nat /\ n # 0 /\ (n > 1 => n = 1)
      BY <2>1, <2>2, <3>1
    <3>3. n = 1
      <4> HIDE DEF n
      <4> QED BY <3>2
    <3> QED BY <3>3
  <2> QED BY <1>1, <1>2, <2>3 DEF Sound, ProtectedInv
<1>6. CASE spill.to = p
  BY <1>1, <1>2, <1>6, SpillGoesToProtected DEF Sound
<1> QED BY <1>1, <1>3, <1>4, <1>5, <1>6 DEF FullInv, ProtectedInv

\* An entry is spilled into another generation.
LEMMA SpillAdoptSound ==
    ASSUME FullInv, StepSafe, ~ multiple', SpillAdopt
    PROVE  Sound
<1> DEFINE a == Lru(spill.from)
<1>1. /\ pc = "spill" /\ SpillGoesOn /\ Adopt(a, spill.to) /\ data' = data
      /\ limit' = limit /\ ~ multiple /\ CoreInv
      /\ \/ UNCHANGED <<pc, spill, evicting>>
         \/ SpillDone /\ ~ spill.rejects
  BY DEF SpillAdopt, FullInv
<1>2. /\ spill.from \in Generations /\ spill.to \in Generations /\ spill.from # spill.to
      /\ a \in Range(ring[spill.from])
  BY <1>1, SpillLists
<1> HIDE DEF a
<1>3. /\ Accounts
      /\ \A k \in Generations : k # spill.from /\ k # spill.to =>
            sum'[k] = sum[k] /\ ring'[k] = ring[k]
  BY <1>1, <1>2, AccountAdopt
<1>4. CASE UNCHANGED <<pc, spill, evicting>>
  <2>1. "protected" \notin {spill.from, spill.to} =>
            sum'["protected"] = sum["protected"] /\ ring'["protected"] = ring["protected"]
    BY <1>3 DEF Generations
  <2>2. ProtectedInv'
    BY <1>1, <1>4, <2>1, SpillStays
  <2> QED BY <1>3, <2>2 DEF Sound
<1>5. CASE SpillDone /\ ~ spill.rejects
  <2>1. spill.to = "protected"
    BY <1>1, <1>5 DEF CoreInv, SpillInv, SpillRoutes
  <2>2. ProtectedInv'
    BY <1>1, <1>5, <2>1, SpillGoesToProtected
  <2> QED BY <1>3, <2>2 DEF Sound
<1> QED BY <1>1, <1>4, <1>5

\* A victim is evicted.
LEMMA SpillEvictSound ==
    ASSUME FullInv, StepSafe, ~ multiple', SpillEvict
    PROVE  Sound
<1> DEFINE f == spill.from
           g == spill.to
           a == Lru(f)
           v == Lru(g)
<1>1. /\ pc = "spill" /\ SpillGoesOn /\ limit' = limit /\ ~ multiple /\ CoreInv
      /\ pc' = pc /\ spill' = spill /\ AllSingle(heap, data) /\ Balanced(heap, ring, sum)
  BY DEF SpillEvict, FullInv, AccountInv
<1>2. /\ f \in Generations /\ g \in Generations /\ f # g
      /\ ring[f] # <<>> /\ a \in Range(ring[f])
  BY <1>1, SpillLists
<1>3. /\ a \in Addr /\ a[1] \in Oids /\ data[a[1]] = a /\ a # Null /\ heap[a].generation = f
  BY <1>1, <1>2, LruListed, Sizes
<1>4. /\ sum \in [Generations -> 0..SizeModulus - 1] /\ ring \in [Generations -> Seq(Addr)]
  BY <1>1 DEF CoreInv, TypeOK
<1>5. CASE Drop(a, Weight(heap[a]))
  <2>1. /\ ring' = [ring EXCEPT ![f] = RemoveFirst(@, a)]
        /\ sum' = [sum EXCEPT ![f] = SizeT(@ - Weight(heap[a]))]
    BY <1>3, <1>5 DEF Drop
  <2> HIDE DEF a
  <2>2. Accounts
    BY <1>1, <1>3, <1>5, AccountDrop
  <2>3. "protected" \notin {f, g} =>
            sum'["protected"] = sum["protected"] /\ ring'["protected"] = ring["protected"]
    BY <1>4, <2>1 DEF Generations
  <2>4. ProtectedInv'
    BY <1>1, <2>3, SpillStays
  <2> QED BY <2>2, <2>4 DEF Sound
<1>6. CASE /\ ring[g] # <<>>
           /\ heap' = [Unlinked(heap, v) EXCEPT ![a].generation = g]
           /\ data' = [data EXCEPT ![heap[v].oid] = Null]
           /\ ring' = [ring EXCEPT ![f] = RemoveFirst(@, a), ![g] = Cons(a, RemoveFirst(@, v))]
           /\ sum' = [sum EXCEPT ![f] = SizeT(@ - Weight(heap[a])),
                                 ![g] = SizeT(@ - Weight(heap[v]) + Weight(heap[a]))]
  <2>1. v \in Range(ring[g])
    BY <1>1, <1>2, <1>6, LruListed
  <2> HIDE DEF a, v
  <2>2. MakesRoom(a, v, f, g)
    BY <1>6 DEF MakesRoom
  <2>3. Accounts
    <3> HIDE DEF f, g
    <3> QED BY <1>1, <1>2, <1>6, <2>1, <2>2, AccountVictim
  <2>4. "protected" \notin {f, g} =>
            sum'["protected"] = sum["protected"] /\ ring'["protected"] = ring["protected"]
    BY <1>4, <1>6 DEF Generations
  <2>5. ProtectedInv'
    BY <1>1, <2>4, SpillStays
  <2> QED BY <2>3, <2>5 DEF Sound
<1> QED BY <1>5, <1>6 DEF SpillEvict

\* Every step keeps the sums right.
LEMMA FullStep ==
    ASSUME FullInv, [Next]_vars
    PROVE  FullInv'
<1>1. StepSafe
  BY CoreStep DEF FullInv
<1>2. ASSUME ~ multiple' PROVE Sound
  <2>1. CASE UNCHANGED vars
    <3>1. /\ heap' = heap /\ data' = data /\ ring' = ring /\ sum' = sum /\ limit' = limit
          /\ multiple' = multiple /\ pc' = pc /\ spill' = spill
      BY <2>1 DEF vars
    <3>2. SameKind(heap, heap', data)
      BY <3>1 DEF SameKind
    <3>3. Accounts
      BY <1>2, <3>1, <3>2, AccountSame DEF FullInv, AccountInv
    <3>4. ProtectedInv'
      BY <3>1 DEF FullInv, ProtectedInv, Oversize
    <3> QED BY <3>3, <3>4 DEF Sound
  <2>2. CASE Step
    BY <1>1, <1>2, <2>2, OnHitSound, LoadRowSound, LoadRoundSound, FillSound, SpillStopSound,
       SpillAdoptSound, SpillEvictSound, ReturnToPythonSound DEF Step
  <2>3. ASSUME NEW o \in Oids, Delitem(o) PROVE Sound
    BY <1>1, <1>2, <2>3, DelitemSound
  <2>4. ASSUME NEW o \in Oids, NEW t \in written[o], AddToEden(o, t) \/ StoreAndMakeMRU(o, t)
        PROVE  Sound
    <3>1. t \in Tids
      BY WrittenTids DEF FullInv
    <3> QED BY <1>1, <1>2, <2>4, <3>1, AddToEdenSound, StoreAndMakeMRUSound
  <2>5. ASSUME NEW o \in Oids, NEW t \in Tids, DelitemBefore(o, t) \/ Freeze(o, t)
        PROVE  Sound
    BY <1>1, <1>2, <2>5, DelitemBeforeSound, FreezeSound
  <2>6. ASSUME NEW o \in Oids, NEW th \in Threads, NEW wanted \in Tids \cup {Null},
               NEW peek \in BOOLEAN, GetOrPeek(th, o, wanted, peek)
        PROVE  Sound
    BY <1>1, <1>2, <2>6, GetOrPeekSound
  <2>7. ASSUME NEW th \in Threads, PyRelease(th) PROVE Sound
    BY <1>1, <1>2, <2>7, PyReleaseSound
  <2>8. ASSUME NEW file \in Files, AddMany(file) PROVE Sound
    BY <1>1, <1>2, <2>8, AddManySound
  <2>9. CASE AgeFrequencies
    BY <1>1, <1>2, <2>9, AgeFrequenciesSound
  <2>10. CASE FlushAll
    BY <2>10, FlushAllSound
  <2> QED BY <2>1, <2>2, <2>3, <2>4, <2>5, <2>6, <2>7, <2>8, <2>9, <2>10 DEF Next
<1>3. CASE ~ multiple'
  BY <1>1, <1>2, <1>3 DEF Sound, Accounts, FullInv, AccountInv, StepSafe
<1>4. CASE multiple'
  BY <1>1, <1>4 DEF FullInv, AccountInv, ProtectedInv, StepSafe
<1> QED BY <1>3, <1>4

\* The sums are right in every state.
LEMMA FullAlways == Spec => []FullInv
<1>1. Init => FullInv
  <2> SUFFICES ASSUME Init PROVE FullInv
    OBVIOUS
  <2>1. CoreInv /\ AccountInv
    BY InitCore, AccountEmpty
  <2>2. limit["protected"] \in Nat /\ "protected" \in Generations
    BY <2>1, LimitType
  <2>3. ~ Oversize("protected", sum)
    BY <2>2 DEF Init, Oversize
  <2> QED BY <2>1, <2>3 DEF FullInv, ProtectedInv
<1>2. FullInv /\ [Next]_vars => FullInv'
  BY FullStep
<1> QED BY <1>1, <1>2, PTL DEF Spec

\* The sum of every generation is the weight of what is in its list, as long
\* as no entry of the cache has had several values.
THEOREM CacheSingleWeightsAccounted == Spec => []SingleWeightsAccounted
<1>1. FullInv => SingleWeightsAccounted
  <2>1. \A g \in Generations : RingWeight(g) = ListWeight(heap, ring, g)
    BY DEF RingWeight, ListWeight
  <2> QED BY <2>1 DEF FullInv, AccountInv, Balanced, SingleWeightsAccounted
<1> QED BY <1>1, FullAlways, PTL

\* Between two calls the protected generation is over its limit only when it
\* has a single entry.
THEOREM CacheProtectedWithinLimit == Spec => []ProtectedWithinLimit
<1>1. FullInv => ProtectedWithinLimit
  BY DEF FullInv, ProtectedInv, ProtectedWithinLimit
<1> QED BY <1>1, FullAlways, PTL

-----------------------------------------------------------------------------
(* The cache implements ValueCache. *)

\* What ValueCache sees of the values of an entry, of an object and of all.
Seen(v) == {[tid |-> t, frozen |-> v[t]] : t \in DOMAIN v}
SeenOf(h, d, o) == IF d[o] = Null THEN {} ELSE Seen(h[d[o]].values)
AllSeen(h, d) == [o \in Oids |-> SeenOf(h, d, o)]

\* The object that the running call works on.
Using == IF pc = "idle" THEN Null ELSE IF call.oid = Null THEN "loader" ELSE call.oid

\* A step that ValueCache allows.
Allowed == [Values!Next]_(Values!vars)

\* Only the values of object o may be other ones after the step.
OthersSeen(o) ==
    \A p \in Oids : p # o => SeenOf(heap', data', p) = SeenOf(heap, data, p)

\* Steps that show nothing.
LEMMA AsStutter ==
    ASSUME AllSeen(heap', data') = AllSeen(heap, data), Using' = Using
    PROVE  Allowed
BY DEF Allowed, Values!vars, AllSeen, SeenOf, Seen, Using

\* Steps that store a value.
LEMMA AsStore ==
    ASSUME NEW o \in Oids, NEW t \in Tids, Using = Null, Using' = o,
           AllSeen(heap', data') =
               IF t \in {v.tid : v \in AllSeen(heap, data)[o]}
               THEN AllSeen(heap, data)
               ELSE [AllSeen(heap, data) EXCEPT ![o] = @ \cup {[tid |-> t, frozen |-> FALSE]}]
    PROVE  Allowed
<1>1. Values!Store(o, t)
  BY DEF Values!Store, Values!TidsOf, AllSeen, SeenOf, Seen, Using
<1> QED BY <1>1 DEF Allowed, Values!Next

\* Steps that start to use a cached object.
LEMMA AsHit ==
    ASSUME NEW o \in Oids, Using = Null, Using' = o, AllSeen(heap, data)[o] # {},
           AllSeen(heap', data') = AllSeen(heap, data)
    PROVE  Allowed
<1>1. Values!Hit(o)
  BY DEF Values!Hit, AllSeen, SeenOf, Seen, Using
<1> QED BY <1>1 DEF Allowed, Values!Next

\* Steps that remove every value of an object.
LEMMA AsForget ==
    ASSUME NEW o \in Oids, Using = Null, Using' = Using,
           AllSeen(heap', data') = [AllSeen(heap, data) EXCEPT ![o] = {}]
    PROVE  Allowed
<1>1. Values!Forget(o)
  BY DEF Values!Forget, AllSeen, SeenOf, Seen, Using
<1> QED BY <1>1 DEF Allowed, Values!Next

\* What freezing to t leaves of some values.
FrozenTo(V, t) ==
    {[v EXCEPT !.frozen = @ \/ v.tid = t] : v \in {w \in V : w.tid >= t}}

\* Steps that freeze.
LEMMA AsFreeze ==
    ASSUME NEW o \in Oids, NEW t \in Tids, Using = Null, Using' = Using,
           AllSeen(heap', data') =
               [AllSeen(heap, data) EXCEPT ![o] = FrozenTo(AllSeen(heap, data)[o], t)]
    PROVE  Allowed
<1>1. AllSeen(heap', data') =
          [AllSeen(heap, data) EXCEPT ![o] = FrozenTo(@, t)]
  BY DEF AllSeen
<1>2. Values!Freeze(o, t)
  BY <1>1 DEF Values!Freeze, AllSeen, SeenOf, Seen, Using, FrozenTo
<1> QED BY <1>2 DEF Allowed, Values!Next

\* Steps that remove some values of an object.
LEMMA AsDiscard ==
    ASSUME NEW o \in Oids, Using = Null, Using' = Using,
           NEW kept \in SUBSET AllSeen(heap, data)[o],
           AllSeen(heap', data') = [AllSeen(heap, data) EXCEPT ![o] = kept]
    PROVE  Allowed
<1>1. Values!Discard(o)
  BY DEF Values!Discard, AllSeen, SeenOf, Seen, Using
<1> QED BY <1>1 DEF Allowed, Values!Next

\* Steps that evict another object.
LEMMA AsEvict ==
    ASSUME NEW o \in Oids, Using \notin {Null, o}, Using' = Using,
           AllSeen(heap', data') = [AllSeen(heap, data) EXCEPT ![o] = {}]
    PROVE  Allowed
<1>1. Values!Evict(o)
  BY DEF Values!Evict, AllSeen, SeenOf, Seen, Using
<1> QED BY <1>1 DEF Allowed, Values!Next

\* A bulk load starts.
LEMMA AsStartLoad ==
    ASSUME Using = Null, Using' = "loader", \A o \in Oids : AllSeen(heap, data)[o] = {},
           AllSeen(heap', data') = AllSeen(heap, data)
    PROVE  Allowed
<1>1. Values!StartLoad
  BY DEF Values!StartLoad, AllSeen, SeenOf, Seen, Using
<1> QED BY <1>1 DEF Allowed, Values!Next

\* A bulk load brings a value.
LEMMA AsLoad ==
    ASSUME NEW o \in Oids, NEW t \in Tids, NEW b \in BOOLEAN, Using = "loader", Using' = Using,
           AllSeen(heap, data)[o] = {},
           AllSeen(heap', data') =
               [AllSeen(heap, data) EXCEPT ![o] = {[tid |-> t, frozen |-> b]}]
    PROVE  Allowed
<1>1. Values!Load(o, t, b)
  BY DEF Values!Load, AllSeen, SeenOf, Seen, Using
<1> QED BY <1>1 DEF Allowed, Values!Next

\* A call ends.
LEMMA AsFinish ==
    ASSUME Using # Null, Using' = Null, AllSeen(heap', data') = AllSeen(heap, data)
    PROVE  Allowed
<1>1. Values!Finish
  BY DEF Values!Finish, AllSeen, SeenOf, Seen, Using
<1> QED BY <1>1 DEF Allowed, Values!Next

\* Everything is forgotten.
LEMMA AsClear ==
    ASSUME Using = Null, Using' = Using, AllSeen(heap', data') = [o \in Oids |-> {}]
    PROVE  Allowed
<1>1. Values!Clear
  BY DEF Values!Clear, AllSeen, SeenOf, Seen, Using
<1> QED BY <1>1 DEF Allowed, Values!Next

\* What is seen of an object that is left alone.
LEMMA SeenStays ==
    ASSUME NEW o, data'[o] = data[o],
           data[o] # Null => heap'[data[o]].values = heap[data[o]].values
    PROVE  SeenOf(heap', data', o) = SeenOf(heap, data, o)
BY DEF SeenOf

\* No object changes for those who look.
LEMMA NoneSeen ==
    ASSUME \A p \in Oids : SeenOf(heap', data', p) = SeenOf(heap, data, p)
    PROVE  AllSeen(heap', data') = AllSeen(heap, data)
BY DEF AllSeen

\* One object does.
LEMMA OneSeen ==
    ASSUME NEW o \in Oids, OthersSeen(o)
    PROVE  /\ AllSeen(heap', data') =
                  [AllSeen(heap, data) EXCEPT ![o] = SeenOf(heap', data', o)]
           /\ AllSeen(heap, data)[o] = SeenOf(heap, data, o)
BY DEF AllSeen, OthersSeen

\* The step is about object o only.
Local(o) ==
    /\ \A p \in Oids : p # o => data'[p] = data[p]
    /\ \A c \in Addr : c[1] # o => heap'[c].values = heap[c].values

\* Then nothing of another object changes.
LEMMA LocalSeen ==
    ASSUME CoreInv, NEW o \in Oids, Local(o)
    PROVE  OthersSeen(o)
<1> SUFFICES ASSUME NEW p \in Oids, p # o
             PROVE  SeenOf(heap', data', p) = SeenOf(heap, data, p)
  BY DEF OthersSeen
<1>1. data'[p] = data[p]
  BY DEF Local
<1>2. data[p] # Null => data[p] \in Addr /\ data[p][1] # o
  BY Indexed DEF CoreInv, MemoryInv
<1>3. data[p] # Null => heap'[data[p]].values = heap[data[p]].values
  BY <1>2 DEF Local
<1> QED BY <1>1, <1>3, SeenStays

\* The entry of an object leaves the cache.
LEMMA DropSeen ==
    ASSUME CoreInv, NEW o \in Oids, NEW a, a = data[o], a # Null, NEW w, Drop(a, w)
    PROVE  Local(o) /\ SeenOf(heap', data', o) = {}
<1>1. a \in Addr /\ a[1] = o /\ heap[a].oid = o
  BY Indexed DEF CoreInv, MemoryInv
<1>2. data' = [data EXCEPT ![o] = Null] /\ heap' = Unlinked(heap, a)
  BY <1>1 DEF Drop
<1>3. data \in [Oids -> Addr \cup {Null}] /\ heap \in [Addr -> Entries \cup {Null}]
  BY DEF CoreInv, TypeOK
<1>4. data'[o] = Null /\ \A p \in Oids : p # o => data'[p] = data[p]
  BY <1>2, <1>3
<1>5. \A c \in Addr : c # a => heap'[c] = heap[c]
  BY <1>2, <1>3 DEF Unlinked
<1>6. Local(o)
  BY <1>1, <1>4, <1>5 DEF Local
<1> QED BY <1>4, <1>6 DEF SeenOf

\* A new entry takes the place of the entry of an object.
LEMMA ReplaceSeen ==
    ASSUME CoreInv, call.result = Null, NEW o \in Oids, NEW a, a = data[o], a # Null,
           NEW b, b.oid = o, NEW w, ReplaceWith(a, w, b)
    PROVE  Local(o) /\ SeenOf(heap', data', o) = Seen(b.values)
<1> DEFINE n == Fresh(o)
<1>1. a \in Addr /\ a[1] = o
  BY Indexed DEF CoreInv, MemoryInv
<1>2. n \in Addr /\ n[1] = o /\ n # Null
  BY FreshFree, Sizes
<1>3. data' = [data EXCEPT ![o] = n] /\ heap' = [Unlinked(heap, a) EXCEPT ![n] = b]
  BY DEF ReplaceWith
<1> HIDE DEF n
<1>4. data \in [Oids -> Addr \cup {Null}] /\ heap \in [Addr -> Entries \cup {Null}]
  BY DEF CoreInv, TypeOK
<1>5. data'[o] = n /\ \A p \in Oids : p # o => data'[p] = data[p]
  BY <1>3, <1>4
<1>6. heap'[n] = b /\ \A c \in Addr : c # a /\ c # n => heap'[c] = heap[c]
  BY <1>2, <1>3, <1>4 DEF Unlinked
<1>7. Local(o)
  BY <1>1, <1>2, <1>5, <1>6 DEF Local
<1> QED BY <1>2, <1>5, <1>6, <1>7 DEF SeenOf

\* The entry of an object is written.
LEMMA TouchSeen ==
    ASSUME CoreInv, NEW o \in Oids, NEW a, a = data[o], a # Null,
           NEW e, heap' = [heap EXCEPT ![a] = e], data' = data
    PROVE  Local(o) /\ SeenOf(heap', data', o) = Seen(e.values)
<1>1. a \in Addr /\ a[1] = o
  BY Indexed DEF CoreInv, MemoryInv
<1>2. heap \in [Addr -> Entries \cup {Null}]
  BY DEF CoreInv, TypeOK
<1>3. heap'[a] = e /\ \A c \in Addr : c # a => heap'[c] = heap[c]
  BY <1>1, <1>2
<1>4. Local(o)
  BY <1>1, <1>3 DEF Local
<1> QED BY <1>3, <1>4 DEF SeenOf

\* A new entry comes into the cache.
LEMMA InsertSeen ==
    ASSUME CoreInv, call.result = Null, NEW o \in Oids, data[o] = Null, NEW e,
           heap' = [heap EXCEPT ![Fresh(o)] = e], data' = [data EXCEPT ![o] = Fresh(o)]
    PROVE  Local(o) /\ SeenOf(heap', data', o) = Seen(e.values) /\ SeenOf(heap, data, o) = {}
<1> DEFINE n == Fresh(o)
<1>1. n \in Addr /\ n[1] = o /\ n # Null
  BY FreshFree, Sizes
<1>2. data' = [data EXCEPT ![o] = n] /\ heap' = [heap EXCEPT ![n] = e]
  OBVIOUS
<1> HIDE DEF n
<1>3. data \in [Oids -> Addr \cup {Null}] /\ heap \in [Addr -> Entries \cup {Null}]
  BY DEF CoreInv, TypeOK
<1>4. data'[o] = n /\ \A p \in Oids : p # o => data'[p] = data[p]
  BY <1>2, <1>3
<1>5. heap'[n] = e /\ \A c \in Addr : c # n => heap'[c] = heap[c]
  BY <1>1, <1>2, <1>3
<1>6. Local(o)
  BY <1>1, <1>4, <1>5 DEF Local
<1> QED BY <1>1, <1>4, <1>5, <1>6 DEF SeenOf

\* What is left of an entry with several values is what is seen.
LEMMA ShrinkSeen ==
    ASSUME CoreInv, pc = "idle", NEW o \in Oids, NEW a, a = data[o], a # Null,
           NEW e, e.oid = o, Shrink(a, e)
    PROVE  Local(o) /\ SeenOf(heap', data', o) = Seen(e.values)
<1>1. CASE DOMAIN e.values = {} /\ Drop(a, Weight(e))
  <2>1. Local(o) /\ SeenOf(heap', data', o) = {}
    BY <1>1, DropSeen
  <2>2. Seen(e.values) = {}
    BY <1>1 DEF Seen
  <2> QED BY <2>1, <2>2
<1>2. ASSUME NEW t \in Tids, DOMAIN e.values = {t},
             ReplaceWith(a, Weight(Without(e, {t})), SingleValue(e, t, e.values[t]))
      PROVE  Local(o) /\ SeenOf(heap', data', o) = Seen(e.values)
  <2> DEFINE b == SingleValue(e, t, e.values[t])
  <2>1. b.oid = o /\ b.values = [u \in {t} |-> e.values[t]]
    BY DEF SingleValue, Entry
  <2>2. ReplaceWith(a, Weight(Without(e, {t})), b)
    BY <1>2
  <2> HIDE DEF b
  <2>3. call.result = Null
    BY Idle
  <2>4. Local(o) /\ SeenOf(heap', data', o) = Seen(b.values)
    BY <2>1, <2>2, <2>3, ReplaceSeen
  <2>5. Seen([u \in {t} |-> e.values[t]]) = Seen(e.values)
    BY <1>2 DEF Seen
  <2> QED BY <2>1, <2>4, <2>5
<1>3. CASE heap' = [heap EXCEPT ![a] = e] /\ UNCHANGED <<data, ring, sum>>
  BY <1>3, TouchSeen
<1> QED BY <1>1, <1>2, <1>3 DEF Shrink

\* The transactions of what is seen.
LEMMA SeenTids ==
    ASSUME NEW v
    PROVE  {x.tid : x \in Seen(v)} = DOMAIN v
<1>1. ASSUME NEW t \in DOMAIN v PROVE t \in {x.tid : x \in Seen(v)}
  <2>1. [tid |-> t, frozen |-> v[t]] \in Seen(v) /\ [tid |-> t, frozen |-> v[t]].tid = t
    BY DEF Seen
  <2> QED BY <2>1
<1>2. ASSUME NEW x \in Seen(v) PROVE x.tid \in DOMAIN v
  BY DEF Seen
<1> QED BY <1>1, <1>2

\* What is seen when values are removed.
LEMMA SeenLess ==
    ASSUME NEW v, NEW w, DOMAIN w \subseteq DOMAIN v, \A u \in DOMAIN w : w[u] = v[u]
    PROVE  Seen(w) \subseteq Seen(v)
BY DEF Seen

\* What is seen of values that are frozen to t.
LEMMA SeenFrozen ==
    ASSUME NEW v, NEW w, NEW t, DOMAIN w = {u \in DOMAIN v : u >= t},
           \A u \in DOMAIN w : w[u] = (v[u] \/ u = t)
    PROVE  Seen(w) = FrozenTo(Seen(v), t)
<1>1. ASSUME NEW x \in Seen(w) PROVE x \in FrozenTo(Seen(v), t)
  <2>1. PICK u \in DOMAIN w : x = [tid |-> u, frozen |-> w[u]]
    BY DEF Seen
  <2> DEFINE y == [tid |-> u, frozen |-> v[u]]
  <2>2. u \in DOMAIN v /\ u >= t /\ w[u] = (v[u] \/ u = t)
    BY <2>1
  <2>3. y \in Seen(v) /\ y.tid >= t
    BY <2>2 DEF Seen
  <2>4. x = [y EXCEPT !.frozen = @ \/ y.tid = t]
    BY <2>1, <2>2
  <2> QED BY <2>3, <2>4 DEF FrozenTo
<1>2. ASSUME NEW x \in FrozenTo(Seen(v), t) PROVE x \in Seen(w)
  <2>1. PICK y \in Seen(v) : y.tid >= t /\ x = [y EXCEPT !.frozen = @ \/ y.tid = t]
    BY DEF FrozenTo
  <2>2. PICK u \in DOMAIN v : y = [tid |-> u, frozen |-> v[u]]
    BY DEF Seen
  <2>3. u \in DOMAIN w /\ w[u] = (v[u] \/ u = t)
    BY <2>1, <2>2
  <2>4. x = [tid |-> u, frozen |-> w[u]]
    BY <2>1, <2>2, <2>3
  <2> QED BY <2>3, <2>4 DEF Seen
<1> QED BY <1>1, <1>2

\* Nobody uses the cache before or after a step.
LEMMA UsingIdle ==
    ASSUME pc = "idle", pc' = "idle"
    PROVE  Using = Null /\ Using' = Using
BY DEF Using

\* A call begins.
LEMMA UsingStarts ==
    ASSUME pc = "idle", pc' # "idle"
    PROVE  Using = Null /\ (Using' = IF call'.oid = Null THEN "loader" ELSE call'.oid)
BY DEF Using

\* A call goes on.
LEMMA UsingGoesOn ==
    ASSUME pc # "idle", pc' # "idle", call' = call
    PROVE  Using' = Using
BY DEF Using

\* Cache::delitem(key)
LEMMA DelitemAllowed ==
    ASSUME CoreInv, NEW o \in Oids, Delitem(o)
    PROVE  Allowed
<1>1. pc = "idle" /\ pc' = "idle" /\ data[o] # Null /\ Drop(data[o], Weight(heap[data[o]]))
  BY DEF Delitem
<1>2. Local(o) /\ SeenOf(heap', data', o) = {}
  BY <1>1, DropSeen
<1>3. AllSeen(heap', data') = [AllSeen(heap, data) EXCEPT ![o] = {}]
  BY <1>2, LocalSeen, OneSeen
<1> QED BY <1>1, <1>3, UsingIdle, AsForget

\* Cache::delitem(key, tid)
LEMMA DelitemBeforeAllowed ==
    ASSUME CoreInv, NEW o \in Oids, NEW t \in Tids, DelitemBefore(o, t)
    PROVE  Allowed
<1> DEFINE a == data[o]
           e == heap[a]
           gone == Older(e, t) \cup {t}
           m == Without(e, gone)
<1>1. pc = "idle" /\ pc' = "idle" /\ a # Null
  BY DEF DelitemBefore
<1>2. e \in Entries /\ e.oid = o
  BY <1>1, Indexed DEF CoreInv, MemoryInv
<1>3. SeenOf(heap, data, o) = Seen(e.values)
  BY <1>1 DEF SeenOf
<1>4. Local(o) /\ SeenOf(heap', data', o) \subseteq SeenOf(heap, data, o)
  <2>1. CASE Drop(a, Weight(e))
    BY <1>1, <2>1, DropSeen
  <2>2. CASE Shrink(a, m)
    <3>1. /\ m.oid = o /\ DOMAIN m.values \subseteq DOMAIN e.values
          /\ \A u \in DOMAIN m.values : m.values[u] = e.values[u]
      BY <1>2 DEF Without, Entries
    <3> HIDE DEF m, e
    <3>2. Local(o) /\ SeenOf(heap', data', o) = Seen(m.values)
      BY <1>1, <2>2, <3>1, ShrinkSeen
    <3>3. Seen(m.values) \subseteq Seen(e.values)
      BY <3>1, SeenLess
    <3> QED BY <1>3, <3>2, <3>3
  <2> QED BY <2>1, <2>2 DEF DelitemBefore
<1>5. /\ AllSeen(heap', data') = [AllSeen(heap, data) EXCEPT ![o] = SeenOf(heap', data', o)]
      /\ AllSeen(heap, data)[o] = SeenOf(heap, data, o)
  BY <1>4, LocalSeen, OneSeen
<1>6. SeenOf(heap', data', o) \in SUBSET AllSeen(heap, data)[o]
  BY <1>4, <1>5
<1> QED BY <1>1, <1>5, <1>6, UsingIdle, AsDiscard

\* Cache::freeze
LEMMA FreezeAllowed ==
    ASSUME CoreInv, NEW o \in Oids, NEW t \in Tids, Freeze(o, t)
    PROVE  Allowed
<1> DEFINE a == data[o]
           e == heap[a]
           frozen(f) == [f EXCEPT !.values = [u \in DOMAIN @ |-> @[u] \/ u = t]]
           V == FrozenTo(Seen(e.values), t)
<1>1. pc = "idle" /\ pc' = "idle" /\ a # Null
  BY DEF Freeze
<1>2. e \in Entries /\ e.oid = o /\ OfItsClass(e) /\ DOMAIN e.values \subseteq Tids
  BY <1>1, Indexed, EntryFields DEF CoreInv, MemoryInv
<1>3. t \in Nat /\ \A u \in DOMAIN e.values : u \in Nat
  BY <1>2, Sizes
<1>4. SeenOf(heap, data, o) = Seen(e.values)
  BY <1>1 DEF SeenOf
<1>5. Local(o) /\ SeenOf(heap', data', o) = V
  <2>1. CASE e.several /\ Shrink(a, frozen(Without(e, Older(e, t))))
    <3> DEFINE n == Without(e, Older(e, t))
               m == frozen(n)
    <3>1. /\ n.oid = o /\ DOMAIN n.values = {u \in DOMAIN e.values : u >= t}
          /\ \A u \in DOMAIN n.values : n.values[u] = e.values[u]
      BY <1>2, <1>3 DEF Without, Older, Entries
    <3>2. /\ m.oid = n.oid /\ DOMAIN m.values = DOMAIN n.values
          /\ \A u \in DOMAIN n.values : m.values[u] = (n.values[u] \/ u = t)
      BY <1>2 DEF Without, Entries
    <3>3. Shrink(a, m)
      BY <2>1
    <3> HIDE DEF n, m, e
    <3>4. /\ m.oid = o /\ DOMAIN m.values = {u \in DOMAIN e.values : u >= t}
          /\ \A u \in DOMAIN m.values : m.values[u] = (e.values[u] \/ u = t)
      BY <3>1, <3>2
    <3>5. Local(o) /\ SeenOf(heap', data', o) = Seen(m.values)
      BY <1>1, <3>3, <3>4, ShrinkSeen
    <3>6. Seen(m.values) = V
      BY <3>4, SeenFrozen
    <3> QED BY <3>5, <3>6
  <2>2. CASE ~ e.several /\ Older(e, t) # {} /\ Drop(a, Weight(e))
    <3>1. Local(o) /\ SeenOf(heap', data', o) = {}
      BY <1>1, <2>2, DropSeen
    <3>2. PICK u \in Tids : DOMAIN e.values = {u}
      BY <1>2, <2>2 DEF OfItsClass
    <3>3. u < t
      BY <2>2, <3>2 DEF Older
    <3>4. ASSUME NEW x \in Seen(e.values) PROVE ~ (x.tid >= t)
      <4>1. x.tid = u
        BY <3>2 DEF Seen
      <4> QED BY <1>3, <3>2, <3>3, <4>1
    <3>5. V = {}
      BY <3>4 DEF FrozenTo
    <3> QED BY <3>1, <3>5
  <2>3. CASE ~ e.several /\ Older(e, t) = {} /\ heap' = [heap EXCEPT ![a] = frozen(e)]
             /\ UNCHANGED <<data, ring, sum>>
    <3> DEFINE m == frozen(e)
    <3>1. /\ DOMAIN m.values = DOMAIN e.values
          /\ \A u \in DOMAIN e.values : m.values[u] = (e.values[u] \/ u = t)
      BY <1>2 DEF Entries
    <3>2. DOMAIN e.values = {u \in DOMAIN e.values : u >= t}
      BY <1>3, <2>3 DEF Older
    <3> HIDE DEF m, e
    <3>3. Seen(m.values) = V
      BY <3>1, <3>2, SeenFrozen
    <3>4. Local(o) /\ SeenOf(heap', data', o) = Seen(m.values)
      BY <1>1, <2>3, TouchSeen DEF m
    <3> QED BY <3>3, <3>4
  <2> QED BY <2>1, <2>2, <2>3 DEF Freeze
<1>6. AllSeen(heap', data') =
          [AllSeen(heap, data) EXCEPT ![o] = FrozenTo(AllSeen(heap, data)[o], t)]
  BY <1>4, <1>5, LocalSeen, OneSeen
<1> QED BY <1>1, <1>6, UsingIdle, AsFreeze

\* Cache::add_to_eden
LEMMA AddToEdenAllowed ==
    ASSUME CoreInv, StepSafe, NEW o \in Oids, NEW t \in Tids, AddToEden(o, t)
    PROVE  Allowed
<1> DEFINE v == [u \in {t} |-> FALSE]
           e == Entry(o, FALSE, v, 1, "eden")
<1>1. /\ pc = "idle" /\ data[o] = Null /\ call' = [oid |-> o, thread |-> Null, result |-> Null]
      /\ heap' = [heap EXCEPT ![Fresh(o)] = e] /\ data' = [data EXCEPT ![o] = Fresh(o)]
      /\ BalanceRings(Fresh(o))
  BY DEF AddToEden, Begin
<1>2. call.result = Null
  BY <1>1, Idle
<1>3. e.values = v
  BY DEF Entry
<1>4. Seen(v) = {[tid |-> t, frozen |-> FALSE]}
  BY DEF Seen
<1> HIDE DEF e, v
<1>5. /\ Local(o) /\ SeenOf(heap', data', o) = {[tid |-> t, frozen |-> FALSE]}
      /\ SeenOf(heap, data, o) = {}
  BY <1>1, <1>2, <1>3, <1>4, InsertSeen
<1>6. /\ AllSeen(heap', data') =
             [AllSeen(heap, data) EXCEPT ![o] = {[tid |-> t, frozen |-> FALSE]}]
      /\ AllSeen(heap, data)[o] = {}
  BY <1>5, LocalSeen, OneSeen
<1>7. AllSeen(heap', data') =
          IF t \in {x.tid : x \in AllSeen(heap, data)[o]}
          THEN AllSeen(heap, data)
          ELSE [AllSeen(heap, data) EXCEPT ![o] = @ \cup {[tid |-> t, frozen |-> FALSE]}]
  BY <1>6 DEF AllSeen
<1>8. pc' # "idle" /\ call'.oid = o /\ o # Null
  BY <1>1, Sizes DEF BalanceRings, Return, Loop
<1>9. Using = Null /\ Using' = o
  BY <1>1, <1>8, UsingStarts
<1> QED BY <1>7, <1>9, AsStore

\* Cache::store_and_make_MRU
LEMMA StoreAndMakeMRUAllowed ==
    ASSUME CoreInv, NEW o \in Oids, NEW t \in Tids, StoreAndMakeMRU(o, t)
    PROVE  Allowed
<1> DEFINE a == data[o]
           e == heap[a]
           m == AddValue(e, t)
<1>1. /\ pc = "idle" /\ a # Null /\ call' = [oid |-> o, thread |-> Null, result |-> Null]
      /\ AddingValue(a, t) /\ pc' = "hit"
  BY DEF StoreAndMakeMRU, Begin
<1>2. call.result = Null /\ e \in Entries /\ e.oid = o
  BY <1>1, Idle, Indexed DEF CoreInv, MemoryInv
<1>3. Using = Null /\ Using' = o
  <2>1. call'.oid = o /\ o # Null /\ pc' # "idle"
    BY <1>1, Sizes
  <2> QED BY <1>1, <2>1, UsingStarts
<1>4. SeenOf(heap, data, o) = Seen(e.values)
  BY <1>1 DEF SeenOf
<1>5. /\ m.oid = o /\ DOMAIN m.values = DOMAIN e.values \cup {t}
      /\ \A u \in DOMAIN e.values : m.values[u] = e.values[u]
      /\ t \notin DOMAIN e.values => m.values[t] = FALSE
  BY <1>2 DEF AddValue, Entry
<1>6. /\ Local(o)
      /\ t \in DOMAIN e.values => SeenOf(heap', data', o) = SeenOf(heap, data, o)
      /\ t \notin DOMAIN e.values =>
             SeenOf(heap', data', o) = SeenOf(heap, data, o) \cup {[tid |-> t, frozen |-> FALSE]}
  <2>1. CASE ~ e.several /\ t \in DOMAIN e.values /\ UNCHANGED cacheVars
    <3>1. heap' = heap /\ data' = data
      BY <2>1 DEF cacheVars
    <3> QED BY <2>1, <3>1 DEF Local, SeenOf
  <2>2. CASE Local(o) /\ SeenOf(heap', data', o) = Seen(m.values)
    <3> HIDE DEF m, e
    <3>1. CASE t \in DOMAIN e.values
      <4>1. Seen(m.values) = Seen(e.values)
        <5>1. DOMAIN m.values = DOMAIN e.values
          BY <1>5, <3>1
        <5> QED BY <1>5, <5>1 DEF Seen
      <4> QED BY <1>4, <2>2, <3>1, <4>1
    <3>2. CASE t \notin DOMAIN e.values
      <4>1. Seen(m.values) = Seen(e.values) \cup {[tid |-> t, frozen |-> FALSE]}
        <5>1. m.values[t] = FALSE /\ DOMAIN m.values = DOMAIN e.values \cup {t}
          BY <1>5, <3>2
        <5> QED BY <1>5, <5>1 DEF Seen
      <4> QED BY <1>4, <2>2, <3>2, <4>1
    <3> QED BY <3>1, <3>2
  <2>3. CASE ReplaceWith(a, Weight(e), m)
    <3> HIDE DEF m
    <3> QED BY <1>1, <1>2, <1>5, <2>2, <2>3, ReplaceSeen
  <2>4. CASE heap' = [heap EXCEPT ![a] = m] /\ data' = data
    <3> HIDE DEF m
    <3> QED BY <1>1, <2>2, <2>4, TouchSeen
  <2> QED BY <1>1, <2>1, <2>3, <2>4 DEF AddingValue
<1>7. /\ AllSeen(heap', data') = [AllSeen(heap, data) EXCEPT ![o] = SeenOf(heap', data', o)]
      /\ AllSeen(heap, data)[o] = SeenOf(heap, data, o)
  BY <1>6, LocalSeen, OneSeen
<1>8. {x.tid : x \in AllSeen(heap, data)[o]} = DOMAIN e.values
  BY <1>4, <1>7, SeenTids
<1>9. AllSeen(heap', data') =
          IF t \in {x.tid : x \in AllSeen(heap, data)[o]}
          THEN AllSeen(heap, data)
          ELSE [AllSeen(heap, data) EXCEPT ![o] = @ \cup {[tid |-> t, frozen |-> FALSE]}]
  <2> HIDE DEF e
  <2>1. CASE t \in DOMAIN e.values
    <3>1. AllSeen(heap', data') = [AllSeen(heap, data) EXCEPT ![o] = AllSeen(heap, data)[o]]
      BY <1>6, <1>7, <2>1
    <3>2. AllSeen(heap', data') = AllSeen(heap, data)
      BY <3>1 DEF AllSeen
    <3> QED BY <1>8, <2>1, <3>2
  <2>2. CASE t \notin DOMAIN e.values
    <3>1. AllSeen(heap', data') =
              [AllSeen(heap, data) EXCEPT ![o] =
                  AllSeen(heap, data)[o] \cup {[tid |-> t, frozen |-> FALSE]}]
      BY <1>6, <1>7, <2>2
    <3> QED BY <1>8, <2>2, <3>1
  <2> QED BY <2>1, <2>2
<1> QED BY <1>3, <1>9, AsStore

\* Cache::_get_or_peek: the entry that it makes is not in the index.
LEMMA GetOrPeekAllowed ==
    ASSUME CoreInv, NEW o \in Oids, NEW th, NEW wanted, NEW peek,
           GetOrPeek(th, o, wanted, peek)
    PROVE  Allowed
<1>1. /\ pc = "idle" /\ data[o] # Null /\ data' = data /\ pc' \in {"return", "hit"}
      /\ call'.oid = o
      /\ heap' = heap \/ \E x : heap' = [heap EXCEPT ![Fresh(o)] = x]
  BY DEF GetOrPeek, Begin
<1>2. call.result = Null
  BY <1>1, Idle
<1>3. Fresh(o) \in Addr /\ heap[Fresh(o)] = Null
  BY <1>2, FreshFree
<1>4. ASSUME NEW p \in Oids PROVE SeenOf(heap', data', p) = SeenOf(heap, data, p)
  <2>1. data[p] # Null => data[p] \in Addr /\ heap[data[p]] # Null
    BY Indexed DEF CoreInv, MemoryInv
  <2>2. heap \in [Addr -> Entries \cup {Null}]
    BY DEF CoreInv, TypeOK
  <2>3. data[p] # Null => heap'[data[p]] = heap[data[p]]
    BY <1>1, <1>3, <2>1, <2>2
  <2> QED BY <1>1, <2>3, SeenStays
<1>5. AllSeen(heap', data') = AllSeen(heap, data)
  BY <1>4, NoneSeen
<1>6. AllSeen(heap, data)[o] # {}
  <2>1. PICK t : t \in DOMAIN heap[data[o]].values
    BY <1>1, Indexed, EntryFields DEF CoreInv, MemoryInv
  <2>2. [tid |-> t, frozen |-> heap[data[o]].values[t]] \in Seen(heap[data[o]].values)
    BY <2>1 DEF Seen
  <2>3. AllSeen(heap, data)[o] = Seen(heap[data[o]].values)
    BY <1>1 DEF AllSeen, SeenOf
  <2> QED BY <2>2, <2>3
<1>7. Using = Null /\ Using' = o
  BY <1>1, UsingStarts, Sizes
<1> QED BY <1>5, <1>6, <1>7, AsHit

\* Steps that show nothing.
LEMMA QuietAllowed ==
    ASSUME CoreInv, data' = data, Using' = Using,
           \A p \in Oids : data[p] # Null => heap'[data[p]].values = heap[data[p]].values
    PROVE  Allowed
<1>1. \A p \in Oids : SeenOf(heap', data', p) = SeenOf(heap, data, p)
  BY SeenStays
<1> QED BY <1>1, NoneSeen, AsStutter

\* Cache::age_frequencies
LEMMA AgeFrequenciesAllowed ==
    ASSUME CoreInv, AgeFrequencies
    PROVE  Allowed
<1>1. pc = "idle" /\ pc' = "idle" /\ data' = data
  BY DEF AgeFrequencies
<1>2. ASSUME NEW p \in Oids, data[p] # Null
      PROVE  heap'[data[p]].values = heap[data[p]].values
  <2>1. data[p] \in Addr /\ heap[data[p]] \in Entries
    BY <1>2, Indexed DEF CoreInv, MemoryInv
  <2>2. heap'[data[p]] = [heap[data[p]] EXCEPT !.frequency = @ \div 2]
    BY <2>1 DEF AgeFrequencies
  <2> QED BY <2>1, <2>2 DEF Entries
<1> QED BY <1>1, <1>2, UsingIdle, QuietAllowed

\* release_entry
LEMMA PyReleaseAllowed ==
    ASSUME CoreInv, NEW th \in Threads, PyRelease(th)
    PROVE  Allowed
<1> DEFINE a == python[th]
<1>1. /\ pc = "idle" /\ pc' = "idle" /\ data' = data
      /\ \/ heap' = heap
         \/ heap[a].generation = Null /\ heap' = [heap EXCEPT ![a] = Null]
  BY DEF PyRelease
<1>2. ASSUME NEW p \in Oids, data[p] # Null
      PROVE  heap'[data[p]].values = heap[data[p]].values
  <2>1. data[p] \in Addr /\ heap[data[p]].generation # Null
    BY <1>2, Indexed DEF CoreInv, MemoryInv
  <2>2. heap \in [Addr -> Entries \cup {Null}]
    BY DEF CoreInv, TypeOK
  <2> HIDE DEF a
  <2>3. heap'[data[p]] = heap[data[p]]
    BY <1>1, <2>1, <2>2
  <2> QED BY <2>3
<1> QED BY <1>1, <1>2, UsingIdle, QuietAllowed

\* LocalClient.flush_all
LEMMA FlushAllAllowed ==
    ASSUME CoreInv, FlushAll
    PROVE  Allowed
<1>1. pc = "idle" /\ pc' = "idle" /\ data' = [o \in Oids |-> Null]
  BY DEF FlushAll
<1>2. AllSeen(heap', data') = [o \in Oids |-> {}]
  BY <1>1 DEF AllSeen, SeenOf
<1> QED BY <1>1, <1>2, UsingIdle, AsClear

\* Nobody, the loader and the objects are different.
LEMMA UsingNames ==
    "loader" # Null /\ "loader" \notin Oids
BY ConstantsAssumption

\* Cache::add_many
LEMMA AddManyAllowed ==
    ASSUME CoreInv, NEW file, AddMany(file)
    PROVE  Allowed
<1>1. /\ pc = "idle" /\ pc' # "idle" /\ call'.oid = Null /\ heap' = heap /\ data' = data
      /\ \A o \in Oids : data[o] = Null
  BY DEF AddMany, Begin
<1>2. Using = Null /\ Using' = "loader"
  BY <1>1, UsingStarts
<1>3. \A o \in Oids : AllSeen(heap, data)[o] = {}
  BY <1>1 DEF AllSeen, SeenOf
<1>4. AllSeen(heap', data') = AllSeen(heap, data)
  BY <1>1
<1> QED BY <1>2, <1>3, <1>4, AsStartLoad

\* Steps of the loops that leave the index alone.
LEMMA LoopAllowed ==
    ASSUME CoreInv, pc # "idle", pc' # "idle", call' = call, heap' = heap, data' = data
    PROVE  Allowed
BY UsingGoesOn, QuietAllowed

\* One row of add_many
LEMMA LoadRowAllowed ==
    ASSUME CoreInv, LoadRow
    PROVE  Allowed
<1> DEFINE row == Head(rows)
           o == row.oid
           t == row.tid
           b == row.frozen
           v == [u \in {t} |-> b]
           e == Entry(o, FALSE, v, row.frequency, "eden")
<1>1. /\ pc = "load" /\ pc' = "load" /\ call' = call /\ rows # <<>> /\ rows \in Seq(Rows)
      /\ call.oid = Null /\ call.result = Null
  BY NoResult DEF LoadRow, CoreInv, TypeOK, LoadInv
<1>2. row \in Rows /\ row = rows[1] /\ 1 \in 1..Len(rows)
  BY <1>1, TailRows
<1>3. o \in Oids /\ t \in Tids /\ b \in BOOLEAN
  BY <1>2 DEF Rows
<1>4. data[o] = Null
  BY <1>2 DEF CoreInv, LoadInv
<1>5. CASE UNCHANGED cacheVars
  <2>1. heap' = heap /\ data' = data
    BY <1>5 DEF cacheVars
  <2> QED BY <1>1, <2>1, LoopAllowed
<1>6. CASE heap' = [heap EXCEPT ![Fresh(o)] = e] /\ data' = [data EXCEPT ![o] = Fresh(o)]
  <2>1. e.values = v
    BY DEF Entry
  <2>2. Seen(v) = {[tid |-> t, frozen |-> b]}
    BY DEF Seen
  <2> HIDE DEF e, v, o, t, b
  <2>3. /\ Local(o) /\ SeenOf(heap', data', o) = {[tid |-> t, frozen |-> b]}
        /\ SeenOf(heap, data, o) = {}
    BY <1>1, <1>3, <1>4, <1>6, <2>1, <2>2, InsertSeen
  <2>4. /\ AllSeen(heap', data') =
               [AllSeen(heap, data) EXCEPT ![o] = {[tid |-> t, frozen |-> b]}]
        /\ AllSeen(heap, data)[o] = {}
    BY <1>3, <2>3, LocalSeen, OneSeen
  <2>5. Using = "loader" /\ Using' = Using
    BY <1>1 DEF Using
  <2> QED BY <1>3, <2>4, <2>5, AsLoad
<1> QED BY <1>5, <1>6 DEF LoadRow

\* The loop condition of add_many's rounds
LEMMA LoadRoundAllowed ==
    ASSUME CoreInv, LoadRound
    PROVE  Allowed
<1>1. pc # "idle" /\ pc' # "idle" /\ call' = call /\ heap' = heap /\ data' = data
  BY DEF LoadRound, cacheVars, Loop, Return
<1> QED BY <1>1, LoopAllowed

\* The end of a call
LEMMA ReturnToPythonAllowed ==
    ASSUME CoreInv, ReturnToPython
    PROVE  Allowed
<1>1. pc = "return" /\ pc' = "idle" /\ heap' = heap /\ data' = data
  BY DEF ReturnToPython, cacheVars
<1>2. Using # Null /\ Using' = Null
  BY <1>1, UsingNames DEF Using
<1>3. AllSeen(heap', data') = AllSeen(heap, data)
  BY <1>1
<1> QED BY <1>2, <1>3, AsFinish

\* Entries that are moved keep their values.
LEMMA MoveAllowed ==
    ASSUME CoreInv, pc # "idle", pc' # "idle", call' = call, data' = data,
           NEW a \in Addr, KindKept(heap, heap', a)
    PROVE  Allowed
<1>1. ASSUME NEW p \in Oids, data[p] # Null
      PROVE  heap'[data[p]].values = heap[data[p]].values
  <2>1. data[p] \in Addr
    BY <1>1, Indexed DEF CoreInv, MemoryInv
  <2> QED BY <2>1 DEF KindKept
<1> QED BY <1>1, UsingGoesOn, QuietAllowed

\* on_hit
LEMMA OnHitAllowed ==
    ASSUME CoreInv, OnHit
    PROVE  Allowed
<1> DEFINE a == data[call.oid]
           g == heap[a].generation
           e == [heap[a] EXCEPT !.frequency = @ + 1,
                                !.generation = IF g = "eden" THEN g ELSE "protected"]
<1>1. pc = "hit" /\ pc' # "idle" /\ call' = call /\ data' = data
  BY DEF OnHit, BalanceRings, Loop, Return
<1>2. call.oid \in Oids /\ a # Null
  BY <1>1 DEF CoreInv, CallInv, TypeOK
<1>3. a \in Addr /\ heap[a] \in Entries
  BY <1>2, Indexed DEF CoreInv, MemoryInv
<1>4. KindKept(heap, heap', a)
  <2>1. e.oid = heap[a].oid /\ e.several = heap[a].several /\ e.values = heap[a].values
    BY <1>3 DEF Entries
  <2>2. heap \in [Addr -> Entries \cup {Null}]
    BY DEF CoreInv, TypeOK
  <2>3. heap' = [heap EXCEPT ![a] = e]
    BY <1>3, <2>2 DEF OnHit
  <2> HIDE DEF e
  <2>4. heap'[a] = e /\ \A c \in Addr : c # a => heap'[c] = heap[c]
    BY <1>3, <2>2, <2>3
  <2> QED BY <2>1, <2>4 DEF KindKept
<1> QED BY <1>1, <1>3, <1>4, MoveAllowed

\* Generation::adopt
LEMMA AdoptAllowed ==
    ASSUME CoreInv, pc # "idle", pc' # "idle", call' = call, data' = data,
           NEW f \in Generations, NEW a \in Range(ring[f]), NEW g, Adopt(a, g)
    PROVE  Allowed
<1>1. heap \in [Addr -> Entries \cup {Null}]
  BY DEF CoreInv, TypeOK
<1>2. a \in Addr /\ heap[a] \in Entries
  BY Listed DEF CoreInv, MemoryInv
<1>3. heap' = [heap EXCEPT ![a].generation = g]
  BY DEF Adopt
<1>4. /\ heap'[a] = [heap[a] EXCEPT !.generation = g]
      /\ \A c \in Addr : c # a => heap'[c] = heap[c]
  BY <1>1, <1>2, <1>3
<1>5. KindKept(heap, heap', a)
  BY <1>2, <1>4 DEF KindKept, Entries
<1> QED BY <1>2, <1>5, MoveAllowed

\* The first loop of Eden::_balance_rings
LEMMA FillAllowed ==
    ASSUME CoreInv, Fill
    PROVE  Allowed
<1> DEFINE a == Lru("eden")
<1>1. pc = "fill" /\ pc' # "idle" /\ call' = call /\ data' = data /\ "eden" \in Generations
  BY DEF Fill, Return, Generations
<1>2. a \in Range(ring["eden"])
  <2>1. ring["eden"] \in Seq(Addr)
    BY <1>1, Listed DEF CoreInv, MemoryInv
  <2>2. spill.ignore \in Range(ring["eden"])
    BY <1>1 DEF CoreInv, SpillInv
  <2>3. ring["eden"] # <<>>
    BY <2>1, <2>2, ListShape
  <2> QED BY <1>1, <2>3, LruListed
<1>3. heap' = heap \/ Adopt(a, "protected") \/ Adopt(a, "probation")
  BY DEF Fill
<1> HIDE DEF a
<1> QED BY <1>1, <1>2, <1>3, AdoptAllowed, LoopAllowed

\* The loop of a spill is left.
LEMMA SpillStopAllowed ==
    ASSUME CoreInv, SpillStop
    PROVE  Allowed
<1>1. pc # "idle" /\ pc' # "idle" /\ call' = call /\ heap' = heap /\ data' = data
  BY DEF SpillStop, cacheVars, SpillDone, Loop, Return
<1> QED BY <1>1, LoopAllowed

\* An entry is spilled into another generation.
LEMMA SpillAdoptAllowed ==
    ASSUME CoreInv, SpillAdopt
    PROVE  Allowed
<1>1. /\ pc = "spill" /\ pc' # "idle" /\ call' = call /\ data' = data /\ SpillGoesOn
      /\ Adopt(Lru(spill.from), spill.to)
  BY DEF SpillAdopt, SpillDone, Loop, Return
<1>2. spill.from \in Generations /\ Lru(spill.from) \in Range(ring[spill.from])
  BY <1>1, SpillLists
<1> QED BY <1>1, <1>2, AdoptAllowed

\* A victim is evicted: it is not of the object that the call works on.
LEMMA SpillEvictAllowed ==
    ASSUME CoreInv, SpillEvict
    PROVE  Allowed
<1> DEFINE f == spill.from
           g == spill.to
           a == Lru(f)
           v == Lru(g)
<1>1. pc = "spill" /\ pc' = pc /\ call' = call /\ SpillGoesOn
  BY DEF SpillEvict
<1>2. /\ f \in Generations /\ g \in Generations /\ f # g
      /\ ring[f] # <<>> /\ a \in Range(ring[f]) /\ a # spill.ignore
  BY <1>1, SpillLists
<1>3. /\ a \in Addr /\ a[1] \in Oids /\ data[a[1]] = a /\ a # Null /\ heap[a] \in Entries
  BY <1>2, LruListed, Sizes
<1>4. Using' = Using
  BY <1>1, UsingGoesOn
<1>5. ASSUME NEW x \in Addr, NEW k \in Generations, x \in Range(ring[k]), x # spill.ignore,
             x[1] \in Oids, Local(x[1]), SeenOf(heap', data', x[1]) = {}
      PROVE  Allowed
  <2>1. call.oid # Null => x[1] # call.oid
    BY <1>1, <1>5, VictimOther
  <2>2. Using \notin {Null, x[1]}
    BY <1>1, <1>5, <2>1, UsingNames DEF Using
  <2>3. AllSeen(heap', data') = [AllSeen(heap, data) EXCEPT ![x[1]] = {}]
    BY <1>5, LocalSeen, OneSeen
  <2> QED BY <1>4, <1>5, <2>2, <2>3, AsEvict
<1>6. CASE Drop(a, Weight(heap[a]))
  <2> HIDE DEF a
  <2>1. Local(a[1]) /\ SeenOf(heap', data', a[1]) = {}
    BY <1>3, <1>6, DropSeen
  <2> QED BY <1>2, <1>3, <1>5, <2>1
<1>7. CASE /\ ring[g] # <<>>
           /\ heap' = [Unlinked(heap, v) EXCEPT ![a].generation = g]
           /\ data' = [data EXCEPT ![heap[v].oid] = Null]
  <2>1. /\ v \in Range(ring[g]) /\ v \in Addr /\ v[1] \in Oids /\ data[v[1]] = v
        /\ heap[v].generation = g
    BY <1>2, <1>7, LruListed
  <2>2. v # spill.ignore
    <3>1. spill.ignore # Null => spill.ignore \in Range(ring[f])
      BY <1>1 DEF CoreInv, SpillInv
    <3>2. \A b \in Range(ring[f]) : heap[b].generation = f
      BY <1>2, Listed DEF CoreInv, MemoryInv
    <3> QED BY <1>2, <2>1, <3>1, <3>2, Sizes
  <2>3. heap[v].oid = v[1] /\ a # v
    BY <1>2, <2>1, Listed DEF CoreInv, MemoryInv
  <2> HIDE DEF a, v
  <2>4. data \in [Oids -> Addr \cup {Null}] /\ heap \in [Addr -> Entries \cup {Null}]
    BY DEF CoreInv, TypeOK
  <2>5. data'[v[1]] = Null /\ \A p \in Oids : p # v[1] => data'[p] = data[p]
    BY <1>7, <2>1, <2>3, <2>4
  <2>6. \A c \in Addr : c # v => heap'[c].values = heap[c].values
    <3> DEFINE h == Unlinked(heap, v)
    <3>1. h[a] = heap[a] /\ DOMAIN h = Addr /\ \A c \in Addr : c # v => h[c] = heap[c]
      BY <1>3, <2>1, <2>3, <2>4 DEF Unlinked
    <3>2. heap' = [h EXCEPT ![a].generation = g]
      BY <1>7
    <3> HIDE DEF h
    <3>3. /\ heap'[a] = [heap[a] EXCEPT !.generation = g]
          /\ \A c \in Addr : c # a => heap'[c] = h[c]
      BY <1>3, <3>1, <3>2
    <3>4. heap'[a].values = heap[a].values
      BY <1>3, <3>3 DEF Entries
    <3> QED BY <3>1, <3>3, <3>4
  <2>7. Local(v[1]) /\ SeenOf(heap', data', v[1]) = {}
    BY <2>5, <2>6 DEF Local, SeenOf
  <2> QED BY <1>2, <1>5, <2>1, <2>2, <2>7
<1> QED BY <1>6, <1>7 DEF SpillEvict

\* Every step is one that ValueCache allows.
LEMMA StepAllowed ==
    ASSUME CoreInv, [Next]_vars
    PROVE  Allowed
<1>1. StepSafe
  BY CoreStep
<1>2. CASE UNCHANGED vars
  <2>1. heap' = heap /\ data' = data /\ pc' = pc /\ call' = call
    BY <1>2 DEF vars
  <2>2. Using' = Using
    BY <2>1 DEF Using
  <2> QED BY <2>1, <2>2, QuietAllowed
<1>3. CASE Step
  BY <1>3, OnHitAllowed, LoadRowAllowed, LoadRoundAllowed, FillAllowed, SpillStopAllowed,
     SpillAdoptAllowed, SpillEvictAllowed, ReturnToPythonAllowed DEF Step
<1>4. ASSUME NEW o \in Oids, Delitem(o) PROVE Allowed
  BY <1>4, DelitemAllowed
<1>5. ASSUME NEW o \in Oids, NEW t \in written[o], AddToEden(o, t) \/ StoreAndMakeMRU(o, t)
      PROVE  Allowed
  <2>1. t \in Tids
    BY WrittenTids
  <2> QED BY <1>1, <1>5, <2>1, AddToEdenAllowed, StoreAndMakeMRUAllowed
<1>6. ASSUME NEW o \in Oids, NEW t \in Tids, DelitemBefore(o, t) \/ Freeze(o, t)
      PROVE  Allowed
  BY <1>6, DelitemBeforeAllowed, FreezeAllowed
<1>7. ASSUME NEW o \in Oids, NEW th \in Threads, NEW wanted \in Tids \cup {Null},
             NEW peek \in BOOLEAN, GetOrPeek(th, o, wanted, peek)
      PROVE  Allowed
  BY <1>7, GetOrPeekAllowed
<1>8. ASSUME NEW th \in Threads, PyRelease(th) PROVE Allowed
  BY <1>8, PyReleaseAllowed
<1>9. ASSUME NEW file \in Files, AddMany(file) PROVE Allowed
  BY <1>9, AddManyAllowed
<1>10. CASE AgeFrequencies
  BY <1>10, AgeFrequenciesAllowed
<1>11. CASE FlushAll
  BY <1>11, FlushAllAllowed
<1> QED BY <1>2, <1>3, <1>4, <1>5, <1>6, <1>7, <1>8, <1>9, <1>10, <1>11 DEF Next

\* Every behaviour of the cache is one that ValueCache allows: an operation
\* changes the values of its own object only, and what it evicts besides is
\* never the object it works on.
THEOREM CacheImplementsValueCache == Spec => ImplementsValueCache
<1>1. Init => Values!Init
  BY DEF Init, Values!Init
<1>2. CoreInv /\ [Next]_vars => [Values!Next]_(Values!vars)
  BY StepAllowed DEF Allowed
<1> QED BY <1>1, <1>2, CoreAlways, PTL DEF Spec, ImplementsValueCache, Values!Spec

=============================================================================
