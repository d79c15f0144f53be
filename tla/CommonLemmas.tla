---------------------------- MODULE CommonLemmas ----------------------------
(***************************************************************************)
(* Facts about natural numbers, finite sets and sequences that the proofs  *)
(* of several components need.  Induction is stated with a set in place of *)
(* a predicate.                                                            *)
(***************************************************************************)
EXTENDS Naturals, Sequences, FiniteSets, FiniteSetTheorems, TLAPS

(* A nonempty set of natural numbers has a least member: the intervals up  *)
(* to its members are finite, so one of them is minimal.                   *)
LEMMA LeastExists ==
    ASSUME NEW S \in SUBSET Nat, S # {}
    PROVE  \E x \in S : \A y \in S : x <= y
<1>1. PICK n \in S : TRUE
  OBVIOUS
<1> DEFINE U == 0 .. n
           T == {0 .. i : i \in S \cap U}
<1>2. n \in Nat /\ n \in Int /\ 0 \in Int
  OBVIOUS
<1>3. IsFiniteSet(U)
  BY <1>2, FS_Interval
<1> HIDE DEF U
<1>4. IsWellFoundedOn(StrictSubsetOrdering(U), SUBSET U)
  BY <1>3, FS_StrictSubsetOrderingWellFounded, FS_FiniteSubsetsOfFinite
<1>5. T \subseteq SUBSET U /\ T # {}
  BY <1>1, <1>2 DEF U
<1> HIDE DEF T
<1>6. PICK X \in T : \A Y \in T : ~(<<Y, X>> \in StrictSubsetOrdering(U))
  BY <1>4, <1>5, WFMin, Zenon
<1>7. PICK i \in S \cap U : X = 0 .. i
  BY <1>6 DEF T
<1>8. ASSUME NEW j \in S, ~(i <= j) PROVE FALSE
  <2>1. j \in U /\ i \in Nat /\ j \in Nat /\ j < i
    BY <1>2, <1>7, <1>8 DEF U
  <2>2. 0 .. j \in T
    BY <1>8, <2>1 DEF T
  <2>3. 0 .. j \subseteq X /\ 0 .. j # X
    BY <1>7, <2>1
  <2> QED BY <1>5, <1>6, <2>2, <2>3 DEF StrictSubsetOrdering
<1> QED BY <1>7, <1>8

(* Induction: a set with 0 and with the successor of each of its members   *)
(* has all natural numbers.                                                *)
LEMMA SetInduction ==
    ASSUME NEW S, 0 \in S, \A n \in Nat : n \in S => n + 1 \in S
    PROVE  \A n \in Nat : n \in S
<1> DEFINE T == Nat \ S
<1>1. SUFFICES ASSUME T # {} PROVE FALSE
  OBVIOUS
<1>2. PICK x \in T : \A y \in T : x <= y
  BY <1>1, LeastExists, T \in SUBSET Nat
<1>3. x # 0 /\ x \in Nat
  BY <1>2
<1>4. x - 1 \in Nat /\ ~(x <= x - 1) /\ x = (x - 1) + 1
  BY <1>3
<1>5. x - 1 \in S
  BY <1>2, <1>4
<1> QED BY <1>2, <1>4, <1>5

(* The numbers up to n.                                                    *)
LEMMA UpTo ==
    ASSUME NEW n \in Nat
    PROVE  IsFiniteSet(1 .. n) /\ Cardinality(1 .. n) = n
<1>1. n \in Int /\ 1 \in Int
  OBVIOUS
<1>2. IsFiniteSet(1 .. n) /\ Cardinality(1 .. n) = IF 1 > n THEN 0 ELSE n - 1 + 1
  BY <1>1, FS_Interval
<1> QED BY <1>2

(* A finite set of natural numbers can be counted off: for every place     *)
(* there is a member with that many members below it.                      *)
LEMMA PlaceExists ==
    ASSUME NEW S \in SUBSET Nat, IsFiniteSet(S), NEW i \in 1 .. Cardinality(S)
    PROVE  \E p \in S : Cardinality({q \in S : q < p}) = i - 1
<1> DEFINE Below(p) == {q \in S : q < p}
           n == Cardinality(S)
           T == 0 .. n - 1
           f == [p \in S |-> Cardinality(Below(p))]
<1>1. n \in Nat /\ n - 1 \in Int /\ 0 \in Int /\ n >= 1
  BY FS_CardinalityType
<1>2. ASSUME NEW p \in S PROVE IsFiniteSet(Below(p)) /\ Cardinality(Below(p)) \in T
  <2>1. IsFiniteSet(Below(p)) /\ Cardinality(Below(p)) <= n /\ Below(p) # S
    <3>1. Below(p) \in SUBSET S /\ p \notin Below(p)
      OBVIOUS
    <3> QED BY <3>1, FS_Subset
  <2>2. Cardinality(Below(p)) # n
    <3>1. Below(p) \in SUBSET S
      OBVIOUS
    <3> QED BY <2>1, <3>1, FS_Subset
  <2> QED BY <1>1, <2>1, <2>2, FS_CardinalityType
<1>3. ASSUME NEW p \in S, NEW q \in S, p < q PROVE f[p] < f[q]
  <2>0. \A r \in S : r < p => r < q
    BY <1>3
  <2>1. Below(p) \cup {p} \in SUBSET Below(q)
    BY <1>3, <2>0
  <2>2. p \notin Below(p)
    OBVIOUS
  <2>3. Cardinality(Below(p) \cup {p}) = Cardinality(Below(p)) + 1
    BY <1>2, <2>2, FS_AddElement
  <2>4. Cardinality(Below(p) \cup {p}) <= Cardinality(Below(q))
    BY <1>2, <2>1, FS_Subset
  <2> QED BY <1>1, <1>2, <2>3, <2>4
<1>4. f \in [S -> T]
  BY <1>2
<1>5. \A p, q \in S : f[p] = f[q] => p = q
  <2> HIDE DEF f
  <2> SUFFICES ASSUME NEW p \in S, NEW q \in S, f[p] = f[q], p # q PROVE FALSE
    OBVIOUS
  <2>1. p < q \/ q < p
    OBVIOUS
  <2>2. f[p] \in Nat /\ f[q] \in Nat
    BY <1>1, <1>4
  <2> QED BY <1>3, <2>1, <2>2
<1>6. f \in Injection(S, T)
  BY <1>4, <1>5, Zenon DEF Injection, IsInjective
<1>7. IsFiniteSet(T) /\ Cardinality(T) = n
  BY <1>1, FS_Interval
<1>8. f \in Surjection(S, T)
  BY <1>6, <1>7, FS_Injection, Zenon
<1>9. i - 1 \in T
  BY <1>1
<1>10. PICK p \in S : f[p] = i - 1
  BY <1>8, <1>9 DEF Surjection
<1> QED BY <1>10

-----------------------------------------------------------------------------
(* The members of two sequences, one behind the other.                     *)
LEMMA ConcatParts ==
    ASSUME NEW X, NEW s \in Seq(X), NEW t \in Seq(X)
    PROVE  /\ s \o t \in Seq(X) /\ Len(s) \in Nat /\ Len(t) \in Nat
           /\ Len(s \o t) = Len(s) + Len(t) /\ DOMAIN s = 1 .. Len(s)
           /\ DOMAIN (s \o t) = 1 .. (Len(s) + Len(t))
           /\ \A a \in DOMAIN s : (s \o t)[a] = s[a]
           /\ \A i \in 1 .. Len(t) : (s \o t)[Len(s) + i] = t[i]
OBVIOUS

-----------------------------------------------------------------------------
(* Counting the members of a sequence that are in a set.                   *)

Places(s, Y) == {i \in DOMAIN s : s[i] \in Y}

(* A sequence has finitely many places.                                    *)
LEMMA PlacesFinite ==
    ASSUME NEW X, NEW s \in Seq(X), NEW Y
    PROVE  IsFiniteSet(Places(s, Y)) /\ Cardinality(Places(s, Y)) \in Nat
<1>1. Len(s) \in Nat /\ Len(s) \in Int /\ 1 \in Int /\ DOMAIN s = 1 .. Len(s)
  OBVIOUS
<1>2. IsFiniteSet(DOMAIN s)
  BY <1>1, FS_Interval
<1>3. Places(s, Y) \in SUBSET DOMAIN s
  BY DEF Places
<1> QED BY <1>2, <1>3, FS_Subset, FS_CardinalityType

(* One member more at the end.                                             *)
LEMMA CountAppend ==
    ASSUME NEW X, NEW s \in Seq(X), NEW x \in X, NEW Y
    PROVE  Cardinality(Places(Append(s, x), Y))
             = Cardinality(Places(s, Y)) + (IF x \in Y THEN 1 ELSE 0)
<1> DEFINE n == Len(s) + 1
<1>1. n \notin Places(s, Y)
  BY DEF Places
<1>2. Places(Append(s, x), Y) = IF x \in Y THEN Places(s, Y) \cup {n} ELSE Places(s, Y)
  BY DEF Places
<1>3. IsFiniteSet(Places(s, Y)) /\ Cardinality(Places(s, Y)) \in Nat
  BY PlacesFinite
<1>4. Cardinality(Places(s, Y) \cup {n}) = Cardinality(Places(s, Y)) + 1
  BY <1>1, <1>3, FS_AddElement
<1> QED BY <1>2, <1>3, <1>4

(* One member fewer at the front.                                          *)
LEMMA CountTail ==
    ASSUME NEW X, NEW s \in Seq(X), s # << >>, NEW Y
    PROVE  Cardinality(Places(s, Y))
             = Cardinality(Places(Tail(s), Y)) + (IF Head(s) \in Y THEN 1 ELSE 0)
<1> DEFINE P == Places(s, Y)
           Q == Places(Tail(s), Y)
           R == P \ {1}
           f == [i \in Q |-> i + 1]
<1>0. Tail(s) \in Seq(X) /\ Len(s) \in Nat /\ Len(s) >= 1 /\ Len(Tail(s)) = Len(s) - 1
  OBVIOUS
<1>1. IsFiniteSet(P) /\ Cardinality(P) \in Nat /\ IsFiniteSet(Q) /\ Cardinality(Q) \in Nat
  BY <1>0, PlacesFinite
<1>2. ASSUME NEW i \in Q PROVE i + 1 \in R /\ i \in Nat
  BY <1>0, <1>2 DEF Places
<1>3. ASSUME NEW j \in R PROVE j - 1 \in Q /\ j = (j - 1) + 1
  BY <1>0, <1>3 DEF Places
<1>4. f \in Bijection(Q, R)
  <2>1. f \in [Q -> R]
    BY <1>2
  <2>2. \A i, j \in Q : f[i] = f[j] => i = j
    <3> HIDE DEF Q, R
    <3> QED BY <1>2
  <2>3. \A j \in R : \E i \in Q : f[i] = j
    <3> HIDE DEF Q, R
    <3> QED BY <1>3
  <2> QED BY <2>1, <2>2, <2>3, Zenon DEF Bijection, Injection, Surjection, IsInjective
<1>5. Cardinality(R) = Cardinality(Q)
  BY <1>1, <1>4, FS_Bijection DEF ExistsBijection
<1>6. 1 \in P <=> Head(s) \in Y
  BY <1>0 DEF Places
<1>7. Cardinality(R) = IF 1 \in P THEN Cardinality(P) - 1 ELSE Cardinality(P)
  BY <1>1, FS_RemoveElement
<1> HIDE DEF P, Q, R
<1>8. Cardinality(P) = Cardinality(Q) + (IF Head(s) \in Y THEN 1 ELSE 0)
  BY <1>1, <1>5, <1>6, <1>7
<1> QED BY <1>8 DEF P, Q

-----------------------------------------------------------------------------
(* A nonempty finite set of natural numbers has a greatest member: the     *)
(* members above each one form finite sets, so one of those is minimal.    *)
LEMMA GreatestExists ==
    ASSUME NEW S \in SUBSET Nat, S # {}, IsFiniteSet(S)
    PROVE  \E x \in S : \A y \in S : x >= y
<1> DEFINE Above(i) == {y \in S : y > i}
           T == {Above(i) : i \in S}
<1>1. IsWellFoundedOn(StrictSubsetOrdering(S), SUBSET S)
  BY FS_StrictSubsetOrderingWellFounded, FS_FiniteSubsetsOfFinite
<1>2. T \subseteq SUBSET S /\ T # {}
  OBVIOUS
<1> HIDE DEF T
<1>3. PICK X \in T : \A Y \in T : ~(<<Y, X>> \in StrictSubsetOrdering(S))
  BY <1>1, <1>2, WFMin, Zenon
<1>4. PICK i \in S : X = Above(i)
  BY <1>3 DEF T
<1>5. ASSUME NEW j \in S, ~(i >= j) PROVE FALSE
  <2>1. i \in Nat /\ j \in Nat /\ j > i
    BY <1>4, <1>5
  <2>2. \A y \in S : y > j => y > i
    BY <2>1
  <2>3. Above(j) \subseteq Above(i) /\ j \in Above(i) /\ j \notin Above(j)
    <3>1. Above(j) \subseteq Above(i)
      BY <2>2, Zenon
    <3>2. ~(j > j)
      BY <2>1
    <3> QED BY <2>1, <3>1, <3>2
  <2>4. Above(j) \in T
    BY <1>5 DEF T
  <2> HIDE DEF Above
  <2> QED BY <1>2, <1>3, <1>4, <2>3, <2>4 DEF StrictSubsetOrdering
<1> QED BY <1>4, <1>5

(* The values of a function on a finite set are finitely many.             *)
LEMMA ValuesFinite ==
    ASSUME NEW S, IsFiniteSet(S), NEW f, DOMAIN f = S, f = [x \in S |-> f[x]]
    PROVE  IsFiniteSet({f[x] : x \in S})
<1> DEFINE T == {f[x] : x \in S}
<1>1. f \in [S -> T]
  OBVIOUS
<1>2. \A t \in T : \E x \in S : f[x] = t
  OBVIOUS
<1> HIDE DEF T
<1>3. f \in Surjection(S, T)
  BY <1>1, <1>2, Zenon DEF Surjection
<1>4. IsFiniteSet(T)
  BY <1>3, FS_Surjection
<1> QED BY <1>4 DEF T

-----------------------------------------------------------------------------
(* f is defined by recursion on the numbers up to C.                       *)
Iteration(f, S, x, step, C) ==
    f \in [0 .. C -> S] /\ f[0] = x /\ \A k \in 1 .. C : f[k] = step[<<k, f[k - 1]>>]

(* There is such a function.                                               *)
LEMMA Iterates ==
    ASSUME NEW S, NEW x, x \in S, NEW step, step \in [Nat \X S -> S], NEW C, C \in Nat
    PROVE  \E f : Iteration(f, S, x, step, C)
<1> DEFINE Good(n, f) == f[0] = x /\ \A k \in 1 .. n : f[k] = step[<<k, f[k - 1]>>]
           T == {n \in Nat : \E f \in [0 .. n -> S] : Good(n, f)}
<1>1. 0 \in T
  <2> DEFINE f == [k \in 0 .. 0 |-> x]
  <2>1. f \in [0 .. 0 -> S] /\ Good(0, f)
    OBVIOUS
  <2> QED BY <2>1
<1>2. ASSUME NEW n \in Nat, n \in T PROVE n + 1 \in T
  <2>1. PICK f \in [0 .. n -> S] : Good(n, f)
    BY <1>2
  <2> DEFINE g == [k \in 0 .. n + 1 |-> IF k = n + 1 THEN step[<<n + 1, f[n]>>] ELSE f[k]]
  <2>2. step[<<n + 1, f[n]>>] \in S
    OBVIOUS
  <2>3. \A k \in 0 .. n + 1 : k # n + 1 => k \in 0 .. n
    OBVIOUS
  <2>4. g \in [0 .. n + 1 -> S]
    BY <2>2, <2>3
  <2>5. g[0] = x
    BY <2>1
  <2>6. ASSUME NEW k \in 1 .. n + 1 PROVE g[k] = step[<<k, g[k - 1]>>]
    <3>1. k - 1 \in 0 .. n /\ k \in 0 .. n + 1 /\ k - 1 \in 0 .. n + 1 /\ k - 1 # n + 1
      OBVIOUS
    <3>2. g[k - 1] = f[k - 1]
      BY <3>1
    <3>3. CASE k = n + 1
      BY <3>1, <3>2, <3>3
    <3>4. CASE k # n + 1
      <4>1. k \in 1 .. n /\ g[k] = f[k]
        BY <3>1, <3>4
      <4> QED BY <2>1, <3>2, <4>1
    <3> QED BY <3>3, <3>4
  <2> HIDE DEF g
  <2> QED BY <2>4, <2>5, <2>6
<1> HIDE DEF T
<1>3. C \in T
  BY <1>1, <1>2, SetInduction
<1> QED BY <1>3 DEF T, Iteration

=============================================================================
