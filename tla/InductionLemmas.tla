--------------------------- MODULE InductionLemmas ---------------------------
(****************************************************************************)
(* What the other proofs need of induction, and what it says of the folds   *)
(* the modules sum and maximise with.                                       *)
(*                                                                          *)
(* Induction is stated of sets: a set of numbers has a least one, a set of  *)
(* numbers with 0 and all successors has every number, a set of subsets     *)
(* that grows by the element a fold chooses has the whole set.  So it can   *)
(* be cited where a statement about all elements is a set of those it       *)
(* holds for.                                                               *)
(****************************************************************************)
EXTENDS Integers, SequencesExt, FiniteSetTheorems, TLAPS

LEMMA Least ==
  ASSUME NEW S \in SUBSET Nat, S # {}
  PROVE  \E x \in S : \A y \in S : x <= y
<1> DEFINE R == OpToRel(<, Nat)
<1>1. IsWellFoundedOn(R, Nat)
  BY NatLessThanWellFounded
<1>2. \A x, y \in Nat : <<y, x>> \in R <=> y < x
  BY DEF OpToRel
<1> HIDE DEF R
<1>3. \E x \in S : \A y \in S : ~ (<<y, x>> \in R)
  BY <1>1, WFMin
<1>4. ASSUME NEW x \in S, NEW y \in S, ~ (<<y, x>> \in R) PROVE x <= y
  <2>1. x \in Nat /\ y \in Nat
    OBVIOUS
  <2>2. ~ (y < x)
    BY <1>2, <1>4, <2>1
  <2> QED BY <2>1, <2>2
<1> QED BY <1>3, <1>4

LEMMA AllNumbers ==
  ASSUME NEW B \in SUBSET Nat, 0 \in B, \A n \in B : n + 1 \in B
  PROVE  B = Nat
<1> SUFFICES ASSUME Nat \ B # {} PROVE FALSE
  OBVIOUS
<1>1. PICK n \in Nat \ B : \A m \in Nat \ B : n <= m
  BY Least
<1>2. n - 1 \in Nat /\ n - 1 \in B
  BY <1>1
<1>3. (n - 1) + 1 = n
  BY <1>1
<1> QED BY <1>1, <1>2, <1>3

(* The element a fold takes next. *)
AnyOf(s) == CHOOSE x \in s : TRUE

LEMMA AnyOfIsIn ==
  ASSUME NEW s, s # {}
  PROVE  AnyOf(s) \in s
BY Zenon DEF AnyOf

LEMMA Smaller ==
  ASSUME NEW S, IsFiniteSet(S), NEW s \in SUBSET S, s # {}
  PROVE  /\ s \ {AnyOf(s)} \in SUBSET S
         /\ Cardinality(s) \in Nat
         /\ Cardinality(s \ {AnyOf(s)}) \in Nat
         /\ Cardinality(s) = Cardinality(s \ {AnyOf(s)}) + 1
<1>1. IsFiniteSet(s)
  BY FS_Subset
<1>2. AnyOf(s) \in s
  BY AnyOfIsIn
<1>3. IsFiniteSet(s \ {AnyOf(s)}) /\ Cardinality(s \ {AnyOf(s)}) = Cardinality(s) - 1
  BY <1>1, <1>2, FS_RemoveElement
<1>4. Cardinality(s) \in Nat /\ Cardinality(s \ {AnyOf(s)}) \in Nat
  BY <1>1, <1>3, FS_CardinalityType
<1> QED BY <1>3, <1>4

LEMMA AllSubsets ==
  ASSUME NEW S, IsFiniteSet(S), NEW B, {} \in B,
         \A s \in SUBSET S : s # {} /\ s \ {AnyOf(s)} \in B => s \in B
  PROVE  \A s \in SUBSET S : s \in B
<1> DEFINE Missing == {s \in SUBSET S : s \notin B}
           Sizes == {Cardinality(s) : s \in Missing}
<1> SUFFICES ASSUME Missing # {} PROVE FALSE
  OBVIOUS
<1>1. Sizes \in SUBSET Nat /\ Sizes # {}
  BY FS_Subset, FS_CardinalityType
<1> HIDE DEF Sizes
<1>2. PICK n \in Sizes : \A m \in Sizes : n <= m
  BY <1>1, Least
<1>3. PICK s \in Missing : n = Cardinality(s)
  BY DEF Sizes
<1>4. s \in SUBSET S /\ s # {} /\ s \ {AnyOf(s)} \notin B
  BY <1>3
<1>5. s \ {AnyOf(s)} \in Missing
  BY <1>4, Smaller
<1>6. Cardinality(s) <= Cardinality(s \ {AnyOf(s)})
  BY <1>2, <1>3, <1>5 DEF Sizes
<1> QED BY <1>4, <1>6, Smaller

-----------------------------------------------------------------------------
(****************************************************************************)
(* Folds of numbers from 0 on.                                              *)
(****************************************************************************)
(* g tells of each subset of S what op, a function of two numbers, makes of *)
(* the values of f.                                                         *)
FoldOf(op, f, s, g) ==
  IF s = {} THEN 0 ELSE op[<<f[AnyOf(s)], g[s \ {AnyOf(s)}]>>]

HasFold(op, f, S) ==
  \E g \in [SUBSET S -> Nat] : \A s \in SUBSET S : g[s] = FoldOf(op, f, s, g)

LEMMA FoldExists ==
  ASSUME NEW S, IsFiniteSet(S), NEW f, \A x \in S : f[x] \in Nat,
         NEW op \in [Nat \X Nat -> Nat]
  PROVE  HasFold(op, f, S)
<1> DEFINE UpTo(n, g) ==
             \A s \in SUBSET S : Cardinality(s) <= n => g[s] = FoldOf(op, f, s, g)
           B == {n \in Nat : \E g \in [SUBSET S -> Nat] : UpTo(n, g)}
<1>1. 0 \in B
  <2> DEFINE g == [s \in SUBSET S |-> 0]
  <2>1. g \in [SUBSET S -> Nat]
    OBVIOUS
  <2>2. ASSUME NEW s \in SUBSET S, Cardinality(s) <= 0 PROVE g[s] = FoldOf(op, f, s, g)
    <3>1. IsFiniteSet(s) /\ Cardinality(s) \in Nat
      BY FS_Subset, FS_CardinalityType
    <3>2. s = {}
      BY <2>2, <3>1, FS_EmptySet
    <3> QED BY <3>2 DEF FoldOf
  <2> QED BY <2>1, <2>2
<1>2. ASSUME NEW n \in B PROVE n + 1 \in B
  <2>1. PICK g \in [SUBSET S -> Nat] : UpTo(n, g)
    OBVIOUS
  <2> DEFINE h == [s \in SUBSET S |-> IF Cardinality(s) <= n THEN g[s] ELSE FoldOf(op, f, s, g)]
  <2>2. ASSUME NEW s \in SUBSET S, s # {}
        PROVE  op[<<f[AnyOf(s)], g[s \ {AnyOf(s)}]>>] \in Nat
    <3>1. f[AnyOf(s)] \in Nat /\ g[s \ {AnyOf(s)}] \in Nat
      BY <2>2, AnyOfIsIn, Smaller
    <3> QED BY <3>1
  <2>3. h \in [SUBSET S -> Nat]
    BY <2>2 DEF FoldOf
  <2>4. ASSUME NEW s \in SUBSET S, Cardinality(s) <= n + 1, s # {}
        PROVE  h[s] = FoldOf(op, f, s, h)
    <3>1. s \ {AnyOf(s)} \in SUBSET S /\ Cardinality(s \ {AnyOf(s)}) <= n
      BY <2>4, Smaller
    <3>2. h[s \ {AnyOf(s)}] = g[s \ {AnyOf(s)}]
      BY <3>1
    <3>3. FoldOf(op, f, s, h) = FoldOf(op, f, s, g)
      BY <3>2 DEF FoldOf
    <3>4. h[s] = FoldOf(op, f, s, g)
      BY <2>1
    <3> QED BY <3>3, <3>4
  <2>5. h[{}] = FoldOf(op, f, {}, h)
    <3>1. Cardinality({}) <= n /\ {} \in SUBSET S
      BY FS_EmptySet
    <3> QED BY <2>1, <3>1 DEF FoldOf
  <2>6. UpTo(n + 1, h)
    BY <2>4, <2>5
  <2> HIDE DEF h, UpTo
  <2> QED BY <2>3, <2>6
<1>3. Cardinality(S) \in B
  <2> HIDE DEF B
  <2>1. B \in SUBSET Nat
    BY DEF B
  <2>2. B = Nat
    BY <1>1, <1>2, <2>1, AllNumbers
  <2> QED BY <2>2, FS_CardinalityType
<1>4. PICK g \in [SUBSET S -> Nat] : UpTo(Cardinality(S), g)
  BY <1>3
<1>5. \A s \in SUBSET S : g[s] = FoldOf(op, f, s, g)
  BY <1>4, FS_Subset
<1> QED BY <1>5 DEF HasFold

-----------------------------------------------------------------------------
(****************************************************************************)
(* Sums.  The order they are added up in does not matter, because what they *)
(* count does not depend on it.                                             *)
(****************************************************************************)
Plus == [p \in Nat \X Nat |-> p[1] + p[2]]

(* g tells of each subset of S the sum of f over it. *)
Sums(f, S, g) ==
  \A s \in SUBSET S :
    g[s] = IF s = {} THEN 0 ELSE f[AnyOf(s)] + g[s \ {AnyOf(s)}]

HasSums(f, S) == \E g \in [SUBSET S -> Nat] : Sums(f, S, g)

LEMMA SumsExist ==
  ASSUME NEW S, IsFiniteSet(S), NEW f, \A x \in S : f[x] \in Nat
  PROVE  HasSums(f, S)
<1>1. Plus \in [Nat \X Nat -> Nat] /\ \A m, n \in Nat : Plus[<<m, n>>] = m + n
  BY DEF Plus
<1>2. PICK g \in [SUBSET S -> Nat] : \A s \in SUBSET S : g[s] = FoldOf(Plus, f, s, g)
  <2>1. HasFold(Plus, f, S)
    BY <1>1, FoldExists
  <2> QED BY <2>1, Zenon DEF HasFold
<1>3. ASSUME NEW s \in SUBSET S
      PROVE  g[s] = IF s = {} THEN 0 ELSE f[AnyOf(s)] + g[s \ {AnyOf(s)}]
  <2>1. CASE s # {}
    <3>1. f[AnyOf(s)] \in Nat /\ g[s \ {AnyOf(s)}] \in Nat
      BY <2>1, AnyOfIsIn, Smaller
    <3> QED BY <1>1, <1>2, <2>1, <3>1 DEF FoldOf
  <2> QED BY <1>2, <2>1 DEF FoldOf
<1> QED BY <1>3 DEF Sums, HasSums

(* A sum is the number of the things it counts: if each of them belongs to  *)
(* one x, and f[x] of them to x, the sum of f is their number.              *)
LEMMA SumsCount ==
  ASSUME NEW S, IsFiniteSet(S), NEW f, NEW g, Sums(f, S, g),
         NEW A, IsFiniteSet(A), NEW h, \A a \in A : h[a] \in S,
         \A x \in S : f[x] = Cardinality({a \in A : h[a] = x})
  PROVE  g[S] = Cardinality(A)
<1> DEFINE Over(s) == {a \in A : h[a] \in s}
           B == {s \in SUBSET S : g[s] = Cardinality(Over(s))}
<1>1. {} \in B
  <2>1. Over({}) = {} /\ {} \in SUBSET S
    OBVIOUS
  <2> QED BY <2>1, FS_EmptySet DEF Sums
<1>2. ASSUME NEW s \in SUBSET S, s # {}, s \ {AnyOf(s)} \in B PROVE s \in B
  <2> DEFINE x == AnyOf(s)
             r == s \ {x}
             X == {a \in A : h[a] = x}
  <2>1. x \in s /\ x \in S
    BY <1>2, AnyOfIsIn
  <2>2. IsFiniteSet(X) /\ IsFiniteSet(Over(r))
    BY FS_Subset
  <2>3. Over(s) = X \cup Over(r) /\ X \cap Over(r) = {}
    BY <2>1
  <2>4. /\ Cardinality(Over(s)) = Cardinality(X) + Cardinality(Over(r)) - Cardinality(X \cap Over(r))
        /\ Cardinality(X) \in Nat /\ Cardinality(Over(r)) \in Nat
    BY <2>2, <2>3, FS_Union, FS_CardinalityType
  <2>5. Cardinality(X \cap Over(r)) = 0
    BY <2>3, FS_EmptySet
  <2>6. g[s] = f[x] + g[r]
    BY <1>2 DEF Sums
  <2>7. f[x] = Cardinality(X) /\ g[r] = Cardinality(Over(r))
    BY <1>2, <2>1
  <2> QED BY <2>4, <2>5, <2>6, <2>7
<1>3. S \in B
  <2> HIDE DEF B
  <2> QED BY <1>1, <1>2, AllSubsets
<1>4. Over(S) = A
  OBVIOUS
<1> QED BY <1>3, <1>4

(* Things that are finitely many for each of finitely many x.               *)
LEMMA FiniteFibres ==
  ASSUME NEW S, IsFiniteSet(S), NEW A, NEW h, \A a \in A : h[a] \in S,
         \A x \in S : IsFiniteSet({a \in A : h[a] = x})
  PROVE  IsFiniteSet(A)
<1> DEFINE F == [x \in S |-> {a \in A : h[a] = x}]
           T == {F[x] : x \in S}
<1>1. F \in Surjection(S, T)
  BY DEF Surjection
<1>2. IsFiniteSet(T) /\ \A X \in T : IsFiniteSet(X)
  BY <1>1, FS_Surjection
<1>3. UNION T = A
  OBVIOUS
<1> HIDE DEF T
<1>4. IsFiniteSet(UNION T)
  BY <1>2, FS_UNION
<1> QED BY <1>3, <1>4

LEMMA SumFunctionCounts ==
  ASSUME NEW f, IsFiniteSet(DOMAIN f), NEW A, NEW h, \A a \in A : h[a] \in DOMAIN f,
         \A x \in DOMAIN f :
           IsFiniteSet({a \in A : h[a] = x}) /\ f[x] = Cardinality({a \in A : h[a] = x})
  PROVE  IsFiniteSet(A) /\ SumFunction(f) = Cardinality(A)
<1> DEFINE S == DOMAIN f
           g == CHOOSE g : g = [s \in SUBSET S |->
                                  IF s = {} THEN 0 ELSE f[AnyOf(s)] + g[s \ {AnyOf(s)}]]
<1>1. \A x \in S : f[x] \in Nat
  BY FS_CardinalityType
<1>2. g = [s \in SUBSET S |-> IF s = {} THEN 0 ELSE f[AnyOf(s)] + g[s \ {AnyOf(s)}]]
  <2>1. PICK k \in [SUBSET S -> Nat] : Sums(f, S, k)
    BY <1>1, SumsExist DEF HasSums
  <2>2. k = [s \in SUBSET S |-> IF s = {} THEN 0 ELSE f[AnyOf(s)] + k[s \ {AnyOf(s)}]]
    BY <2>1 DEF Sums
  <2> QED BY <2>2, Zenon
<1>3. SumFunction(f) = g[S]
  BY Zenon DEF SumFunction, SumFunctionOnSet, FoldFunctionOnSet, MapThenFoldSet, AnyOf
<1> HIDE DEF g
<1>4. Sums(f, S, g)
  BY <1>2 DEF Sums
<1>5. IsFiniteSet(A)
  BY FiniteFibres
<1> QED BY <1>3, <1>4, <1>5, SumsCount

(* The same, with the parts named.                                          *)
LEMMA SumOfParts ==
  ASSUME NEW f, IsFiniteSet(DOMAIN f), NEW A, NEW h, \A a \in A : h[a] \in DOMAIN f,
         NEW F, \A x \in DOMAIN f : \A a : a \in F[x] <=> (a \in A /\ h[a] = x),
         \A x \in DOMAIN f : IsFiniteSet(F[x]) /\ f[x] = Cardinality(F[x])
  PROVE  IsFiniteSet(A) /\ SumFunction(f) = Cardinality(A)
<1>1. ASSUME NEW x \in DOMAIN f PROVE F[x] = {a \in A : h[a] = x}
  OBVIOUS
<1>2. \A x \in DOMAIN f :
        IsFiniteSet({a \in A : h[a] = x}) /\ f[x] = Cardinality({a \in A : h[a] = x})
  BY <1>1
<1> QED BY <1>2, SumFunctionCounts

-----------------------------------------------------------------------------
(* Bijections between finite sets, from a function and its properties.      *)
LEMMA SameSize ==
  ASSUME NEW S, IsFiniteSet(S), NEW T, NEW f \in [S -> T],
         \A x, y \in S : f[x] = f[y] => x = y,
         \A z \in T : \E x \in S : f[x] = z
  PROVE  IsFiniteSet(T) /\ Cardinality(T) = Cardinality(S)
<1>1. f \in Surjection(S, T) /\ f \in Injection(S, T)
  BY DEF Surjection, Injection, IsInjective
<1> QED BY <1>1, FS_Surjection

-----------------------------------------------------------------------------
(* Some things, finitely many, any two of which a transitive relation       *)
(* ranks: one is ahead of all others.                                       *)
LEMMA Foremost ==
  ASSUME NEW L, IsFiniteSet(L), L # {}, NEW Rel,
         \A x, y \in L : x = y \/ <<x, y>> \in Rel \/ <<y, x>> \in Rel,
         \A x, y, z \in L : <<x, y>> \in Rel /\ <<y, z>> \in Rel => <<x, z>> \in Rel
  PROVE  \E x \in L : \A y \in L : y = x \/ <<x, y>> \in Rel
<1> DEFINE Led(s) == \E x \in s : \A y \in s : y = x \/ <<x, y>> \in Rel
           B == {s \in SUBSET L : s = {} \/ Led(s)}
<1>1. {} \in B
  OBVIOUS
<1>2. ASSUME NEW s \in SUBSET L, s # {}, s \ {AnyOf(s)} \in B PROVE s \in B
  <2> DEFINE a == AnyOf(s)
             r == s \ {a}
  <2>1. a \in s /\ a \in L
    BY <1>2, AnyOfIsIn
  <2> HIDE DEF a
  <2>2. CASE r = {}
    <3>1. \A y \in s : y = a
      BY <2>2
    <3> QED BY <2>1, <3>1
  <2>3. CASE Led(r)
    <3>1. PICK x \in r : \A y \in r : y = x \/ <<x, y>> \in Rel
      BY <2>3
    <3>2. CASE <<x, a>> \in Rel
      BY <2>1, <3>1, <3>2
    <3>3. CASE <<a, x>> \in Rel
      <4>1. \A y \in r : <<a, y>> \in Rel
        BY <2>1, <3>1, <3>3
      <4> QED BY <2>1, <4>1
    <3> QED BY <2>1, <3>1, <3>2, <3>3
  <2> QED BY <1>2, <2>2, <2>3 DEF a
<1>3. L \in B
  <2> HIDE DEF B
  <2> QED BY <1>1, <1>2, AllSubsets
<1> QED BY <1>3
=============================================================================
