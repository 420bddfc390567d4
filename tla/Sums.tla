-------------------------------- MODULE Sums --------------------------------
(***************************************************************************)
(* Sums of functions with a finite domain, as the modules of this project  *)
(* write them: a fold that takes the elements of the domain in an order of *)
(* CHOOSE's.  The lemmas say that the order does not matter.               *)
(*                                                                         *)
(* The library's induction theorems have an operator for a parameter.  The *)
(* induction here is over sets instead: a set of subsets (of numbers) that *)
(* contains what it must contains them all, because a nonempty set of      *)
(* counterexamples would have a minimal one.                               *)
(***************************************************************************)
EXTENDS Integers, FiniteSets, Functions, FiniteSetTheorems, WellFoundedInduction, TLAPS

\* The sum of f's values, and what SizeOf (Galaxy) and Total (Economy) stand for.
Sum(f) == FoldFunction(LAMBDA x, y : x + y, 0, f)

\* The fold computes the sums over all the subsets of the domain S.
Pick(s)        == CHOOSE x \in s : TRUE
Next1(f, g, s) == IF s = {} THEN 0 ELSE f[Pick(s)] + g[s \ {Pick(s)}]
Small(S, n)    == {s \in SUBSET S : Cardinality(s) <= n}
Partial(f, S)  == CHOOSE g : g = [s \in SUBSET S |-> Next1(f, g, s)]

-----------------------------------------------------------------------------
(* Induction.                                                              *)

\* A set of naturals with 0 and every successor holds every natural number.
LEMMA NaturalsClosed ==
  ASSUME NEW T, 0 \in T, \A n \in Nat : n \in T => n + 1 \in T
  PROVE  Nat \subseteq T
  <1> DEFINE B == Nat \ T
             R == OpToRel(<, Nat)
  <1> SUFFICES ASSUME B # {} PROVE FALSE
    OBVIOUS
  <1>1. IsWellFoundedOn(R, Nat)
    BY NatLessThanWellFounded
  <1>2. \A x, y \in Nat : <<x, y>> \in R <=> x < y
    BY DEF OpToRel
  <1>3. B \subseteq Nat
    OBVIOUS
  <1> HIDE DEF R, B
  <1>4. PICK b \in B : \A y \in B : ~ (<<y, b>> \in R)
    BY <1>1, <1>3, WFMin
  <1>5. b \in Nat /\ b # 0 /\ b - 1 \in Nat
    BY DEF B
  <1>6. b - 1 \in T
    <2>1. <<b - 1, b>> \in R
      BY <1>2, <1>5
    <2>2. b - 1 \notin B
      BY <1>4, <2>1
    <2> QED
      BY <1>5, <2>2 DEF B
  <1>7. b - 1 + 1 = b
    BY <1>5
  <1> QED
    BY <1>5, <1>6, <1>7 DEF B

\* A set of sets that holds a subset of S whenever it holds all those with one element
\* less holds every subset of S.
LEMMA SubsetsClosed ==
  ASSUME NEW S, IsFiniteSet(S), NEW F,
         \A s \in SUBSET S : (\A x \in s : s \ {x} \in F) => s \in F
  PROVE  SUBSET S \subseteq F
  <1> DEFINE B == (SUBSET S) \ F
             R == StrictSubsetOrdering(S)
  <1> SUFFICES ASSUME B # {} PROVE FALSE
    OBVIOUS
  <1>1. IsWellFoundedOn(R, SUBSET S)
    <2>1. FiniteSubsetsOf(S) = SUBSET S
      BY FS_FiniteSubsetsOfFinite
    <2>2. IsWellFoundedOn(StrictSubsetOrdering(S), FiniteSubsetsOf(S))
      BY FS_StrictSubsetOrderingWellFounded
    <2> QED
      BY <2>1, <2>2
  <1>2. \A s, t \in SUBSET S : s \subseteq t /\ s # t => <<s, t>> \in R
    BY DEF StrictSubsetOrdering
  <1>3. B \subseteq SUBSET S
    OBVIOUS
  <1> HIDE DEF R, B
  <1>4. PICK b \in B : \A s \in B : ~ (<<s, b>> \in R)
    BY <1>1, <1>3, WFMin
  <1>5. b \in SUBSET S /\ b \notin F
    BY DEF B
  <1>6. \A x \in b : b \ {x} \in F
    <2> SUFFICES ASSUME NEW x \in b, b \ {x} \notin F PROVE FALSE
      OBVIOUS
    <2>1. b \ {x} \in SUBSET S /\ b \ {x} \subseteq b /\ b \ {x} # b
      BY <1>5
    <2>2. b \ {x} \in B
      BY <2>1 DEF B
    <2> QED
      BY <1>2, <1>4, <1>5, <2>1, <2>2
  <1> QED
    BY <1>5, <1>6

-----------------------------------------------------------------------------
(* The sums over the subsets of a finite set are well defined.             *)

\* An element is picked from every set that has one.
LEMMA PickIn == ASSUME NEW s, s # {} PROVE Pick(s) \in s
  BY DEF Pick

\* There are such sums for the subsets of at most n elements, for every n.
LEMMA PartialUpTo ==
  ASSUME NEW f, NEW S, IsFiniteSet(S), NEW n \in Nat
  PROVE  \E g : g = [s \in Small(S, n) |-> Next1(f, g, s)]
  <1> DEFINE U(k) == Small(S, k)
             T == {k \in Nat : \E g : g = [s \in U(k) |-> Next1(f, g, s)]}
  <1>0. \A s \in SUBSET S : IsFiniteSet(s) /\ Cardinality(s) \in Nat
    BY FS_Subset, FS_CardinalityType
  <1>1. 0 \in T
    <2>1. U(0) = {{}}
      <3>1. \A s \in SUBSET S : Cardinality(s) <= 0 => s = {}
        BY <1>0, FS_EmptySet
      <3>2. {} \in SUBSET S /\ Cardinality({}) <= 0
        BY FS_EmptySet
      <3> QED
        BY <3>1, <3>2 DEF Small
    <2> DEFINE g == [s \in U(0) |-> 0]
    <2>2. \A s \in U(0) : Next1(f, g, s) = 0
      BY <2>1 DEF Next1
    <2>3. g = [s \in U(0) |-> Next1(f, g, s)]
      BY <2>2
    <2> QED
      BY <2>3
  <1>2. ASSUME NEW k \in Nat, k \in T PROVE k + 1 \in T
    <2>1. PICK g : g = [s \in U(k) |-> Next1(f, g, s)]
      BY <1>2
    <2> DEFINE h == [s \in U(k + 1) |-> Next1(f, g, s)]
    <2>2. \A s \in U(k + 1) : s # {} => s \ {Pick(s)} \in U(k)
      <3> SUFFICES ASSUME NEW s \in U(k + 1), s # {} PROVE s \ {Pick(s)} \in U(k)
        OBVIOUS
      <3>1. Pick(s) \in s /\ s \in SUBSET S /\ Cardinality(s) <= k + 1
        BY PickIn DEF Small
      <3>2. Cardinality(s \ {Pick(s)}) = Cardinality(s) - 1
        BY <1>0, <3>1, FS_RemoveElement
      <3> QED
        BY <1>0, <3>2 DEF Small
    <2>3. U(k) \subseteq U(k + 1)
      BY <1>0 DEF Small
    <2>4. \A s \in U(k) : h[s] = g[s]
      <3>1. \A s \in U(k) : h[s] = Next1(f, g, s)
        BY <2>3
      <3>2. \A s \in U(k) : g[s] = Next1(f, g, s)
        BY <2>1
      <3> QED
        BY <3>1, <3>2
    <2>5. \A s \in U(k + 1) : Next1(f, g, s) = Next1(f, h, s)
      BY <2>2, <2>4 DEF Next1
    <2>6. h = [s \in U(k + 1) |-> Next1(f, h, s)]
      BY <2>5
    <2> HIDE DEF h
    <2>7. \E e : e = [s \in U(k + 1) |-> Next1(f, e, s)]
      BY <2>6
    <2>8. k + 1 \in Nat
      OBVIOUS
    <2> QED
      BY <2>7, <2>8
  <1>3. Nat \subseteq T
    <2> HIDE DEF T
    <2> QED
      BY <1>1, <1>2, NaturalsClosed
  <1> QED
    BY <1>3

\* The sum over a nonempty subset is the sum over the rest and one value.
LEMMA PartialDef ==
  ASSUME NEW f, NEW S, IsFiniteSet(S)
  PROVE  \A s \in SUBSET S : Partial(f, S)[s] = Next1(f, Partial(f, S), s)
  <1> DEFINE n == Cardinality(S)
             U == Small(S, n)
  <1>1. n \in Nat
    BY FS_CardinalityType
  <1>2. U = SUBSET S
    BY FS_Subset DEF Small
  <1>3. \E g : g = [s \in U |-> Next1(f, g, s)]
    <2> HIDE DEF n
    <2> QED
      BY <1>1, PartialUpTo
  <1>4. \E g : g = [s \in SUBSET S |-> Next1(f, g, s)]
    BY <1>2, <1>3
  <1>5. Partial(f, S) = [s \in SUBSET S |-> Next1(f, Partial(f, S), s)]
    BY <1>4 DEF Partial
  <1> QED
    BY <1>5

\* The sum over no elements is 0.
LEMMA PartialEmpty ==
  ASSUME NEW f, NEW S, IsFiniteSet(S)
  PROVE  Partial(f, S)[{}] = 0
  BY PartialDef DEF Next1

\* The sums of natural numbers are natural numbers.
LEMMA PartialType ==
  ASSUME NEW S, IsFiniteSet(S), NEW f \in [S -> Nat]
  PROVE  \A s \in SUBSET S : Partial(f, S)[s] \in Nat
  <1> DEFINE F == {s \in SUBSET S : Partial(f, S)[s] \in Nat}
  <1>1. ASSUME NEW s \in SUBSET S, \A x \in s : s \ {x} \in F
        PROVE  s \in F
    <2>1. CASE s = {}
      BY <2>1, PartialEmpty
    <2>2. CASE s # {}
      <3>1. Pick(s) \in s
        BY <2>2, PickIn
      <3>2. Partial(f, S)[s] = f[Pick(s)] + Partial(f, S)[s \ {Pick(s)}]
        BY <2>2, PartialDef DEF Next1
      <3>3. Partial(f, S)[s \ {Pick(s)}] \in Nat /\ f[Pick(s)] \in Nat
        BY <1>1, <3>1
      <3> QED
        BY <3>2, <3>3
    <2> QED
      BY <2>1, <2>2
  <1>2. SUBSET S \subseteq F
    <2> HIDE DEF F
    <2> QED
      BY <1>1, SubsetsClosed
  <1> QED
    BY <1>2

\* It may be any element that is taken first.
LEMMA PartialTakes ==
  ASSUME NEW S, IsFiniteSet(S), NEW f \in [S -> Nat]
  PROVE  \A s \in SUBSET S : \A x \in s : Partial(f, S)[s] = f[x] + Partial(f, S)[s \ {x}]
  <1> DEFINE P == Partial(f, S)
             F == {s \in SUBSET S : \A x \in s : P[s] = f[x] + P[s \ {x}]}
  <1>0. \A s \in SUBSET S : P[s] \in Nat
    BY PartialType
  <1>1. ASSUME NEW s \in SUBSET S, \A x \in s : s \ {x} \in F
        PROVE  s \in F
    <2> SUFFICES ASSUME NEW x \in s PROVE P[s] = f[x] + P[s \ {x}]
      OBVIOUS
    <2> DEFINE c == Pick(s)
               r == s \ {x, c}
    <2>1. c \in s
      BY PickIn
    <2>2. P[s] = f[c] + P[s \ {c}]
      BY PartialDef DEF Next1
    <2>3. CASE x = c
      BY <2>2, <2>3
    <2>4. CASE x # c
      <3>1. (s \ {c}) \ {x} = r /\ (s \ {x}) \ {c} = r
        OBVIOUS
      <3>2. s \ {c} \in F /\ s \ {x} \in F
        BY <1>1, <2>1
      <3>3. P[s \ {c}] = f[x] + P[r]
        BY <2>4, <3>1, <3>2
      <3>4. P[s \ {x}] = f[c] + P[r]
        BY <2>1, <2>4, <3>1, <3>2
      <3>5. f[x] \in Nat /\ f[c] \in Nat /\ P[r] \in Nat
        BY <1>0, <2>1
      <3> HIDE DEF P, c, r
      <3> QED
        BY <2>2, <3>3, <3>4, <3>5
    <2> QED
      BY <2>3, <2>4
  <1>2. SUBSET S \subseteq F
    <2> HIDE DEF F
    <2> QED
      BY <1>1, SubsetsClosed
  <1> QED
    BY <1>2

\* The sum over a subset depends on nothing outside it.
LEMMA PartialLocal ==
  ASSUME NEW S, IsFiniteSet(S), NEW f \in [S -> Nat],
         NEW T, IsFiniteSet(T), NEW h \in [T -> Nat],
         NEW A, A \subseteq S \cap T, \A x \in A : f[x] = h[x]
  PROVE  Partial(f, S)[A] = Partial(h, T)[A]
  <1> DEFINE F == {s \in SUBSET A : Partial(f, S)[s] = Partial(h, T)[s]}
  <1>1. ASSUME NEW s \in SUBSET A, \A x \in s : s \ {x} \in F
        PROVE  s \in F
    <2>1. CASE s = {}
      BY <2>1, PartialEmpty
    <2>2. CASE s # {}
      <3>1. Pick(s) \in s
        BY <2>2, PickIn
      <3>2. /\ Partial(f, S)[s] = f[Pick(s)] + Partial(f, S)[s \ {Pick(s)}]
            /\ Partial(h, T)[s] = h[Pick(s)] + Partial(h, T)[s \ {Pick(s)}]
        BY <2>2, PartialDef DEF Next1
      <3> QED
        BY <1>1, <3>1, <3>2
    <2> QED
      BY <2>1, <2>2
  <1>2. IsFiniteSet(A)
    BY FS_Subset
  <1>3. SUBSET A \subseteq F
    <2> HIDE DEF F
    <2> QED
      BY <1>1, <1>2, SubsetsClosed
  <1> QED
    BY <1>3

-----------------------------------------------------------------------------
(* Sums.                                                                   *)

\* The fold of the community modules is the sum over the whole domain.
LEMMA SumIsPartial ==
  ASSUME NEW f
  PROVE  Sum(f) = Partial(f, DOMAIN f)[DOMAIN f]
  BY DEF Sum, FoldFunction, FoldFunctionOnSet, MapThenFoldSet, Partial, Next1, Pick

\* A sum of natural numbers is a natural number.
LEMMA SumNat ==
  ASSUME NEW S, IsFiniteSet(S), NEW f \in [S -> Nat]
  PROVE  Sum(f) \in Nat
  BY SumIsPartial, PartialType

\* One element is taken out of a sum.
LEMMA SumTakes ==
  ASSUME NEW S, IsFiniteSet(S), NEW f \in [S -> Nat], NEW x \in S
  PROVE  Sum(f) = f[x] + Sum([y \in S \ {x} |-> f[y]])
  <1> DEFINE R == S \ {x}
             h == [y \in R |-> f[y]]
  <1>1. IsFiniteSet(R)
    BY FS_RemoveElement
  <1>2. Partial(f, S)[R] = Partial(h, R)[R]
    <2>1. h \in [R -> Nat] /\ R \subseteq S \cap R /\ \A y \in R : f[y] = h[y]
      OBVIOUS
    <2> HIDE DEF h, R
    <2> QED
      BY <1>1, <2>1, PartialLocal
  <1>3. Partial(f, S)[S] = f[x] + Partial(f, S)[R]
    BY PartialTakes
  <1>4. DOMAIN f = S /\ DOMAIN h = R
    OBVIOUS
  <1> HIDE DEF h
  <1> QED
    BY <1>2, <1>3, <1>4, SumIsPartial DEF h

\* A sum of zeros is zero; a sum that is zero has no other terms.
LEMMA SumZero ==
  ASSUME NEW S, IsFiniteSet(S), NEW f \in [S -> Nat]
  PROVE  Sum(f) = 0 <=> \A x \in S : f[x] = 0
  <1>1. ASSUME \A x \in S : f[x] = 0 PROVE Sum(f) = 0
    <2> DEFINE F == {s \in SUBSET S : Partial(f, S)[s] = 0}
    <2>1. ASSUME NEW s \in SUBSET S, \A x \in s : s \ {x} \in F
          PROVE  s \in F
      <3>1. CASE s = {}
        BY <3>1, PartialEmpty
      <3>2. CASE s # {}
        <4>1. Pick(s) \in s
          BY <3>2, PickIn
        <4>2. Partial(f, S)[s] = f[Pick(s)] + Partial(f, S)[s \ {Pick(s)}]
          BY <3>2, PartialDef DEF Next1
        <4> QED
          BY <1>1, <2>1, <4>1, <4>2
      <3> QED
        BY <3>1, <3>2
    <2>2. SUBSET S \subseteq F
      <3> HIDE DEF F
      <3> QED
        BY <2>1, SubsetsClosed
    <2> QED
      BY <2>2, SumIsPartial
  <1>2. ASSUME NEW x \in S, Sum(f) = 0 PROVE f[x] = 0
    <2> DEFINE h == [y \in S \ {x} |-> f[y]]
    <2>1. Sum(f) = f[x] + Sum(h)
      BY SumTakes
    <2>2. h \in [S \ {x} -> Nat] /\ IsFiniteSet(S \ {x})
      BY FS_RemoveElement
    <2> HIDE DEF h
    <2>3. Sum(h) \in Nat /\ f[x] \in Nat
      BY <2>2, SumNat
    <2> QED
      BY <1>2, <2>1, <2>3
  <1> QED
    BY <1>1, <1>2

\* Sums are added term by term.
LEMMA SumAdds ==
  ASSUME NEW S, IsFiniteSet(S), NEW f \in [S -> Nat], NEW g \in [S -> Nat]
  PROVE  Sum([x \in S |-> f[x] + g[x]]) = Sum(f) + Sum(g)
  <1> DEFINE h == [x \in S |-> f[x] + g[x]]
             F == {s \in SUBSET S :
                     Partial(h, S)[s] = Partial(f, S)[s] + Partial(g, S)[s]}
  <1>0. h \in [S -> Nat] /\ \A x \in S : h[x] = f[x] + g[x]
    OBVIOUS
  <1> HIDE DEF h
  <1>1. ASSUME NEW s \in SUBSET S, \A x \in s : s \ {x} \in F
        PROVE  s \in F
    <2>1. CASE s = {}
      BY <2>1, PartialEmpty
    <2>2. CASE s # {}
      <3> DEFINE c == Pick(s)
                 r == s \ {c}
      <3>1. c \in s
        BY <2>2, PickIn
      <3>2. /\ Partial(f, S)[s] = f[c] + Partial(f, S)[r]
            /\ Partial(g, S)[s] = g[c] + Partial(g, S)[r]
            /\ Partial(h, S)[s] = h[c] + Partial(h, S)[r]
        BY <2>2, PartialDef DEF Next1
      <3>3. Partial(h, S)[r] = Partial(f, S)[r] + Partial(g, S)[r]
        BY <1>1, <3>1
      <3>4. Partial(f, S)[r] \in Nat /\ Partial(g, S)[r] \in Nat
        BY PartialType
      <3>5. f[c] \in Nat /\ g[c] \in Nat /\ h[c] = f[c] + g[c]
        BY <1>0, <3>1
      <3> HIDE DEF c, r
      <3> QED
        BY <3>2, <3>3, <3>4, <3>5
    <2> QED
      BY <2>1, <2>2
  <1>2. SUBSET S \subseteq F
    <2> HIDE DEF F
    <2> QED
      BY <1>1, SubsetsClosed
  <1>3. DOMAIN h = S /\ DOMAIN f = S /\ DOMAIN g = S
    BY <1>0
  <1> QED
    BY <1>2, <1>3, SumIsPartial DEF h

\* A sum grows with its terms.
LEMMA SumMonotone ==
  ASSUME NEW S, IsFiniteSet(S), NEW f \in [S -> Nat], NEW g \in [S -> Nat],
         \A x \in S : f[x] <= g[x]
  PROVE  Sum(f) <= Sum(g)
  <1> DEFINE d == [x \in S |-> g[x] - f[x]]
  <1>1. d \in [S -> Nat] /\ \A x \in S : f[x] + d[x] = g[x]
    OBVIOUS
  <1>2. g = [x \in S |-> f[x] + d[x]]
    BY <1>1
  <1> HIDE DEF d
  <1>3. Sum(g) = Sum(f) + Sum(d)
    BY <1>1, <1>2, SumAdds
  <1>4. Sum(f) \in Nat /\ Sum(d) \in Nat
    BY <1>1, SumNat
  <1> QED
    BY <1>3, <1>4

\* Changing one term changes the sum by as much.
LEMMA SumExcept ==
  ASSUME NEW S, IsFiniteSet(S), NEW f \in [S -> Nat], NEW x \in S, NEW v \in Nat
  PROVE  Sum([f EXCEPT ![x] = v]) = Sum(f) - f[x] + v
  <1> DEFINE g == [f EXCEPT ![x] = v]
             h == [y \in S \ {x} |-> f[y]]
  <1>1. g \in [S -> Nat] /\ g[x] = v /\ h = [y \in S \ {x} |-> g[y]]
    OBVIOUS
  <1>2. h \in [S \ {x} -> Nat] /\ IsFiniteSet(S \ {x})
    BY FS_RemoveElement
  <1> HIDE DEF g
  <1>3. Sum(f) = f[x] + Sum(h)
    BY SumTakes
  <1> HIDE DEF h
  <1>4. Sum(g) = v + Sum(h)
    BY <1>1, SumTakes
  <1>5. Sum(h) \in Nat /\ f[x] \in Nat
    BY <1>2, SumNat
  <1> QED
    BY <1>3, <1>4, <1>5 DEF g

\* Fewer terms do not make a larger sum.
LEMMA PartialGrows ==
  ASSUME NEW S, IsFiniteSet(S), NEW f \in [S -> Nat]
  PROVE  \A s \in SUBSET S : \A u \in SUBSET s : Partial(f, S)[u] <= Partial(f, S)[s]
  <1> DEFINE P == Partial(f, S)
             F == {s \in SUBSET S : \A u \in SUBSET s : P[u] <= P[s]}
  <1>0. \A s \in SUBSET S : P[s] \in Nat
    BY PartialType
  <1>1. ASSUME NEW s \in SUBSET S, \A x \in s : s \ {x} \in F
        PROVE  s \in F
    <2> SUFFICES ASSUME NEW u \in SUBSET s PROVE P[u] <= P[s]
      OBVIOUS
    <2>1. CASE u = s
      BY <1>0, <2>1
    <2>2. CASE u # s
      <3>1. PICK x \in s : x \notin u
        BY <2>2
      <3>2. u \in SUBSET (s \ {x}) /\ s \ {x} \in F
        BY <1>1, <3>1
      <3>3. P[u] <= P[s \ {x}]
        BY <3>2
      <3>4. P[s] = f[x] + P[s \ {x}]
        BY PartialTakes
      <3>5. P[u] \in Nat /\ P[s \ {x}] \in Nat /\ f[x] \in Nat
        BY <1>0
      <3> HIDE DEF P
      <3> QED
        BY <3>3, <3>4, <3>5
    <2> QED
      BY <2>1, <2>2
  <1>2. SUBSET S \subseteq F
    <2> HIDE DEF F
    <2> QED
      BY <1>1, SubsetsClosed
  <1> QED
    BY <1>2

\* A sum of no more terms, none of them larger, is not larger.
LEMMA SumShrinks ==
  ASSUME NEW S, IsFiniteSet(S), NEW f \in [S -> Nat],
         NEW T \in SUBSET S, NEW g \in [T -> Nat], \A x \in T : g[x] <= f[x]
  PROVE  Sum(g) <= Sum(f)
  <1> DEFINE h == [x \in T |-> f[x]]
  <1>1. IsFiniteSet(T)
    BY FS_Subset
  <1>2. h \in [T -> Nat] /\ \A x \in T : g[x] <= h[x] /\ f[x] = h[x]
    OBVIOUS
  <1> HIDE DEF h
  <1>3. Sum(g) <= Sum(h)
    BY <1>1, <1>2, SumMonotone
  <1>4. Partial(f, S)[T] = Partial(h, T)[T]
    BY <1>1, <1>2, PartialLocal
  <1>5. Partial(f, S)[T] <= Partial(f, S)[S]
    BY PartialGrows
  <1>6. Sum(h) <= Sum(f)
    BY <1>2, <1>4, <1>5, SumIsPartial
  <1>7. Sum(f) \in Nat /\ Sum(g) \in Nat /\ Sum(h) \in Nat
    BY <1>1, <1>2, SumNat
  <1> QED
    BY <1>3, <1>6, <1>7

\* One term grows by v, the others do not.
LEMMA SumGrowsBy ==
  ASSUME NEW S, IsFiniteSet(S), NEW f \in [S -> Nat],
         NEW T \in SUBSET S, NEW g \in [T -> Nat], NEW x \in T, NEW v \in Nat,
         g[x] <= f[x] + v, \A z \in T \ {x} : g[z] <= f[z]
  PROVE  Sum(g) <= Sum(f) + v
  <1> DEFINE f1 == [z \in S \ {x} |-> f[z]]
             g1 == [z \in T \ {x} |-> g[z]]
  <1>1. IsFiniteSet(T) /\ IsFiniteSet(S \ {x}) /\ IsFiniteSet(T \ {x})
    BY FS_Subset, FS_RemoveElement
  <1>2. Sum(f) = f[x] + Sum(f1) /\ Sum(g) = g[x] + Sum(g1)
    BY <1>1, SumTakes
  <1>3. /\ f1 \in [S \ {x} -> Nat] /\ g1 \in [T \ {x} -> Nat]
        /\ T \ {x} \in SUBSET (S \ {x})
        /\ \A z \in T \ {x} : g1[z] <= f1[z]
    OBVIOUS
  <1> HIDE DEF f1, g1
  <1>4. Sum(g1) <= Sum(f1)
    BY <1>1, <1>3, SumShrinks
  <1>5. Sum(f1) \in Nat /\ Sum(g1) \in Nat /\ f[x] \in Nat /\ g[x] \in Nat
    BY <1>1, <1>3, SumNat
  <1> QED
    BY <1>2, <1>4, <1>5

\* What y had goes to x, or part of it; y may leave the sum.
LEMMA SumMoves ==
  ASSUME NEW S, IsFiniteSet(S), NEW f \in [S -> Nat],
         NEW T \in SUBSET S, NEW g \in [T -> Nat], NEW x \in T, NEW y \in S \ {x},
         y \in T => g[y] = 0,
         g[x] <= f[x] + f[y], \A z \in T \ {x, y} : g[z] <= f[z]
  PROVE  Sum(g) <= Sum(f)
  <1> DEFINE f1 == [z \in S \ {y} |-> f[z]]
             g1 == [z \in T \ {y} |-> g[z]]
  <1>1. IsFiniteSet(T) /\ IsFiniteSet(S \ {y}) /\ IsFiniteSet(T \ {y})
    BY FS_Subset, FS_RemoveElement
  <1>2. Sum(f) = f[y] + Sum(f1)
    BY SumTakes
  <1>3. /\ f1 \in [S \ {y} -> Nat] /\ g1 \in [T \ {y} -> Nat]
        /\ T \ {y} \in SUBSET (S \ {y}) /\ x \in T \ {y} /\ f[y] \in Nat
        /\ g1[x] <= f1[x] + f[y]
        /\ \A z \in (T \ {y}) \ {x} : g1[z] <= f1[z]
    OBVIOUS
  <1>4. Sum(g) = Sum(g1)
    <2>1. CASE y \in T
      <3>1. Sum(g) = g[y] + Sum(g1)
        BY <1>1, <2>1, SumTakes
      <3>2. Sum(g1) \in Nat
        <4> HIDE DEF g1
        <4> QED
          BY <1>1, <1>3, SumNat
      <3> QED
        BY <2>1, <3>1, <3>2
    <2>2. CASE y \notin T
      <3>1. g = g1
        BY <2>2
      <3> QED
        BY <3>1
    <2> QED
      BY <2>1, <2>2
  <1> HIDE DEF f1, g1
  <1>5. Sum(g1) <= Sum(f1) + f[y]
    BY <1>1, <1>3, SumGrowsBy
  <1>6. Sum(f1) \in Nat
    BY <1>1, <1>3, SumNat
  <1> QED
    BY <1>2, <1>3, <1>4, <1>5, <1>6
=============================================================================
