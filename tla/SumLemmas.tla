------------------------------ MODULE SumLemmas ------------------------------
(***************************************************************************)
(* Facts about the sum of a function over a finite set, which the money of *)
(* module Pot is computed with: MapThenSumSet of the community modules.    *)
(* Its folds are recursive functions, so what it returns follows by an     *)
(* induction over the finite subsets of a set; the predicate the induction *)
(* is about is given as a set of subsets.                                  *)
(***************************************************************************)
EXTENDS Integers, FiniteSetsExt, FiniteSetTheorems, TLAPS

(* Induction over the subsets of a finite set, by the well-founded order   *)
(* of strict inclusion: a set of subsets that contains each one whose      *)
(* strict subsets it contains contains them all.                           *)
LEMMA SubsetInduction ==
    ASSUME NEW S, IsFiniteSet(S), NEW Good,
           \A T \in SUBSET S : (\A U \in SUBSET T : U # T => U \in Good) => T \in Good
    PROVE  \A T \in SUBSET S : T \in Good
<1> DEFINE Bad == {T \in FiniteSubsetsOf(S) : T \notin Good}
<1> SUFFICES ASSUME Bad # {} PROVE FALSE
  BY FS_FiniteSubsetsOfFinite
<1>1. PICK T \in Bad : \A U \in Bad : <<U, T>> \notin StrictSubsetOrdering(S)
  <2>1. Bad \subseteq FiniteSubsetsOf(S)
    OBVIOUS
  <2> HIDE DEF Bad
  <2> QED BY <2>1, FS_StrictSubsetOrderingWellFounded, WFMin
<1>2. T \in SUBSET S /\ T \notin Good
  BY DEF FiniteSubsetsOf
<1>3. ASSUME NEW U \in SUBSET T, U # T PROVE U \in Good
  <2>1. U \notin Bad
    BY <1>1, <1>2, <1>3 DEF StrictSubsetOrdering
  <2> QED BY <1>2, <2>1, FS_Subset DEF FiniteSubsetsOf
<1> QED BY <1>2, <1>3

(* The element the folds take next.                                        *)
Pick(s) == CHOOSE x \in s : TRUE

(* The subsets the recursion has reached after n rounds.                   *)
Upto(S, n) == {s \in SUBSET S : Cardinality(s) <= n}

(* f gives each subset of S its sum of g, by the recursion of the folds.   *)
IsSums(f, g, S) ==
    f = [s \in SUBSET S |-> IF s = {} THEN 0 ELSE g[Pick(s)] + f[s \ {Pick(s)}]]

(* The function the fold over S chooses.                                   *)
Sums(g, S) == CHOOSE f : IsSums(f, g, S)

(* There is such a function: built one size of subset after another.       *)
LEMMA SumsOfSize ==
    ASSUME NEW g, NEW S, IsFiniteSet(S)
    PROVE  \E f : IsSums(f, g, S)
<1> DEFINE Good == {U \in SUBSET S : \E f : f = [s \in Upto(S, Cardinality(U)) |->
                        IF s = {} THEN 0 ELSE g[Pick(s)] + f[s \ {Pick(s)}]]}
<1>1. \A s \in SUBSET S : /\ IsFiniteSet(s) /\ Cardinality(s) \in Nat
                          /\ Cardinality(s) <= Cardinality(S)
                          /\ s = {} <=> Cardinality(s) = 0
                          /\ s # {} => /\ Pick(s) \in s
                                       /\ Cardinality(s \ {Pick(s)}) = Cardinality(s) - 1
  BY FS_Subset, FS_CardinalityType, FS_EmptySet, FS_RemoveElement DEF Pick
<1>2. ASSUME NEW T \in SUBSET S, \A U \in SUBSET T : U # T => U \in Good PROVE T \in Good
  <2>1. CASE T = {}
    <3> DEFINE f == [s \in Upto(S, 0) |-> 0]
    <3>1. \A s \in Upto(S, 0) : s = {}
      <4> SUFFICES ASSUME NEW s \in SUBSET S, Cardinality(s) <= 0 PROVE s = {}
        BY DEF Upto
      <4>1. Cardinality(s) \in Nat /\ (s = {} <=> Cardinality(s) = 0)
        BY <1>1
      <4> QED BY <4>1
    <3>2. f = [s \in Upto(S, 0) |-> IF s = {} THEN 0 ELSE g[Pick(s)] + f[s \ {Pick(s)}]]
      BY <3>1
    <3> HIDE DEF f
    <3> QED BY <2>1, <3>2, FS_EmptySet
  <2>2. CASE T # {}
    <3> DEFINE U == T \ {Pick(T)}
               n == Cardinality(U)
    <3>1. U \in SUBSET T /\ U # T /\ Cardinality(T) = n + 1 /\ n \in Nat
      BY <1>1, <2>2
    <3> HIDE DEF U
    <3>2. PICK f : f = [s \in Upto(S, n) |-> IF s = {} THEN 0 ELSE g[Pick(s)] + f[s \ {Pick(s)}]]
      BY <1>2, <3>1
    <3> DEFINE h == [s \in Upto(S, n + 1) |-> IF s = {} THEN 0 ELSE g[Pick(s)] + f[s \ {Pick(s)}]]
    <3> HIDE DEF n
    <3>3. ASSUME NEW s \in Upto(S, n + 1), s # {} PROVE h[s \ {Pick(s)}] = f[s \ {Pick(s)}]
      <4> DEFINE r == s \ {Pick(s)}
      <4>1. r \in Upto(S, n) /\ r \in Upto(S, n + 1)
        BY <1>1, <3>1, <3>3 DEF Upto
      <4>2. f[r] = IF r = {} THEN 0 ELSE g[Pick(r)] + f[r \ {Pick(r)}]
        BY <3>2, <4>1
      <4> HIDE DEF r
      <4> QED BY <4>1, <4>2 DEF r
    <3>4. h = [s \in Upto(S, n + 1) |-> IF s = {} THEN 0 ELSE g[Pick(s)] + h[s \ {Pick(s)}]]
      BY <3>3
    <3> HIDE DEF h
    <3> QED BY <3>1, <3>4
  <2> QED BY <2>1, <2>2
<1> HIDE DEF Good
<1>3. S \in Good
  BY <1>2, SubsetInduction
<1>4. Upto(S, Cardinality(S)) = SUBSET S
  BY <1>1 DEF Upto
<1> QED BY <1>3, <1>4 DEF Good, IsSums

(* So the chosen function satisfies its own recursion.                     *)
LEMMA SumsExpand ==
    ASSUME NEW g, NEW S, IsFiniteSet(S), NEW s \in SUBSET S
    PROVE  Sums(g, S)[s] = IF s = {} THEN 0 ELSE g[Pick(s)] + Sums(g, S)[s \ {Pick(s)}]
<1>1. IsSums(Sums(g, S), g, S)
  BY SumsOfSize DEF Sums
<1> HIDE DEF Sums
<1> QED BY <1>1 DEF IsSums

(* The sum of g over S, as module Pot computes it.                         *)
Sum(g, S) == MapThenSumSet(LAMBDA x : g[x], S)

(* The functions chosen for two sets agree on their common subsets.        *)
LEMMA SumsAgree ==
    ASSUME NEW g, NEW S, IsFiniteSet(S), NEW T \in SUBSET S
    PROVE  Sums(g, S)[T] = Sum(g, T)
<1> DEFINE Good == {U \in SUBSET T : Sums(g, S)[U] = Sums(g, T)[U]}
<1>1. IsFiniteSet(T)
  BY FS_Subset
<1>2. ASSUME NEW U \in SUBSET T, \A V \in SUBSET U : V # U => V \in Good PROVE U \in Good
  <2>1. CASE U = {}
    BY <1>1, <2>1, SumsExpand
  <2>2. CASE U # {}
    <3>1. Pick(U) \in U
      BY <2>2 DEF Pick
    <3>2. U \ {Pick(U)} \in Good
      BY <1>2, <3>1
    <3> QED BY <1>1, <3>1, <3>2, <2>2, SumsExpand
  <2> QED BY <2>1, <2>2
<1>3. T \in Good
  <2> HIDE DEF Good
  <2> QED BY <1>1, <1>2, SubsetInduction
<1>4. Sum(g, T) = Sums(g, T)[T]
  BY DEF Sum, MapThenSumSet, MapThenFoldSet, Sums, IsSums, Pick
<1> QED BY <1>3, <1>4

(* Nothing sums to 0.                                                      *)
LEMMA SumEmpty == ASSUME NEW g PROVE Sum(g, {}) = 0
<1>1. IsFiniteSet({}) /\ {} \in SUBSET {}
  BY FS_EmptySet
<1>2. Sums(g, {})[{}] = Sum(g, {})
  BY <1>1, SumsAgree
<1> QED BY <1>1, <1>2, SumsExpand

(* A sum takes the picked element and the sum of the others.               *)
LEMMA SumPicks ==
    ASSUME NEW g, NEW S, IsFiniteSet(S), S # {}
    PROVE  Pick(S) \in S /\ Sum(g, S) = g[Pick(S)] + Sum(g, S \ {Pick(S)})
<1>1. Pick(S) \in S
  BY DEF Pick
<1>2. S \ {Pick(S)} \in SUBSET S /\ S \in SUBSET S
  OBVIOUS
<1>3. Sums(g, S)[S] = Sum(g, S) /\ Sums(g, S)[S \ {Pick(S)}] = Sum(g, S \ {Pick(S)})
  BY <1>2, SumsAgree
<1>4. Sums(g, S)[S] = g[Pick(S)] + Sums(g, S)[S \ {Pick(S)}]
  BY <1>2, SumsExpand
<1> QED BY <1>1, <1>3, <1>4

(* A sum of integers is an integer, and any element may be taken out       *)
(* first: the order of the fold does not show.                             *)
LEMMA SumRemoves ==
    ASSUME NEW g, NEW S, IsFiniteSet(S), \A x \in S : g[x] \in Int
    PROVE  /\ Sum(g, S) \in Int
           /\ \A x \in S : Sum(g, S) = g[x] + Sum(g, S \ {x})
<1> DEFINE Good == {T \in SUBSET S : /\ Sum(g, T) \in Int
                                     /\ \A x \in T : Sum(g, T) = g[x] + Sum(g, T \ {x})}
<1>1. ASSUME NEW T \in SUBSET S, \A U \in SUBSET T : U # T => U \in Good PROVE T \in Good
  <2>0. IsFiniteSet(T)
    BY FS_Subset
  <2>1. CASE T = {}
    BY <2>1, SumEmpty
  <2>2. CASE T # {}
    <3> DEFINE y == Pick(T)
    <3>1. y \in T /\ Sum(g, T) = g[y] + Sum(g, T \ {y})
      BY <2>0, <2>2, SumPicks
    <3>2. T \ {y} \in Good
      BY <1>1, <3>1
    <3>3. Sum(g, T) \in Int
      BY <3>1, <3>2
    <3>4. ASSUME NEW x \in T, x # y PROVE Sum(g, T) = g[x] + Sum(g, T \ {x})
      <4>1. Sum(g, T \ {y}) = g[x] + Sum(g, (T \ {y}) \ {x})
        BY <3>2, <3>4
      <4>2. T \ {x} \in Good /\ T \ {x, y} \in Good
        BY <1>1, <3>1, <3>4
      <4>3. Sum(g, T \ {x}) = g[y] + Sum(g, (T \ {x}) \ {y})
        BY <3>1, <3>4, <4>2
      <4>4. (T \ {x}) \ {y} = T \ {x, y} /\ (T \ {y}) \ {x} = T \ {x, y}
        OBVIOUS
      <4> HIDE DEF y
      <4>5. g[x] \in Int /\ g[y] \in Int /\ Sum(g, T \ {x, y}) \in Int
        BY <3>1, <4>2
      <4>6. /\ Sum(g, T) = g[y] + (g[x] + Sum(g, T \ {x, y}))
            /\ Sum(g, T \ {x}) = g[y] + Sum(g, T \ {x, y})
        BY <3>1, <4>1, <4>3, <4>4
      <4> QED BY <4>5, <4>6
    <3> QED BY <3>1, <3>3, <3>4
  <2> QED BY <2>1, <2>2
<1> HIDE DEF Good
<1>2. S \in Good
  BY <1>1, SubsetInduction
<1> QED BY <1>2 DEF Good

(* Functions that agree on a set have one sum over it.                     *)
LEMMA SumEqual ==
    ASSUME NEW f, NEW g, NEW S, IsFiniteSet(S),
           \A x \in S : f[x] \in Int /\ f[x] = g[x]
    PROVE  Sum(f, S) = Sum(g, S)
<1> DEFINE Good == {T \in SUBSET S : Sum(f, T) = Sum(g, T)}
<1>1. ASSUME NEW T \in SUBSET S, \A U \in SUBSET T : U # T => U \in Good PROVE T \in Good
  <2>1. CASE T = {}
    BY <2>1, SumEmpty
  <2>2. CASE T # {}
    <3>1. IsFiniteSet(T)
      BY FS_Subset
    <3>2. PICK x \in T : TRUE
      BY <2>2
    <3>3. T \ {x} \in Good
      BY <1>1, <3>2
    <3>4. Sum(f, T) = f[x] + Sum(f, T \ {x}) /\ Sum(g, T) = g[x] + Sum(g, T \ {x})
      BY <3>1, SumRemoves
    <3> QED BY <3>3, <3>4
  <2> QED BY <2>1, <2>2
<1> HIDE DEF Good
<1>2. S \in Good
  BY <1>1, SubsetInduction
<1> QED BY <1>2 DEF Good

(* A sum of natural numbers is one.                                        *)
LEMMA SumNat ==
    ASSUME NEW g, NEW S, IsFiniteSet(S), \A x \in S : g[x] \in Nat
    PROVE  Sum(g, S) \in Nat
<1> DEFINE Good == {T \in SUBSET S : Sum(g, T) \in Nat}
<1>1. ASSUME NEW T \in SUBSET S, \A U \in SUBSET T : U # T => U \in Good PROVE T \in Good
  <2>1. CASE T = {}
    BY <2>1, SumEmpty
  <2>2. CASE T # {}
    <3>1. IsFiniteSet(T)
      BY FS_Subset
    <3>2. PICK x \in T : TRUE
      BY <2>2
    <3>3. T \ {x} \in Good /\ g[x] \in Nat
      BY <1>1, <3>2
    <3>4. Sum(g, T) = g[x] + Sum(g, T \ {x})
      BY <3>1, SumRemoves
    <3> QED BY <3>3, <3>4
  <2> QED BY <2>1, <2>2
<1> HIDE DEF Good
<1>2. S \in Good
  BY <1>1, SubsetInduction
<1> QED BY <1>2 DEF Good

(* A part sums to no more than the whole.                                  *)
LEMMA SumMonotonic ==
    ASSUME NEW g, NEW S, IsFiniteSet(S), \A x \in S : g[x] \in Nat,
           NEW T \in SUBSET S
    PROVE  Sum(g, T) <= Sum(g, S)
<1> DEFINE Good == {U \in SUBSET S : T \subseteq U => Sum(g, T) <= Sum(g, U)}
<1>1. ASSUME NEW U \in SUBSET S, \A V \in SUBSET U : V # U => V \in Good PROVE U \in Good
  <2> SUFFICES ASSUME T \subseteq U PROVE Sum(g, T) <= Sum(g, U)
    OBVIOUS
  <2>0. IsFiniteSet(U) /\ Sum(g, U) \in Nat /\ Sum(g, T) \in Nat
    BY FS_Subset, SumNat
  <2>1. CASE U = T
    BY <2>0, <2>1
  <2>2. CASE U # T
    <3>1. PICK x \in U : x \notin T
      BY <2>2
    <3>2. U \ {x} \in Good
      BY <1>1, <3>1
    <3>3. IsFiniteSet(U \ {x}) /\ Sum(g, U \ {x}) \in Nat /\ g[x] \in Nat
      BY <2>0, <3>1, FS_Subset, SumNat
    <3>4. Sum(g, U) = g[x] + Sum(g, U \ {x})
      BY <2>0, <3>1, SumRemoves
    <3>5. Sum(g, T) <= Sum(g, U \ {x})
      BY <3>1, <3>2
    <3> QED BY <2>0, <3>3, <3>4, <3>5
  <2> QED BY <2>1, <2>2
<1> HIDE DEF Good
<1>2. S \in Good
  BY <1>1, SubsetInduction
<1> QED BY <1>2 DEF Good

(* No term exceeds the sum.                                                *)
LEMMA SumBoundsTerm ==
    ASSUME NEW g, NEW S, IsFiniteSet(S), \A x \in S : g[x] \in Nat,
           NEW x \in S
    PROVE  g[x] <= Sum(g, S)
<1>1. IsFiniteSet(S \ {x})
  BY FS_Subset
<1>2. Sum(g, S \ {x}) \in Nat /\ g[x] \in Nat
  BY <1>1, SumNat
<1>3. Sum(g, S) = g[x] + Sum(g, S \ {x})
  BY SumRemoves
<1> QED BY <1>2, <1>3

(* A sum over the image of an injection is the sum over its domain.        *)
LEMMA SumOfImage ==
    ASSUME NEW g, NEW k, NEW E, IsFiniteSet(E),
           \A e \in E : g[k[e]] \in Int,
           \A e, f \in E : k[e] = k[f] => e = f,
           NEW h, \A e \in E : h[e] = g[k[e]]
    PROVE  Sum(h, E) = Sum(g, {k[e] : e \in E})
<1> DEFINE Image(T) == {k[e] : e \in T}
           Good == {T \in SUBSET E : Sum(h, T) = Sum(g, Image(T))}
<1>1. ASSUME NEW T \in SUBSET E, \A U \in SUBSET T : U # T => U \in Good PROVE T \in Good
  <2>1. CASE T = {}
    <3>1. Image(T) = {}
      BY <2>1
    <3> QED BY <2>1, <3>1, SumEmpty
  <2>2. CASE T # {}
    <3>1. IsFiniteSet(T)
      BY FS_Subset
    <3>2. IsFiniteSet(Image(T))
      <4>1. [e \in T |-> k[e]] \in Surjection(T, Image(T))
        BY DEF Surjection
      <4> QED BY <3>1, <4>1, FS_Surjection
    <3>3. PICK x \in T : TRUE
      BY <2>2
    <3>4. T \ {x} \in Good /\ Image(T \ {x}) = Image(T) \ {k[x]} /\ k[x] \in Image(T)
      BY <1>1, <3>3
    <3>5. Sum(h, T) = h[x] + Sum(h, T \ {x})
      BY <3>1, SumRemoves
    <3>6. \A y \in Image(T) : g[y] \in Int
      OBVIOUS
    <3> HIDE DEF Image
    <3>7. Sum(g, Image(T)) = g[k[x]] + Sum(g, Image(T) \ {k[x]})
      BY <3>2, <3>4, <3>6, SumRemoves
    <3> QED BY <3>4, <3>5, <3>7
  <2> QED BY <2>1, <2>2
<1> HIDE DEF Good
<1>2. E \in Good
  BY <1>1, SubsetInduction
<1> QED BY <1>2 DEF Good

(* Shares that each stay within pool * weight / whole stay within it       *)
(* together.                                                               *)
LEMMA SumOfShares ==
    ASSUME NEW v, NEW w, NEW E, IsFiniteSet(E),
           NEW pool \in Nat, NEW whole \in Nat,
           \A e \in E : v[e] \in Nat /\ w[e] \in Nat /\ v[e] * whole <= pool * w[e]
    PROVE  Sum(v, E) * whole <= pool * Sum(w, E)
<1> DEFINE Good == {T \in SUBSET E : Sum(v, T) * whole <= pool * Sum(w, T)}
<1>1. ASSUME NEW T \in SUBSET E, \A U \in SUBSET T : U # T => U \in Good PROVE T \in Good
  <2>1. CASE T = {}
    BY <2>1, SumEmpty
  <2>2. CASE T # {}
    <3>1. IsFiniteSet(T)
      BY FS_Subset
    <3>2. PICK x \in T : TRUE
      BY <2>2
    <3>3. T \ {x} \in Good /\ IsFiniteSet(T \ {x})
      BY <1>1, <3>1, <3>2, FS_Subset
    <3>4. Sum(v, T \ {x}) \in Nat /\ Sum(w, T \ {x}) \in Nat
      BY <3>3, SumNat
    <3>5. Sum(v, T) = v[x] + Sum(v, T \ {x}) /\ Sum(w, T) = w[x] + Sum(w, T \ {x})
      BY <3>1, SumRemoves
    <3>6. \A a, b, c, d \in Nat :
             a * whole <= pool * c /\ b * whole <= pool * d
                => (a + b) * whole <= pool * (c + d)
      OBVIOUS
    <3> QED BY <3>3, <3>4, <3>5, <3>6
  <2> QED BY <2>1, <2>2
<1> HIDE DEF Good
<1>2. E \in Good
  BY <1>1, SubsetInduction
<1> QED BY <1>2 DEF Good

(* A floored share is a natural number and never more than the exact one.  *)
LEMMA ShareFloored ==
    ASSUME NEW total \in Nat, NEW part \in Nat, NEW whole \in Nat \ {0}
    PROVE  /\ (total * part) \div whole \in Nat
           /\ ((total * part) \div whole) * whole <= total * part
<1>1. \A n \in Nat : n \div whole \in Nat /\ (n \div whole) * whole <= n
  OBVIOUS
<1>2. total * part \in Nat
  OBVIOUS
<1> QED BY <1>1, <1>2

(* Of a pool equal to the whole a share is the part itself.                *)
LEMMA ShareOfWhole ==
    ASSUME NEW part \in Nat, NEW whole \in Nat \ {0}
    PROVE  (whole * part) \div whole = part
OBVIOUS

(* A positive factor may be cancelled.                                     *)
LEMMA Divides ==
    ASSUME NEW a \in Nat, NEW b \in Nat, NEW whole \in Nat \ {0}, a * whole <= b * whole
    PROVE  a <= b
OBVIOUS

(* Products grow with their factors.                                       *)
LEMMA TimesMonotonic ==
    ASSUME NEW a \in Nat, NEW b \in Nat, NEW c \in Nat, a <= b
    PROVE  a * c <= b * c
OBVIOUS

(* One more term of the same size.                                         *)
LEMMA OneMore ==
    ASSUME NEW n \in Nat, NEW cap \in Nat
    PROVE  (n + 1) * cap = n * cap + cap
OBVIOUS

(* A sum of capped amounts is capped.                                      *)
LEMMA SumCapped ==
    ASSUME NEW g, NEW S, IsFiniteSet(S), NEW cap \in Nat,
           \A x \in S : g[x] \in Nat /\ g[x] <= cap
    PROVE  Sum(g, S) <= Cardinality(S) * cap
<1> DEFINE Good == {T \in SUBSET S : Sum(g, T) <= Cardinality(T) * cap}
<1>1. ASSUME NEW T \in SUBSET S, \A U \in SUBSET T : U # T => U \in Good
      PROVE  T \in Good
  <2>1. CASE T = {}
    BY <2>1, SumEmpty, FS_EmptySet
  <2>2. CASE T # {}
    <3>1. IsFiniteSet(T)
      BY FS_Subset
    <3>2. PICK x \in T : TRUE
      BY <2>2
    <3>3. T \ {x} \in Good /\ g[x] \in Nat /\ g[x] <= cap
      BY <1>1, <3>2
    <3>4. Sum(g, T) = g[x] + Sum(g, T \ {x})
      BY <3>1, SumRemoves
    <3>5. /\ IsFiniteSet(T \ {x}) /\ Cardinality(T \ {x}) \in Nat
          /\ Cardinality(T) = Cardinality(T \ {x}) + 1
      <4>1. IsFiniteSet(T \ {x}) /\ Cardinality(T \ {x}) = Cardinality(T) - 1
        BY <3>1, <3>2, FS_RemoveElement
      <4>2. Cardinality(T) \in Nat /\ Cardinality(T \ {x}) \in Nat
        BY <3>1, <4>1, FS_CardinalityType
      <4> QED BY <4>1, <4>2
    <3>6. Sum(g, T \ {x}) \in Nat
      BY <3>5, SumNat
    <3>7. Cardinality(T) * cap = Cardinality(T \ {x}) * cap + cap
      BY <3>5, OneMore
    <3>8. Sum(g, T \ {x}) <= Cardinality(T \ {x}) * cap
      BY <3>3
    <3>9. Cardinality(T \ {x}) * cap \in Nat
      BY <3>5
    <3> QED BY <3>3, <3>4, <3>6, <3>7, <3>8, <3>9
  <2> QED BY <2>1, <2>2
<1> HIDE DEF Good
<1>2. S \in Good
  BY <1>1, SubsetInduction
<1> QED BY <1>2 DEF Good
=============================================================================
