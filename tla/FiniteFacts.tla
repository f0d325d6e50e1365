---------------------------- MODULE FiniteFacts -----------------------------
(***************************************************************************)
(* Facts about finite sets of numbers the proofs share: the largest of them,*)
(* and sums over finite sets.                                              *)
(***************************************************************************)
EXTENDS Integers, FiniteSets, FiniteSetsExt, Functions, FiniteSetTheorems,
        WellFoundedInduction, TLAPS

-----------------------------------------------------------------------------
(* Sums over finite sets.  The library's induction theorems take a          *)
(* predicate; the provers at hand need a set, so its least counterexample   *)
(* is taken instead.                                                        *)

\* Induction over the natural numbers, for a set.
LEMMA SetInduction ==
  ASSUME NEW T, 0 \in T, \A n \in Nat : n \in T => n + 1 \in T
  PROVE  Nat \subseteq T
<1>. DEFINE R == {ss \in Nat \X Nat : ss[1] < ss[2]}
<1>1. IsWellFoundedOn(R, Nat)
  BY NatLessThanWellFounded DEF OpToRel
<1>2. SUFFICES ASSUME Nat \ T # {} PROVE FALSE
  OBVIOUS
<1>3. PICK m \in Nat \ T : \A y \in Nat \ T : <<y, m>> \notin R
  <2>. HIDE DEF R
  <2>. QED
    BY <1>1, <1>2, WFMin
<1>4. m - 1 \in Nat /\ m - 1 \notin T
  BY <1>3
<1>5. <<m - 1, m>> \in R
  BY <1>4
<1>. QED
  BY <1>3, <1>4, <1>5

\* g computes the sum of f over every subset of S, taking elements in the order of the fold.
Sums(g, f, S) ==
  g = [s \in SUBSET S |-> IF s = {} THEN 0
                          ELSE LET x == CHOOSE x \in s : TRUE IN f[x] + g[s \ {x}]]

\* The fold is the value of such a function.
LEMMA SumIsFold ==
  ASSUME NEW f, NEW S
  PROVE  SumFunctionOnSet(f, S) = (CHOOSE g : Sums(g, f, S))[S]
BY DEF SumFunctionOnSet, FoldFunctionOnSet, MapThenFoldSet, Sums

\* There is one.
LEMMA SumsExist ==
  ASSUME NEW f, NEW S, IsFiniteSet(S), \A x \in S : f[x] \in Int
  PROVE  \E g \in [SUBSET S -> Int] : Sums(g, f, S)
<1>. DEFINE Small(n) == {s \in SUBSET S : Cardinality(s) <= n}
            Val(g, s) == IF s = {} THEN 0
                         ELSE LET x == CHOOSE x \in s : TRUE IN f[x] + g[s \ {x}]
            T == {n \in Nat : \E g \in [Small(n) -> Int] : \A s \in Small(n) : g[s] = Val(g, s)}
<1>0. \A s \in SUBSET S : IsFiniteSet(s) /\ Cardinality(s) \in Nat /\ (Cardinality(s) = 0 <=> s = {})
  BY FS_Subset, FS_CardinalityType, FS_EmptySet
<1>1. 0 \in T
  <2>1. \A s \in Small(0) : s = {}
    BY <1>0
  <2>2. [s \in Small(0) |-> 0] \in [Small(0) -> Int]
        /\ \A s \in Small(0) : [t \in Small(0) |-> 0][s] = Val([t \in Small(0) |-> 0], s)
    BY <2>1
  <2>. QED
    BY <2>2
<1>2. ASSUME NEW n \in Nat, n \in T PROVE n + 1 \in T
  <2>1. PICK g \in [Small(n) -> Int] : \A s \in Small(n) : g[s] = Val(g, s)
    BY <1>2
  <2>2. ASSUME NEW s \in Small(n + 1), s # {}
        PROVE  LET x == CHOOSE x \in s : TRUE IN x \in s /\ x \in S /\ s \ {x} \in Small(n)
    <3>. DEFINE x == CHOOSE x \in s : TRUE
    <3>1. x \in s
      BY <2>2
    <3>. HIDE DEF x
    <3>2. Cardinality(s \ {x}) = Cardinality(s) - 1
      BY <1>0, <3>1, FS_RemoveElement
    <3>3. s \ {x} \in SUBSET S /\ Cardinality(s \ {x}) <= n
      BY <1>0, <3>2
    <3>. QED
      BY <3>1, <3>3 DEF x
  <2>. DEFINE h == [s \in Small(n + 1) |-> Val(g, s)]
  <2>3. \A s \in Small(n + 1) : Val(g, s) \in Int
    BY <2>2
  <2>4. \A s \in Small(n) : s \in Small(n + 1) /\ h[s] = g[s]
    BY <1>0, <2>1
  <2>5. h \in [Small(n + 1) -> Int] /\ \A s \in Small(n + 1) : h[s] = Val(g, s)
    BY <2>3
  <2>. HIDE DEF h
  <2>6. ASSUME NEW s \in Small(n + 1) PROVE h[s] = Val(h, s)
    <3>1. CASE s = {}
      BY <2>5, <3>1
    <3>2. CASE s # {}
      <4>1. PICK x : x = CHOOSE y \in s : TRUE
        OBVIOUS
      <4>2. s \ {x} \in Small(n)
        BY <2>2, <3>2, <4>1
      <4>3. h[s \ {x}] = g[s \ {x}]
        BY <2>4, <4>2
      <4>4. h[s] = f[x] + g[s \ {x}]
        BY <2>5, <3>2, <4>1
      <4>. QED
        BY <3>2, <4>1, <4>3, <4>4
    <3>. QED
      BY <3>1, <3>2
  <2>7. \E k \in [Small(n + 1) -> Int] : \A s \in Small(n + 1) : k[s] = Val(k, s)
    <3>. HIDE DEF Small, Val
    <3>. QED
      BY <2>5, <2>6
  <2>8. n + 1 \in Nat
    OBVIOUS
  <2>. HIDE DEF Small, Val
  <2>. QED
    BY <2>7, <2>8
<1>3. Cardinality(S) \in T
  <2>1. Nat \subseteq T
    <3>. HIDE DEF T
    <3>. QED
      BY <1>1, <1>2, SetInduction
  <2>. QED
    BY <2>1, FS_CardinalityType
<1>4. Small(Cardinality(S)) = SUBSET S
  BY FS_Subset
<1>5. PICK g \in [SUBSET S -> Int] : \A s \in SUBSET S : g[s] = Val(g, s)
  BY <1>3, <1>4
<1>6. Sums(g, f, S)
  BY <1>5 DEF Sums
<1>. QED
  BY <1>6

\* Two functions that sum f, over sets that share an index set, agree on it.
LEMMA SumsAgree ==
  ASSUME NEW f, NEW e, NEW S, NEW R, NEW W, IsFiniteSet(W), W \subseteq S, W \subseteq R,
         \A x \in W : f[x] = e[x], NEW g, NEW h, Sums(g, f, S), Sums(h, e, R)
  PROVE  g[W] = h[W]
<1>. DEFINE T == {n \in Nat : \A s \in SUBSET W : Cardinality(s) = n => g[s] = h[s]}
<1>0. \A s \in SUBSET W : IsFiniteSet(s) /\ Cardinality(s) \in Nat /\ (Cardinality(s) = 0 <=> s = {})
  BY FS_Subset, FS_CardinalityType, FS_EmptySet
<1>1. ASSUME NEW s \in SUBSET W
      PROVE  /\ s = {} => g[s] = 0 /\ h[s] = 0
             /\ s # {} => LET x == CHOOSE x \in s : TRUE IN
                          /\ x \in s /\ g[s] = f[x] + g[s \ {x}] /\ h[s] = f[x] + h[s \ {x}]
  <2>1. s \in SUBSET S /\ s \in SUBSET R
    OBVIOUS
  <2>2. /\ g[s] = IF s = {} THEN 0 ELSE LET x == CHOOSE x \in s : TRUE IN f[x] + g[s \ {x}]
        /\ h[s] = IF s = {} THEN 0 ELSE LET x == CHOOSE x \in s : TRUE IN e[x] + h[s \ {x}]
    BY <2>1 DEF Sums
  <2>. QED
    BY <2>2
<1>2. 0 \in T
  BY <1>0, <1>1
<1>3. ASSUME NEW n \in Nat, n \in T PROVE n + 1 \in T
  <2>1. ASSUME NEW s \in SUBSET W, Cardinality(s) = n + 1 PROVE g[s] = h[s]
    <3>1. s # {}
      BY <1>0, <2>1
    <3>. DEFINE x == CHOOSE x \in s : TRUE
    <3>2. x \in s /\ g[s] = f[x] + g[s \ {x}] /\ h[s] = f[x] + h[s \ {x}]
      BY <1>1, <3>1
    <3>. HIDE DEF x
    <3>3. Cardinality(s \ {x}) = n
      <4>1. IsFiniteSet(s) /\ Cardinality(s) - 1 = n
        BY <1>0, <2>1
      <4>. QED
        BY <3>2, <4>1, FS_RemoveElement
    <3>4. g[s \ {x}] = h[s \ {x}]
      BY <1>3, <3>3
    <3>. QED
      BY <3>2, <3>4
  <2>. QED
    BY <2>1
<1>4. Cardinality(W) \in T
  <2>1. Nat \subseteq T
    <3>. HIDE DEF T
    <3>. QED
      BY <1>2, <1>3, SetInduction
  <2>. QED
    BY <2>1, FS_CardinalityType
<1>. QED
  BY <1>4

\* Any element may be taken out first.
LEMMA SumsRemove ==
  ASSUME NEW f, NEW S, IsFiniteSet(S), \A x \in S : f[x] \in Int,
         NEW g, \A s \in SUBSET S : g[s] \in Int, Sums(g, f, S)
  PROVE  \A y \in S : g[S] = f[y] + g[S \ {y}]
<1>. DEFINE T == {n \in Nat : \A s \in SUBSET S : Cardinality(s) = n =>
                                \A z \in s : g[s] = f[z] + g[s \ {z}]}
<1>0. \A s \in SUBSET S : IsFiniteSet(s) /\ Cardinality(s) \in Nat /\ (Cardinality(s) = 0 <=> s = {})
  BY FS_Subset, FS_CardinalityType, FS_EmptySet
<1>1. ASSUME NEW s \in SUBSET S, s # {}
      PROVE  LET x == CHOOSE x \in s : TRUE IN x \in s /\ g[s] = f[x] + g[s \ {x}]
  BY <1>1 DEF Sums
<1>2. 0 \in T
  BY <1>0
<1>3. ASSUME NEW n \in Nat, n \in T PROVE n + 1 \in T
  <2>1. ASSUME NEW s \in SUBSET S, Cardinality(s) = n + 1, NEW z \in s
        PROVE  g[s] = f[z] + g[s \ {z}]
    <3>. DEFINE x == CHOOSE x \in s : TRUE
    <3>1. x \in s /\ g[s] = f[x] + g[s \ {x}]
      BY <1>1
    <3>. HIDE DEF x
    <3>2. CASE z = x
      BY <3>1, <3>2
    <3>3. CASE z # x
      <4>1. /\ s \ {x} \in SUBSET S /\ Cardinality(s \ {x}) = n /\ z \in s \ {x}
            /\ s \ {z} \in SUBSET S /\ Cardinality(s \ {z}) = n /\ x \in s \ {z}
        <5>1. IsFiniteSet(s) /\ Cardinality(s) - 1 = n
          BY <1>0, <2>1
        <5>2. Cardinality(s \ {x}) = n
          BY <2>1, <3>1, <5>1, FS_RemoveElement
        <5>3. Cardinality(s \ {z}) = n
          BY <2>1, <5>1, FS_RemoveElement
        <5>. QED
          BY <3>1, <3>3, <5>2, <5>3
      <4>2. /\ g[s \ {x}] = f[z] + g[(s \ {x}) \ {z}]
            /\ g[s \ {z}] = f[x] + g[(s \ {z}) \ {x}]
        BY <1>3, <4>1
      <4>3. (s \ {x}) \ {z} = (s \ {z}) \ {x} /\ (s \ {x}) \ {z} \in SUBSET S
        OBVIOUS
      <4>4. g[(s \ {x}) \ {z}] \in Int /\ f[x] \in Int /\ f[z] \in Int
        BY <3>1, <4>3
      <4>5. PICK a \in Int : a = g[(s \ {x}) \ {z}]
        BY <4>4
      <4>6. g[s] = f[x] + (f[z] + a) /\ g[s \ {z}] = f[x] + a
        BY <3>1, <4>2, <4>3, <4>5
      <4>. QED
        BY <4>4, <4>6
    <3>. QED
      BY <3>2, <3>3
  <2>. QED
    BY <2>1
<1>4. Cardinality(S) \in T
  <2>1. Nat \subseteq T
    <3>. HIDE DEF T
    <3>. QED
      BY <1>2, <1>3, SetInduction
  <2>. QED
    BY <2>1, FS_CardinalityType
<1>. QED
  BY <1>4

\* The sum of integers is an integer ...
LEMMA SumType ==
  ASSUME NEW f, NEW S, IsFiniteSet(S), \A x \in S : f[x] \in Int
  PROVE  SumFunctionOnSet(f, S) \in Int
<1>. DEFINE c == CHOOSE g : Sums(g, f, S)
<1>1. PICK g \in [SUBSET S -> Int] : Sums(g, f, S)
  BY SumsExist
<1>2. Sums(c, f, S)
  BY <1>1
<1>. HIDE DEF c
<1>3. c[S] = g[S]
  BY <1>1, <1>2, SumsAgree
<1>. QED
  BY <1>1, <1>3, SumIsFold DEF c

\* ... that only depends on the values at the indices ...
LEMMA SumSame ==
  ASSUME NEW f, NEW e, NEW S, IsFiniteSet(S), \A x \in S : f[x] \in Int /\ e[x] = f[x]
  PROVE  SumFunctionOnSet(f, S) = SumFunctionOnSet(e, S)
<1>. DEFINE c == CHOOSE g : Sums(g, f, S)
            d == CHOOSE g : Sums(g, e, S)
<1>1. Sums(c, f, S)
  <2>1. \E g : Sums(g, f, S)
    BY SumsExist
  <2>. QED
    BY <2>1
<1>2. Sums(d, e, S)
  <2>1. \E g : Sums(g, e, S)
    BY SumsExist
  <2>. QED
    BY <2>1
<1>. HIDE DEF c, d
<1>3. c[S] = d[S]
  <2>1. S \subseteq S /\ \A x \in S : f[x] = e[x]
    OBVIOUS
  <2>. QED
    BY <1>1, <1>2, <2>1, SumsAgree
<1>. QED
  BY <1>3, SumIsFold DEF c, d

\* ... and grows by the value of an index that is added.
LEMMA SumAdd ==
  ASSUME NEW f, NEW S, IsFiniteSet(S), NEW y, y \notin S, \A x \in S \cup {y} : f[x] \in Int
  PROVE  SumFunctionOnSet(f, S \cup {y}) = f[y] + SumFunctionOnSet(f, S)
<1>. DEFINE R == S \cup {y}
            c == CHOOSE g : Sums(g, f, S)
            d == CHOOSE g : Sums(g, f, R)
<1>0. IsFiniteSet(R) /\ R \ {y} = S /\ y \in R /\ S \subseteq R /\ \A x \in R : f[x] \in Int
  BY FS_AddElement
<1>1. PICK h \in [SUBSET R -> Int] : Sums(h, f, R)
  BY <1>0, SumsExist
<1>2. Sums(c, f, S)
  <2>1. \E g : Sums(g, f, S)
    BY SumsExist
  <2>. QED
    BY <2>1
<1>3. Sums(d, f, R)
  BY <1>1
<1>. HIDE DEF c, d, R
<1>4. c[S] = h[S]
  BY <1>0, <1>1, <1>2, SumsAgree
<1>5. d[R] = h[R]
  BY <1>0, <1>1, <1>3, SumsAgree
<1>6. \A z \in R : h[R] = f[z] + h[R \ {z}]
  <2>1. /\ IsFiniteSet(R) /\ \A x \in R : f[x] \in Int
        /\ \A s \in SUBSET R : h[s] \in Int
        /\ Sums(h, f, R) /\ y \in R
    BY <1>0, <1>1
  <2>. QED
    BY <2>1, SumsRemove
<1>7. /\ SumFunctionOnSet(f, S) = c[S]
      /\ SumFunctionOnSet(f, R) = d[R]
  BY SumIsFold DEF c, d
<1>. USE DEF R
<1>. QED
  BY <1>0, <1>4, <1>5, <1>6, <1>7

\* No index, no sum.
LEMMA SumEmpty == ASSUME NEW f PROVE SumFunctionOnSet(f, {}) = 0
<1>. DEFINE c == CHOOSE g : Sums(g, f, {})
<1>1. \E g : Sums(g, f, {})
  BY SumsExist, FS_EmptySet
<1>2. Sums(c, f, {})
  BY <1>1
<1>. HIDE DEF c
<1>3. c[{}] = 0
  BY <1>2 DEF Sums
<1>. QED
  BY <1>3, SumIsFold DEF c

\* A sum of natural numbers is one.
LEMMA SumNat ==
  ASSUME NEW f, NEW S, IsFiniteSet(S), \A x \in S : f[x] \in Nat
  PROVE  SumFunctionOnSet(f, S) \in Nat
<1>. DEFINE T == {n \in Nat : \A s \in SUBSET S : Cardinality(s) = n => SumFunctionOnSet(f, s) \in Nat}
<1>0. \A s \in SUBSET S : IsFiniteSet(s) /\ Cardinality(s) \in Nat /\ (Cardinality(s) = 0 <=> s = {})
  BY FS_Subset, FS_CardinalityType, FS_EmptySet
<1>1. 0 \in T
  BY <1>0, SumEmpty
<1>2. ASSUME NEW n \in Nat, n \in T PROVE n + 1 \in T
  <2>1. ASSUME NEW s \in SUBSET S, Cardinality(s) = n + 1 PROVE SumFunctionOnSet(f, s) \in Nat
    <3>1. PICK y \in s : TRUE
      BY <1>0, <2>1
    <3>2. IsFiniteSet(s) /\ IsFiniteSet(s \ {y}) /\ s = (s \ {y}) \cup {y} /\ y \notin s \ {y}
      BY <1>0, <3>1
    <3>3. Cardinality(s \ {y}) = Cardinality(s) - 1
      BY <3>1, <3>2, FS_RemoveElement
    <3>4. SumFunctionOnSet(f, s \ {y}) \in Nat
      BY <1>2, <2>1, <3>3
    <3>5. \A x \in (s \ {y}) \cup {y} : f[x] \in Int
      BY <3>2
    <3>6. SumFunctionOnSet(f, (s \ {y}) \cup {y}) = f[y] + SumFunctionOnSet(f, s \ {y})
      BY <3>2, <3>5, SumAdd
    <3>7. SumFunctionOnSet(f, s) = f[y] + SumFunctionOnSet(f, s \ {y})
      BY <3>2, <3>6
    <3>. QED
      BY <3>1, <3>4, <3>7
  <2>. QED
    BY <2>1
<1>3. Nat \subseteq T
  <2>. HIDE DEF T
  <2>. QED
    BY <1>1, <1>2, SetInduction
<1>4. Cardinality(S) \in T
  BY <1>3, FS_CardinalityType
<1>. QED
  BY <1>4

\* A set of positions that is not empty has a last one.
LEMMA MaxOf ==
  ASSUME NEW n \in Nat, NEW S \in SUBSET (1..n), S # {}
  PROVE  Max(S) \in S /\ \A y \in S : y <= Max(S)
<1>. DEFINE T == {k \in Nat : \A U \in SUBSET (1..k) : U # {} => \E x \in U : \A y \in U : x >= y}
<1>1. 0 \in T
  <2>1. 1..0 = {}
    OBVIOUS
  <2>. QED
    BY <2>1
<1>2. ASSUME NEW k \in Nat, k \in T PROVE k + 1 \in T
  <2>1. ASSUME NEW U \in SUBSET (1..(k + 1)), U # {} PROVE \E x \in U : \A y \in U : x >= y
    <3>1. CASE k + 1 \in U
      BY <3>1
    <3>2. CASE k + 1 \notin U
      <4>1. U \in SUBSET (1..k)
        BY <3>2
      <4>. QED
        BY <1>2, <2>1, <4>1
    <3>. QED
      BY <3>1, <3>2
  <2>. QED
    BY <2>1
<1>3. n \in T
  <2>. HIDE DEF T
  <2>. QED
    BY <1>1, <1>2, SetInduction
<1>4. \E x \in S : \A y \in S : x >= y
  BY <1>3
<1>5. Max(S) \in S /\ \A y \in S : Max(S) >= y
  BY <1>4 DEF Max
<1>. QED
  BY <1>5

\* A finite set of integers that is not empty has a largest element.
LEMMA MaxFinite ==
  ASSUME NEW S \in SUBSET Int, IsFiniteSet(S), S # {}
  PROVE  Max(S) \in S /\ \A y \in S : y <= Max(S)
<1>. DEFINE T == {n \in Nat : \A U \in SUBSET S :
                    U # {} /\ Cardinality(U) <= n => \E x \in U : \A y \in U : x >= y}
<1>0. \A U \in SUBSET S : IsFiniteSet(U) /\ Cardinality(U) \in Nat /\ (Cardinality(U) = 0 <=> U = {})
  BY FS_Subset, FS_CardinalityType, FS_EmptySet
<1>1. 0 \in T
  <2>1. \A U \in SUBSET S : Cardinality(U) <= 0 => U = {}
    BY <1>0
  <2>. QED
    BY <2>1
<1>2. ASSUME NEW n \in Nat, n \in T PROVE n + 1 \in T
  <2>1. ASSUME NEW U \in SUBSET S, U # {}, Cardinality(U) <= n + 1
        PROVE  \E x \in U : \A y \in U : x >= y
    <3>1. PICK a \in U : TRUE
      BY <2>1
    <3>2. CASE U \ {a} = {}
      <4>1. \A y \in U : y = a
        BY <3>2
      <4>2. a >= a
        BY <3>1
      <4>. QED
        BY <3>1, <4>1, <4>2
    <3>3. CASE U \ {a} # {}
      <4>1. Cardinality(U \ {a}) = Cardinality(U) - 1
        BY <1>0, <3>1, FS_RemoveElement
      <4>2. U \ {a} \in SUBSET S /\ Cardinality(U \ {a}) <= n
        BY <1>0, <2>1, <4>1
      <4>3. PICK b \in U \ {a} : \A y \in U \ {a} : b >= y
        BY <1>2, <3>3, <4>2
      <4>4. a \in Int /\ b \in Int
        BY <3>1, <4>3
      <4>5. CASE a >= b
        <5>1. \A y \in U : a >= y
          BY <4>3, <4>4, <4>5
        <5>. QED
          BY <3>1, <5>1
      <4>6. CASE b >= a
        BY <4>3, <4>6
      <4>. QED
        BY <4>4, <4>5, <4>6
    <3>. QED
      BY <3>2, <3>3
  <2>. QED
    BY <2>1
<1>3. Nat \subseteq T
  <2>. HIDE DEF T
  <2>. QED
    BY <1>1, <1>2, SetInduction
<1>4. \E x \in S : \A y \in S : x >= y
  <2>1. Cardinality(S) \in T /\ Cardinality(S) \in Nat
    BY <1>0, <1>3
  <2>. QED
    BY <2>1
<1>5. Max(S) \in S /\ \A y \in S : Max(S) >= y
  BY <1>4 DEF Max
<1>. QED
  BY <1>5

=============================================================================
