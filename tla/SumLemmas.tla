------------------------------ MODULE SumLemmas ------------------------------
(***************************************************************************)
(* What the sums of the models add up to: MapThenSumSet over a finite set   *)
(* of naturals, as WasmtimeChannel and JcoHost use it to say how many bytes *)
(* are buffered.                                                            *)
(*                                                                         *)
(* MapThenSumSet folds over the elements in an order nobody knows, so that  *)
(* a sum loses exactly the element that leaves the set takes an induction   *)
(* on the size of the set.  It is the induction of NatInduction, stated for *)
(* a set of naturals and derived from the well-foundedness of < (WFMin).    *)
(***************************************************************************)
EXTENDS Integers, FiniteSetsExt, WellFoundedInduction, FiniteSetTheorems, TLAPS

\* The sum of f over S.
SumOver(f, S) == MapThenSumSet(LAMBDA x : f[x], S)

\* The fold that computes it, for S and its subsets: it takes the elements in
\* the order of CHOOSE.
First(s) == CHOOSE x \in s : TRUE
Folding(f, S, g) == [s \in SUBSET S |-> IF s = {} THEN 0 ELSE f[First(s)] + g[s \ {First(s)}]]
Fold(f, S) == CHOOSE g : g = Folding(f, S, g)

\* The sum is the fold's value for S itself.
LEMMA SumIsFold ==
  ASSUME NEW f, NEW S PROVE SumOver(f, S) = Fold(f, S)[S]
  BY DEF SumOver, MapThenSumSet, MapThenFoldSet, Fold, Folding, First

\* A set of naturals that has 0, and n + 1 with every n, has them all.
LEMMA Induction ==
  ASSUME NEW P \in SUBSET Nat, 0 \in P, \A n \in P : n + 1 \in P
  PROVE  P = Nat
<1> SUFFICES ASSUME Nat \ P # {} PROVE FALSE
  OBVIOUS
<1> DEFINE R == {ss \in Nat \X Nat : ss[1] < ss[2]}
<1>1. R = OpToRel(<, Nat)
  BY DEF OpToRel
<1>2. IsWellFoundedOn(R, Nat)
  BY <1>1, NatLessThanWellFounded, Zenon
<1> HIDE DEF R
<1>3. \E x \in Nat \ P : \A y \in Nat \ P : <<y, x>> \notin R
  BY <1>2, WFMin, Zenon
<1>4. PICK x \in Nat \ P : \A y \in Nat \ P : <<y, x>> \notin R
  BY <1>3
<1>5. x - 1 \in Nat /\ x - 1 < x
  OBVIOUS
<1>6. x - 1 \in P
  BY <1>4, <1>5 DEF R
<1> QED
  BY <1>5, <1>6

\* The size of a subset without one of its elements.
LEMMA SubsetFacts ==
  ASSUME NEW S, IsFiniteSet(S), NEW s \in SUBSET S
  PROVE  /\ IsFiniteSet(s) /\ Cardinality(s) \in Nat /\ Cardinality(s) <= Cardinality(S)
         /\ Cardinality(s) = 0 <=> s = {}
         /\ \A x \in s : s \ {x} \in SUBSET S /\ Cardinality(s \ {x}) + 1 = Cardinality(s)
         /\ s # {} => First(s) \in s
<1>1. IsFiniteSet(s) /\ Cardinality(s) <= Cardinality(S)
  BY FS_Subset
<1>2. Cardinality(s) \in Nat
  BY <1>1, FS_CardinalityType
<1>3. Cardinality(s) = 0 <=> s = {}
  BY <1>1, FS_EmptySet
<1>4. ASSUME NEW x \in s PROVE s \ {x} \in SUBSET S /\ Cardinality(s \ {x}) + 1 = Cardinality(s)
  <2>1. Cardinality(s \ {x}) = Cardinality(s) - 1
    BY <1>1, FS_RemoveElement
  <2> QED
    BY <1>2, <2>1
<1>5. s # {} => First(s) \in s
  BY DEF First
<1> QED
  BY <1>1, <1>2, <1>3, <1>4, <1>5

\* There is a function that satisfies the fold's equation.
LEMMA FoldExists ==
  ASSUME NEW S, IsFiniteSet(S), NEW f, \A x \in S : f[x] \in Nat
  PROVE  \E g : g = Folding(f, S, g)
<1> DEFINE Upto(g, n) == \A s \in SUBSET S : Cardinality(s) <= n =>
                           g[s] = IF s = {} THEN 0 ELSE f[First(s)] + g[s \ {First(s)}]
           P == {n \in Nat : \E g \in [SUBSET S -> Int] : Upto(g, n)}
<1>1. 0 \in P
  <2> DEFINE g == [s \in SUBSET S |-> 0]
  <2>1. Upto(g, 0)
    BY SubsetFacts
  <2>2. g \in [SUBSET S -> Int]
    OBVIOUS
  <2> HIDE DEF g, Upto
  <2> QED
    BY <2>1, <2>2
<1>2. ASSUME NEW n \in P PROVE n + 1 \in P
  <2>1. PICK g \in [SUBSET S -> Int] : Upto(g, n)
    OBVIOUS
  <2> DEFINE h == [s \in SUBSET S |-> IF s = {} THEN 0 ELSE f[First(s)] + g[s \ {First(s)}]]
  <2>2. h \in [SUBSET S -> Int]
    BY SubsetFacts
  <2>3. ASSUME NEW s \in SUBSET S, Cardinality(s) <= n + 1
        PROVE  h[s] = IF s = {} THEN 0 ELSE f[First(s)] + h[s \ {First(s)}]
    <3>1. CASE s = {}
      BY <3>1
    <3>2. CASE s # {}
      <4>1. First(s) \in s /\ s \ {First(s)} \in SUBSET S /\ Cardinality(s \ {First(s)}) + 1 = Cardinality(s)
            /\ Cardinality(s \ {First(s)}) \in Nat /\ Cardinality(s) \in Nat
        BY <3>2, SubsetFacts
      <4>2. Cardinality(s \ {First(s)}) <= n
        BY <2>3, <4>1
      <4>3. h[s \ {First(s)}] = g[s \ {First(s)}]
        BY <2>1, <4>1, <4>2
      <4> QED
        BY <3>2, <4>3
    <3> QED
      BY <3>1, <3>2
  <2>4. Upto(h, n + 1)
    BY <2>3
  <2>5. n + 1 \in Nat
    OBVIOUS
  <2> HIDE DEF h, Upto
  <2>6. \E k \in [SUBSET S -> Int] : Upto(k, n + 1)
    BY <2>2, <2>4
  <2> QED
    BY <2>5, <2>6
<1>3. Cardinality(S) \in P
  <2>1. P = Nat
    <3> HIDE DEF P
    <3>1. P \in SUBSET Nat
      BY DEF P
    <3> QED
      BY <1>1, <1>2, <3>1, Induction
  <2> QED
    BY <2>1, FS_CardinalityType
<1>4. PICK g \in [SUBSET S -> Int] : Upto(g, Cardinality(S))
  BY <1>3
<1>5. g = Folding(f, S, g)
  BY <1>4, SubsetFacts DEF Folding
<1> QED
  BY <1>5

\* So does the fold, and its values are naturals.
LEMMA FoldFacts ==
  ASSUME NEW S, IsFiniteSet(S), NEW f, \A x \in S : f[x] \in Nat
  PROVE  /\ \A s \in SUBSET S :
              Fold(f, S)[s] = IF s = {} THEN 0 ELSE f[First(s)] + Fold(f, S)[s \ {First(s)}]
         /\ \A s \in SUBSET S : Fold(f, S)[s] \in Nat
<1> DEFINE g == Fold(f, S)
<1>1. g = Folding(f, S, g)
  BY FoldExists DEF Fold
<1> HIDE DEF g
<1>2. \A s \in SUBSET S : g[s] = IF s = {} THEN 0 ELSE f[First(s)] + g[s \ {First(s)}]
  BY <1>1 DEF Folding
<1> DEFINE P == {n \in Nat : \A s \in SUBSET S : Cardinality(s) = n => g[s] \in Nat}
<1>3. 0 \in P
  <2>1. \A s \in SUBSET S : Cardinality(s) = 0 => s = {}
    BY SubsetFacts
  <2>2. \A s \in SUBSET S : s = {} => g[s] = 0
    BY <1>2
  <2> QED
    BY <2>1, <2>2
<1>4. ASSUME NEW n \in P PROVE n + 1 \in P
  <2>1. ASSUME NEW s \in SUBSET S, Cardinality(s) = n + 1 PROVE g[s] \in Nat
    <3>1. s # {} /\ First(s) \in S /\ s \ {First(s)} \in SUBSET S /\ Cardinality(s \ {First(s)}) = n
      BY <2>1, SubsetFacts
    <3>2. g[s \ {First(s)}] \in Nat /\ f[First(s)] \in Nat
      BY <3>1
    <3>3. g[s] = f[First(s)] + g[s \ {First(s)}]
      BY <1>2, <3>1
    <3> HIDE DEF P
    <3> QED
      BY <3>2, <3>3
  <2> QED
    BY <2>1
<1>5. P = Nat
  <2> HIDE DEF P
  <2>1. P \in SUBSET Nat
    BY DEF P
  <2> QED
    BY <1>3, <1>4, <2>1, Induction
<1>6. \A s \in SUBSET S : g[s] \in Nat
  BY <1>5, SubsetFacts
<1> QED
  BY <1>2, <1>6 DEF g

\* Whichever element is taken out first, the fold is the same.
LEMMA FoldAnyOrder ==
  ASSUME NEW S, IsFiniteSet(S), NEW f, \A x \in S : f[x] \in Nat
  PROVE  \A s \in SUBSET S : \A y \in s : Fold(f, S)[s] = f[y] + Fold(f, S)[s \ {y}]
<1> DEFINE g == Fold(f, S)
<1>1. /\ \A s \in SUBSET S : g[s] = IF s = {} THEN 0 ELSE f[First(s)] + g[s \ {First(s)}]
      /\ \A s \in SUBSET S : g[s] \in Nat
  BY FoldFacts
<1> HIDE DEF g
<1> DEFINE P == {n \in Nat : \A s \in SUBSET S : Cardinality(s) = n => \A y \in s : g[s] = f[y] + g[s \ {y}]}
<1>2. 0 \in P
  BY SubsetFacts
<1>3. ASSUME NEW n \in P PROVE n + 1 \in P
  <2>1. ASSUME NEW s \in SUBSET S, Cardinality(s) = n + 1, NEW y \in s PROVE g[s] = f[y] + g[s \ {y}]
    <3> DEFINE x == First(s)
    <3>1. s # {} /\ x \in s
      BY <2>1, SubsetFacts
    <3> HIDE DEF x
    <3>2. g[s] = f[x] + g[s \ {x}]
      BY <1>1, <3>1 DEF x
    <3>3. CASE y = x
      BY <3>2, <3>3
    <3>4. CASE y # x
      <4>1. /\ s \ {x} \in SUBSET S /\ Cardinality(s \ {x}) = n /\ y \in s \ {x}
            /\ s \ {y} \in SUBSET S /\ Cardinality(s \ {y}) = n /\ x \in s \ {y}
        BY <2>1, <3>1, <3>4, SubsetFacts
      <4>2. g[s \ {x}] = f[y] + g[(s \ {x}) \ {y}] /\ g[s \ {y}] = f[x] + g[(s \ {y}) \ {x}]
        BY <4>1
      <4>3. (s \ {x}) \ {y} = (s \ {y}) \ {x} /\ (s \ {x}) \ {y} \in SUBSET S
        OBVIOUS
      <4>4. f[x] \in Nat /\ f[y] \in Nat /\ g[(s \ {x}) \ {y}] \in Nat
        BY <1>1, <3>1, <4>3
      <4> HIDE DEF P
      <4>5. g[s] = f[x] + (f[y] + g[(s \ {x}) \ {y}]) /\ g[s \ {y}] = f[x] + g[(s \ {x}) \ {y}]
        BY <3>2, <4>2, <4>3
      <4> QED
        BY <4>4, <4>5
    <3> QED
      BY <3>3, <3>4
  <2> QED
    BY <2>1
<1>4. P = Nat
  <2> HIDE DEF P
  <2>1. P \in SUBSET Nat
    BY DEF P
  <2> QED
    BY <1>2, <1>3, <2>1, Induction
<1>5. \A s \in SUBSET S : \A y \in s : g[s] = f[y] + g[s \ {y}]
  BY <1>4, SubsetFacts
<1> QED
  BY <1>5 DEF g

\* The folds of two sets, and of two functions that agree on the smaller one,
\* agree on the subsets they share.
LEMMA FoldsAgree ==
  ASSUME NEW S, IsFiniteSet(S), NEW f, \A x \in S : f[x] \in Nat,
         NEW T \in SUBSET S, NEW e, \A x \in T : e[x] = f[x]
  PROVE  \A s \in SUBSET T : Fold(e, T)[s] = Fold(f, S)[s]
<1> DEFINE g == Fold(f, S)
           h == Fold(e, T)
<1>1. IsFiniteSet(T)
  BY FS_Subset
<1>2. \A s \in SUBSET S : g[s] = IF s = {} THEN 0 ELSE f[First(s)] + g[s \ {First(s)}]
  BY FoldFacts
<1>3. \A s \in SUBSET T : h[s] = IF s = {} THEN 0 ELSE e[First(s)] + h[s \ {First(s)}]
  BY <1>1, FoldFacts
<1> HIDE DEF g, h
<1> DEFINE P == {n \in Nat : \A s \in SUBSET T : Cardinality(s) = n => h[s] = g[s]}
<1>4. 0 \in P
  BY <1>1, <1>2, <1>3, SubsetFacts
<1>5. ASSUME NEW n \in P PROVE n + 1 \in P
  <2>1. ASSUME NEW s \in SUBSET T, Cardinality(s) = n + 1 PROVE h[s] = g[s]
    <3>1. s # {} /\ First(s) \in s
      BY <1>1, <2>1, SubsetFacts
    <3>2. s \ {First(s)} \in SUBSET T /\ Cardinality(s \ {First(s)}) + 1 = Cardinality(s)
          /\ Cardinality(s \ {First(s)}) \in Nat
      BY <1>1, <3>1, SubsetFacts
    <3>3. Cardinality(s \ {First(s)}) = n
      BY <2>1, <3>2
    <3>4. h[s \ {First(s)}] = g[s \ {First(s)}]
      BY <3>2, <3>3
    <3> QED
      BY <1>2, <1>3, <3>1, <3>4
  <2> QED
    BY <2>1
<1>6. P = Nat
  <2> HIDE DEF P
  <2>1. P \in SUBSET Nat
    BY DEF P
  <2> QED
    BY <1>4, <1>5, <2>1, Induction
<1>7. \A s \in SUBSET T : h[s] = g[s]
  BY <1>1, <1>6, SubsetFacts
<1> QED
  BY <1>7 DEF g, h

\* The sum over a set, with one element less and with one more.
LEMMA SumFacts ==
  ASSUME NEW D, IsFiniteSet(D), NEW f, \A x \in D : f[x] \in Nat, NEW S \in SUBSET D
  PROVE  /\ SumOver(f, S) \in Nat
         /\ SumOver(f, {}) = 0
         /\ \A y \in S : SumOver(f, S) = f[y] + SumOver(f, S \ {y})
         /\ \A y \in D \ S : SumOver(f, S \union {y}) = SumOver(f, S) + f[y]
<1>0. ASSUME NEW s \in SUBSET D, NEW y \in s PROVE Fold(f, D)[s] = f[y] + Fold(f, D)[s \ {y}]
  BY FoldAnyOrder
<1> DEFINE g == Fold(f, D)
<1>1. \A s \in SUBSET D : SumOver(f, s) = g[s]
  <2> TAKE s \in SUBSET D
  <2>1. Fold(f, s)[s] = g[s]
    BY FoldsAgree
  <2> QED
    BY <2>1, SumIsFold
<1>2. /\ \A s \in SUBSET D : g[s] = IF s = {} THEN 0 ELSE f[First(s)] + g[s \ {First(s)}]
      /\ \A s \in SUBSET D : g[s] \in Nat
  BY FoldFacts
<1>3. \A s \in SUBSET D : \A y \in s : g[s] = f[y] + g[s \ {y}]
  BY <1>0
<1> HIDE DEF g
<1>4. SumOver(f, S) \in Nat /\ SumOver(f, {}) = 0
  <2>1. {} \in SUBSET D
    OBVIOUS
  <2> QED
    BY <1>1, <1>2, <2>1
<1>5. \A y \in S : SumOver(f, S) = f[y] + SumOver(f, S \ {y})
  BY <1>1, <1>3
<1>6. ASSUME NEW y \in D \ S PROVE SumOver(f, S \union {y}) = SumOver(f, S) + f[y]
  <2>1. (S \union {y}) \ {y} = S /\ S \union {y} \in SUBSET D
    OBVIOUS
  <2>2. g[S \union {y}] = f[y] + g[S]
    BY <1>3, <2>1
  <2>3. g[S] \in Nat /\ f[y] \in Nat
    BY <1>2
  <2> QED
    BY <1>1, <2>1, <2>2, <2>3
<1> QED
  BY <1>4, <1>5, <1>6

\* One summand taken out of the whole sum.
LEMMA SumWithout ==
  ASSUME NEW D, IsFiniteSet(D), NEW f, \A x \in D : f[x] \in Nat
  PROVE  \A y \in D : SumOver(f, D) = f[y] + SumOver(f, D \ {y})
<1>1. PICK S \in SUBSET D : S = D
  OBVIOUS
<1>2. \A y \in S : SumOver(f, S) = f[y] + SumOver(f, S \ {y})
  BY SumFacts
<1> QED
  BY <1>1, <1>2

\* The whole sum is a natural.
LEMMA SumIsNat ==
  ASSUME NEW D, IsFiniteSet(D), NEW f, \A x \in D : f[x] \in Nat
  PROVE  SumOver(f, D) \in Nat
<1>1. PICK S \in SUBSET D : S = D
  OBVIOUS
<1>2. SumOver(f, S) \in Nat
  BY SumFacts
<1> QED
  BY <1>1, <1>2

\* Nothing adds up to nothing.
LEMMA SumOfNothing ==
  ASSUME NEW f
  PROVE  SumOver(f, {}) = 0
<1>1. IsFiniteSet({}) /\ \A x \in {} : f[x] \in Nat
  BY FS_EmptySet
<1> QED
  BY <1>1, SumFacts

\* Functions that agree on a set have the same sum over it.
LEMMA SumsAgree ==
  ASSUME NEW S, IsFiniteSet(S), NEW f, \A x \in S : f[x] \in Nat, NEW e, \A x \in S : e[x] = f[x]
  PROVE  SumOver(e, S) = SumOver(f, S)
<1>1. Fold(e, S)[S] = Fold(f, S)[S]
  BY FoldsAgree
<1> QED
  BY <1>1, SumIsFold

\* The sum over an initial segment of the naturals, with one summand more.
LEMMA SumExtend ==
  ASSUME NEW n \in Nat, NEW f, \A i \in 1..(n + 1) : f[i] \in Nat, NEW e, \A i \in 1..n : e[i] = f[i]
  PROVE  SumOver(f, 1..(n + 1)) = SumOver(e, 1..n) + f[n + 1]
<1> DEFINE D == 1..(n + 1)
           S == 1..n
<1>1. /\ IsFiniteSet(D) /\ IsFiniteSet(S) /\ \A i \in D : f[i] \in Nat
      /\ S \in SUBSET D /\ n + 1 \in D \ S /\ S \union {n + 1} = D
  <2>1. IsFiniteSet(D) /\ IsFiniteSet(S)
    BY FS_Interval
  <2>2. \A i \in D : f[i] \in Nat
    OBVIOUS
  <2>3. S \in SUBSET D /\ n + 1 \in D \ S /\ S \union {n + 1} = D
    OBVIOUS
  <2> QED
    BY <2>1, <2>2, <2>3
<1>2. \A i \in S : f[i] \in Nat /\ e[i] = f[i]
  BY <1>1
<1> HIDE DEF D, S
<1>3. SumOver(f, S \union {n + 1}) = SumOver(f, S) + f[n + 1]
  BY <1>1, SumFacts
<1>4. SumOver(e, S) = SumOver(f, S)
  BY <1>1, <1>2, SumsAgree
<1> QED
  BY <1>1, <1>3, <1>4 DEF D, S

\* The same, with the first summand taken out.
LEMMA SumShift ==
  ASSUME NEW n \in Nat, NEW f, \A i \in 1..(n + 1) : f[i] \in Nat, NEW e, \A i \in 1..n : e[i] = f[i + 1]
  PROVE  SumOver(f, 1..(n + 1)) = f[1] + SumOver(e, 1..n)
<1> DEFINE D == 1..(n + 1)
           S == 1..n
           P == {k \in Nat : k <= n => SumOver(f, 2..(k + 1)) = SumOver(e, 1..k)}
<1>1. IsFiniteSet(D) /\ IsFiniteSet(S) /\ \A i \in D : f[i] \in Nat
  BY FS_Interval
<1>2. \A i \in S : e[i] \in Nat
  OBVIOUS
<1>3. 0 \in P
  <2>1. 2..(0 + 1) = {} /\ 1..0 = {}
    OBVIOUS
  <2>2. {} \in SUBSET D /\ {} \in SUBSET S
    OBVIOUS
  <2> HIDE DEF D, S
  <2>3. SumOver(f, {}) = 0 /\ SumOver(e, {}) = 0
    BY <1>1, <1>2, <2>2, SumFacts
  <2> QED
    BY <2>1, <2>3
<1>4. ASSUME NEW k \in P PROVE k + 1 \in P
  <2> SUFFICES ASSUME k + 1 <= n PROVE SumOver(f, 2..((k + 1) + 1)) = SumOver(e, 1..(k + 1))
    OBVIOUS
  <2> DEFINE A == 2..(k + 1)
             B == 1..k
  <2>1. /\ A \in SUBSET D /\ (k + 1) + 1 \in D \ A /\ A \union {(k + 1) + 1} = 2..((k + 1) + 1)
        /\ B \in SUBSET S /\ k + 1 \in S \ B /\ B \union {k + 1} = 1..(k + 1)
    OBVIOUS
  <2>2. SumOver(f, A) = SumOver(e, B)
    OBVIOUS
  <2>3. e[k + 1] = f[(k + 1) + 1]
    BY <2>1
  <2> HIDE DEF D, S, A, B
  <2>4. \A y \in D \ A : SumOver(f, A \union {y}) = SumOver(f, A) + f[y]
    BY <1>1, <2>1, SumFacts
  <2>5. \A y \in S \ B : SumOver(e, B \union {y}) = SumOver(e, B) + e[y]
    BY <1>1, <1>2, <2>1, SumFacts
  <2> QED
    BY <2>1, <2>2, <2>3, <2>4, <2>5
<1>5. SumOver(f, 2..(n + 1)) = SumOver(e, 1..n)
  <2>1. P = Nat
    <3> HIDE DEF P
    <3>1. P \in SUBSET Nat
      BY DEF P
    <3> QED
      BY <1>3, <1>4, <3>1, Induction
  <2> QED
    BY <2>1
<1>6. D \in SUBSET D /\ 1 \in D /\ D \ {1} = 2..(n + 1)
  OBVIOUS
<1> HIDE DEF D
<1>7. \A y \in D : SumOver(f, D) = f[y] + SumOver(f, D \ {y})
  BY <1>1, SumWithout
<1>8. SumOver(f, D) = f[1] + SumOver(f, D \ {1})
  BY <1>6, <1>7
<1> QED
  BY <1>5, <1>6, <1>8 DEF D
=============================================================================
