---------------------------- MODULE CombatProofs ----------------------------
(***************************************************************************)
(* Combat for any players, levels, damages, budget, window and timers.     *)
(*                                                                         *)
(* The budget of an attacker is a sum over the ages of the window, so the  *)
(* first part is about SumFunctionOnSet: its recursion has a solution on a *)
(* finite set, any element can be taken out of a sum, and sums of equal    *)
(* functions are equal.  Induction is by the least counterexample, over    *)
(* the cardinality.                                                        *)
(***************************************************************************)
EXTENDS Combat, FiniteSetTheorems, WellFoundedInduction, TLAPS

\* The element the fold takes next, the equation its function solves, and the sum.
Pick(s) == CHOOSE x \in s : TRUE

SumEq(g, f, S) ==
  g = [s \in SUBSET S |-> IF s = {} THEN 0 ELSE f[Pick(s)] + g[s \ {Pick(s)}]]

SumOf(f, S) == SumFunctionOnSet(f, S)

\* A sum is what the recursion of the fold computes.
LEMMA Unfold ==
  ASSUME NEW f, NEW S
  PROVE SumOf(f, S) = (CHOOSE g : SumEq(g, f, S))[S]
BY DEF SumOf, SumFunctionOnSet, FoldFunctionOnSet, MapThenFoldSet, SumEq, Pick

\* Induction over the natural numbers, for a set.
LEMMA Induction ==
  ASSUME NEW P, 0 \in P, \A n \in Nat : n \in P => n + 1 \in P
  PROVE  Nat \subseteq P
<1> SUFFICES ASSUME Nat \ P # {} PROVE FALSE
  OBVIOUS
<1> DEFINE R == {ss \in Nat \X Nat : ss[1] < ss[2]}
<1>1. IsWellFoundedOn(R, Nat)
  BY NatLessThanWellFounded DEF OpToRel
<1>2. PICK n \in Nat \ P : \A m \in Nat \ P : ~(<<m, n>> \in R)
  <2> HIDE DEF R
  <2>1. Nat \ P \subseteq Nat
    OBVIOUS
  <2> QED
    BY <1>1, <2>1, WFMin
<1>3. n # 0 /\ n \in Nat
  OBVIOUS
<1>4. n - 1 \in Nat /\ n - 1 \in P
  <2>1. n - 1 \in Nat /\ <<n - 1, n>> \in R
    BY <1>3
  <2> QED
    BY <1>2, <2>1
<1>5. (n - 1) + 1 \in P
  BY <1>4
<1> QED
  BY <1>2, <1>3, <1>5

\* Picking an element of a finite set leaves one element less.
LEMMA Picked ==
  ASSUME NEW S, IsFiniteSet(S), NEW s \in SUBSET S, s # {}
  PROVE  /\ Pick(s) \in s /\ s \ {Pick(s)} \in SUBSET S
         /\ IsFiniteSet(s) /\ Cardinality(s) \in Nat \ {0}
         /\ Cardinality(s \ {Pick(s)}) = Cardinality(s) - 1
<1>1. Pick(s) \in s
  BY DEF Pick
<1>2. IsFiniteSet(s)
  BY FS_Subset
<1>3. Cardinality(s) \in Nat /\ Cardinality(s) # 0
  BY <1>2, FS_CardinalityType, FS_EmptySet
<1>4. Cardinality(s \ {Pick(s)}) = Cardinality(s) - 1
  BY <1>1, <1>2, FS_RemoveElement
<1> QED
  BY <1>1, <1>2, <1>3, <1>4

\* The recursion has a solution on a finite set.
LEMMA SumExists ==
  ASSUME NEW S, IsFiniteSet(S), NEW f, \A x \in S : f[x] \in Int
  PROVE  \E g \in [SUBSET S -> Int] : SumEq(g, f, S)
<1> DEFINE Val(g, s) == IF s = {} THEN 0 ELSE f[Pick(s)] + g[s \ {Pick(s)}]
           Upto(g, n) == \A s \in SUBSET S : Cardinality(s) <= n => g[s] = Val(g, s)
           P == {n \in Nat : \E g \in [SUBSET S -> Int] : Upto(g, n)}
<1>1. ASSUME NEW s \in SUBSET S, NEW g \in [SUBSET S -> Int] PROVE Val(g, s) \in Int
  <2>1. CASE s = {}
    BY <2>1
  <2>2. CASE s # {}
    <3>1. Pick(s) \in S /\ s \ {Pick(s)} \in SUBSET S
      BY <2>2, Picked
    <3> QED
      BY <2>2, <3>1
  <2> QED
    BY <2>1, <2>2
<1>2. \A s \in SUBSET S : IsFiniteSet(s) /\ Cardinality(s) \in Nat /\ (Cardinality(s) = 0 <=> s = {})
  BY FS_Subset, FS_CardinalityType, FS_EmptySet
<1>3. 0 \in P
  <2>0. [s \in SUBSET S |-> 0] \in [SUBSET S -> Int]
    OBVIOUS
  <2>1. PICK g \in [SUBSET S -> Int] : g = [s \in SUBSET S |-> 0]
    BY <2>0, Zenon
  <2>2. ASSUME NEW s \in SUBSET S, Cardinality(s) <= 0 PROVE g[s] = Val(g, s)
    <3>1. s = {}
      BY <1>2, <2>2
    <3> QED
      BY <2>1, <3>1
  <2>3. Upto(g, 0)
    BY <2>2
  <2> QED
    BY <2>3
<1>4. ASSUME NEW n \in Nat, n \in P PROVE n + 1 \in P
  <2>1. PICK g \in [SUBSET S -> Int] : Upto(g, n)
    BY <1>4
  <2> HIDE DEF Val
  <2>2. PICK h : h = [s \in SUBSET S |-> Val(g, s)]
    OBVIOUS
  <2>3. h \in [SUBSET S -> Int]
    BY <1>1, <2>2
  <2>4. \A s \in SUBSET S : Cardinality(s) <= n => h[s] = g[s]
    BY <2>1, <2>2
  <2>5. ASSUME NEW s \in SUBSET S, Cardinality(s) <= n + 1 PROVE h[s] = Val(h, s)
    <3>1. CASE s = {}
      BY <2>2, <3>1 DEF Val
    <3>2. CASE s # {}
      <4>1. s \ {Pick(s)} \in SUBSET S /\ Cardinality(s \ {Pick(s)}) <= n
        BY <2>5, <3>2, Picked
      <4>2. h[s \ {Pick(s)}] = g[s \ {Pick(s)}]
        BY <2>4, <4>1
      <4> QED
        BY <2>2, <4>2 DEF Val
    <3> QED
      BY <3>1, <3>2
  <2>6. Upto(h, n + 1)
    BY <2>5
  <2> QED
    BY <2>3, <2>6
<1>5. Cardinality(S) \in P
  <2>1. Cardinality(S) \in Nat
    BY FS_CardinalityType
  <2>2. Nat \subseteq P
    <3> HIDE DEF P
    <3> QED
      BY <1>3, <1>4, Induction
  <2> QED
    BY <2>1, <2>2
<1>6. PICK g \in [SUBSET S -> Int] : Upto(g, Cardinality(S))
  BY <1>5
<1>7. \A s \in SUBSET S : g[s] = Val(g, s)
  <2>1. \A s \in SUBSET S : Cardinality(s) <= Cardinality(S)
    BY FS_Subset
  <2> QED
    BY <1>6, <2>1
<1>8. g = [s \in SUBSET S |-> g[s]]
  OBVIOUS
<1>9. SumEq(g, f, S)
  BY <1>7, <1>8 DEF SumEq
<1> QED
  BY <1>9

\* Two solutions agree where both are defined.
LEMMA SumAgrees ==
  ASSUME NEW S, IsFiniteSet(S), NEW T \in SUBSET S, NEW f, NEW g, NEW h,
         SumEq(g, f, S), SumEq(h, f, T)
  PROVE  \A s \in SUBSET T : g[s] = h[s]
<1> DEFINE P == {n \in Nat : \A s \in SUBSET T : Cardinality(s) = n => g[s] = h[s]}
<1>1. ASSUME NEW s \in SUBSET T
      PROVE  /\ s \in SUBSET S /\ IsFiniteSet(s) /\ Cardinality(s) \in Nat
             /\ Cardinality(s) = 0 <=> s = {}
             /\ s = {} => g[s] = 0 /\ h[s] = 0
             /\ s # {} => /\ g[s] = f[Pick(s)] + g[s \ {Pick(s)}]
                          /\ h[s] = f[Pick(s)] + h[s \ {Pick(s)}]
  <2>1. s \in SUBSET S
    OBVIOUS
  <2>2. IsFiniteSet(s) /\ Cardinality(s) \in Nat /\ (Cardinality(s) = 0 <=> s = {})
    BY <2>1, FS_Subset, FS_CardinalityType, FS_EmptySet
  <2> QED
    BY <2>1, <2>2 DEF SumEq
<1>2. 0 \in P
  BY <1>1
<1>3. ASSUME NEW n \in Nat, n \in P PROVE n + 1 \in P
  <2>1. ASSUME NEW s \in SUBSET T, Cardinality(s) = n + 1 PROVE g[s] = h[s]
    <3>1. s # {} /\ s \in SUBSET S
      <4>1. s \in SUBSET S /\ (Cardinality(s) = 0 <=> s = {})
        BY <1>1
      <4>2. n + 1 # 0
        OBVIOUS
      <4> QED
        BY <2>1, <4>1, <4>2
    <3>2. Cardinality(s \ {Pick(s)}) = n /\ s \ {Pick(s)} \in SUBSET T
      BY <2>1, <3>1, Picked
    <3>3. g[s \ {Pick(s)}] = h[s \ {Pick(s)}]
      BY <1>3, <3>2
    <3> QED
      BY <1>1, <3>1, <3>3
  <2> QED
    BY <2>1
<1>4. Nat \subseteq P
  <2> HIDE DEF P
  <2> QED
    BY <1>2, <1>3, Induction
<1> QED
  BY <1>1, <1>4

\* A sum over a finite set of integers is an integer; over nothing it is 0, and any
\* element can be taken out of it.
LEMMA SumRule ==
  ASSUME NEW S, IsFiniteSet(S), NEW f, \A x \in S : f[x] \in Int
  PROVE  /\ SumOf(f, {}) = 0
         /\ \A T \in SUBSET S : SumOf(f, T) \in Int
         /\ \A T \in SUBSET S : \A x \in T : SumOf(f, T) = f[x] + SumOf(f, T \ {x})
<1>1. PICK g \in [SUBSET S -> Int] : SumEq(g, f, S)
  BY SumExists
<1>2. ASSUME NEW T \in SUBSET S PROVE SumOf(f, T) = g[T]
  <2>1. IsFiniteSet(T) /\ \A x \in T : f[x] \in Int
    BY FS_Subset
  <2>2. \E h : SumEq(h, f, T)
    BY <2>1, SumExists
  <2>3. SumEq(CHOOSE h : SumEq(h, f, T), f, T)
    BY <2>2
  <2>4. PICK h : h = CHOOSE k : SumEq(k, f, T)
    OBVIOUS
  <2>5. g[T] = h[T]
    BY <1>1, <2>3, <2>4, SumAgrees
  <2> QED
    BY <2>4, <2>5, Unfold
<1>3. g[{}] = 0
  BY <1>1 DEF SumEq
<1>4. ASSUME NEW s \in SUBSET S, s # {} PROVE g[s] = f[Pick(s)] + g[s \ {Pick(s)}]
  BY <1>1, <1>4 DEF SumEq
<1> DEFINE P == {n \in Nat : \A s \in SUBSET S : Cardinality(s) = n =>
                                \A x \in s : g[s] = f[x] + g[s \ {x}]}
<1>5. \A s \in SUBSET S : IsFiniteSet(s) /\ Cardinality(s) \in Nat /\ (Cardinality(s) = 0 <=> s = {})
  BY FS_Subset, FS_CardinalityType, FS_EmptySet
<1>6. 0 \in P
  BY <1>5
<1>7. ASSUME NEW n \in Nat, n \in P PROVE n + 1 \in P
  <2>1. ASSUME NEW s \in SUBSET S, Cardinality(s) = n + 1, NEW x \in s
        PROVE  g[s] = f[x] + g[s \ {x}]
    <3>1. PICK c : c = Pick(s)
      OBVIOUS
    <3>2. c \in s /\ s \ {c} \in SUBSET S /\ Cardinality(s \ {c}) = n
      BY <2>1, <3>1, Picked
    <3>3. g[s] = f[c] + g[s \ {c}]
      BY <1>4, <3>1
    <3>4. CASE x = c
      BY <3>3, <3>4
    <3>5. CASE x # c
      <4>1. s \ {x} \in SUBSET S /\ c \in s \ {x} /\ x \in s \ {c}
        BY <3>2, <3>5
      <4>2. Cardinality(s \ {x}) = n
        <5>1. IsFiniteSet(s) /\ x \in s
          BY <1>5
        <5>2. Cardinality(s \ {x}) = Cardinality(s) - 1
          BY <5>1, FS_RemoveElement
        <5> QED
          BY <5>2, <2>1
      <4>3. g[s \ {c}] = f[x] + g[(s \ {c}) \ {x}]
        BY <1>7, <3>2, <4>1
      <4>4. g[s \ {x}] = f[c] + g[(s \ {x}) \ {c}]
        BY <1>7, <4>1, <4>2
      <4>5. (s \ {c}) \ {x} = (s \ {x}) \ {c}
        OBVIOUS
      <4>6. PICK rest \in Int : rest = g[(s \ {c}) \ {x}] /\ rest = g[(s \ {x}) \ {c}]
        BY <4>5
      <4>7. f[x] \in Int /\ f[c] \in Int
        BY <3>2
      <4> QED
        BY <3>3, <4>3, <4>4, <4>6, <4>7
    <3> QED
      BY <3>4, <3>5
  <2> QED
    BY <2>1
<1>8. Nat \subseteq P
  <2> HIDE DEF P
  <2> QED
    BY <1>6, <1>7, Induction
<1>9. ASSUME NEW s \in SUBSET S, NEW x \in s PROVE g[s] = f[x] + g[s \ {x}]
  BY <1>5, <1>8
<1>10. {} \in SUBSET S /\ \A T \in SUBSET S : \A x \in T : T \ {x} \in SUBSET S
  OBVIOUS
<1> QED
  BY <1>2, <1>3, <1>9, <1>10

\* Functions that agree have the same sum, and larger summands give no smaller one.
LEMMA SumCompare ==
  ASSUME NEW S, IsFiniteSet(S), NEW e, NEW f, \A x \in S : e[x] \in Int /\ f[x] \in Int
  PROVE  /\ (\A x \in S : e[x] <= f[x]) => SumOf(e, S) <= SumOf(f, S)
         /\ (\A x \in S : e[x] = f[x]) => SumOf(e, S) = SumOf(f, S)
<1> DEFINE Le(s) == (\A x \in s : e[x] <= f[x]) => SumOf(e, s) <= SumOf(f, s)
           Eq(s) == (\A x \in s : e[x] = f[x]) => SumOf(e, s) = SumOf(f, s)
           P == {n \in Nat : \A s \in SUBSET S : Cardinality(s) = n => Le(s) /\ Eq(s)}
<1>1. \A s \in SUBSET S : IsFiniteSet(s) /\ Cardinality(s) \in Nat /\ (Cardinality(s) = 0 <=> s = {})
  BY FS_Subset, FS_CardinalityType, FS_EmptySet
<1>2. SumOf(e, {}) = 0 /\ SumOf(f, {}) = 0
  BY SumRule
<1>3. \A T \in SUBSET S : SumOf(e, T) \in Int /\ SumOf(f, T) \in Int
  <2>1. \A T \in SUBSET S : SumOf(e, T) \in Int
    BY SumRule
  <2>2. \A T \in SUBSET S : SumOf(f, T) \in Int
    BY SumRule
  <2> QED
    BY <2>1, <2>2
<1> HIDE DEF Le, Eq
<1>4. 0 \in P
  <2>1. Le({}) /\ Eq({})
    BY <1>2 DEF Le, Eq
  <2> QED
    BY <1>1, <2>1
<1>5. ASSUME NEW n \in Nat, n \in P PROVE n + 1 \in P
  <2>1. ASSUME NEW s \in SUBSET S, Cardinality(s) = n + 1 PROVE Le(s) /\ Eq(s)
    <3>1. PICK x \in s : TRUE
      BY <1>1, <2>1
    <3>2. PICK r \in SUBSET S : r = s \ {x}
      OBVIOUS
    <3>3. Cardinality(r) = n /\ r \subseteq s
      <4>1. IsFiniteSet(s) /\ x \in s
        BY <1>1, <3>1
      <4>2. Cardinality(s \ {x}) = Cardinality(s) - 1
        BY <4>1, FS_RemoveElement
      <4> QED
        BY <2>1, <3>2, <4>2
    <3>4. Le(r) /\ Eq(r)
      BY <1>5, <3>3
    <3>5. SumOf(e, s) = e[x] + SumOf(e, r) /\ SumOf(f, s) = f[x] + SumOf(f, r)
      <4>1. SumOf(e, s) = e[x] + SumOf(e, r)
        BY <3>2, SumRule
      <4>2. SumOf(f, s) = f[x] + SumOf(f, r)
        BY <3>2, SumRule
      <4> QED
        BY <4>1, <4>2
    <3>6. /\ e[x] \in Int /\ f[x] \in Int /\ SumOf(e, r) \in Int /\ SumOf(f, r) \in Int
      BY <1>3
    <3> QED
      BY <3>3, <3>4, <3>5, <3>6 DEF Le, Eq
  <2> QED
    BY <2>1
<1>6. Nat \subseteq P
  <2> HIDE DEF P
  <2> QED
    BY <1>4, <1>5, Induction
<1>7. Le(S) /\ Eq(S)
  <2>1. S \in SUBSET S /\ Cardinality(S) \in Nat
    BY <1>1
  <2> QED
    BY <1>6, <2>1
<1> QED
  BY <1>7 DEF Le, Eq

-----------------------------------------------------------------------------
(***************************************************************************)
(* The window of the budget.                                               *)
(***************************************************************************)
USE TimeAssumption, DamageAssumption

\* The window is a finite set of ages.
LEMMA AgeFinite == Window \in Nat \ {0} /\ IsFiniteSet(Age) /\ 0 \in Age
<1>1. Window \in Nat \ {0}
  OBVIOUS
<1>2. IsFiniteSet(0 .. Window - 1)
  BY <1>1, FS_Interval
<1> QED
  BY <1>1, <1>2 DEF Age

\* The ages up to one, and without it.
LEMMA AgePrefix ==
  ASSUME NEW n \in Nat, n + 1 < Window
  PROVE  /\ 0 .. (n + 1) \in SUBSET Age /\ 0 .. n \in SUBSET Age
         /\ n + 1 \in 0 .. (n + 1) /\ (0 .. (n + 1)) \ {n + 1} = 0 .. n
         /\ n < Window /\ n + 1 \in Age /\ n \in Age
<1>1. (0 .. (n + 1)) \ {n + 1} = 0 .. n
  OBVIOUS
<1>2. n < Window /\ n + 1 \in Age /\ n \in Age /\ n + 1 \in 0 .. (n + 1)
  BY AgeFinite DEF Age
<1>3. 0 .. (n + 1) \in SUBSET Age /\ 0 .. n \in SUBSET Age
  BY AgeFinite DEF Age
<1> QED
  BY <1>1, <1>2, <1>3

\* Nothing spent sums up to nothing.
LEMMA SumZero ==
  ASSUME NEW z, z = [g \in Age |-> 0]
  PROVE  SumOf(z, Age) = 0
<1> DEFINE P == {n \in Nat : n < Window => SumOf(z, 0 .. n) = 0}
<1>1. \A x \in Age : z[x] \in Int /\ z[x] = 0
  OBVIOUS
<1>2. SumOf(z, {}) = 0 /\ \A T \in SUBSET Age : \A x \in T : SumOf(z, T) = z[x] + SumOf(z, T \ {x})
  BY <1>1, AgeFinite, SumRule
<1>3. 0 \in P
  <2>1. 0 .. 0 \in SUBSET Age /\ 0 \in 0 .. 0 /\ (0 .. 0) \ {0} = {}
    BY AgeFinite DEF Age
  <2> QED
    BY <1>1, <1>2, <2>1
<1>4. ASSUME NEW n \in Nat, n \in P PROVE n + 1 \in P
  <2>1. ASSUME n + 1 < Window PROVE SumOf(z, 0 .. (n + 1)) = 0
    <3>1. PICK T \in SUBSET Age, x \in Age : x \in T /\ T = 0 .. (n + 1) /\ x = n + 1 /\ T \ {x} = 0 .. n
      BY <2>1, AgePrefix
    <3>2. SumOf(z, T \ {x}) = 0 /\ z[x] = 0
      BY <1>1, <1>4, <2>1, <3>1, AgePrefix
    <3>3. SumOf(z, T) = z[x] + SumOf(z, T \ {x})
      BY <1>2, <3>1
    <3> QED
      BY <3>1, <3>2, <3>3
  <2> QED
    BY <2>1
<1>5. Window - 1 \in P
  <2>1. Nat \subseteq P
    <3> HIDE DEF P
    <3> QED
      BY <1>3, <1>4, Induction
  <2> QED
    BY <2>1, AgeFinite
<1> QED
  BY <1>5, AgeFinite DEF Age

\* The sums over the window are natural numbers.
LEMMA SumNat ==
  ASSUME NEW f \in [Age -> Nat]
  PROVE  /\ \A T \in SUBSET Age : SumOf(f, T) \in Int
         /\ SumOf(f, Age) \in Nat
<1>1. \A x \in Age : f[x] \in Int
  OBVIOUS
<1>2. \A T \in SUBSET Age : SumOf(f, T) \in Int
  BY <1>1, AgeFinite, SumRule
<1>3. PICK z \in [Age -> Nat] : z = [g \in Age |-> 0]
  BY Zenon, AgeFinite DEF Age
<1>4. SumOf(z, Age) = 0
  BY <1>3, SumZero
<1>5. SumOf(z, Age) <= SumOf(f, Age)
  <2>1. \A x \in Age : z[x] \in Int /\ f[x] \in Int /\ z[x] <= f[x]
    BY <1>3
  <2> QED
    BY <2>1, AgeFinite, SumCompare
<1> QED
  BY <1>2, <1>4, <1>5

\* A charge now adds to the sum what is charged.
LEMMA SumCharged ==
  ASSUME NEW f \in [Age -> Nat], NEW n \in Nat
  PROVE  /\ [f EXCEPT ![0] = f[0] + n] \in [Age -> Nat]
         /\ SumOf([f EXCEPT ![0] = f[0] + n], Age) = SumOf(f, Age) + n
<1>1. PICK h : h = [f EXCEPT ![0] = f[0] + n]
  OBVIOUS
<1>2. /\ h \in [Age -> Nat] /\ h[0] = f[0] + n /\ \A x \in Age \ {0} : h[x] = f[x]
      /\ \A x \in Age : h[x] \in Int /\ f[x] \in Int
  BY <1>1, AgeFinite
<1>3. SumOf(h, Age) = h[0] + SumOf(h, Age \ {0}) /\ SumOf(h, Age \ {0}) \in Int
  BY <1>2, AgeFinite, SumRule
<1>4. SumOf(f, Age) = f[0] + SumOf(f, Age \ {0}) /\ SumOf(f, Age \ {0}) \in Int
  BY <1>2, AgeFinite, SumRule
<1>5. SumOf(h, Age \ {0}) = SumOf(f, Age \ {0})
  <2>1. IsFiniteSet(Age \ {0})
    BY AgeFinite, FS_RemoveElement
  <2> QED
    BY <1>2, <2>1, SumCompare
<1>6. f[0] \in Int
  BY AgeFinite
<1> QED
  BY <1>1, <1>2, <1>3, <1>4, <1>5, <1>6

\* A tick moves every entry by one and drops the oldest: the sum does not grow.
LEMMA SumOlder ==
  ASSUME NEW f \in [Age -> Nat]
  PROVE  Older(f) \in [Age -> Nat] /\ SumOf(Older(f), Age) <= SumOf(f, Age)
<1>1. PICK h : h = Older(f)
  OBVIOUS
<1>2. /\ h \in [Age -> Nat] /\ h[0] = 0 /\ \A n \in Nat : n + 1 \in Age => h[n + 1] = f[n]
  <2>1. ASSUME NEW g \in Age PROVE (IF g = 0 THEN 0 ELSE f[g - 1]) \in Nat
    <3>1. g # 0 => g - 1 \in Age
      BY AgeFinite DEF Age
    <3> QED
      BY <3>1
  <2>2. h \in [Age -> Nat]
    BY <1>1, <2>1 DEF Older
  <2>3. h[0] = 0
    BY <1>1, AgeFinite DEF Older
  <2>4. ASSUME NEW n \in Nat, n + 1 \in Age PROVE h[n + 1] = f[n]
    <3>1. n + 1 # 0 /\ (n + 1) - 1 = n
      OBVIOUS
    <3> QED
      BY <1>1, <2>4, <3>1 DEF Older
  <2> QED
    BY <2>2, <2>3, <2>4
<1>3. \A x \in Age : h[x] \in Int /\ f[x] \in Int
  BY <1>2
<1>4. /\ SumOf(h, {}) = 0 /\ \A T \in SUBSET Age : SumOf(h, T) \in Int
      /\ \A T \in SUBSET Age : \A x \in T : SumOf(h, T) = h[x] + SumOf(h, T \ {x})
  BY <1>3, AgeFinite, SumRule
<1>5. /\ SumOf(f, {}) = 0 /\ \A T \in SUBSET Age : SumOf(f, T) \in Int
      /\ \A T \in SUBSET Age : \A x \in T : SumOf(f, T) = f[x] + SumOf(f, T \ {x})
  BY <1>3, AgeFinite, SumRule
<1> DEFINE P == {n \in Nat : n < Window => SumOf(h, 0 .. n) = SumOf(f, 0 .. n) - f[n]}
<1>6. 0 \in P
  <2>1. 0 .. 0 \in SUBSET Age /\ 0 \in 0 .. 0 /\ (0 .. 0) \ {0} = {}
    BY AgeFinite DEF Age
  <2>2. f[0] \in Int
    BY AgeFinite, <1>3
  <2> QED
    BY <1>2, <1>4, <1>5, <2>1, <2>2
<1>7. ASSUME NEW n \in Nat, n \in P PROVE n + 1 \in P
  <2>1. ASSUME n + 1 < Window PROVE SumOf(h, 0 .. (n + 1)) = SumOf(f, 0 .. (n + 1)) - f[n + 1]
    <3>0. PICK T \in SUBSET Age, x \in Age : x \in T /\ T = 0 .. (n + 1) /\ x = n + 1 /\ T \ {x} = 0 .. n
      BY <2>1, AgePrefix
    <3>1. PICK U \in SUBSET Age :
            x \in T /\ T = 0 .. (n + 1) /\ x = n + 1 /\ T \ {x} = U /\ U = 0 .. n
      BY <2>1, <3>0, AgePrefix
    <3>2. SumOf(h, U) = SumOf(f, U) - f[n]
      BY <1>7, <2>1, <3>1, AgePrefix
    <3>3. SumOf(h, T) = f[n] + SumOf(h, U)
      <4>1. SumOf(h, T) = h[x] + SumOf(h, T \ {x})
        BY <1>4, <3>1
      <4>2. h[x] = f[n]
        BY <1>2, <2>1, <3>1, AgePrefix
      <4> QED
        BY <3>1, <4>1, <4>2
    <3>4. SumOf(f, T) = f[x] + SumOf(f, U)
      <4>1. SumOf(f, T) = f[x] + SumOf(f, T \ {x})
        BY <1>5, <3>1
      <4> QED
        BY <3>1, <4>1
    <3>5. f[n] \in Int /\ f[x] \in Int /\ SumOf(f, U) \in Int
      BY <1>3, <1>5, <2>1, <3>1, AgePrefix
    <3>6. SumOf(h, T) = SumOf(f, T) - f[x]
      BY <3>2, <3>3, <3>4, <3>5
    <3> QED
      BY <3>1, <3>6
  <2> QED
    BY <2>1
<1>8. Window - 1 \in P
  <2>1. Nat \subseteq P
    <3> HIDE DEF P
    <3> QED
      BY <1>6, <1>7, Induction
  <2> QED
    BY <2>1, AgeFinite
<1>9. SumOf(h, Age) = SumOf(f, Age) - f[Window - 1]
  BY <1>8, AgeFinite DEF Age
<1>10. f[Window - 1] \in Nat /\ SumOf(f, Age) \in Int
  <2>1. Window - 1 \in Age
    BY AgeFinite DEF Age
  <2> QED
    BY <1>5, <2>1
<1> QED
  BY <1>1, <1>2, <1>9, <1>10
-----------------------------------------------------------------------------
(***************************************************************************)
(* The invariant: the types with the records of the workers and the game   *)
(* loop, the FSM's target, the age of the last swing, and the budget.      *)
(***************************************************************************)
Range3 == {Reach, Aggro, Away}
Person == [level: Level, range: Range3, zone: BOOLEAN, flag: BOOLEAN, health: 0 .. FullHealth]
Squad == [state: {"patrol", "chase", "attack", "alert", "dead", "gone"},
          target: Player \cup {None}, health: 0 .. PuppetHealth,
          last: 0 .. AttackCooldown, alert: 0 .. PatrolResume, corpse: 0 .. CorpseDelay + 1]

\* What a worker and the game loop carry from one locked section to the next.
WorkOf(w) ==
  /\ w.pc \in {"idle", "flag", "read", "aimed", "apply"}
  /\ w.pc = "flag" => w.zone \in BOOLEAN
  /\ w.pc = "aimed" => w.target \in Attacker /\ w.damage \in Damages
  /\ w.pc = "apply" => w.target \in Attacker /\ w.damage \in Nat
TickOf(t) ==
  /\ t.pc \in {"idle", "step", "melee", "zones", "zone"}
  /\ t.pc = "step" => \E T \in SUBSET Player : t.views \in [T -> Range3]
  /\ t.pc = "melee" => t.target \in Player
  /\ t.pc = "zones" => t.todo \in SUBSET Player
  /\ t.pc = "zone" => t.p \in Player /\ t.zone \in BOOLEAN /\ t.todo \in SUBSET Player

People == player \in [Player -> Person]
Works == DOMAIN work = Player /\ \A p \in Player : WorkOf(work[p])
Ledger ==
  /\ budget \in [Attacker -> [Age -> Nat]] /\ dealt = budget
  /\ \A a \in Attacker : SumOf(budget[a], Age) <= DamageBudget

Alive(sq) == sq.state \notin {"dead", "gone"}
Pursues(sq) == (sq.target # None) <=> (sq.state \in {"chase", "attack"})

\* The swings that count are one, and a living puppet remembers how long ago it was.
Spaced ==
  /\ swings \subseteq 0 .. AttackCooldown
  /\ \A g, h \in swings : g < AttackCooldown /\ h < AttackCooldown => g = h
  /\ Alive(puppet) => \A g \in swings : g < AttackCooldown => puppet.last = g

Inv ==
  /\ People /\ Works /\ Ledger
  /\ puppet \in Squad /\ Pursues(puppet)
  /\ Spaced /\ TickOf(tick)

\* The smaller and the larger of two numbers.
LEMMA MinMax ==
  ASSUME NEW a \in Int, NEW b \in Int
  PROVE  /\ Min({a, b}) \in {a, b} /\ Min({a, b}) <= a /\ Min({a, b}) <= b
         /\ Max({a, b}) \in {a, b} /\ Max({a, b}) >= a /\ Max({a, b}) >= b
<1>1. \E x \in {a, b} : \A y \in {a, b} : x <= y
  OBVIOUS
<1>2. \E x \in {a, b} : \A y \in {a, b} : x >= y
  OBVIOUS
<1>3. Min({a, b}) \in {a, b} /\ \A y \in {a, b} : Min({a, b}) <= y
  BY <1>1 DEF Min
<1>4. Max({a, b}) \in {a, b} /\ \A y \in {a, b} : Max({a, b}) >= y
  BY <1>2 DEF Max
<1> QED
  BY <1>3, <1>4

\* What a hit is charged fits into the rest of the budget.
LEMMA ChargedFits ==
  ASSUME Ledger, NEW a \in Attacker, NEW d \in Int
  PROVE  /\ Charged(a, d) \in Int
         /\ Charged(a, d) > 0 => SumOf(budget[a], Age) + Charged(a, d) <= DamageBudget
<1>1. Spent(a) = SumOf(budget[a], Age)
  BY DEF Spent, SumFunction, SumOf, Ledger
<1>2. PICK sp \in Nat : sp = SumOf(budget[a], Age)
  BY SumNat DEF Ledger
<1>3. PICK c \in Int : c = Clamped(d)
  <2>1. MaxDamagePerHit \in Int
    OBVIOUS
  <2>2. Min({d, MaxDamagePerHit}) \in {d, MaxDamagePerHit}
    BY <2>1, MinMax
  <2> QED
    BY <2>1, <2>2 DEF Clamped
<1>4. PICK m \in Int : m = Min({c, DamageBudget - sp}) /\ m <= DamageBudget - sp
  <2>1. PICK b \in Int : b = DamageBudget - sp
    OBVIOUS
  <2>2. Min({c, b}) \in {c, b} /\ Min({c, b}) <= b
    BY MinMax
  <2> QED
    BY <2>1, <2>2
<1>5. Charged(a, d) = IF sp >= DamageBudget THEN 0 ELSE m
  BY <1>1, <1>2, <1>3, <1>4 DEF Charged
<1> QED
  BY <1>2, <1>4, <1>5

\* A charge that fits keeps the budget.
LEMMA ChargeKeeps ==
  ASSUME Ledger, NEW a \in Attacker, NEW n \in Nat, SumOf(budget[a], Age) + n <= DamageBudget,
         Charge(a, n)
  PROVE  Ledger'
<1>1. PICK f \in [Age -> Nat] : f = budget[a]
  BY DEF Ledger
<1>2. PICK h \in [Age -> Nat] : h = [f EXCEPT ![0] = f[0] + n] /\ SumOf(h, Age) = SumOf(f, Age) + n
  BY SumCharged
<1>3. budget' = [budget EXCEPT ![a] = h] /\ dealt' = budget'
  BY <1>1, <1>2 DEF Charge, Ledger
<1>4. budget' \in [Attacker -> [Age -> Nat]]
  BY <1>2, <1>3 DEF Ledger
<1>5. ASSUME NEW b \in Attacker PROVE SumOf(budget'[b], Age) <= DamageBudget
  <2>1. CASE b = a
    BY <1>1, <1>2, <1>3, <2>1 DEF Ledger
  <2>2. CASE b # a
    <3>1. budget'[b] = budget[b]
      BY <1>3, <2>2 DEF Ledger
    <3> QED
      BY <3>1 DEF Ledger
  <2> QED
    BY <2>1, <2>2
<1> QED
  BY <1>3, <1>4, <1>5 DEF Ledger

\* So does the time that passes in a tick.
LEMMA ElapseKeeps ==
  ASSUME Ledger, Elapse
  PROVE  Ledger'
<1>1. budget' = [a \in Attacker |-> Older(budget[a])] /\ dealt' = budget'
  BY DEF Elapse, Ledger
<1>2. ASSUME NEW a \in Attacker
      PROVE  budget'[a] \in [Age -> Nat] /\ SumOf(budget'[a], Age) <= DamageBudget
  <2>1. PICK f \in [Age -> Nat] : f = budget[a]
    BY DEF Ledger
  <2>2. PICK h \in [Age -> Nat] : h = Older(f) /\ SumOf(h, Age) <= SumOf(f, Age)
    BY SumOlder
  <2>3. SumOf(f, Age) <= DamageBudget /\ SumOf(f, Age) \in Nat /\ SumOf(h, Age) \in Nat
    BY <2>1, SumNat DEF Ledger
  <2>4. budget'[a] = h
    BY <1>1, <2>1, <2>2
  <2> QED
    BY <2>2, <2>3, <2>4
<1>3. budget' \in [Attacker -> [Age -> Nat]]
  BY <1>1, <1>2
<1> QED
  BY <1>1, <1>2, <1>3 DEF Ledger

\* A hit leaves its victim's record as it was but for the health.
LEMMA HurtKeeps ==
  ASSUME People, NEW t \in Player, NEW d \in Nat, Hurt(t, d)
  PROVE  People'
<1>1. PICK r \in Person : r = player[t]
  BY DEF People
<1>2. r.health \in 0 .. FullHealth
  BY DEF Person
<1>3. PICK x \in 0 .. FullHealth : x = Max({0, r.health - d})
  <2>1. PICK b \in Int : b = r.health - d
    BY <1>2
  <2>2. Max({0, b}) \in {0, b} /\ Max({0, b}) >= 0
    <3>1. PICK z \in Int : z = 0
      OBVIOUS
    <3>2. Max({z, b}) \in {z, b} /\ Max({z, b}) >= z
      BY MinMax
    <3> QED
      BY <3>1, <3>2
  <2> QED
    BY <1>2, <2>1, <2>2
<1>4. PICK s \in Person : s = [r EXCEPT !.health = x]
  BY DEF Person
<1>5. player' = [player EXCEPT ![t] = s]
  BY <1>1, <1>3, <1>4 DEF Hurt, People
<1> QED
  BY <1>4, <1>5 DEF People

\* A worker that goes on with a well-formed record.
LEMMA GotoKeeps ==
  ASSUME Works, NEW p \in Player, NEW w, WorkOf(w), Goto(p, w)
  PROVE  Works'
BY DEF Works, Goto

\* The records of the workers.
LEMMA WorkRecords ==
  /\ WorkOf(Idle) /\ WorkOf([pc |-> "read"])
  /\ \A z \in BOOLEAN : WorkOf([pc |-> "flag", zone |-> z])
  /\ \A t \in Attacker, d \in Damages : \A l, f :
       WorkOf([pc |-> "aimed", target |-> t, damage |-> d, level |-> l, flag |-> f])
  /\ \A t \in Attacker, d \in Nat : WorkOf([pc |-> "apply", target |-> t, damage |-> d])
<1>1. WorkOf(Idle) /\ WorkOf([pc |-> "read"])
  BY DEF WorkOf, Idle
<1>2. ASSUME NEW z \in BOOLEAN PROVE WorkOf([pc |-> "flag", zone |-> z])
  BY DEF WorkOf
<1>3. ASSUME NEW t \in Attacker, NEW d \in Damages, NEW l, NEW f
      PROVE  WorkOf([pc |-> "aimed", target |-> t, damage |-> d, level |-> l, flag |-> f])
  BY DEF WorkOf
<1>4. ASSUME NEW t \in Attacker, NEW d \in Nat
      PROVE  WorkOf([pc |-> "apply", target |-> t, damage |-> d])
  BY DEF WorkOf
<1> QED
  BY <1>1, <1>2, <1>3, <1>4

\* The records of the game loop.
LEMMA TickRecords ==
  /\ TickOf(Idle)
  /\ \A T \in SUBSET Player : TickOf(NextZones(T))
  /\ \A T \in SUBSET Player : \A v \in [T -> Range3] : TickOf([pc |-> "step", views |-> v])
  /\ \A t \in Player : TickOf([pc |-> "melee", target |-> t])
  /\ \A p \in Player, z \in BOOLEAN, T \in SUBSET Player :
       TickOf([pc |-> "zone", p |-> p, zone |-> z, todo |-> T])
<1>1. TickOf(Idle)
  BY DEF TickOf, Idle
<1>2. ASSUME NEW T \in SUBSET Player PROVE TickOf(NextZones(T))
  BY <1>1 DEF TickOf, NextZones
<1>3. ASSUME NEW T \in SUBSET Player, NEW v \in [T -> Range3]
      PROVE  TickOf([pc |-> "step", views |-> v])
  BY DEF TickOf
<1>4. ASSUME NEW t \in Player PROVE TickOf([pc |-> "melee", target |-> t])
  BY DEF TickOf
<1>5. ASSUME NEW p \in Player, NEW z \in BOOLEAN, NEW T \in SUBSET Player
      PROVE  TickOf([pc |-> "zone", p |-> p, zone |-> z, todo |-> T])
  BY DEF TickOf
<1> QED
  BY <1>1, <1>2, <1>3, <1>4, <1>5
\* The updates of a squad.
LEMMA SquadUpdates ==
  ASSUME NEW sq \in Squad
  PROVE  /\ sq.last \in 0 .. AttackCooldown /\ sq.alert \in 0 .. PatrolResume
         /\ sq.corpse \in 0 .. CorpseDelay + 1 /\ sq.health \in 0 .. PuppetHealth
         /\ sq.target \in Player \cup {None}
         /\ sq.state \in {"patrol", "chase", "attack", "alert", "dead", "gone"}
BY DEF Squad

State == {"patrol", "chase", "attack", "alert", "dead", "gone"}

\* The state alone.
LEMMA SquadStateOnly ==
  ASSUME NEW sq \in Squad, NEW st \in State, NEW a, a = [sq EXCEPT !.state = st]
  PROVE  a \in Squad /\ a.state = st /\ a.target = sq.target /\ a.last = sq.last
BY DEF Squad, State

\* The time of the last swing.
LEMMA SquadLast ==
  ASSUME NEW sq \in Squad, NEW n \in 0 .. AttackCooldown, NEW a, a = [sq EXCEPT !.last = n]
  PROVE  a \in Squad /\ a.state = sq.state /\ a.target = sq.target /\ a.last = n
BY DEF Squad

\* The health.
LEMMA SquadHealth ==
  ASSUME NEW sq \in Squad, NEW n \in 0 .. PuppetHealth, NEW a, a = [sq EXCEPT !.health = n]
  PROVE  a \in Squad /\ a.state = sq.state /\ a.target = sq.target /\ a.last = sq.last
BY DEF Squad

\* A corpse.
LEMMA SquadCorpse ==
  ASSUME NEW sq \in Squad, NEW n \in 0 .. CorpseDelay + 1, NEW a, a = [sq EXCEPT !.corpse = n]
  PROVE  a \in Squad /\ a.state = sq.state /\ a.target = sq.target
BY DEF Squad

\* What a step of the FSM gives.
StepFits(sq, r) ==
  /\ r.sq \in Squad /\ Pursues(r.sq) /\ Alive(r.sq)
  /\ r.swing \in Player \cup {None}
  /\ r.swing = None => r.sq.last = sq.last
  /\ r.swing # None => r.sq.last = 0 /\ sq.last >= AttackCooldown

\* A result that swings at nobody, or at a player once the cooldown is over.
LEMMA ResultFits ==
  ASSUME NEW sq \in Squad, NEW a \in Squad, Pursues(a), Alive(a), NEW t \in Player \cup {None},
         t = None => a.last = sq.last,
         t # None => a.last = 0 /\ sq.last >= AttackCooldown
  PROVE  StepFits(sq, Result(a, t))
<1>1. PICK r : r = Result(a, t)
  OBVIOUS
<1>2. r.sq = a /\ r.swing = t
  BY <1>1 DEF Result
<1> QED
  BY <1>1, <1>2 DEF StepFits

\* A puppet that has found its target chases it, or attacks it, and keeps it as its target.
LEMMA ChaseFits ==
  ASSUME NEW sq \in Squad, NEW T \in SUBSET Player, NEW views \in [T -> Range3], NEW t \in T,
         sq.target = t
  PROVE  StepFits(sq, StepChase(sq, views, t))
<1>1. t \in Player /\ t # None /\ DOMAIN views = T
  BY NamesAssumption
<1>2. CASE views[t] = Reach
  <2>0. PICK a : a = [sq EXCEPT !.state = "attack"]
    OBVIOUS
  <2>1. a \in Squad /\ a.state = "attack" /\ a.target = t /\ a.last = sq.last
    <3>1. "attack" \in State
      BY DEF State
    <3> QED
      BY <2>0, <3>1, SquadStateOnly
  <2>2. StepChase(sq, views, t) = Swing(a, t)
    BY <1>1, <1>2, <2>0 DEF StepChase
  <2>3. CASE a.last >= AttackCooldown
    <3>0. PICK b : b = [a EXCEPT !.last = 0]
      OBVIOUS
    <3>1. b \in Squad /\ b.state = "attack" /\ b.target = t /\ b.last = 0
      <4>1. 0 \in 0 .. AttackCooldown
        OBVIOUS
      <4> QED
        BY <2>1, <3>0, <4>1, SquadLast
    <3>2. StepChase(sq, views, t) = Result(b, t)
      BY <2>2, <2>3, <3>0 DEF Swing
    <3>3. Pursues(b) /\ Alive(b)
      BY <1>1, <3>1 DEF Pursues, Alive
    <3> QED
      BY <1>1, <2>1, <2>3, <3>1, <3>2, <3>3, ResultFits
  <2>4. CASE ~(a.last >= AttackCooldown)
    <3>1. StepChase(sq, views, t) = Result(a, None)
      BY <2>2, <2>4 DEF Swing
    <3>2. Pursues(a) /\ Alive(a)
      BY <1>1, <2>1 DEF Pursues, Alive
    <3> QED
      BY <2>1, <3>1, <3>2, ResultFits
  <2> QED
    BY <2>3, <2>4
<1>3. CASE views[t] # Reach
  <2>0. PICK a : a = [sq EXCEPT !.state = "chase"]
    OBVIOUS
  <2>1. a \in Squad /\ a.state = "chase" /\ a.target = t /\ a.last = sq.last
    <3>1. "chase" \in State
      BY DEF State
    <3> QED
      BY <2>0, <3>1, SquadStateOnly
  <2>2. StepChase(sq, views, t) = Result(a, None)
    BY <1>1, <1>3, <2>0 DEF StepChase
  <2>3. Pursues(a) /\ Alive(a)
    BY <1>1, <2>1 DEF Pursues, Alive
  <2> QED
    BY <2>1, <2>2, <2>3, ResultFits
<1> QED
  BY <1>2, <1>3

\* A puppet that gives up has no target.
LEMMA AlertFits ==
  ASSUME NEW sq \in Squad
  PROVE  StepFits(sq, StepAlert(sq))
<1>0. PICK a : a = [sq EXCEPT !.target = None, !.state = "alert", !.alert = PatrolResume]
  OBVIOUS
<1>1. a \in Squad /\ a.state = "alert" /\ a.target = None /\ a.last = sq.last
  <2>1. PatrolResume \in 0 .. PatrolResume
    OBVIOUS
  <2>2. PICK st \in State, t \in Player \cup {None} : st = "alert" /\ t = None
    BY DEF State
  <2>3. a = [sq EXCEPT !.target = t, !.state = st, !.alert = PatrolResume]
    BY <1>0, <2>2
  <2>4. a \in Squad /\ a.state = st /\ a.target = t /\ a.last = sq.last
    BY <2>1, <2>3 DEF Squad, State
  <2> QED
    BY <2>2, <2>4
<1>2. StepAlert(sq) = Result(a, None)
  BY <1>0 DEF StepAlert
<1>3. Pursues(a) /\ Alive(a)
  BY <1>1 DEF Pursues, Alive
<1> QED
  BY <1>1, <1>2, <1>3, ResultFits

\* Every step of the FSM of a living puppet keeps its target and the time of its swing right.
LEMMA CombatFits ==
  ASSUME NEW sq \in Squad, Pursues(sq), Alive(sq), NEW T \in SUBSET Player,
         NEW views \in [T -> Range3], NEW gate \in BOOLEAN, NEW r \in StepCombat(sq, views, gate)
  PROVE  StepFits(sq, r)
<1>1. DOMAIN views = T /\ None \notin T
  BY NamesAssumption
<1>2. sq.state \in {"patrol", "chase", "attack", "alert"}
  BY SquadUpdates DEF Alive
<1>3. ASSUME NEW t \in T
      PROVE  StepFits(sq, StepChase([sq EXCEPT !.target = t, !.state = "chase"], views, t))
  <2>0. PICK a : a = [sq EXCEPT !.target = t, !.state = "chase"]
    OBVIOUS
  <2>1. a \in Squad /\ a.target = t /\ a.last = sq.last
    <3>1. PICK st \in State : st = "chase"
      BY DEF State
    <3>2. a = [sq EXCEPT !.target = t, !.state = st] /\ t \in Player \cup {None}
      BY <2>0, <3>1
    <3> QED
      BY <3>2 DEF Squad, State
  <2>2. StepFits(a, StepChase(a, views, t))
    BY <2>1, ChaseFits
  <2> QED
    BY <2>0, <2>1, <2>2 DEF StepFits
<1>4. ASSUME NEW a \in Squad, Pursues(a), Alive(a), a.last = sq.last, r = Result(a, None)
      PROVE  StepFits(sq, r)
  BY <1>4, ResultFits
<1>0. PICK q : q = [sq EXCEPT !.target = None, !.state = "patrol"]
  OBVIOUS
<1>5. q \in Squad /\ q.target = None /\ q.state = "patrol" /\ q.last = sq.last
  <2>1. PICK st \in State, t \in Player \cup {None} : st = "patrol" /\ t = None
    BY DEF State
  <2>2. q = [sq EXCEPT !.target = t, !.state = st]
    BY <1>0, <2>1
  <2>3. q \in Squad /\ q.state = st /\ q.target = t /\ q.last = sq.last
    BY <2>2 DEF Squad, State
  <2> QED
    BY <2>1, <2>3
<1>6. Pursues(q) /\ Alive(q)
  BY <1>5 DEF Pursues, Alive
<1>7. CASE ~gate
  <2>1. r = Result(q, None)
    BY <1>0, <1>7 DEF StepCombat
  <2> QED
    BY <1>4, <1>5, <1>6, <2>1
<1>8. CASE gate /\ sq.state = "patrol"
  <2>1. r \in IF NearestHostile(views) = {} THEN {Result(sq, None)}
              ELSE {StepChase([sq EXCEPT !.target = t, !.state = "chase"], views, t) :
                      t \in NearestHostile(views)}
    BY <1>8 DEF StepCombat
  <2>2. NearestHostile(views) \subseteq T
    BY <1>1 DEF NearestHostile
  <2>3. CASE r = Result(sq, None)
    BY <1>4, <2>3
  <2>4. CASE \E t \in NearestHostile(views) :
               r = StepChase([sq EXCEPT !.target = t, !.state = "chase"], views, t)
    BY <1>3, <2>2, <2>4
  <2> QED
    BY <2>1, <2>3, <2>4
<1>9. CASE gate /\ sq.state = "alert"
  <2>1. sq.target = None /\ sq.target \notin DOMAIN views \cap Hostile
    BY <1>1, <1>9 DEF Pursues
  <2>2. r = StayAlert(sq)
    BY <1>9, <2>1 DEF StepCombat
  <2>3. q = [sq EXCEPT !.state = "patrol", !.target = None]
    BY <1>0 DEF Squad
  <2> QED
    BY <1>4, <1>5, <1>6, <2>2, <2>3 DEF StayAlert
<1>10. CASE gate /\ sq.state \in {"chase", "attack"}
  <2>1. r = IF sq.target \in DOMAIN views \cap Hostile THEN StepChase(sq, views, sq.target)
            ELSE StepAlert(sq)
    BY <1>10 DEF StepCombat
  <2>2. CASE sq.target \in DOMAIN views \cap Hostile
    BY <1>1, <2>1, <2>2, ChaseFits
  <2>3. CASE sq.target \notin DOMAIN views \cap Hostile
    BY <2>1, <2>3, AlertFits
  <2> QED
    BY <2>2, <2>3
<1> QED
  BY <1>2, <1>7, <1>8, <1>9, <1>10

\* A hit leaves the puppet wounded or dead; a dead one stays as it is.
LEMMA WoundedFits ==
  ASSUME NEW sq \in Squad, Pursues(sq), NEW d \in Nat
  PROVE  /\ Wounded(sq, d) \in Squad /\ Pursues(Wounded(sq, d))
         /\ Alive(Wounded(sq, d)) => Alive(sq) /\ Wounded(sq, d).last = sq.last
         /\ ~Alive(sq) => Wounded(sq, d) = sq
<1>1. CASE ~Alive(sq)
  BY <1>1 DEF Wounded, Alive
<1>2. CASE Alive(sq) /\ sq.health > d
  <2>1. sq.health - d \in 0 .. PuppetHealth
    BY <1>2, SquadUpdates
  <2>0. PICK a : a = [sq EXCEPT !.health = sq.health - d]
    OBVIOUS
  <2>2. a \in Squad /\ a.state = sq.state /\ a.target = sq.target /\ a.last = sq.last
    BY <2>0, <2>1, SquadHealth
  <2>3. Wounded(sq, d) = a
    BY <1>2, <2>0 DEF Wounded, Alive
  <2> QED
    BY <1>2, <2>2, <2>3 DEF Pursues, Alive
<1>3. CASE Alive(sq) /\ ~(sq.health > d)
  <2>1. AttackCooldown \in 0 .. AttackCooldown /\ 0 \in 0 .. PatrolResume /\ 0 \in 0 .. PuppetHealth
    OBVIOUS
  <2>0. PICK a : a = [sq EXCEPT !.health = 0, !.state = "dead", !.target = None,
                                !.last = AttackCooldown, !.alert = 0]
    OBVIOUS
  <2>2. a \in Squad /\ a.state = "dead" /\ a.target = None
    <3>1. PICK st \in State, t \in Player \cup {None} : st = "dead" /\ t = None
      BY DEF State
    <3>2. PICK h \in 0 .. PuppetHealth, n \in 0 .. PatrolResume : h = 0 /\ n = 0
      BY <2>1
    <3>3. a = [sq EXCEPT !.health = h, !.state = st, !.target = t,
                         !.last = AttackCooldown, !.alert = n]
      BY <2>0, <3>1, <3>2
    <3>4. a \in Squad /\ a.state = st /\ a.target = t
      BY <2>1, <3>3 DEF Squad, State
    <3> QED
      BY <3>1, <3>4
  <2>3. Wounded(sq, d) = a
    BY <1>3, <2>0 DEF Wounded, Alive
  <2> QED
    BY <1>3, <2>2, <2>3 DEF Pursues, Alive
<1> QED
  BY <1>1, <1>2, <1>3

\* A corpse stays a corpse or is despawned.
LEMMA DecayFits ==
  ASSUME NEW sq \in Squad, Pursues(sq), sq.state = "dead"
  PROVE  Decay(sq) \in Squad /\ Pursues(Decay(sq)) /\ Decay(sq).state \in {"dead", "gone"}
<1>1. CASE sq.corpse = 0
  <2>1. CorpseDelay + 1 \in 0 .. CorpseDelay + 1
    OBVIOUS
  <2>0. PICK a : a = [sq EXCEPT !.corpse = CorpseDelay + 1]
    OBVIOUS
  <2>2. a \in Squad /\ a.state = sq.state /\ a.target = sq.target
    BY <2>0, <2>1, SquadCorpse
  <2>3. Decay(sq) = a
    BY <1>1, <2>0 DEF Decay
  <2> QED
    BY <2>2, <2>3 DEF Pursues
<1>2. CASE sq.corpse = 1
  <2>1. 0 \in 0 .. CorpseDelay + 1
    OBVIOUS
  <2>0. PICK a : a = [sq EXCEPT !.state = "gone", !.corpse = 0]
    OBVIOUS
  <2>2. a \in Squad /\ a.state = "gone" /\ a.target = sq.target
    <3>1. PICK st \in State : st = "gone"
      BY DEF State
    <3>2. PICK n \in 0 .. CorpseDelay + 1 : n = 0
      BY <2>1
    <3>3. a = [sq EXCEPT !.state = st, !.corpse = n]
      BY <2>0, <3>1, <3>2
    <3>4. a \in Squad /\ a.state = st /\ a.target = sq.target
      BY <3>3 DEF Squad, State
    <3> QED
      BY <3>1, <3>4
  <2>3. Decay(sq) = a
    BY <1>2, <2>0 DEF Decay
  <2> QED
    BY <2>2, <2>3 DEF Pursues
<1>3. CASE sq.corpse # 0 /\ sq.corpse # 1
  BY <1>3 DEF Decay
<1> QED
  BY <1>1, <1>2, <1>3
-----------------------------------------------------------------------------
(***************************************************************************)
(* One lemma per action.                                                   *)
(***************************************************************************)
USE PlayerAssumption, LevelAssumption, FactionAssumption, NamesAssumption

\* What a step leaves alone.
LEMMA Frame ==
  ASSUME Inv
  PROVE  /\ UNCHANGED player => People'
         /\ UNCHANGED work => Works'
         /\ UNCHANGED <<budget, dealt>> => Ledger'
         /\ UNCHANGED puppet => (puppet \in Squad /\ Pursues(puppet))'
         /\ UNCHANGED <<puppet, swings>> => Spaced'
         /\ UNCHANGED tick => TickOf(tick)'
<1>1. UNCHANGED player => People'
  BY DEF Inv, People
<1>2. UNCHANGED work => Works'
  BY DEF Inv, Works
<1>3. UNCHANGED <<budget, dealt>> => Ledger'
  BY DEF Inv, Ledger
<1>4. UNCHANGED puppet => (puppet \in Squad /\ Pursues(puppet))'
  BY DEF Inv
<1>5. UNCHANGED <<puppet, swings>> => Spaced'
  BY DEF Inv, Spaced
<1>6. UNCHANGED tick => TickOf(tick)'
  BY DEF Inv
<1> QED
  BY <1>1, <1>2, <1>3, <1>4, <1>5, <1>6

\* A player's record is replaced by another.
LEMMA PersonKeeps ==
  ASSUME People, NEW p \in Player, NEW s \in Person, player' = [player EXCEPT ![p] = s]
  PROVE  People'
BY DEF People

\* At first.
LEMMA InvInit == Init => Inv
<1> SUFFICES ASSUME Init PROVE Inv
  OBVIOUS
<1>1. People
  <2>1. ASSUME NEW s \in Arrivals
        PROVE  s \in Person
    <3>1. {FALSE} \subseteq BOOLEAN /\ {PuppetLevel} \subseteq Level
          /\ {Reach, Aggro, Away} \subseteq Range3
      BY Zenon, LevelAssumption DEF Range3
    <3>2. {FullHealth} \subseteq 0 .. FullHealth
      BY DamageAssumption
    <3> QED
      BY <3>1, <3>2 DEF Arrivals, Person
  <2> QED
    BY <2>1 DEF Init, People
<1>2. Works
  BY WorkRecords DEF Init, Works
<1>3. Ledger
  <2>1. PICK z : z = [g \in Age |-> 0]
    OBVIOUS
  <2>2. z \in [Age -> Nat]
    BY <2>1
  <2>3. budget = [a \in Attacker |-> z] /\ dealt = budget
    BY <2>1 DEF Init
  <2>4. SumOf(z, Age) = 0
    BY <2>1, SumZero
  <2> QED
    BY <2>2, <2>3, <2>4 DEF Ledger
<1>4. puppet \in Squad /\ Pursues(puppet) /\ Alive(puppet)
  <2>1. /\ PuppetHealth \in 0 .. PuppetHealth /\ AttackCooldown \in 0 .. AttackCooldown
        /\ 0 \in 0 .. PatrolResume /\ 0 \in 0 .. CorpseDelay + 1
    OBVIOUS
  <2>2. puppet \in Squad
    BY <2>1 DEF Init, Squad
  <2> QED
    BY <2>2 DEF Init, Pursues, Alive
<1>5. Spaced
  BY DEF Init, Spaced
<1>6. TickOf(tick)
  BY TickRecords DEF Init
<1> QED
  BY <1>1, <1>2, <1>3, <1>4, <1>5, <1>6 DEF Inv

\* A transform.
LEMMA MoveKeeps ==
  ASSUME Inv, NEW p \in Player, Move(p)
  PROVE  Inv'
<1>1. PICK range \in Range3, zone \in BOOLEAN :
        /\ player' = [player EXCEPT ![p].range = range, ![p].zone = zone]
        /\ IF zone # player[p].flag THEN Goto(p, [pc |-> "flag", zone |-> zone])
           ELSE UNCHANGED work
  BY DEF Move, Range3
<1>2. People'
  <2>1. PICK r \in Person : r = player[p]
    BY DEF Inv, People
  <2>2. PICK s : s = [r EXCEPT !.range = range, !.zone = zone]
    OBVIOUS
  <2>3. s \in Person
    BY <2>2 DEF Person
  <2>4. player' = [player EXCEPT ![p] = s]
    BY <1>1, <2>1, <2>2 DEF Inv, People
  <2> QED
    BY <2>3, <2>4, PersonKeeps DEF Inv
<1>3. Works'
  <2>1. WorkOf([pc |-> "flag", zone |-> zone])
    BY WorkRecords
  <2> QED
    BY <1>1, <2>1, Frame, GotoKeeps DEF Inv
<1> QED
  BY <1>2, <1>3, Frame DEF Inv, Move

\* A flag that is set.
LEMMA FlagKeeps ==
  ASSUME People, NEW p \in Player, NEW z \in BOOLEAN, player' = [player EXCEPT ![p].flag = z]
  PROVE  People'
<1>1. PICK r \in Person : r = player[p]
  BY DEF People
<1>2. PICK s : s = [r EXCEPT !.flag = z]
  OBVIOUS
<1>3. s \in Person
  BY <1>2 DEF Person
<1>4. player' = [player EXCEPT ![p] = s]
  BY <1>1, <1>2 DEF People
<1> QED
  BY <1>3, <1>4, PersonKeeps

\* The worker of a transform sets it.
LEMMA SetFlagKeeps ==
  ASSUME Inv, NEW p \in Player, SetFlag(p)
  PROVE  Inv'
<1>1. PICK z \in BOOLEAN : z = work[p].zone
  BY DEF Inv, Works, WorkOf, SetFlag, At
<1>2. People'
  BY <1>1, FlagKeeps DEF Inv, SetFlag
<1>3. Works'
  BY WorkRecords, GotoKeeps DEF Inv, SetFlag
<1> QED
  BY <1>2, <1>3, Frame DEF Inv, SetFlag

\* A change of level.
LEMMA LevelChangeKeeps ==
  ASSUME Inv, NEW p \in Player, LevelChange(p)
  PROVE  Inv'
<1>1. PICK level \in Level, zone \in BOOLEAN, no \in BOOLEAN :
        /\ no = FALSE
        /\ player' = [player EXCEPT ![p].level = level, ![p].zone = zone, ![p].flag = no]
  <2>1. PICK no \in BOOLEAN : no = FALSE
    BY Zenon
  <2>2. PICK level \in Level, zone \in BOOLEAN :
          player' = [player EXCEPT ![p].level = level, ![p].zone = zone, ![p].flag = FALSE]
    BY DEF LevelChange
  <2> QED
    BY <2>1, <2>2
<1>2. People'
  <2>1. PICK r \in Person : r = player[p]
    BY DEF Inv, People
  <2>2. PICK s : s = [r EXCEPT !.level = level, !.zone = zone, !.flag = no]
    OBVIOUS
  <2>3. s \in Person
    BY <2>2 DEF Person
  <2>4. player' = [player EXCEPT ![p] = s]
    BY <1>1, <2>1, <2>2 DEF Inv, People
  <2> QED
    BY <2>3, <2>4, PersonKeeps DEF Inv
<1>3. Works'
  BY WorkRecords, GotoKeeps DEF Inv, LevelChange
<1> QED
  BY <1>2, <1>3, Frame DEF Inv, LevelChange

\* Its reading of the zone.
LEMMA ReadZoneKeeps ==
  ASSUME Inv, NEW p \in Player, ReadZone(p)
  PROVE  Inv'
<1>1. PICK z \in BOOLEAN : z = player[p].zone
  BY DEF Inv, People, Person
<1>2. Works'
  <2>1. WorkOf([pc |-> "flag", zone |-> z])
    BY WorkRecords
  <2> QED
    BY <1>1, <2>1, GotoKeeps DEF Inv, ReadZone
<1> QED
  BY <1>2, Frame DEF Inv, ReadZone

\* The tick's reading of the zone.
LEMMA TickReadZoneKeeps ==
  ASSUME Inv, NEW p \in Player, TickReadZone(p)
  PROVE  Inv'
<1>1. PICK z \in BOOLEAN : z = player[p].zone
  BY DEF Inv, People, Person
<1>2. PICK T \in SUBSET Player : T = tick.todo \ {p}
  BY DEF Inv, TickOf, TickReadZone
<1>3. TickOf([pc |-> "zone", p |-> p, zone |-> z, todo |-> T])
  BY TickRecords
<1>4. TickOf(tick)'
  BY <1>1, <1>2, <1>3 DEF TickReadZone
<1> QED
  BY <1>4, Frame DEF Inv, TickReadZone

\* The flag it sets.
LEMMA TickSetFlagKeeps ==
  ASSUME Inv, TickSetFlag
  PROVE  Inv'
<1>1. PICK p \in Player, z \in BOOLEAN, T \in SUBSET Player :
        p = tick.p /\ z = tick.zone /\ T = tick.todo
  BY DEF Inv, TickOf, TickSetFlag
<1>2. People'
  BY <1>1, FlagKeeps DEF Inv, TickSetFlag
<1>3. TickOf(tick)'
  BY <1>1, TickRecords DEF TickSetFlag
<1> QED
  BY <1>2, <1>3, Frame DEF Inv, TickSetFlag

\* A shot.
LEMMA FireKeeps ==
  ASSUME Inv, NEW p \in Player, Fire(p)
  PROVE  Inv'
<1>1. PICK t, d, l, f :
        /\ t \in Attacker /\ d \in Damages
        /\ Goto(p, [pc |-> "aimed", target |-> t, damage |-> d, level |-> l, flag |-> f])
  BY DEF Fire
<1>2. WorkOf([pc |-> "aimed", target |-> t, damage |-> d, level |-> l, flag |-> f])
  BY <1>1, WorkRecords
<1>3. Works'
  BY <1>1, <1>2, GotoKeeps DEF Inv
<1> QED
  BY <1>3, Frame DEF Inv, Fire

\* Its validation charges what fits into the budget.
LEMMA ValidateKeeps ==
  ASSUME Inv, NEW p \in Player, Validate(p)
  PROVE  Inv'
<1>1. PICK t \in Attacker, d \in Damages : t = work[p].target /\ d = work[p].damage
  BY DEF Inv, Works, WorkOf, Validate, At
<1>2. d \in Int /\ p \in Attacker
  BY DEF Attacker
<1>3. CASE /\ Charged(p, d) > 0 /\ Charge(p, Charged(p, d))
           /\ Goto(p, [pc |-> "apply", target |-> t, damage |-> Charged(p, d)])
  <2>1. PICK n \in Nat : n = Charged(p, d) /\ SumOf(budget[p], Age) + n <= DamageBudget
    BY <1>2, <1>3, ChargedFits DEF Inv
  <2>2. Ledger'
    BY <1>2, <1>3, <2>1, ChargeKeeps DEF Inv
  <2>3. WorkOf([pc |-> "apply", target |-> t, damage |-> n])
    BY WorkRecords
  <2>4. Works'
    BY <1>3, <2>1, <2>3, GotoKeeps DEF Inv
  <2> QED
    BY <2>2, <2>4, Frame DEF Inv, Validate
<1>4. CASE Goto(p, Idle) /\ UNCHANGED <<budget, dealt>>
  <2>1. Works'
    BY <1>4, WorkRecords, GotoKeeps DEF Inv
  <2> QED
    BY <1>4, <2>1, Frame DEF Inv, Validate
<1> QED
  BY <1>1, <1>3, <1>4 DEF Validate

\* A squad that is left by a hit or by decay keeps the spacing of the swings.
LEMMA SpacedKeeps ==
  ASSUME Inv, UNCHANGED swings, Alive(puppet') => Alive(puppet) /\ puppet'.last = puppet.last
  PROVE  Spaced'
BY DEF Inv, Spaced

\* A hit.
LEMMA ApplyKeeps ==
  ASSUME Inv, NEW p \in Player, Apply(p)
  PROVE  Inv'
<1>1. PICK t \in Attacker, d \in Nat : t = work[p].target /\ d = work[p].damage
  BY DEF Inv, Works, WorkOf, Apply, At
<1>2. Works'
  BY WorkRecords, GotoKeeps DEF Inv, Apply
<1>3. CASE t = ThePuppet
  <2>1. puppet' = Wounded(puppet, d) /\ UNCHANGED player /\ UNCHANGED swings
    BY <1>1, <1>3 DEF Apply
  <2>2. puppet' \in Squad /\ Pursues(puppet') /\ (Alive(puppet') => Alive(puppet) /\ puppet'.last = puppet.last)
    BY <2>1, WoundedFits DEF Inv
  <2>3. Spaced'
    BY <2>1, <2>2, SpacedKeeps
  <2> QED
    BY <1>2, <2>1, <2>2, <2>3, Frame DEF Inv, Apply
<1>4. CASE t # ThePuppet
  <2>1. t \in Player
    BY <1>4 DEF Attacker
  <2>2. Hurt(t, d) /\ UNCHANGED puppet
    BY <1>1, <1>4 DEF Apply
  <2>3. People'
    BY <2>1, <2>2, HurtKeeps DEF Inv
  <2> QED
    BY <1>2, <2>2, <2>3, Frame DEF Inv, Apply
<1> QED
  BY <1>3, <1>4

\* A tick lets time pass: what the puppet remembers of its swing grows older with the swing.
LEMMA TickKeeps ==
  ASSUME Inv, Tick
  PROVE  Inv'
<1>1. Ledger'
  BY ElapseKeeps DEF Inv, Tick
<1>2. PICK sq \in Squad : sq = puppet
  BY DEF Inv
<1>3. PICK l \in 0 .. AttackCooldown :
        /\ l = Min({AttackCooldown, sq.last + 1})
        /\ \A g \in 0 .. AttackCooldown : sq.last = g /\ g + 1 < AttackCooldown => l = g + 1
  <2>1. PICK a \in Int, b \in Int : a = AttackCooldown /\ b = sq.last + 1
    BY SquadUpdates
  <2>2. Min({a, b}) \in {a, b} /\ Min({a, b}) <= a /\ Min({a, b}) <= b
    BY MinMax
  <2> QED
    BY <2>1, <2>2, SquadUpdates
<1>4. PICK n \in 0 .. PatrolResume : n = Max({0, sq.alert - 1})
  <2>1. PICK a \in Int, b \in Int : a = 0 /\ b = sq.alert - 1
    BY SquadUpdates
  <2>2. Max({a, b}) \in {a, b} /\ Max({a, b}) >= a
    BY MinMax
  <2> QED
    BY <2>1, <2>2, SquadUpdates
<1>5. PICK c \in 0 .. CorpseDelay + 1 : c = Max({0, sq.corpse - 1})
  <2>1. PICK a \in Int, b \in Int : a = 0 /\ b = sq.corpse - 1
    BY SquadUpdates
  <2>2. Max({a, b}) \in {a, b} /\ Max({a, b}) >= a
    BY MinMax
  <2> QED
    BY <2>1, <2>2, SquadUpdates
<1>6. puppet' = [sq EXCEPT !.last = l, !.alert = n, !.corpse = c]
  BY <1>2, <1>3, <1>4, <1>5 DEF Tick, Squad
<1>7. puppet' \in Squad /\ puppet'.state = sq.state /\ puppet'.target = sq.target /\ puppet'.last = l
  BY <1>6 DEF Squad
<1>8. Pursues(puppet') /\ (Alive(puppet') => Alive(sq))
  BY <1>2, <1>7 DEF Inv, Pursues, Alive
<1>9. Spaced'
  <2>1. swings' = {g + 1 : g \in {h \in swings : h < AttackCooldown}}
    BY DEF Tick, Elapse
  <2>2. \A g \in swings : g \in 0 .. AttackCooldown
    BY DEF Inv, Spaced
  <2>3. swings' \subseteq 0 .. AttackCooldown
    BY <2>1, <2>2
  <2>4. ASSUME NEW g \in swings', NEW h \in swings', g < AttackCooldown, h < AttackCooldown
        PROVE  g = h
    <3>1. PICK x \in swings, y \in swings :
            x < AttackCooldown /\ y < AttackCooldown /\ g = x + 1 /\ h = y + 1
      BY <2>1
    <3>2. x = y
      BY <3>1 DEF Inv, Spaced
    <3> QED
      BY <3>1, <3>2
  <2>5. ASSUME Alive(puppet'), NEW g \in swings', g < AttackCooldown PROVE puppet'.last = g
    <3>1. PICK x \in swings : x < AttackCooldown /\ g = x + 1
      BY <2>1
    <3>2. sq.last = x /\ x \in 0 .. AttackCooldown
      BY <1>2, <1>8, <2>2, <2>5, <3>1 DEF Inv, Spaced
    <3>3. l = x + 1
      BY <1>3, <2>5, <3>1, <3>2
    <3> QED
      BY <1>7, <3>1, <3>3
  <2> QED
    BY <2>3, <2>4, <2>5 DEF Spaced
<1>10. TickOf(tick)'
  <2>1. PICK T \in SUBSET Player : T = Targets
    BY DEF Targets
  <2>2. PICK v \in [T -> Range3] : v = [p \in T |-> player[p].range]
    BY DEF Inv, People, Person
  <2>3. tick' = [pc |-> "step", views |-> v]
    BY <2>1, <2>2 DEF Tick
  <2>4. TickOf([pc |-> "step", views |-> v])
    BY TickRecords
  <2> QED
    BY <2>3, <2>4
<1> QED
  BY <1>1, <1>7, <1>8, <1>9, <1>10, Frame DEF Inv, Tick

\* The zones that the tick ends with.
LEMMA ZonesKeeps == TickOf(Zones)
<1>1. Mover \in SUBSET Player
  OBVIOUS
<1> QED
  BY <1>1, TickRecords DEF Zones

\* A despawned puppet.
LEMMA TickNoneKeeps ==
  ASSUME Inv, TickNone
  PROVE  Inv'
<1>1. TickOf(tick)'
  BY ZonesKeeps DEF TickNone
<1> QED
  BY <1>1, Frame DEF Inv, TickNone

\* A corpse.
LEMMA TickDeadKeeps ==
  ASSUME Inv, TickDead
  PROVE  Inv' /\ puppet'.state \in {"dead", "gone"}
<1>1. TickOf(tick)'
  BY ZonesKeeps DEF TickDead
<1>2. puppet' \in Squad /\ Pursues(puppet') /\ puppet'.state \in {"dead", "gone"}
  BY DecayFits DEF Inv, TickDead
<1>3. Spaced'
  BY <1>2, SpacedKeeps DEF TickDead, Alive
<1> QED
  BY <1>1, <1>2, <1>3, Frame DEF Inv, TickDead

\* A step of the FSM: it swings only when no swing is younger than the cooldown.
LEMMA TickPuppetKeeps ==
  ASSUME Inv, TickPuppet
  PROVE  Inv'
<1>1. PICK T \in SUBSET Player : tick.views \in [T -> Range3]
  BY DEF Inv, TickOf, TickPuppet
<1>2. PICK gate \in BOOLEAN : \E r \in StepCombat(puppet, tick.views, gate) :
        /\ puppet' = r.sq
        /\ swings' = IF r.swing = None THEN swings ELSE swings \cup {0}
        /\ tick' = IF r.swing = None THEN Zones ELSE [pc |-> "melee", target |-> r.swing]
  BY DEF TickPuppet
<1>3. PICK r \in StepCombat(puppet, tick.views, gate) :
        /\ puppet' = r.sq
        /\ swings' = IF r.swing = None THEN swings ELSE swings \cup {0}
        /\ tick' = IF r.swing = None THEN Zones ELSE [pc |-> "melee", target |-> r.swing]
  BY <1>2
<1>4. Alive(puppet)
  BY DEF TickPuppet, Alive
<1>5. StepFits(puppet, r)
  BY <1>1, <1>4, CombatFits DEF Inv
<1>6. puppet' \in Squad /\ Pursues(puppet')
  BY <1>3, <1>5 DEF StepFits
<1>7. CASE r.swing = None
  <2>1. swings' = swings /\ tick' = Zones /\ puppet'.last = puppet.last
    BY <1>3, <1>5, <1>7 DEF StepFits
  <2>2. Spaced'
    BY <1>4, <2>1, SpacedKeeps
  <2>3. TickOf(tick)'
    BY <2>1, ZonesKeeps
  <2> QED
    BY <1>6, <2>2, <2>3, Frame DEF Inv, TickPuppet
<1>8. CASE r.swing # None
  <2>1. PICK t \in Player : t = r.swing
    BY <1>5, <1>8 DEF StepFits
  <2>2. swings' = swings \cup {0} /\ tick' = [pc |-> "melee", target |-> t]
    BY <1>3, <1>8, <2>1
  <2>3. puppet'.last = 0 /\ puppet.last >= AttackCooldown
    BY <1>3, <1>5, <1>8 DEF StepFits
  <2>4. \A g \in swings : g \in 0 .. AttackCooldown /\ ~(g < AttackCooldown)
    <3>1. puppet.last \in 0 .. AttackCooldown
      BY SquadUpdates DEF Inv
    <3>2. ASSUME NEW g \in swings PROVE g \in 0 .. AttackCooldown /\ (g < AttackCooldown => puppet.last = g)
      BY <1>4 DEF Inv, Spaced
    <3> QED
      BY <2>3, <3>1, <3>2
  <2>5. Spaced'
    <3>1. 0 \in 0 .. AttackCooldown
      OBVIOUS
    <3> QED
      BY <2>2, <2>3, <2>4, <3>1 DEF Spaced
  <2>6. TickOf([pc |-> "melee", target |-> t])
    BY TickRecords
  <2>7. TickOf(tick)'
    BY <2>2, <2>6
  <2> QED
    BY <1>6, <2>5, <2>7, Frame DEF Inv, TickPuppet
<1> QED
  BY <1>7, <1>8

\* The hit of a swing.
LEMMA MeleeKeeps ==
  ASSUME Inv, Melee
  PROVE  Inv'
<1>1. PICK t \in Player : t = tick.target
  BY DEF Inv, TickOf, Melee
<1>2. TickOf(tick)'
  BY ZonesKeeps DEF Melee
<1>3. CASE UNCHANGED <<budget, dealt, player>>
  BY <1>2, <1>3, Frame DEF Inv, Melee
<1>4. CASE /\ Charged(ThePuppet, MeleeDamage) > 0
           /\ Charge(ThePuppet, Charged(ThePuppet, MeleeDamage))
           /\ Hurt(t, Charged(ThePuppet, MeleeDamage))
  <2>1. ThePuppet \in Attacker /\ MeleeDamage \in Int
    BY DEF Attacker
  <2>2. PICK n \in Nat : /\ n = Charged(ThePuppet, MeleeDamage)
                         /\ SumOf(budget[ThePuppet], Age) + n <= DamageBudget
    BY <1>4, <2>1, ChargedFits DEF Inv
  <2>3. Ledger'
    BY <1>4, <2>1, <2>2, ChargeKeeps DEF Inv
  <2>4. People'
    BY <1>4, <2>2, HurtKeeps DEF Inv
  <2> QED
    BY <1>2, <2>3, <2>4, Frame DEF Inv, Melee
<1> QED
  BY <1>1, <1>3, <1>4 DEF Melee

\* Every step keeps the invariant.
LEMMA InvNext == Inv /\ [Next]_vars => Inv'
<1> SUFFICES ASSUME Inv, [Next]_vars PROVE Inv'
  OBVIOUS
<1>1. CASE UNCHANGED vars
  BY <1>1, Frame DEF Inv, vars
<1>2. CASE GameLoop
  <2>1. ASSUME NEW p \in Mover, TickReadZone(p) PROVE Inv'
    BY <2>1, TickReadZoneKeeps
  <2> QED
    BY <1>2, <2>1, TickKeeps, TickNoneKeeps, TickDeadKeeps, TickPuppetKeeps, MeleeKeeps,
       TickSetFlagKeeps DEF GameLoop
<1>3. ASSUME NEW p \in Mover, Move(p) \/ SetFlag(p) \/ LevelChange(p) \/ ReadZone(p) PROVE Inv'
  <2>1. p \in Player
    OBVIOUS
  <2> QED
    BY <1>3, <2>1, MoveKeeps, SetFlagKeeps, LevelChangeKeeps, ReadZoneKeeps
<1>4. ASSUME NEW p \in Shooter, Fire(p) \/ Validate(p) \/ Apply(p) PROVE Inv'
  <2>1. p \in Player
    OBVIOUS
  <2> QED
    BY <1>4, <2>1, FireKeeps, ValidateKeeps, ApplyKeeps
<1> QED
  BY <1>1, <1>2, <1>3, <1>4 DEF Next

\* The invariant holds throughout.
LEMMA Invariant == Spec => []Inv
BY InvInit, InvNext, PTL DEF Spec

-----------------------------------------------------------------------------
\* The damage that the server accepts of an attacker, player or puppet, never exceeds the
\* budget within the window of a second (DamageHandler.chargeBudget, game/damage.go), for
\* any number of players, any budget, any window and any damage that clients report.
THEOREM Budget == Spec => []BudgetHolds
<1>1. Inv => BudgetHolds
  <2> SUFFICES ASSUME Inv, NEW a \in Attacker
               PROVE  SumFunction(dealt[a]) <= DamageBudget
    BY DEF BudgetHolds
  <2>1. SumOf(dealt[a], Age) <= DamageBudget /\ DOMAIN dealt[a] = Age
    BY DEF Inv, Ledger
  <2> QED
    BY <2>1 DEF SumFunction, SumOf
<1> QED
  BY <1>1, Invariant, PTL

\* Two swings of a puppet are at least the cooldown apart (stepCombat, ai/combat.go), whatever
\* it does between them.
THEOREM Spacing == Spec => []SwingSpacing
<1>1. Inv => SwingSpacing
  <2> SUFFICES ASSUME Inv PROVE Cardinality({g \in swings : g < AttackCooldown}) <= 1
    BY DEF SwingSpacing
  <2>1. PICK S : S = {g \in swings : g < AttackCooldown}
    OBVIOUS
  <2>2. \A g, h \in S : g = h
    BY <2>1 DEF Inv, Spaced
  <2>3. ASSUME S = {} PROVE Cardinality(S) = 0
    BY <2>3, FS_EmptySet
  <2>4. ASSUME S # {} PROVE Cardinality(S) = 1
    <3>0. PICK g \in S : TRUE
      BY <2>4
    <3>1. S = {g}
      BY <2>2, <3>0
    <3> QED
      BY <3>1, FS_Singleton
  <2>5. Cardinality(S) <= 1
    BY <2>3, <2>4
  <2> QED
    BY <2>1, <2>5, Zenon
<1> QED
  BY <1>1, Invariant, PTL

\* The puppet has a target exactly while it chases or attacks (ai/combat.go), and every
\* variable has its type: no hit takes the health below nothing.
THEOREM Pursuit == Spec => []PursuitSound
<1>1. Inv => PursuitSound
  <2> SUFFICES ASSUME Inv PROVE TypeOK /\ PursuitHasTarget
    BY DEF PursuitSound
  <2>1. PursuitHasTarget
    BY DEF Inv, Pursues, PursuitHasTarget
  <2>2. player \in [Player -> [level: Level, range: {Reach, Aggro, Away}, zone: BOOLEAN,
                               flag: BOOLEAN, health: 0 .. FullHealth]]
    BY DEF Inv, People, Person, Range3
  <2>3. \A p \in Player : work[p].pc \in {"idle", "flag", "read", "aimed", "apply"}
    BY DEF Inv, Works, WorkOf
  <2>4. puppet \in Squad /\ swings \subseteq 0 .. AttackCooldown
    BY DEF Inv, Spaced
  <2>5. tick.pc \in {"idle", "step", "melee", "zones", "zone"}
    BY DEF Inv, TickOf
  <2>6. budget \in [Attacker -> [Age -> Nat]] /\ dealt \in [Attacker -> [Age -> Nat]]
    BY DEF Inv, Ledger
  <2> QED
    BY <2>1, <2>2, <2>3, <2>4, <2>5, <2>6 DEF TypeOK, Squad
<1> QED
  BY <1>1, Invariant, PTL

\* A killed puppet stays dead until it is despawned, and a despawned one never returns: no
\* later hit, tick or step of the FSM revives it (ApplyPuppetDamage, tickPuppetsLocked).
THEOREM DeadStays == Spec => PuppetStaysDead
<1>1. ASSUME Inv, Next
      PROVE  /\ puppet.state = "dead" => puppet'.state \in {"dead", "gone"}
             /\ puppet.state = "gone" => puppet'.state = "gone"
  <2>1. CASE UNCHANGED puppet
    BY <2>1
  <2>2. CASE Tick
    BY <1>1, <2>2 DEF Tick, Inv, Squad
  <2>3. CASE TickDead
    BY <1>1, <2>3, TickDeadKeeps DEF TickDead
  <2>4. CASE TickPuppet
    BY <2>4 DEF TickPuppet
  <2>5. ASSUME NEW p \in Shooter, Apply(p)
        PROVE  UNCHANGED puppet \/ ~(puppet.state \in {"dead", "gone"})
    BY <2>5 DEF Apply, Wounded
  <2>6. \/ UNCHANGED puppet \/ Tick \/ TickDead \/ TickPuppet
        \/ \E p \in Shooter : Apply(p)
    BY <1>1 DEF Next, GameLoop, TickNone, Melee, TickSetFlag, TickReadZone, Move, SetFlag,
                LevelChange, ReadZone, Fire, Validate
  <2> QED
    BY <2>1, <2>2, <2>3, <2>4, <2>5, <2>6
<1> QED
  BY <1>1, Invariant, PTL DEF Spec, PuppetStaysDead
=============================================================================
