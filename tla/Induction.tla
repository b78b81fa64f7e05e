------------------------------- MODULE Induction -------------------------------
(***************************************************************************)
(* Lemmas about finite sets that stand in for induction: the least and the *)
(* greatest of a set of numbers, and that a definition by recursion over   *)
(* the parts of a finite set, as the folds of the community modules are,   *)
(* has a function that satisfies it.  What is folded is a function here,   *)
(* so that the lemmas can be used for any fold.                            *)
(***************************************************************************)
EXTENDS Integers, FiniteSetTheorems, WellFoundedInduction, TLAPS

(* Every non-empty set of parts of a finite set has a smallest part. *)
LEMMA SmallestPart ==
  ASSUME NEW D, IsFiniteSet(D), NEW T \in SUBSET SUBSET D, T # {}
  PROVE  \E x \in T : \A y \in T : y \subseteq x => y = x
  <1>1. IsWellFoundedOn(StrictSubsetOrdering(D), SUBSET D)
    BY FS_FiniteSubsetsOfFinite, FS_StrictSubsetOrderingWellFounded
  <1>2. PICK x \in T : \A y \in T : ~ (<<y, x>> \in StrictSubsetOrdering(D))
    BY <1>1, WFMin
  <1>3. QED
    BY <1>2 DEF StrictSubsetOrdering

(* A set of parts of D that holds the empty part, and each part of which a *)
(* member taken away leaves a part it holds, holds every part.             *)
LEMMA AllParts ==
  ASSUME NEW D, IsFiniteSet(D), NEW T \in SUBSET SUBSET D, {} \in T,
         \A S \in SUBSET D : S # {} /\ (\A x \in S : S \ {x} \in T) => S \in T
  PROVE  T = SUBSET D
  <1> SUFFICES ASSUME (SUBSET D) \ T # {}
               PROVE  FALSE
    OBVIOUS
  <1> DEFINE U == (SUBSET D) \ T
  <1>1. PICK S \in U : \A y \in U : y \subseteq S => y = S
    <2>1. U \in SUBSET SUBSET D /\ U # {}
      OBVIOUS
    <2> HIDE DEF U
    <2>2. QED
      BY <2>1, SmallestPart
  <1>2. S # {} /\ S \in SUBSET D
    OBVIOUS
  <1>3. ASSUME NEW x \in S
        PROVE  S \ {x} \in T
    BY <1>1
  <1>4. QED
    BY <1>2, <1>3

LEMMA Greatest ==
  ASSUME NEW n \in Nat, NEW S \in SUBSET (0 .. n), S # {}
  PROVE  \E m \in S : \A j \in S : j =< m
  <1> DEFINE D == 0 .. n  T == {i .. n : i \in S}
  <1>1. IsFiniteSet(D)
    BY FS_Interval
  <1>2. T \in SUBSET SUBSET D /\ T # {}
    <2>1. ASSUME NEW i \in S
          PROVE  i .. n \subseteq 0 .. n
      BY <2>1
    <2>2. QED
      BY <2>1
  <1>3. PICK x \in T : \A y \in T : y \subseteq x => y = x
    <2> HIDE DEF T, D
    <2>1. QED
      BY <1>1, <1>2, SmallestPart
  <1>4. PICK m \in S : x = m .. n
    OBVIOUS
  <1>5. ASSUME NEW j \in S, ~ (j =< m)
        PROVE  FALSE
    <2>1. j .. n \subseteq m .. n /\ m \in m .. n /\ m \notin j .. n
      BY <1>5
    <2>2. QED
      BY <1>3, <1>4, <2>1
  <1>6. QED
    BY <1>5

LEMMA Least ==
  ASSUME NEW S \in SUBSET Nat, S # {}
  PROVE  \E m \in S : \A j \in S : m =< j
  <1>1. PICK n \in S : TRUE
    OBVIOUS
  <1> DEFINE T == {n - i : i \in {j \in S : j =< n}}
  <1>2. T \in SUBSET (0 .. n) /\ T # {}
    BY <1>1
  <1>3. PICK k \in T : \A j \in T : j =< k
    <2> HIDE DEF T
    <2>1. QED
      BY <1>1, <1>2, Greatest
  <1>4. PICK m \in S : m =< n /\ k = n - m
    OBVIOUS
  <1>5. ASSUME NEW j \in S
        PROVE  m =< j
    <2>1. CASE j =< n
      <3>1. n - j \in T
        BY <2>1
      <3>2. n - j =< n - m
        BY <1>3, <1>4, <3>1
      <3>3. QED
        BY <1>1, <1>4, <3>2
    <2>2. CASE ~ (j =< n)
      BY <1>1, <1>4, <2>2
    <2>3. QED
      BY <2>1, <2>2
  <1>6. QED
    BY <1>5

(* A set of numbers that holds 0, and with each number the next one, holds *)
(* all numbers.                                                            *)
LEMMA AllNumbers ==
  ASSUME NEW S \in SUBSET Nat, 0 \in S, \A n \in S : n + 1 \in S
  PROVE  S = Nat
  <1> SUFFICES ASSUME Nat \ S # {}
               PROVE  FALSE
    OBVIOUS
  <1>1. PICK m \in Nat \ S : \A j \in Nat \ S : m =< j
    <2>1. Nat \ S \in SUBSET Nat
      OBVIOUS
    <2>2. QED
      BY <2>1, Least
  <1>2. m # 0 /\ m - 1 \in Nat
    BY <1>1
  <1>3. m - 1 \in S
    BY <1>1, <1>2
  <1>4. QED
    BY <1>1, <1>2, <1>3

-----------------------------------------------------------------------------
(* The recursion of MapThenFoldSet: choose takes a member of each part     *)
(* away, and op makes the value of the part of it and of the rest.         *)
Folds(S, base, op, choose, g) ==
    g = [s \in SUBSET S |-> IF s = {} THEN base ELSE op[<<s, g[s \ {choose[s]}]>>]]

LEMMA FoldExists ==
  ASSUME NEW S, IsFiniteSet(S), NEW Values, NEW base \in Values,
         NEW op \in [((SUBSET S) \X Values) -> Values],
         NEW choose, \A s \in (SUBSET S) \ {{}} : choose[s] \in s
  PROVE  \E g \in [SUBSET S -> Values] : Folds(S, base, op, choose, g)
  <1> DEFINE Small(n) == {s \in SUBSET S : Cardinality(s) =< n}
             Step(g, s) == IF s = {} THEN base ELSE op[<<s, g[s \ {choose[s]}]>>]
             N == {n \in Nat : \E g \in [Small(n) -> Values] : \A s \in Small(n) : g[s] = Step(g, s)}
  <1>1. \A s \in SUBSET S : IsFiniteSet(s) /\ Cardinality(s) \in Nat /\ (Cardinality(s) = 0 <=> s = {})
    BY FS_Subset, FS_CardinalityType, FS_EmptySet
  <1>2. ASSUME NEW n \in Nat, NEW s \in Small(n + 1), s # {}
        PROVE  s \ {choose[s]} \in Small(n)
    <2>1. s \in SUBSET S /\ choose[s] \in s /\ IsFiniteSet(s) /\ Cardinality(s) \in Nat /\ Cardinality(s) =< n + 1
      BY <1>1, <1>2
    <2>2. Cardinality(s \ {choose[s]}) = Cardinality(s) - 1
      BY <2>1, FS_RemoveElement
    <2>3. QED
      BY <2>1, <2>2
  <1>3. 0 \in N
    <2> DEFINE g == [s \in Small(0) |-> base]
    <2>1. \A s \in Small(0) : s = {}
      BY <1>1
    <2>2. g \in [Small(0) -> Values] /\ \A s \in Small(0) : g[s] = Step(g, s)
      BY <2>1
    <2>3. QED
      BY <2>2
  <1>4. ASSUME NEW n \in N
        PROVE  n + 1 \in N
    <2>1. PICK g \in [Small(n) -> Values] : \A s \in Small(n) : g[s] = Step(g, s)
      OBVIOUS
    <2> DEFINE h == [s \in Small(n + 1) |-> Step(g, s)]
    <2>2. Small(n) \subseteq Small(n + 1)
      BY <1>1
    <2>3. \A s \in Small(n) : h[s] = g[s]
      BY <2>1, <2>2
    <2>4. ASSUME NEW s \in Small(n + 1)
          PROVE  h[s] \in Values /\ h[s] = Step(h, s)
      <3>1. CASE s = {}
        BY <3>1
      <3>2. CASE s # {}
        <4>1. s \ {choose[s]} \in Small(n)
          BY <1>2, <3>2
        <4>2. h[s \ {choose[s]}] = g[s \ {choose[s]}] /\ g[s \ {choose[s]}] \in Values
          BY <2>1, <2>3, <4>1
        <4>3. <<s, g[s \ {choose[s]}]>> \in (SUBSET S) \X Values
          BY <4>2
        <4>4. QED
          BY <3>2, <4>2, <4>3
      <3>3. QED
        BY <3>1, <3>2
    <2>5. h \in [Small(n + 1) -> Values] /\ \A s \in Small(n + 1) : h[s] = Step(h, s)
      BY <2>4
    <2> HIDE DEF h, Small, Step
    <2>6. n + 1 \in Nat
      OBVIOUS
    <2>7. QED
      BY <2>5, <2>6
  <1>5. Cardinality(S) \in N
    <2>1. N \in SUBSET Nat
      OBVIOUS
    <2> HIDE DEF N
    <2>2. N = Nat
      BY <1>3, <1>4, <2>1, AllNumbers
    <2>3. QED
      BY <2>2, FS_CardinalityType
  <1>6. Small(Cardinality(S)) = SUBSET S
    BY FS_Subset
  <1>7. PICK g \in [SUBSET S -> Values] : \A s \in SUBSET S : g[s] = Step(g, s)
    BY <1>5, <1>6
  <1>8. g = [s \in SUBSET S |-> Step(g, s)]
    BY <1>7
  <1>9. QED
    BY <1>8 DEF Folds

=============================================================================
