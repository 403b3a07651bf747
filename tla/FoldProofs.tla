----------------------------- MODULE FoldProofs ------------------------------
(***************************************************************************)
(* What the folds of the community modules compute.  FoldLeft, FoldSet and  *)
(* SumFunction are all MapThenFoldSet, whose recursive function exists and  *)
(* is the only one: a fold over a set that is not empty is one step from    *)
(* the fold over the set without the element it picks, and two folds whose  *)
(* steps agree are equal.  The provers take no operator as the argument of  *)
(* a theorem, so the step and the choice are constants: a module that folds *)
(* INSTANCEs this one with its own.                                         *)
(***************************************************************************)
EXTENDS Integers, FiniteSets, FiniteSetTheorems, NaturalsInduction, WellFoundedInduction, TLAPS

CONSTANTS
  Step(_, _, _),   \* Step(data, sofar, x): what a fold makes of the next element
  Pick(_)          \* the element of a set it takes last

\* The recursion of MapThenFoldSet.
FoldStep(data, base, s, table) ==
  IF s = {} THEN base ELSE Step(data, table[s \ {Pick(s)}], Pick(s))
FoldTable(data, base, S) ==
  CHOOSE table : table = [s \in SUBSET S |-> FoldStep(data, base, s, table)]
Fold(data, base, S) == FoldTable(data, base, S)[S]

-----------------------------------------------------------------------------
(* Least numbers and smallest sets: the inductions of these proofs look at   *)
(* the least counterexample.                                                 *)

\* A set of numbers has a least one.
LEMMA LeastNat ==
  ASSUME NEW S \in SUBSET Nat, S # {}
  PROVE  \E x \in S : \A y \in S : x <= y
<1> DEFINE Less == {s \in Nat \X Nat : s[1] < s[2]}
<1>1. IsWellFoundedOn(Less, Nat)
  <2>1. OpToRel(<, Nat) = Less
    BY DEF OpToRel
  <2> QED BY <2>1, NatLessThanWellFounded
<1>2. PICK x \in S : \A y \in S : ~(<<y, x>> \in Less)
  <2> HIDE DEF Less
  <2> QED BY <1>1, WFMin, Zenon
<1>3. \A y \in S : y < x => <<y, x>> \in Less
  OBVIOUS
<1>4. \A y \in S : ~(y < x)
  BY <1>2, <1>3, Zenon
<1> QED BY <1>4

LEMMA Fewer ==
  ASSUME NEW s, IsFiniteSet(s), NEW x \in s
  PROVE  /\ IsFiniteSet(s \ {x}) /\ Cardinality(s \ {x}) < Cardinality(s)
         /\ Cardinality(s \ {x}) \in Nat /\ Cardinality(s) \in Nat
BY FS_RemoveElement, FS_CardinalityType

\* What a finite set has when it has it without one of its elements: a family of
\* subsets of a finite set that is not empty has one that no longer is in it
\* without any of its elements.
LEMMA MinimalIn ==
  ASSUME NEW S, IsFiniteSet(S), NEW F \in SUBSET SUBSET S, F # {}
  PROVE  \E s \in F : IsFiniteSet(s) /\ \A x \in s : s \ {x} \notin F
<1> DEFINE Sizes == {Cardinality(s) : s \in F}
<1>1. \A s \in F : IsFiniteSet(s) /\ Cardinality(s) \in Nat
  BY FS_Subset, FS_CardinalityType
<1>2. Sizes \in SUBSET Nat /\ Sizes # {}
  BY <1>1
<1>3. PICK n \in Sizes : \A m \in Sizes : n <= m
  <2> HIDE DEF Sizes
  <2> QED BY <1>2, LeastNat
<1>4. PICK s \in F : n = Cardinality(s)
  OBVIOUS
<1>5. ASSUME NEW x \in s, s \ {x} \in F PROVE FALSE
  <2>1. Cardinality(s \ {x}) < Cardinality(s)
    BY <1>1, Fewer
  <2>2. Cardinality(s) <= Cardinality(s \ {x})
    BY <1>3, <1>4, <1>5
  <2>3. Cardinality(s) \in Nat /\ Cardinality(s \ {x}) \in Nat
    BY <1>1, <1>5
  <2> QED BY <2>1, <2>2, <2>3
<1> QED BY <1>1, <1>5

-----------------------------------------------------------------------------
(* The function a fold chooses is the recursive one.                         *)

Picks(S) == \A s \in SUBSET S : s # {} => Pick(s) \in s
UpTo(S, n) == {s \in SUBSET S : Cardinality(s) <= n}
FoldsOn(data, base, T, table) == /\ DOMAIN table = T
                                 /\ \A s \in T : table[s] = FoldStep(data, base, s, table)

LEMMA FoldExistsTo ==
  ASSUME NEW data, NEW base, NEW S, IsFiniteSet(S), Picks(S)
  PROVE  \A n \in Nat : \E h : FoldsOn(data, base, UpTo(S, n), h)
<1> DEFINE Bad == {n \in Nat : ~\E h : FoldsOn(data, base, UpTo(S, n), h)}
<1>0. \A s \in SUBSET S : IsFiniteSet(s) /\ Cardinality(s) \in Nat
  BY FS_Subset, FS_CardinalityType
<1> SUFFICES ASSUME Bad # {} PROVE FALSE
  OBVIOUS
<1>1. PICK m \in Bad : \A k \in Bad : m <= k
  <2>1. Bad \in SUBSET Nat
    OBVIOUS
  <2> HIDE DEF Bad
  <2> QED BY <2>1, LeastNat
<1>2. m \in Nat /\ ~\E h : FoldsOn(data, base, UpTo(S, m), h)
  OBVIOUS
<1>3. \E h : m # 0 => FoldsOn(data, base, UpTo(S, m - 1), h)
  <2>1. CASE m = 0
    BY <2>1
  <2>2. CASE m # 0
    <3>1. m - 1 \in Nat /\ m - 1 \notin Bad
      BY <1>1, <1>2, <2>2
    <3> QED BY <3>1
  <2> QED BY <2>1, <2>2
<1>4. PICK h : m # 0 => FoldsOn(data, base, UpTo(S, m - 1), h)
  BY <1>3
<1> DEFINE g == [s \in UpTo(S, m) |-> FoldStep(data, base, s, h)]
<1>5. ASSUME NEW s \in UpTo(S, m), s # {}
      PROVE  /\ m # 0 /\ s \ {Pick(s)} \in UpTo(S, m - 1) /\ s \ {Pick(s)} \in UpTo(S, m)
  <2>1. s \in SUBSET S /\ Cardinality(s) <= m /\ IsFiniteSet(s)
    BY <1>0, <1>5 DEF UpTo
  <2>2. Pick(s) \in s
    BY <1>5, <2>1 DEF Picks
  <2>3. /\ Cardinality(s \ {Pick(s)}) < Cardinality(s)
        /\ Cardinality(s \ {Pick(s)}) \in Nat /\ Cardinality(s) \in Nat
    BY <2>1, <2>2, Fewer
  <2>4. Cardinality(s \ {Pick(s)}) <= m - 1 /\ m # 0 /\ Cardinality(s \ {Pick(s)}) <= m
    BY <2>1, <2>3, <1>2
  <2> QED BY <2>1, <2>4 DEF UpTo
<1>6. ASSUME NEW t \in UpTo(S, m - 1), t \in UpTo(S, m), m # 0
      PROVE  g[t] = h[t]
  BY <1>4, <1>6 DEF FoldsOn
<1>7. \A s \in UpTo(S, m) : g[s] = FoldStep(data, base, s, g)
  <2> SUFFICES ASSUME NEW s \in UpTo(S, m) PROVE g[s] = FoldStep(data, base, s, g)
    OBVIOUS
  <2>1. CASE s = {}
    BY <2>1 DEF FoldStep
  <2>2. CASE s # {}
    <3>1. /\ m # 0 /\ s \ {Pick(s)} \in UpTo(S, m - 1) /\ s \ {Pick(s)} \in UpTo(S, m)
      BY <1>5, <2>2
    <3>2. g[s \ {Pick(s)}] = h[s \ {Pick(s)}]
      BY <3>1, <1>6
    <3>3. g[s] = FoldStep(data, base, s, h)
      OBVIOUS
    <3> HIDE DEF g
    <3> QED BY <3>2, <3>3, <2>2 DEF FoldStep
  <2> QED BY <2>1, <2>2
<1>8. FoldsOn(data, base, UpTo(S, m), g)
  <2>1. DOMAIN g = UpTo(S, m)
    OBVIOUS
  <2> HIDE DEF g
  <2> QED BY <2>1, <1>7 DEF FoldsOn
<1> QED BY <1>8, <1>2

LEMMA FoldIsRecursive ==
  ASSUME NEW data, NEW base, NEW S, IsFiniteSet(S), Picks(S)
  PROVE  FoldsOn(data, base, SUBSET S, FoldTable(data, base, S))
<1>1. UpTo(S, Cardinality(S)) = SUBSET S /\ Cardinality(S) \in Nat
  BY FS_Subset, FS_CardinalityType DEF UpTo
<1>2. PICK h : FoldsOn(data, base, SUBSET S, h)
  <2>1. \A n \in Nat : \E h : FoldsOn(data, base, UpTo(S, n), h)
    BY FoldExistsTo
  <2>2. \E h : FoldsOn(data, base, UpTo(S, Cardinality(S)), h)
    BY <2>1, <1>1
  <2> QED BY <2>2, <1>1
<1> DEFINE k == [s \in SUBSET S |-> h[s]]
<1>3. \A s \in SUBSET S : FoldStep(data, base, s, k) = FoldStep(data, base, s, h)
  <2> SUFFICES ASSUME NEW s \in SUBSET S PROVE FoldStep(data, base, s, k) = FoldStep(data, base, s, h)
    OBVIOUS
  <2>1. s \ {Pick(s)} \in SUBSET S
    OBVIOUS
  <2>2. k[s \ {Pick(s)}] = h[s \ {Pick(s)}]
    BY <2>1
  <2> HIDE DEF k
  <2> QED BY <2>2 DEF FoldStep
<1>4. k = [s \in SUBSET S |-> FoldStep(data, base, s, k)]
  <2>1. \A s \in SUBSET S : k[s] = FoldStep(data, base, s, k)
    BY <1>2, <1>3 DEF FoldsOn
  <2>2. k = [s \in SUBSET S |-> k[s]]
    OBVIOUS
  <2> HIDE DEF k
  <2> QED BY <2>1, <2>2
<1>5. \E table : table = [s \in SUBSET S |-> FoldStep(data, base, s, table)]
  BY <1>4
<1>6. FoldTable(data, base, S) = [s \in SUBSET S |-> FoldStep(data, base, s, FoldTable(data, base, S))]
  BY <1>5, Zenon DEF FoldTable
<1> DEFINE I == FoldTable(data, base, S)
<1> HIDE DEF I
<1>7. I = [s \in SUBSET S |-> FoldStep(data, base, s, I)]
  BY <1>6 DEF I
<1>8. DOMAIN I = SUBSET S /\ \A s \in SUBSET S : I[s] = FoldStep(data, base, s, I)
  BY <1>7, Zenon
<1> QED BY <1>8 DEF FoldsOn, I

\* Two folds whose steps agree on a set agree on every part of it.
LEMMA TablesAgree ==
  ASSUME NEW data, NEW other, NEW base, NEW S, NEW T,
         IsFiniteSet(S), IsFiniteSet(T), Picks(S), Picks(T),
         NEW U, U \subseteq S, U \subseteq T,
         \A x \in U : \A sofar : Step(data, sofar, x) = Step(other, sofar, x)
  PROVE  \A s \in SUBSET U : FoldTable(data, base, S)[s] = FoldTable(other, base, T)[s]
<1> DEFINE I == FoldTable(data, base, S)
           J == FoldTable(other, base, T)
           Bad == {s \in SUBSET U : I[s] # J[s]}
<1>1. FoldsOn(data, base, SUBSET S, I) /\ FoldsOn(other, base, SUBSET T, J)
  BY FoldIsRecursive
<1> HIDE DEF I, J
<1> SUFFICES ASSUME Bad # {} PROVE FALSE
  BY DEF I, J
<1>2. Bad \in SUBSET SUBSET U /\ IsFiniteSet(U)
  BY FS_Subset
<1>3. PICK s \in Bad : IsFiniteSet(s) /\ \A x \in s : s \ {x} \notin Bad
  <2> HIDE DEF Bad
  <2> QED BY <1>2, MinimalIn
<1>4. s \in SUBSET U /\ I[s] # J[s] /\ s \in SUBSET S /\ s \in SUBSET T
  OBVIOUS
<1>5. I[s] = FoldStep(data, base, s, I) /\ J[s] = FoldStep(other, base, s, J)
  BY <1>1, <1>4 DEF FoldsOn
<1>6. CASE s = {}
  BY <1>4, <1>5, <1>6 DEF FoldStep
<1>7. CASE s # {}
  <2>1. Pick(s) \in s
    BY <1>4, <1>7 DEF Picks
  <2>3. s \ {Pick(s)} \notin Bad
    BY <2>1, <1>3
  <2>4. I[s \ {Pick(s)}] = J[s \ {Pick(s)}]
    BY <2>3, <1>4
  <2>5. Step(data, J[s \ {Pick(s)}], Pick(s)) = Step(other, J[s \ {Pick(s)}], Pick(s))
    BY <2>1, <1>4
  <2> QED BY <2>4, <2>5, <1>4, <1>5, <1>7 DEF FoldStep
<1> QED BY <1>6, <1>7

-----------------------------------------------------------------------------
(* What a fold is, as rules to compute with.                                 *)

LEMMA FoldAgrees ==
  ASSUME NEW data, NEW other, NEW base, NEW S, IsFiniteSet(S), Picks(S),
         \A x \in S : \A sofar : Step(data, sofar, x) = Step(other, sofar, x)
  PROVE  Fold(data, base, S) = Fold(other, base, S)
<1>1. \A s \in SUBSET S : FoldTable(data, base, S)[s] = FoldTable(other, base, S)[s]
  BY TablesAgree
<1> QED BY <1>1 DEF Fold

LEMMA FoldOfNone ==
  ASSUME NEW data, NEW base
  PROVE  Fold(data, base, {}) = base
<1>1. IsFiniteSet({}) /\ Picks({})
  BY FS_EmptySet DEF Picks
<1>2. FoldsOn(data, base, SUBSET {}, FoldTable(data, base, {}))
  BY <1>1, FoldIsRecursive
<1> QED BY <1>2 DEF FoldsOn, FoldStep, Fold

LEMMA FoldUnfolds ==
  ASSUME NEW data, NEW base, NEW S, IsFiniteSet(S), Picks(S), S # {}
  PROVE  /\ Pick(S) \in S
         /\ Fold(data, base, S) = Step(data, Fold(data, base, S \ {Pick(S)}), Pick(S))
<1> DEFINE T == S \ {Pick(S)}
<1>1. FoldsOn(data, base, SUBSET S, FoldTable(data, base, S))
  BY FoldIsRecursive
<1>2. Pick(S) \in S
  BY DEF Picks
<1>3. FoldTable(data, base, S)[S] = Step(data, FoldTable(data, base, S)[T], Pick(S))
  BY <1>1 DEF FoldsOn, FoldStep
<1>4. IsFiniteSet(T) /\ T \subseteq S /\ Picks(T)
  BY FS_Subset DEF Picks
<1> HIDE DEF T
<1>5. \A s \in SUBSET T : FoldTable(data, base, S)[s] = FoldTable(data, base, T)[s]
  BY <1>4, TablesAgree
<1>6. FoldTable(data, base, S)[T] = FoldTable(data, base, T)[T]
  BY <1>5
<1> QED BY <1>2, <1>3, <1>6 DEF T, Fold
==============================================================================
