--------------------------- MODULE AccountsProofs ---------------------------
(***************************************************************************)
(* What holds of the ledgers for any accounts, amounts, schedules and       *)
(* mutations in flight.  A balance is a column moved by deltas, the ledger  *)
(* a sum over the rows that are there: the two agree because each commit    *)
(* moves both by the same amount, which is so while the rows it read are    *)
(* still the rows it changes.  AccountsInv says, of every mutation in       *)
(* flight, which of what it read survives the commits of the others.        *)
(***************************************************************************)
EXTENDS Accounts, FiniteSetTheorems, NaturalsInduction, WellFoundedInduction, TLAPS

-----------------------------------------------------------------------------
(* Sums over finite sets.  SumFunctionOnSet folds by choosing an element at *)
(* a time; what it has for every finite set it has because a set without it *)
(* that is minimal for inclusion would have it all the same                 *)
(* (MinimalIn).                                                             *)

SomeOf(s) == CHOOSE x \in s : TRUE
AddTerm(f, sum, x) == f[x] + sum
Sums == INSTANCE FoldProofs WITH Step <- AddTerm, Pick <- SomeOf

LEMMA SameFinite == \A S : Sums!IsFiniteSet(S) <=> IsFiniteSet(S)
BY DEF IsFiniteSet, Sums!IsFiniteSet

LEMMA MinimalIn ==
  ASSUME NEW S, IsFiniteSet(S), NEW F \in SUBSET SUBSET S, F # {}
  PROVE  \E s \in F : IsFiniteSet(s) /\ \A x \in s : s \ {x} \notin F
BY SameFinite, Sums!MinimalIn

LEMMA SumIsFold ==
  ASSUME NEW f, NEW S
  PROVE  SumFunctionOnSet(f, S) = Sums!Fold(f, 0, S)
BY DEF SumFunctionOnSet, FoldFunctionOnSet, MapThenFoldSet, Sums!Fold, Sums!FoldTable, Sums!FoldStep,
       AddTerm, SomeOf

LEMMA SomeIn ==
  ASSUME NEW s, s # {}
  PROVE  SomeOf(s) \in s
BY Zenon DEF SomeOf

LEMMA SomePicks ==
  ASSUME NEW S
  PROVE  Sums!Picks(S)
BY SomeIn DEF Sums!Picks

\* Of two functions that agree on a set, the sums over it are one.
LEMMA SumAgrees ==
  ASSUME NEW f, NEW g, NEW S, IsFiniteSet(S), \A x \in S : f[x] = g[x]
  PROVE  SumFunctionOnSet(f, S) = SumFunctionOnSet(g, S)
<1>1. \A x \in S : \A sum : AddTerm(f, sum, x) = AddTerm(g, sum, x)
  BY DEF AddTerm
<1>2. Sums!Fold(f, 0, S) = Sums!Fold(g, 0, S)
  BY <1>1, SomePicks, SameFinite, Sums!FoldAgrees
<1> QED BY <1>2, SumIsFold

LEMMA SumOfNone ==
  ASSUME NEW f
  PROVE  SumFunctionOnSet(f, {}) = 0
BY SumIsFold, Sums!FoldOfNone

\* The definition of the sum, as a rule.
LEMMA SumUnfolds ==
  ASSUME NEW f, NEW S, IsFiniteSet(S), S # {}
  PROVE  /\ SomeOf(S) \in S
         /\ SumFunctionOnSet(f, S) = f[SomeOf(S)] + SumFunctionOnSet(f, S \ {SomeOf(S)})
<1>1. Sums!Fold(f, 0, S) = AddTerm(f, Sums!Fold(f, 0, S \ {SomeOf(S)}), SomeOf(S))
  BY SomePicks, SameFinite, Sums!FoldUnfolds
<1> QED BY <1>1, SumIsFold, SomeIn DEF AddTerm

LEMMA SumIsInt ==
  ASSUME NEW f, NEW S, IsFiniteSet(S), \A x \in S : f[x] \in Int
  PROVE  SumFunctionOnSet(f, S) \in Int
<1> DEFINE Bad == {s \in SUBSET S : SumFunctionOnSet(f, s) \notin Int}
<1> SUFFICES ASSUME Bad # {} PROVE FALSE
  OBVIOUS
<1>1. Bad \in SUBSET SUBSET S
  OBVIOUS
<1>2. PICK s \in Bad : IsFiniteSet(s) /\ \A x \in s : s \ {x} \notin Bad
  <2> HIDE DEF Bad
  <2> QED BY <1>1, MinimalIn
<1>3. s # {}
  BY SumOfNone
<1>4. SomeOf(s) \in s /\ SumFunctionOnSet(f, s) = f[SomeOf(s)] + SumFunctionOnSet(f, s \ {SomeOf(s)})
  BY <1>2, <1>3, SumUnfolds
<1>6. s \ {SomeOf(s)} \notin Bad
  BY <1>2, <1>4
<1>7. SumFunctionOnSet(f, s \ {SomeOf(s)}) \in Int
  BY <1>6
<1> QED BY <1>4, <1>7

\* Whichever element is taken out first.
LEMMA SumTakesOut ==
  ASSUME NEW f, NEW S, IsFiniteSet(S), \A x \in S : f[x] \in Int, NEW x \in S
  PROVE  SumFunctionOnSet(f, S) = f[x] + SumFunctionOnSet(f, S \ {x})
<1> DEFINE Bad == {s \in SUBSET S : \E y \in s : SumFunctionOnSet(f, s) # f[y] + SumFunctionOnSet(f, s \ {y})}
<1> SUFFICES ASSUME Bad # {} PROVE FALSE
  OBVIOUS
<1>1. \A s \in SUBSET S : IsFiniteSet(s) /\ SumFunctionOnSet(f, s) \in Int
  <2> SUFFICES ASSUME NEW s \in SUBSET S PROVE IsFiniteSet(s) /\ SumFunctionOnSet(f, s) \in Int
    OBVIOUS
  <2>1. IsFiniteSet(s) /\ \A z \in s : f[z] \in Int
    BY FS_Subset
  <2> QED BY <2>1, SumIsInt
<1>2. PICK s \in Bad : IsFiniteSet(s) /\ \A z \in s : s \ {z} \notin Bad
  <2>1. Bad \in SUBSET SUBSET S
    OBVIOUS
  <2> HIDE DEF Bad
  <2> QED BY <2>1, MinimalIn
<1>3. PICK y \in s : SumFunctionOnSet(f, s) # f[y] + SumFunctionOnSet(f, s \ {y})
  OBVIOUS
<1>3a. y \in s
  OBVIOUS
<1> DEFINE p == SomeOf(s)
<1>4. p \in s /\ SumFunctionOnSet(f, s) = f[p] + SumFunctionOnSet(f, s \ {p}) /\ s \in SUBSET S
  BY <1>1, SumUnfolds
<1>5. p # y
  BY <1>3, <1>4
<1> HIDE DEF p
<1>6. s \ {p} \notin Bad /\ s \ {y} \notin Bad
  BY <1>2, <1>3a, <1>4
<1>7. SumFunctionOnSet(f, s \ {p}) = f[y] + SumFunctionOnSet(f, (s \ {p}) \ {y})
  BY <1>6, <1>5, <1>4
<1>8. SumFunctionOnSet(f, s \ {y}) = f[p] + SumFunctionOnSet(f, (s \ {y}) \ {p})
  BY <1>6, <1>5, <1>4
<1>9. (s \ {p}) \ {y} = (s \ {y}) \ {p} /\ (s \ {p}) \ {y} \in SUBSET S
  BY <1>4
<1>10. SumFunctionOnSet(f, (s \ {p}) \ {y}) \in Int /\ f[p] \in Int /\ f[y] \in Int
  BY <1>9, <1>1, <1>4
<1>11. SumFunctionOnSet(f, s) = f[y] + SumFunctionOnSet(f, s \ {y})
  <2> DEFINE rest == SumFunctionOnSet(f, (s \ {p}) \ {y})
  <2>1. /\ rest \in Int /\ SumFunctionOnSet(f, s \ {y}) = f[p] + rest
        /\ SumFunctionOnSet(f, s) = f[p] + (f[y] + rest)
    BY <1>4, <1>7, <1>8, <1>9, <1>10, Zenon
  <2> HIDE DEF rest
  <2> QED BY <2>1, <1>10
<1> QED BY <1>3, <1>11

\* A sum over a set is the sum over a part of it and the sum over the rest.
LEMMA SumSplits ==
  ASSUME NEW f, NEW S, IsFiniteSet(S), \A x \in S : f[x] \in Int, NEW T \in SUBSET S
  PROVE  SumFunctionOnSet(f, S) = SumFunctionOnSet(f, T) + SumFunctionOnSet(f, S \ T)
<1> DEFINE Bad == {t \in SUBSET S : SumFunctionOnSet(f, S) # SumFunctionOnSet(f, t) + SumFunctionOnSet(f, S \ t)}
<1> SUFFICES ASSUME Bad # {} PROVE FALSE
  OBVIOUS
<1>1. \A s \in SUBSET S : IsFiniteSet(s) /\ SumFunctionOnSet(f, s) \in Int
  <2> SUFFICES ASSUME NEW s \in SUBSET S PROVE IsFiniteSet(s) /\ SumFunctionOnSet(f, s) \in Int
    OBVIOUS
  <2>1. IsFiniteSet(s) /\ \A z \in s : f[z] \in Int
    BY FS_Subset
  <2> QED BY <2>1, SumIsInt
<1>2. PICK s \in Bad : IsFiniteSet(s) /\ \A z \in s : s \ {z} \notin Bad
  <2>1. Bad \in SUBSET SUBSET S
    OBVIOUS
  <2> HIDE DEF Bad
  <2> QED BY <2>1, MinimalIn
<1>3. s \in SUBSET S /\ SumFunctionOnSet(f, S) # SumFunctionOnSet(f, s) + SumFunctionOnSet(f, S \ s)
  OBVIOUS
<1>4. s # {}
  <2>1. S \ {} = S /\ SumFunctionOnSet(f, S) \in Int
    BY <1>1
  <2>2. SumFunctionOnSet(f, S) = SumFunctionOnSet(f, {}) + SumFunctionOnSet(f, S \ {})
    <3>1. SumFunctionOnSet(f, S) = 0 + SumFunctionOnSet(f, S)
      BY <2>1
    <3> QED BY <3>1, <2>1, SumOfNone, Zenon
  <2> HIDE DEF Bad
  <2> QED BY <2>2, <1>3, Zenon
<1>5. PICK p : p \in s
  BY <1>4
<1>6. SumFunctionOnSet(f, S) = SumFunctionOnSet(f, s \ {p}) + SumFunctionOnSet(f, S \ (s \ {p}))
  BY <1>2, <1>3, <1>5
<1>7. SumFunctionOnSet(f, s) = f[p] + SumFunctionOnSet(f, s \ {p})
  BY <1>1, <1>3, <1>5, SumTakesOut
<1>8. SumFunctionOnSet(f, S \ (s \ {p})) = f[p] + SumFunctionOnSet(f, S \ s)
  <2>1. (S \ (s \ {p})) \ {p} = S \ s /\ p \in S \ (s \ {p}) /\ IsFiniteSet(S \ (s \ {p}))
    BY <1>1, <1>3, <1>5
  <2>2. \A x \in S \ (s \ {p}) : f[x] \in Int
    OBVIOUS
  <2>3. SumFunctionOnSet(f, S \ (s \ {p})) = f[p] + SumFunctionOnSet(f, (S \ (s \ {p})) \ {p})
    BY <2>1, <2>2, SumTakesOut
  <2> QED BY <2>1, <2>3, Zenon
<1>9. /\ SumFunctionOnSet(f, s \ {p}) \in Int /\ SumFunctionOnSet(f, S \ s) \in Int /\ f[p] \in Int
  BY <1>1, <1>3, <1>5
<1> HIDE DEF Bad
<1> QED BY <1>3, <1>6, <1>7, <1>8, <1>9

\* A sum of zeroes.
LEMMA SumOfZeroes ==
  ASSUME NEW f, NEW S, IsFiniteSet(S), \A x \in S : f[x] = 0
  PROVE  SumFunctionOnSet(f, S) = 0
<1> DEFINE Bad == {s \in SUBSET S : SumFunctionOnSet(f, s) # 0}
<1> SUFFICES ASSUME Bad # {} PROVE FALSE
  OBVIOUS
<1>1. Bad \in SUBSET SUBSET S
  OBVIOUS
<1>2. PICK s \in Bad : IsFiniteSet(s) /\ \A x \in s : s \ {x} \notin Bad
  <2> HIDE DEF Bad
  <2> QED BY <1>1, MinimalIn
<1>3. s # {}
  BY SumOfNone
<1>4. SomeOf(s) \in s /\ SumFunctionOnSet(f, s) = f[SomeOf(s)] + SumFunctionOnSet(f, s \ {SomeOf(s)})
  BY <1>2, <1>3, SumUnfolds
<1>5. s \ {SomeOf(s)} \notin Bad
  BY <1>2, <1>4
<1> QED BY <1>4, <1>5

\* Summing under other names.
LEMMA SumRenamed ==
  ASSUME NEW f, NEW S, IsFiniteSet(S), NEW g, NEW T, NEW b \in [S -> T],
         \A x, y \in S : b[x] = b[y] => x = y, \A y \in T : \E x \in S : b[x] = y,
         \A x \in S : f[x] = g[b[x]] /\ f[x] \in Int
  PROVE  SumFunctionOnSet(f, S) = SumFunctionOnSet(g, T)
<1> DEFINE Names(s) == {b[x] : x \in s}
           Bad == {s \in SUBSET S : ~(IsFiniteSet(Names(s)) /\ SumFunctionOnSet(f, s) = SumFunctionOnSet(g, Names(s)))}
<1>0. Names(S) = T
  OBVIOUS
<1> SUFFICES ASSUME Bad # {} PROVE FALSE
  BY <1>0
<1>1. Bad \in SUBSET SUBSET S
  OBVIOUS
<1>2. PICK s \in Bad : IsFiniteSet(s) /\ \A x \in s : s \ {x} \notin Bad
  <2> HIDE DEF Bad
  <2> QED BY <1>1, MinimalIn
<1>3. s # {}
  <2>1. Names({}) = {}
    OBVIOUS
  <2> QED BY <2>1, SumOfNone, FS_EmptySet
<1>4. SomeOf(s) \in s /\ SumFunctionOnSet(f, s) = f[SomeOf(s)] + SumFunctionOnSet(f, s \ {SomeOf(s)})
  BY <1>2, <1>3, SumUnfolds
<1> DEFINE p == SomeOf(s)
<1> HIDE DEF p
<1>5. p \in s /\ SumFunctionOnSet(f, s) = f[p] + SumFunctionOnSet(f, s \ {p}) /\ s \in SUBSET S
  BY <1>4 DEF p
<1>6. IsFiniteSet(Names(s \ {p})) /\ SumFunctionOnSet(f, s \ {p}) = SumFunctionOnSet(g, Names(s \ {p}))
  BY <1>2, <1>5
<1>7. Names(s) = Names(s \ {p}) \cup {b[p]} /\ b[p] \notin Names(s \ {p})
  BY <1>5
<1>8. \A y \in Names(s) : g[y] \in Int
  BY <1>5
<1>9. Names(s) \ {b[p]} = Names(s \ {p}) /\ b[p] \in Names(s)
  BY <1>7
<1>9a. ~(IsFiniteSet(Names(s)) /\ SumFunctionOnSet(f, s) = SumFunctionOnSet(g, Names(s)))
  OBVIOUS
<1>9b. f[p] = g[b[p]]
  BY <1>5
<1> HIDE DEF Names, Bad
<1>10. IsFiniteSet(Names(s))
  <2>1. IsFiniteSet(Names(s \ {p}) \cup {b[p]})
    BY <1>6, FS_AddElement, Zenon
  <2> QED BY <2>1, <1>7, Zenon
<1>11. SumFunctionOnSet(g, Names(s)) = g[b[p]] + SumFunctionOnSet(g, Names(s) \ {b[p]})
  BY <1>8, <1>9, <1>10, SumTakesOut
<1> QED BY <1>5, <1>6, <1>9, <1>9a, <1>9b, <1>10, <1>11

\* Sums add up term by term.
LEMMA SumsAdd ==
  ASSUME NEW f, NEW g, NEW h, NEW S, IsFiniteSet(S),
         \A x \in S : f[x] \in Int /\ g[x] \in Int /\ h[x] = f[x] + g[x]
  PROVE  SumFunctionOnSet(h, S) = SumFunctionOnSet(f, S) + SumFunctionOnSet(g, S)
<1> DEFINE Bad == {s \in SUBSET S : SumFunctionOnSet(h, s) # SumFunctionOnSet(f, s) + SumFunctionOnSet(g, s)}
<1> SUFFICES ASSUME Bad # {} PROVE FALSE
  OBVIOUS
<1>1. PICK s \in Bad : IsFiniteSet(s) /\ \A x \in s : s \ {x} \notin Bad
  <2>1. Bad \in SUBSET SUBSET S
    OBVIOUS
  <2> HIDE DEF Bad
  <2> QED BY <2>1, MinimalIn
<1>2. s # {}
  <2>1. SumFunctionOnSet(f, {}) = 0 /\ SumFunctionOnSet(g, {}) = 0 /\ SumFunctionOnSet(h, {}) = 0
    BY SumOfNone, Zenon
  <2> SUFFICES ASSUME s = {} PROVE FALSE
    OBVIOUS
  <2>2. SumFunctionOnSet(h, {}) # SumFunctionOnSet(f, {}) + SumFunctionOnSet(g, {})
    OBVIOUS
  <2> QED BY <2>1, <2>2
<1> DEFINE p == SomeOf(s)
           t == s \ {p}
<1>3. /\ p \in s /\ SumFunctionOnSet(f, s) = f[p] + SumFunctionOnSet(f, t)
      /\ SumFunctionOnSet(g, s) = g[p] + SumFunctionOnSet(g, t)
      /\ SumFunctionOnSet(h, s) = h[p] + SumFunctionOnSet(h, t)
  BY <1>1, <1>2, SumUnfolds
<1> HIDE DEF p
<1>4. t \notin Bad /\ t \in SUBSET S /\ IsFiniteSet(t)
  BY <1>1, <1>3, FS_Subset
<1>5. SumFunctionOnSet(h, t) = SumFunctionOnSet(f, t) + SumFunctionOnSet(g, t)
  BY <1>4
<1>6. SumFunctionOnSet(f, t) \in Int /\ SumFunctionOnSet(g, t) \in Int
  BY <1>4, SumIsInt
<1>7. f[p] \in Int /\ g[p] \in Int /\ h[p] = f[p] + g[p]
  BY <1>3
<1>8. SumFunctionOnSet(h, s) # SumFunctionOnSet(f, s) + SumFunctionOnSet(g, s)
  OBVIOUS
<1> HIDE DEF t, Bad
<1> QED BY <1>3, <1>5, <1>6, <1>7, <1>8

LEMMA SumNegated ==
  ASSUME NEW f, NEW g, NEW S, IsFiniteSet(S), \A x \in S : f[x] \in Int /\ g[x] = -f[x]
  PROVE  SumFunctionOnSet(g, S) = -SumFunctionOnSet(f, S)
<1> DEFINE h == [x \in S |-> 0]
<1>1. \A x \in S : f[x] \in Int /\ g[x] \in Int /\ h[x] = f[x] + g[x]
  OBVIOUS
<1>2. \A x \in S : h[x] = 0
  OBVIOUS
<1> HIDE DEF h
<1>3. SumFunctionOnSet(h, S) = SumFunctionOnSet(f, S) + SumFunctionOnSet(g, S) /\ SumFunctionOnSet(h, S) = 0
  BY <1>1, <1>2, SumsAdd, SumOfZeroes
<1>4. SumFunctionOnSet(f, S) \in Int /\ SumFunctionOnSet(g, S) \in Int
  BY <1>1, SumIsInt
<1> QED BY <1>3, <1>4

\* A sum over some of the rows is the sum over all of what only they count for.
LEMMA SumWhere ==
  ASSUME NEW f, NEW g, NEW S, IsFiniteSet(S), NEW T \in SUBSET S,
         \A x \in T : f[x] = g[x] /\ f[x] \in Int, \A x \in S \ T : f[x] = 0
  PROVE  SumFunctionOnSet(f, S) = SumFunctionOnSet(g, T)
<1>1. IsFiniteSet(T) /\ IsFiniteSet(S \ T)
  BY FS_Subset
<1>2. SumFunctionOnSet(f, S) = SumFunctionOnSet(f, T) + SumFunctionOnSet(f, S \ T)
  <2>1. \A x \in S : f[x] \in Int
    OBVIOUS
  <2> QED BY <2>1, SumSplits
<1>3. SumFunctionOnSet(f, T) = SumFunctionOnSet(g, T) /\ SumFunctionOnSet(f, T) \in Int
  BY <1>1, SumAgrees, SumIsInt
<1>4. SumFunctionOnSet(f, S \ T) = 0
  BY <1>1, SumOfZeroes
<1> QED BY <1>2, <1>3, <1>4

\* When two sums differ only on some of the terms, they differ by those.
LEMMA SumsDiffer ==
  ASSUME NEW f, NEW g, NEW S, IsFiniteSet(S), NEW T \in SUBSET S,
         \A x \in S : f[x] \in Int /\ g[x] \in Int, \A x \in S \ T : f[x] = g[x]
  PROVE  SumFunctionOnSet(g, S) = SumFunctionOnSet(f, S) - SumFunctionOnSet(f, T) + SumFunctionOnSet(g, T)
<1>1. IsFiniteSet(T) /\ IsFiniteSet(S \ T)
  BY FS_Subset
<1>2. /\ SumFunctionOnSet(f, S) = SumFunctionOnSet(f, T) + SumFunctionOnSet(f, S \ T)
      /\ SumFunctionOnSet(g, S) = SumFunctionOnSet(g, T) + SumFunctionOnSet(g, S \ T)
  BY SumSplits
<1>3. SumFunctionOnSet(f, S \ T) = SumFunctionOnSet(g, S \ T)
  BY <1>1, SumAgrees
<1>4. /\ SumFunctionOnSet(f, S \ T) \in Int /\ SumFunctionOnSet(f, T) \in Int /\ SumFunctionOnSet(g, T) \in Int
  BY <1>1, SumIsInt
<1> QED BY <1>2, <1>3, <1>4

-----------------------------------------------------------------------------
(* The movements and transfers on an account, as sums over their rows.      *)

MovementTable(t) == IsFiniteSet(DOMAIN t) /\ \A m \in DOMAIN t : t[m] \in MovementRow
MovementsOn(t, a) == SumFunction([m \in DOMAIN t |-> Effect(t[m], a)])
TransfersOn(rows, a) == SumFunction([i \in DOMAIN rows |-> TransferEffect(rows[i], a)])
Contribution(t, m, a) == IF m \in DOMAIN t THEN Effect(t[m], a) ELSE 0

LEMMA AmountsArePositive == \A x \in Amounts : x \in Int /\ x \in Nat /\ x > 0
BY AccountsAssumption

LEMMA EffectIsInt ==
  ASSUME NEW row \in MovementRow, NEW a
  PROVE  Effect(row, a) \in Int
BY DEF Effect, MovementRow

LEMMA ContributionIsInt ==
  ASSUME NEW t, MovementTable(t), NEW m, NEW a
  PROVE  Contribution(t, m, a) \in Int
BY EffectIsInt DEF Contribution, MovementTable

LEMMA MovementsOver ==
  ASSUME NEW t, MovementTable(t), NEW a, NEW D, IsFiniteSet(D), DOMAIN t \subseteq D
  PROVE  MovementsOn(t, a) = SumFunctionOnSet([m \in D |-> Contribution(t, m, a)], D)
<1> DEFINE f == [m \in D |-> Contribution(t, m, a)]
           g == [m \in DOMAIN t |-> Effect(t[m], a)]
<1>1. \A m \in DOMAIN t : f[m] = g[m] /\ f[m] \in Int
  <2> SUFFICES ASSUME NEW m \in DOMAIN t PROVE f[m] = g[m] /\ f[m] \in Int
    OBVIOUS
  <2>1. Contribution(t, m, a) \in Int /\ Contribution(t, m, a) = Effect(t[m], a)
    BY ContributionIsInt DEF Contribution
  <2> QED BY <2>1
<1>2. \A m \in D \ DOMAIN t : f[m] = 0
  BY DEF Contribution
<1>3. DOMAIN g = DOMAIN t
  OBVIOUS
<1> HIDE DEF f, g
<1>4. SumFunctionOnSet(f, D) = SumFunctionOnSet(g, DOMAIN t)
  BY <1>1, <1>2, SumWhere
<1> QED BY <1>3, <1>4, Zenon DEF MovementsOn, SumFunction, f, g

\* Two tables that differ in some rows differ in their sum by those.
LEMMA MovementsDiffer ==
  ASSUME NEW t, MovementTable(t), NEW u, MovementTable(u), NEW a, NEW ids, IsFiniteSet(ids),
         \A m : m \notin ids => Contribution(t, m, a) = Contribution(u, m, a),
         NEW p, \A m \in ids : p[m] = Contribution(t, m, a),
         NEW q, \A m \in ids : q[m] = Contribution(u, m, a)
  PROVE  /\ MovementsOn(t, a) \in Int /\ MovementsOn(u, a) \in Int
         /\ MovementsOn(u, a) = MovementsOn(t, a) - SumFunctionOnSet(p, ids) + SumFunctionOnSet(q, ids)
<1> DEFINE D == (DOMAIN t \cup DOMAIN u) \cup ids
           f == [m \in D |-> Contribution(t, m, a)]
           g == [m \in D |-> Contribution(u, m, a)]
<1>1. IsFiniteSet(D) /\ DOMAIN t \subseteq D /\ DOMAIN u \subseteq D /\ ids \in SUBSET D
  <2>1. IsFiniteSet(DOMAIN t) /\ IsFiniteSet(DOMAIN u)
    BY DEF MovementTable
  <2>2. IsFiniteSet(DOMAIN t \cup DOMAIN u)
    BY <2>1, FS_Union
  <2> QED BY <2>2, FS_Union
<1>2. \A m \in D : f[m] \in Int /\ g[m] \in Int
  BY ContributionIsInt
<1>3. \A m \in D \ ids : f[m] = g[m]
  OBVIOUS
<1>4. (\A m \in ids : f[m] = p[m]) /\ (\A m \in ids : g[m] = q[m])
  OBVIOUS
<1>5. MovementsOn(t, a) = SumFunctionOnSet(f, D) /\ MovementsOn(u, a) = SumFunctionOnSet(g, D)
  <2> HIDE DEF D
  <2> QED BY <1>1, MovementsOver
<1> HIDE DEF f, g, D
<1>6. SumFunctionOnSet(g, D) = SumFunctionOnSet(f, D) - SumFunctionOnSet(f, ids) + SumFunctionOnSet(g, ids)
  BY <1>1, <1>2, <1>3, SumsDiffer
<1>7. SumFunctionOnSet(f, ids) = SumFunctionOnSet(p, ids) /\ SumFunctionOnSet(g, ids) = SumFunctionOnSet(q, ids)
  BY <1>4, SumAgrees
<1>8. SumFunctionOnSet(f, D) \in Int /\ SumFunctionOnSet(g, D) \in Int
  BY <1>1, <1>2, SumIsInt
<1>9. /\ SumFunctionOnSet(g, D) = SumFunctionOnSet(f, D) - SumFunctionOnSet(p, ids) + SumFunctionOnSet(q, ids)
  BY <1>6, <1>7
<1> QED BY <1>5, <1>8, <1>9

\* ... in one row, by that one;
LEMMA MovementsDifferAt ==
  ASSUME NEW t, MovementTable(t), NEW u, MovementTable(u), NEW a, NEW id,
         \A m : m # id => Contribution(t, m, a) = Contribution(u, m, a)
  PROVE  /\ MovementsOn(t, a) \in Int /\ MovementsOn(u, a) \in Int
         /\ MovementsOn(u, a) = MovementsOn(t, a) - Contribution(t, id, a) + Contribution(u, id, a)
<1> DEFINE p == [m \in {id} |-> Contribution(t, m, a)]
           q == [m \in {id} |-> Contribution(u, m, a)]
<1>1. IsFiniteSet({id}) /\ \A m : m \notin {id} => Contribution(t, m, a) = Contribution(u, m, a)
  BY FS_Singleton
<1>2. /\ MovementsOn(t, a) \in Int /\ MovementsOn(u, a) \in Int
      /\ MovementsOn(u, a) = MovementsOn(t, a) - SumFunctionOnSet(p, {id}) + SumFunctionOnSet(q, {id})
  <2>1. (\A m \in {id} : p[m] = Contribution(t, m, a)) /\ \A m \in {id} : q[m] = Contribution(u, m, a)
    OBVIOUS
  <2> HIDE DEF p, q
  <2> QED BY <1>1, <2>1, MovementsDiffer
<1>3. p[id] = Contribution(t, id, a) /\ q[id] = Contribution(u, id, a)
  OBVIOUS
<1>4. p[id] \in Int /\ q[id] \in Int
  BY <1>3, ContributionIsInt
<1> HIDE DEF p, q
<1>5. SumFunctionOnSet(p, {id}) = p[id] /\ SumFunctionOnSet(q, {id}) = q[id]
  <2>1. \A f : f[id] \in Int => SumFunctionOnSet(f, {id}) = f[id]
    <3> SUFFICES ASSUME NEW f, f[id] \in Int PROVE SumFunctionOnSet(f, {id}) = f[id]
      OBVIOUS
    <3>1. SumFunctionOnSet(f, {id}) = f[id] + SumFunctionOnSet(f, {id} \ {id})
      BY <1>1, SumTakesOut
    <3>2. {id} \ {id} = {} /\ SumFunctionOnSet(f, {}) = 0
      BY SumOfNone
    <3>3. SumFunctionOnSet(f, {id}) = f[id] + 0
      BY <3>1, <3>2, Zenon
    <3> QED BY <3>3
  <2> QED BY <2>1, <1>4
<1> QED BY <1>2, <1>3, <1>5

\* ... in no row, by nothing.
LEMMA MovementsAgree ==
  ASSUME NEW t, MovementTable(t), NEW u, MovementTable(u), NEW a,
         \A m : Contribution(t, m, a) = Contribution(u, m, a)
  PROVE  MovementsOn(t, a) \in Int /\ MovementsOn(u, a) = MovementsOn(t, a)
<1>1. PICK id : id = None
  OBVIOUS
<1>2. Contribution(t, id, a) \in Int
  BY ContributionIsInt
<1>3. /\ MovementsOn(t, a) \in Int
      /\ MovementsOn(u, a) = MovementsOn(t, a) - Contribution(t, id, a) + Contribution(u, id, a)
  BY MovementsDifferAt
<1> QED BY <1>2, <1>3

LEMMA TransferEffectIsInt ==
  ASSUME NEW row \in TransferRow, NEW a
  PROVE  TransferEffect(row, a) \in Int
<1>1. row.amount \in Int
  <2>1. row.amount \in Amounts
    BY DEF TransferRow
  <2> QED BY <2>1, AmountsArePositive
<1> QED BY <1>1 DEF TransferEffect

LEMMA TransfersOnInt ==
  ASSUME NEW rows \in Seq(TransferRow), NEW a
  PROVE  TransfersOn(rows, a) \in Int
<1> DEFINE f == [i \in DOMAIN rows |-> TransferEffect(rows[i], a)]
<1>1. IsFiniteSet(DOMAIN rows)
  BY FS_Interval
<1>2. \A i \in DOMAIN rows : f[i] \in Int
  BY TransferEffectIsInt
<1>3. DOMAIN f = DOMAIN rows
  OBVIOUS
<1> HIDE DEF f
<1> QED BY <1>1, <1>2, <1>3, SumIsInt DEF TransfersOn, SumFunction, f

LEMMA TransfersAppend ==
  ASSUME NEW rows \in Seq(TransferRow), NEW row \in TransferRow, NEW a
  PROVE  TransfersOn(Append(rows, row), a) = TransfersOn(rows, a) + TransferEffect(row, a)
<1> DEFINE more == Append(rows, row)
           f == [i \in DOMAIN more |-> TransferEffect(more[i], a)]
           g == [i \in DOMAIN rows |-> TransferEffect(rows[i], a)]
           last == Len(rows) + 1
<1>0. Len(rows) \in Nat /\ DOMAIN rows = 1 .. Len(rows) /\ \A i \in DOMAIN rows : rows[i] \in TransferRow
  OBVIOUS
<1>1. /\ DOMAIN more = 1 .. last /\ more[last] = row /\ Len(rows) \in Nat
      /\ \A i \in DOMAIN rows : more[i] = rows[i]
      /\ \A i \in DOMAIN more : more[i] \in TransferRow
      /\ DOMAIN rows = 1 .. last \ {last}
  <2>1. more \in Seq(TransferRow) /\ Len(more) = last
    OBVIOUS
  <2>2. DOMAIN more = 1 .. last
    BY <2>1
  <2>3. more[last] = row /\ \A i \in DOMAIN rows : more[i] = rows[i]
    BY <1>0
  <2>4. DOMAIN rows = 1 .. last \ {last}
    BY <1>0
  <2>5. \A i \in DOMAIN more : more[i] \in TransferRow
    BY <2>1
  <2> QED BY <1>0, <2>2, <2>3, <2>4, <2>5
<1>2. IsFiniteSet(1 .. last) /\ IsFiniteSet(DOMAIN rows)
  BY <1>1, FS_Interval
<1>3. \A i \in 1 .. last : f[i] \in Int
  <2> HIDE DEF more
  <2> QED BY <1>1, TransferEffectIsInt
<1>4. DOMAIN f = 1 .. last /\ DOMAIN g = DOMAIN rows /\ f[last] = TransferEffect(row, a)
  BY <1>1
<1>5. \A i \in DOMAIN rows : f[i] = g[i]
  BY <1>1
<1>6. last \in 1 .. last
  BY <1>1
<1> HIDE DEF f, g, more, last
<1>7. SumFunctionOnSet(f, 1 .. last) = f[last] + SumFunctionOnSet(f, 1 .. last \ {last})
  BY <1>2, <1>3, <1>6, SumTakesOut
<1>8. SumFunctionOnSet(f, DOMAIN rows) = SumFunctionOnSet(g, DOMAIN rows)
  BY <1>2, <1>5, SumAgrees
<1>9. TransfersOn(more, a) = SumFunctionOnSet(f, 1 .. last) /\ TransfersOn(rows, a) = SumFunctionOnSet(g, DOMAIN rows)
  BY <1>4, Zenon DEF TransfersOn, SumFunction, f, g
<1>10. TransferEffect(row, a) \in Int /\ TransfersOn(rows, a) \in Int
  BY TransferEffectIsInt, TransfersOnInt
<1>11. TransfersOn(more, a) = TransferEffect(row, a) + TransfersOn(rows, a)
  BY <1>1, <1>4, <1>7, <1>8, <1>9, Zenon
<1> QED BY <1>10, <1>11 DEF more

\* What the aggregate of recalculateBalance adds up is what a reader of the tables
\* does, row by row.
AmountIn(t, ids) == SumFunction([m \in ids |-> t[m].amount])
RowsIn(t, kind, a) == {m \in DOMAIN t : t[m].kind = kind /\ t[m].account = a}
TransferredIn(rows, ids) == SumFunction([i \in ids |-> rows[i].amount])
BalanceIn(t, rows, opening, a) ==
  opening + AmountIn(t, RowsIn(t, "income", a)) - AmountIn(t, RowsIn(t, "expense", a))
          + TransferredIn(rows, {i \in DOMAIN rows : rows[i].to = a})
          - TransferredIn(rows, {i \in DOMAIN rows : rows[i].from = a})

LEMMA AmountsAddUp ==
  ASSUME NEW t, MovementTable(t), NEW ids \in SUBSET DOMAIN t
  PROVE  AmountIn(t, ids) \in Int /\ IsFiniteSet(ids)
<1> DEFINE f == [m \in ids |-> t[m].amount]
<1>1. IsFiniteSet(ids) /\ \A m \in ids : f[m] \in Int
  BY FS_Subset DEF MovementTable, MovementRow
<1>2. DOMAIN f = ids
  OBVIOUS
<1> HIDE DEF f
<1>3. SumFunctionOnSet(f, ids) \in Int
  BY <1>1, SumIsInt
<1>4. AmountIn(t, ids) = SumFunctionOnSet(f, ids)
  BY <1>2, Zenon DEF AmountIn, SumFunction, f
<1> QED BY <1>1, <1>3, <1>4

LEMMA MovementsAddUp ==
  ASSUME NEW t, MovementTable(t), NEW a
  PROVE  /\ MovementsOn(t, a) \in Int
         /\ MovementsOn(t, a) = AmountIn(t, RowsIn(t, "income", a)) - AmountIn(t, RowsIn(t, "expense", a))
<1> DEFINE D == DOMAIN t
           I == RowsIn(t, "income", a)
           E == RowsIn(t, "expense", a)
           e == [m \in D |-> Effect(t[m], a)]
           in == [m \in D |-> IF m \in I THEN t[m].amount ELSE 0]
           out == [m \in D |-> IF m \in E THEN t[m].amount ELSE 0]
           fi == [m \in I |-> t[m].amount]
           fo == [m \in E |-> t[m].amount]
<1>1. IsFiniteSet(D) /\ I \in SUBSET D /\ E \in SUBSET D /\ \A m \in D : t[m] \in MovementRow
  BY DEF MovementTable, RowsIn
<1>2. \A m \in D : e[m] \in Int /\ out[m] \in Int /\ in[m] = e[m] + out[m]
  <2> SUFFICES ASSUME NEW m \in D PROVE e[m] \in Int /\ out[m] \in Int /\ in[m] = e[m] + out[m]
    OBVIOUS
  <2>1. t[m].amount \in Int /\ t[m].kind \in {"expense", "income"}
    BY <1>1 DEF MovementRow
  <2>2. m \in I <=> t[m].kind = "income" /\ t[m].account = a
    BY DEF RowsIn
  <2>3. m \in E <=> t[m].kind = "expense" /\ t[m].account = a
    BY DEF RowsIn
  <2>4. Effect(t[m], a) = IF m \in I THEN t[m].amount ELSE IF m \in E THEN -t[m].amount ELSE 0
    BY <2>1, <2>2, <2>3 DEF Effect
  <2> HIDE DEF I, E
  <2> QED BY <2>1, <2>2, <2>3, <2>4
<1>3. (\A m \in I : in[m] = fi[m] /\ in[m] \in Int) /\ \A m \in D \ I : in[m] = 0
  BY <1>1 DEF MovementRow
<1>4. (\A m \in E : out[m] = fo[m] /\ out[m] \in Int) /\ \A m \in D \ E : out[m] = 0
  BY <1>1 DEF MovementRow
<1>5. DOMAIN e = D /\ DOMAIN fi = I /\ DOMAIN fo = E
  OBVIOUS
<1>6. \A m \in D : e[m] \in Int
  BY <1>2
<1> HIDE DEF D, I, E, e, in, out, fi, fo
<1>7. SumFunctionOnSet(in, D) = SumFunctionOnSet(e, D) + SumFunctionOnSet(out, D)
  BY <1>1, <1>2, SumsAdd
<1>8. SumFunctionOnSet(in, D) = SumFunctionOnSet(fi, I) /\ SumFunctionOnSet(out, D) = SumFunctionOnSet(fo, E)
  BY <1>1, <1>3, <1>4, SumWhere
<1>9. MovementsOn(t, a) = SumFunctionOnSet(e, D)
  BY <1>5, Zenon DEF MovementsOn, SumFunction, e, D
<1>10. AmountIn(t, I) = SumFunctionOnSet(fi, I) /\ AmountIn(t, E) = SumFunctionOnSet(fo, E)
  BY <1>5, Zenon DEF AmountIn, SumFunction, fi, fo
<1>11. SumFunctionOnSet(e, D) \in Int /\ AmountIn(t, E) \in Int
  BY <1>1, <1>6, SumIsInt, AmountsAddUp DEF D
<1>12. AmountIn(t, I) = MovementsOn(t, a) + AmountIn(t, E)
  BY <1>7, <1>8, <1>9, <1>10, Zenon
<1>13. MovementsOn(t, a) \in Int /\ MovementsOn(t, a) = AmountIn(t, I) - AmountIn(t, E)
  BY <1>9, <1>11, <1>12
<1> QED BY <1>13 DEF I, E

LEMMA TransfersAddUp ==
  ASSUME NEW rows \in Seq(TransferRow), NEW a
  PROVE  /\ TransfersOn(rows, a) \in Int
         /\ TransferredIn(rows, {i \in DOMAIN rows : rows[i].to = a}) \in Int
         /\ TransferredIn(rows, {i \in DOMAIN rows : rows[i].from = a}) \in Int
         /\ TransfersOn(rows, a) = TransferredIn(rows, {i \in DOMAIN rows : rows[i].to = a})
                                   - TransferredIn(rows, {i \in DOMAIN rows : rows[i].from = a})
<1> DEFINE D == DOMAIN rows
           I == {i \in DOMAIN rows : rows[i].to = a}
           E == {i \in DOMAIN rows : rows[i].from = a}
           e == [m \in D |-> TransferEffect(rows[m], a)]
           in == [m \in D |-> IF m \in I THEN rows[m].amount ELSE 0]
           out == [m \in D |-> IF m \in E THEN rows[m].amount ELSE 0]
           fi == [m \in I |-> rows[m].amount]
           fo == [m \in E |-> rows[m].amount]
<1>1. /\ IsFiniteSet(D) /\ I \in SUBSET D /\ E \in SUBSET D
      /\ \A m \in D : rows[m] \in TransferRow /\ rows[m].amount \in Int
  <2>1. \A m \in D : rows[m] \in TransferRow
    OBVIOUS
  <2>2. \A m \in D : rows[m].amount \in Amounts
    BY <2>1 DEF TransferRow
  <2> QED BY <2>1, <2>2, FS_Interval, AmountsArePositive
<1>2. \A m \in D : e[m] \in Int /\ out[m] \in Int /\ in[m] = e[m] + out[m]
  <2> SUFFICES ASSUME NEW m \in D PROVE e[m] \in Int /\ out[m] \in Int /\ in[m] = e[m] + out[m]
    OBVIOUS
  <2>2. (m \in I <=> rows[m].to = a) /\ (m \in E <=> rows[m].from = a)
    OBVIOUS
  <2>3. TransferEffect(rows[m], a) = (IF m \in I THEN rows[m].amount ELSE 0) - (IF m \in E THEN rows[m].amount ELSE 0)
    BY <2>2 DEF TransferEffect
  <2> HIDE DEF I, E
  <2> QED BY <1>1, <2>3
<1>3. (\A m \in I : in[m] = fi[m] /\ in[m] \in Int /\ fi[m] \in Int) /\ \A m \in D \ I : in[m] = 0
  BY <1>1
<1>4. (\A m \in E : out[m] = fo[m] /\ out[m] \in Int /\ fo[m] \in Int) /\ \A m \in D \ E : out[m] = 0
  BY <1>1
<1>5. DOMAIN e = D /\ DOMAIN fi = I /\ DOMAIN fo = E
  OBVIOUS
<1>6. \A m \in D : e[m] \in Int
  BY <1>2
<1> HIDE DEF D, I, E, e, in, out, fi, fo
<1>7. SumFunctionOnSet(in, D) = SumFunctionOnSet(e, D) + SumFunctionOnSet(out, D)
  BY <1>1, <1>2, SumsAdd
<1>8. SumFunctionOnSet(in, D) = SumFunctionOnSet(fi, I) /\ SumFunctionOnSet(out, D) = SumFunctionOnSet(fo, E)
  BY <1>1, <1>3, <1>4, SumWhere
<1>9. TransfersOn(rows, a) = SumFunctionOnSet(e, D)
  BY <1>5, Zenon DEF TransfersOn, SumFunction, e, D
<1>10. TransferredIn(rows, I) = SumFunctionOnSet(fi, I) /\ TransferredIn(rows, E) = SumFunctionOnSet(fo, E)
  BY <1>5, Zenon DEF TransferredIn, SumFunction, fi, fo
<1>11. SumFunctionOnSet(e, D) \in Int /\ SumFunctionOnSet(fo, E) \in Int /\ SumFunctionOnSet(fi, I) \in Int
  <2>1. IsFiniteSet(I) /\ IsFiniteSet(E)
    BY <1>1, FS_Subset
  <2> QED BY <1>1, <1>3, <1>4, <1>6, <2>1, SumIsInt
<1>12. TransferredIn(rows, I) = TransfersOn(rows, a) + TransferredIn(rows, E)
  BY <1>7, <1>8, <1>9, <1>10, Zenon
<1>13. /\ TransferredIn(rows, I) \in Int /\ TransferredIn(rows, E) \in Int /\ TransfersOn(rows, a) \in Int
       /\ TransfersOn(rows, a) = TransferredIn(rows, I) - TransferredIn(rows, E)
  BY <1>9, <1>10, <1>11, <1>12
<1> QED BY <1>13 DEF I, E

LEMMA AggregateIsLedger ==
  ASSUME NEW t, MovementTable(t), NEW rows \in Seq(TransferRow), NEW opening \in Int, NEW a
  PROVE  /\ BalanceIn(t, rows, opening, a) \in Int
         /\ BalanceIn(t, rows, opening, a) = opening + MovementsOn(t, a) + TransfersOn(rows, a)
<1> DEFINE i == AmountIn(t, RowsIn(t, "income", a))
           e == AmountIn(t, RowsIn(t, "expense", a))
           to == TransferredIn(rows, {k \in DOMAIN rows : rows[k].to = a})
           from == TransferredIn(rows, {k \in DOMAIN rows : rows[k].from = a})
<1>1. i \in Int /\ e \in Int
  BY AmountsAddUp DEF RowsIn
<1>2. MovementsOn(t, a) = i - e
  BY MovementsAddUp
<1>3. to \in Int /\ from \in Int /\ TransfersOn(rows, a) = to - from
  BY TransfersAddUp
<1>4. BalanceIn(t, rows, opening, a) = opening + i - e + to - from
  BY DEF BalanceIn
<1> HIDE DEF i, e, to, from
<1> QED BY <1>1, <1>2, <1>3, <1>4

-----------------------------------------------------------------------------
\* The statements the mutations are made of.
AccountTable(t) == t \in [DOMAIN t -> AccountRow]

LEMMA AdjustIs ==
  ASSUME NEW t, AccountTable(t), NEW b, NEW d \in Int, NEW u, u = AdjustBalance(t, b, d)
  PROVE  /\ AccountTable(u) /\ DOMAIN u = DOMAIN t
         /\ \A a \in DOMAIN t : /\ u[a].opening = t[a].opening
                               /\ u[a].balance = t[a].balance + (IF a = b THEN d ELSE 0)
<1>1. CASE b \in DOMAIN t
  <2>1. u = [t EXCEPT ![b] = [t[b] EXCEPT !.balance = t[b].balance + d]]
    BY <1>1 DEF AdjustBalance
  <2>2. \A a \in DOMAIN t : t[a] \in AccountRow
    BY DEF AccountTable
  <2>3. [t[b] EXCEPT !.balance = t[b].balance + d] \in AccountRow
    BY <2>2, <1>1 DEF AccountRow
  <2>4. /\ [t[b] EXCEPT !.balance = t[b].balance + d].opening = t[b].opening
        /\ [t[b] EXCEPT !.balance = t[b].balance + d].balance = t[b].balance + d
    BY <2>2, <1>1 DEF AccountRow
  <2>5. \A a \in DOMAIN t : t[a].balance \in Int
    BY <2>2 DEF AccountRow
  <2> QED BY <2>1, <2>3, <2>4, <2>5, <1>1 DEF AccountTable
<1>2. CASE b \notin DOMAIN t
  <2>1. u = t
    BY <1>2 DEF AdjustBalance
  <2>2. \A a \in DOMAIN t : t[a].balance \in Int
    BY DEF AccountTable, AccountRow
  <2> QED BY <2>1, <2>2, <1>2
<1> QED BY <1>1, <1>2

-----------------------------------------------------------------------------
\* The tables: every row has its type, every foreign key names a row, the rows of a
\* plan are expenses and add up to it.
PartsOf(M, p) == {m \in DOMAIN M : M[m].plan = p}

PlansAddUp(M, P) ==
  \A p \in DOMAIN P :
    /\ AmountIn(M, PartsOf(M, p)) = P[p].total
    /\ \A m \in PartsOf(M, p) : M[m].account = P[p].account

Sound(A, M, P, T, I) ==
  /\ AccountTable(A) /\ DOMAIN A \subseteq AccountIds \cap I
  /\ M = [m \in DOMAIN M |-> M[m]]
  /\ MovementTable(M) /\ DOMAIN M \subseteq MovementIds \cap I
  /\ DOMAIN P \subseteq PlanIds \cap I
  /\ T \in Seq(TransferRow)
  /\ I \subseteq AccountIds \cup MovementIds \cup PlanIds
  /\ \A m \in DOMAIN M : /\ M[m].account \in DOMAIN A \cup {None}
                         /\ M[m].plan \in DOMAIN P \cup {None}
                         /\ M[m].plan # None => M[m].kind = "expense"
  /\ \A p \in DOMAIN P : P[p].account \in DOMAIN A
  /\ \A i \in DOMAIN T : T[i].from \in DOMAIN A /\ T[i].to \in DOMAIN A
  /\ PlansAddUp(M, P)

\* What the columns of the balance of an account say of the rows on it.
Settled(A, M, T, a) == A[a].balance = A[a].opening + MovementsOn(M, a) + TransfersOn(T, a)

\* A mutation in flight: what it carries has its type,
Edits == {"updateExpense", "updateIncome", "removeExpense", "removeIncome"}
Saves == {"saveAccount", "aggregate", "saveRecalculated"}

Shaped(q) ==
  /\ q.op \in {"createExpense", "createIncome", "updateExpense", "updateIncome"} =>
       q.account \in AccountIds \cup {None} /\ q.amount \in Amounts
  /\ q.op = "createInInstallments" => q.account \in AccountIds /\ q.parts \in Schedules
  /\ q.op \in Edits =>
       /\ q.id \in MovementIds /\ q.row \in MovementRow /\ q.row.plan = None
       /\ q.row.kind = IF q.op \in {"updateExpense", "removeExpense"} THEN "expense" ELSE "income"
  /\ q.op = "removePlan" =>
       q.plan \in PlanIds /\ q.ids \subseteq MovementIds /\ q.account \in AccountIds /\ q.total \in Int
  /\ q.op \in Saves => q.id \in AccountIds /\ q.row \in AccountRow
  /\ q.op = "transfer" => q.from \in AccountIds /\ q.to \in AccountIds /\ q.amount \in Amounts

\* the ids it read are still the ids of what it read, whoever committed since,
Anchored(I, M, P, q) ==
  /\ q.op \in Edits => q.id \in I /\ (q.id \in DOMAIN M => M[q.id].plan = None)
  /\ q.op \in Saves => q.id \in I
  /\ q.op = "removePlan" =>
       /\ q.plan \in I /\ q.ids \subseteq I
       /\ q.plan \in DOMAIN P => P[q.plan].account = q.account
       /\ \A m \in DOMAIN M : m \in q.ids <=> M[m].plan = q.plan

\* no edit is of a row that the removal of a plan removes,
Apart(req) ==
  \A r, s \in DOMAIN req :
    req[r].op \in Edits /\ req[s].op = "removePlan" => req[r].id \notin req[s].ids

\* and, unless another mutation has committed since, it still reads the same.
ReadsStill(A, M, P, T, q) ==
  /\ q.op = "createExpense" => CreditAvailable(A, q.account, q.amount)
  /\ q.op = "createInInstallments" => CreditAvailable(A, q.account, PartsTotal(q.parts))
  /\ q.op \in Edits => q.id \in DOMAIN M /\ M[q.id] = q.row
  /\ q.op = "removePlan" => q.plan \in DOMAIN P /\ q.ids \subseteq DOMAIN M /\ q.total = AmountIn(M, q.ids)
  /\ q.op = "saveAccount" =>
       /\ q.id \in DOMAIN A
       /\ q.row.balance - q.row.opening = A[q.id].balance - A[q.id].opening
  /\ q.op = "saveRecalculated" => q.row.balance = BalanceIn(M, T, q.row.opening, q.id)
  /\ q.op = "transfer" => Covers(A, q.from, q.amount)

Underway(A, M, P, T, I, req, old) ==
  /\ DOMAIN req \subseteq RequestIds /\ old \subseteq DOMAIN req
  /\ \A r \in DOMAIN req : Shaped(req[r]) /\ Anchored(I, M, P, req[r])
  /\ Apart(req)
  /\ \A r \in DOMAIN req \ old : ReadsStill(A, M, P, T, req[r])

AccountsInv ==
  /\ Sound(account, movement, plan, transfer, issued)
  /\ Underway(account, movement, plan, transfer, issued, request, stale)
  /\ started \in 0 .. MaxMutations
  /\ exposed \subseteq AccountIds
  /\ \A a \in DOMAIN account \ exposed : Settled(account, movement, transfer, a)

-----------------------------------------------------------------------------
\* The rows of a plan are worth the same in two tables that hold them alike.
LEMMA PartsAgree ==
  ASSUME NEW t, NEW u, NEW p, PartsOf(u, p) = PartsOf(t, p),
         \A m \in PartsOf(t, p) : u[m] = t[m]
  PROVE  AmountIn(u, PartsOf(u, p)) = AmountIn(t, PartsOf(t, p))
<1> DEFINE S == PartsOf(t, p)
<1>1. [m \in S |-> u[m].amount] = [m \in S |-> t[m].amount]
  OBVIOUS
<1> HIDE DEF S
<1>2. AmountIn(u, S) = AmountIn(t, S)
  BY <1>1, Zenon DEF AmountIn
<1> QED BY <1>2, Zenon DEF S

LEMMA PlansAgree ==
  ASSUME NEW t, NEW u, NEW P, NEW Q, PlansAddUp(t, P),
         \A p \in DOMAIN Q : /\ p \in DOMAIN P /\ Q[p] = P[p] /\ PartsOf(u, p) = PartsOf(t, p)
                            /\ \A m \in PartsOf(t, p) : u[m] = t[m]
  PROVE  PlansAddUp(u, Q)
<1> SUFFICES ASSUME NEW p \in DOMAIN Q
             PROVE  /\ AmountIn(u, PartsOf(u, p)) = Q[p].total
                    /\ \A m \in PartsOf(u, p) : u[m].account = Q[p].account
  BY DEF PlansAddUp
<1>1. AmountIn(u, PartsOf(u, p)) = AmountIn(t, PartsOf(t, p))
  BY PartsAgree
<1> QED BY <1>1 DEF PlansAddUp

\* The tables stay sound when balances alone change;
LEMMA SoundBalances ==
  ASSUME NEW A, NEW M, NEW P, NEW T, NEW I, Sound(A, M, P, T, I),
         NEW B, AccountTable(B), DOMAIN B = DOMAIN A
  PROVE  Sound(B, M, P, T, I)
BY DEF Sound

\* when an account is saved, or inserted;
LEMMA SoundAccount ==
  ASSUME NEW A, NEW M, NEW P, NEW T, NEW I, Sound(A, M, P, T, I),
         NEW J, I \subseteq J, J \subseteq AccountIds \cup MovementIds \cup PlanIds,
         NEW a \in AccountIds \cap J, NEW row \in AccountRow, NEW B, B = Save(A, a, row)
  PROVE  Sound(B, M, P, T, J)
<1>1. DOMAIN B = DOMAIN A \cup {a} /\ B[a] = row /\ \A x \in DOMAIN A : x # a => B[x] = A[x]
  BY DEF Save, Over
<1>2. B \in [DOMAIN B -> AccountRow]
  <2>1. B = [x \in DOMAIN B |-> B[x]]
    BY DEF Save, Over
  <2>2. \A x \in DOMAIN B : B[x] \in AccountRow
    BY <1>1 DEF Sound, AccountTable
  <2> QED BY <2>1, <2>2
<1> QED BY <1>1, <1>2 DEF Sound, AccountTable

\* when an expense or an income that is no part of a plan is saved, or inserted;
LEMMA SoundMovement ==
  ASSUME NEW A, NEW M, NEW P, NEW T, NEW I, Sound(A, M, P, T, I),
         NEW J, I \subseteq J, J \subseteq AccountIds \cup MovementIds \cup PlanIds,
         NEW id \in MovementIds \cap J, NEW row \in MovementRow,
         row.plan = None, row.account \in DOMAIN A \cup {None},
         id \in DOMAIN M => M[id].plan = None,
         NEW N, N = Save(M, id, row)
  PROVE  Sound(A, N, P, T, J)
<1>1. DOMAIN N = DOMAIN M \cup {id} /\ N[id] = row /\ \A x \in DOMAIN M : x # id => N[x] = M[x]
  BY DEF Save, Over
<1>2. N = [m \in DOMAIN N |-> N[m]]
  BY DEF Save, Over
<1>3. MovementTable(N)
  <2>1. IsFiniteSet(DOMAIN N)
    BY <1>1, FS_AddElement DEF Sound, MovementTable
  <2> QED BY <2>1, <1>1 DEF Sound, MovementTable
<1>4. PlansAddUp(N, P)
  <2>1. \A p \in DOMAIN P : p # None
    BY AccountsAssumption DEF Sound
  <2>2. \A p \in DOMAIN P : PartsOf(N, p) = PartsOf(M, p) /\ \A m \in PartsOf(M, p) : N[m] = M[m]
    BY <1>1, <2>1 DEF PartsOf
  <2>3. PlansAddUp(M, P)
    BY DEF Sound
  <2> QED BY <2>2, <2>3, PlansAgree
<1> QED BY <1>1, <1>2, <1>3, <1>4 DEF Sound

\* when such a row is removed;
LEMMA SoundRemoval ==
  ASSUME NEW A, NEW M, NEW P, NEW T, NEW I, Sound(A, M, P, T, I),
         NEW id, id \in DOMAIN M => M[id].plan = None, NEW N, N = DeleteRows(M, {id})
  PROVE  Sound(A, N, P, T, I)
<1>1. DOMAIN N = DOMAIN M \ {id} /\ \A x \in DOMAIN N : N[x] = M[x]
  BY DEF DeleteRows, Restrict
<1>2. N = [m \in DOMAIN N |-> N[m]]
  BY DEF DeleteRows, Restrict
<1>3. MovementTable(N)
  BY <1>1, FS_Subset DEF Sound, MovementTable
<1>4. PlansAddUp(N, P)
  <2>1. \A p \in DOMAIN P : p # None
    BY AccountsAssumption DEF Sound
  <2>2. \A p \in DOMAIN P : PartsOf(N, p) = PartsOf(M, p) /\ \A m \in PartsOf(M, p) : N[m] = M[m]
    BY <1>1, <2>1 DEF PartsOf
  <2>3. PlansAddUp(M, P)
    BY DEF Sound
  <2> QED BY <2>2, <2>3, PlansAgree
<1> QED BY <1>1, <1>2, <1>3, <1>4 DEF Sound

\* when a plan is removed with its rows;
LEMMA SoundPlanRemoval ==
  ASSUME NEW A, NEW M, NEW P, NEW T, NEW I, Sound(A, M, P, T, I),
         NEW p \in PlanIds, NEW ids, \A m \in DOMAIN M : m \in ids <=> M[m].plan = p,
         NEW N, N = DeleteRows(M, ids), NEW Q, Q = DeleteRows(P, {p})
  PROVE  Sound(A, N, Q, T, I)
<1>1. DOMAIN N = DOMAIN M \ ids /\ \A x \in DOMAIN N : N[x] = M[x]
  BY DEF DeleteRows, Restrict
<1>2. DOMAIN Q = DOMAIN P \ {p} /\ \A x \in DOMAIN Q : Q[x] = P[x]
  BY DEF DeleteRows, Restrict
<1>3. N = [m \in DOMAIN N |-> N[m]]
  BY DEF DeleteRows, Restrict
<1>4. MovementTable(N)
  BY <1>1, FS_Subset DEF Sound, MovementTable
<1>5. PlansAddUp(N, Q)
  <2>1. \A x \in DOMAIN Q : PartsOf(N, x) = PartsOf(M, x) /\ \A m \in PartsOf(M, x) : N[m] = M[m]
    BY <1>1, <1>2 DEF PartsOf
  <2>2. PlansAddUp(M, P)
    BY DEF Sound
  <2> QED BY <1>2, <2>1, <2>2, PlansAgree
<1>6. \A m \in DOMAIN N : N[m].plan \in DOMAIN Q \cup {None}
  BY <1>1, <1>2 DEF Sound
<1>7. /\ DOMAIN N \subseteq MovementIds \cap I /\ DOMAIN Q \subseteq PlanIds \cap I
      /\ \A m \in DOMAIN N : /\ N[m].account \in DOMAIN A \cup {None}
                             /\ N[m].plan # None => N[m].kind = "expense"
  BY <1>1, <1>2 DEF Sound
<1>8. \A x \in DOMAIN Q : Q[x].account \in DOMAIN A
  BY <1>2 DEF Sound
<1>9. /\ AccountTable(A) /\ DOMAIN A \subseteq AccountIds \cap I /\ T \in Seq(TransferRow)
      /\ I \subseteq AccountIds \cup MovementIds \cup PlanIds
      /\ \A i \in DOMAIN T : T[i].from \in DOMAIN A /\ T[i].to \in DOMAIN A
  BY DEF Sound
<1> QED BY <1>3, <1>4, <1>5, <1>6, <1>7, <1>8, <1>9 DEF Sound

\* when an account that no plan and no transfer names is removed;
LEMMA SoundAccountRemoval ==
  ASSUME NEW A, NEW M, NEW P, NEW T, NEW I, Sound(A, M, P, T, I),
         NEW a \in DOMAIN A, \A p \in DOMAIN P : P[p].account # a,
         \A i \in DOMAIN T : a \notin {T[i].from, T[i].to},
         NEW B, B = DeleteRows(A, {a}),
         NEW N, N = [m \in DOMAIN M |-> IF M[m].account = a THEN [M[m] EXCEPT !.account = None] ELSE M[m]]
  PROVE  /\ Sound(B, N, P, T, I)
         /\ \A m \in DOMAIN M : N[m].plan = M[m].plan
         /\ \A b \in AccountIds : \A m : b # a => Contribution(N, m, b) = Contribution(M, m, b)
<1>1. DOMAIN B = DOMAIN A \ {a} /\ \A x \in DOMAIN B : B[x] = A[x]
  BY DEF DeleteRows, Restrict
<1>2. B = [x \in DOMAIN B |-> B[x]] /\ N = [m \in DOMAIN N |-> N[m]] /\ DOMAIN N = DOMAIN M
  BY DEF DeleteRows, Restrict
<1>3. \A m \in DOMAIN M : M[m] \in MovementRow
  BY DEF Sound, MovementTable
<1>4. \A m \in DOMAIN M : /\ N[m] \in MovementRow /\ N[m].plan = M[m].plan /\ N[m].kind = M[m].kind
                          /\ N[m].amount = M[m].amount
                          /\ N[m].account = IF M[m].account = a THEN None ELSE M[m].account
  <2> SUFFICES ASSUME NEW m \in DOMAIN M
               PROVE  /\ N[m] \in MovementRow /\ N[m].plan = M[m].plan /\ N[m].kind = M[m].kind
                      /\ N[m].amount = M[m].amount
                      /\ N[m].account = IF M[m].account = a THEN None ELSE M[m].account
    OBVIOUS
  <2>1. M[m] \in MovementRow /\ N[m] = IF M[m].account = a THEN [M[m] EXCEPT !.account = None] ELSE M[m]
    BY <1>3
  <2> QED BY <2>1 DEF MovementRow
<1>5. AccountTable(B)
  <2>1. \A x \in DOMAIN B : B[x] \in AccountRow
    BY <1>1 DEF Sound, AccountTable
  <2> QED BY <1>2, <2>1 DEF AccountTable
<1>6. MovementTable(N)
  BY <1>2, <1>4 DEF Sound, MovementTable
<1>7. PlansAddUp(N, P)
  <2>1. \A p \in DOMAIN P : \A m \in PartsOf(M, p) : m \in DOMAIN M /\ M[m].account = P[p].account
    BY DEF Sound, PlansAddUp, PartsOf
  <2>2. \A p \in DOMAIN P : PartsOf(N, p) = PartsOf(M, p)
    BY <1>2, <1>4 DEF PartsOf
  <2>3. \A p \in DOMAIN P : \A m \in PartsOf(M, p) : N[m] = M[m]
    BY <2>1
  <2>4. PlansAddUp(M, P)
    BY DEF Sound
  <2> QED BY <2>2, <2>3, <2>4, PlansAgree
<1>8. \A m \in DOMAIN N : /\ N[m].account \in DOMAIN B \cup {None} /\ N[m].plan \in DOMAIN P \cup {None}
                          /\ N[m].plan # None => N[m].kind = "expense"
  BY <1>1, <1>2, <1>4 DEF Sound
<1>9. /\ \A p \in DOMAIN P : P[p].account \in DOMAIN B
      /\ \A i \in DOMAIN T : T[i].from \in DOMAIN B /\ T[i].to \in DOMAIN B
      /\ DOMAIN B \subseteq AccountIds \cap I
  BY <1>1 DEF Sound
<1>10. /\ DOMAIN N \subseteq MovementIds \cap I /\ DOMAIN P \subseteq PlanIds \cap I /\ T \in Seq(TransferRow)
       /\ I \subseteq AccountIds \cup MovementIds \cup PlanIds
  BY <1>2 DEF Sound
<1>11. Sound(B, N, P, T, I)
  BY <1>2, <1>5, <1>6, <1>7, <1>8, <1>9, <1>10 DEF Sound
<1>12. ASSUME NEW b \in AccountIds, NEW m, b # a PROVE Contribution(N, m, b) = Contribution(M, m, b)
  <2>1. b # None
    BY AccountsAssumption
  <2>2. CASE m \in DOMAIN M
    <3>1. Effect(N[m], b) = Effect(M[m], b)
      BY <1>4, <1>12, <2>1, <2>2 DEF Effect
    <3> QED BY <1>2, <2>2, <3>1 DEF Contribution
  <2>3. CASE m \notin DOMAIN M
    BY <1>2, <2>3 DEF Contribution
  <2> QED BY <2>2, <2>3
<1> QED BY <1>4, <1>11, <1>12

\* when a transfer between two accounts is recorded;
LEMMA SoundTransfer ==
  ASSUME NEW A, NEW M, NEW P, NEW T, NEW I, Sound(A, M, P, T, I),
         NEW row \in TransferRow, row.from \in DOMAIN A, row.to \in DOMAIN A,
         NEW U, U = Append(T, row)
  PROVE  Sound(A, M, P, U, I)
<1>1. T \in Seq(TransferRow)
  BY DEF Sound
<1>2. U \in Seq(TransferRow) /\ \A i \in DOMAIN U : U[i] = row \/ (i \in DOMAIN T /\ U[i] = T[i])
  BY <1>1
<1>3. \A i \in DOMAIN U : U[i].from \in DOMAIN A /\ U[i].to \in DOMAIN A
  BY <1>2 DEF Sound
<1> QED BY <1>2, <1>3 DEF Sound

LEMMA PartsTotalIsInt ==
  ASSUME NEW parts \in Schedules
  PROVE  PartsTotal(parts) \in Int
<1> DEFINE D == DOMAIN parts
<1>1. D = 1 .. Len(parts) /\ Len(parts) \in Nat /\ \A i \in D : parts[i] \in Amounts
  BY AccountsAssumption
<1>2. IsFiniteSet(D)
  BY <1>1, FS_Interval
<1>3. \A i \in D : parts[i] \in Int
  BY <1>1, AmountsArePositive
<1>4. PartsTotal(parts) = SumFunctionOnSet(parts, D)
  BY DEF PartsTotal, SumFunction
<1> HIDE DEF D
<1> QED BY <1>2, <1>3, <1>4, SumIsInt

\* A purchase in installments: its rows are as many as its parts and worth the same,
\* whichever row stands for which part.
LEMMA PartsAreRows ==
  ASSUME NEW parts \in Schedules, NEW ids, NEW seq \in Bijection(ids, DOMAIN parts),
         NEW f, DOMAIN f = ids, \A m \in ids : f[m] = parts[seq[m]]
  PROVE  /\ IsFiniteSet(ids) /\ \A m \in ids : f[m] \in Amounts /\ f[m] \in Int /\ f[m] \in Nat
         /\ SumFunctionOnSet(f, ids) = PartsTotal(parts) /\ PartsTotal(parts) \in Int
<1> DEFINE D == DOMAIN parts
<1>1. D = 1 .. Len(parts) /\ Len(parts) \in Nat /\ \A i \in D : parts[i] \in Amounts
  BY AccountsAssumption
<1>2. IsFiniteSet(D)
  BY <1>1, FS_Interval
<1>3. \A i \in D : parts[i] \in Int /\ parts[i] \in Nat
  BY <1>1, AmountsArePositive
<1> HIDE DEF D
<1>4. seq \in Injection(ids, D) /\ seq \in Surjection(ids, D)
  BY DEF Bijection, D
<1>5. IsFiniteSet(ids)
  BY <1>2, <1>4, FS_Injection
<1>6. seq \in [ids -> D] /\ \A y \in D : \E x \in ids : seq[x] = y
  BY <1>4 DEF Surjection
<1>7. \A x, y \in ids : seq[x] = seq[y] => x = y
  <2>1. DOMAIN seq = ids
    BY <1>6
  <2> QED BY <1>4, <2>1 DEF Injection, IsInjective
<1>8. \A m \in ids : f[m] = parts[seq[m]] /\ f[m] \in Int /\ f[m] \in Nat /\ f[m] \in Amounts
  BY <1>1, <1>3, <1>6
<1>9. SumFunctionOnSet(f, ids) = SumFunctionOnSet(parts, D)
  BY <1>5, <1>6, <1>7, <1>8, SumRenamed
<1>10. PartsTotal(parts) = SumFunctionOnSet(parts, D)
  BY DEF PartsTotal, SumFunction, D
<1> QED BY <1>5, <1>8, <1>9, <1>10, PartsTotalIsInt

\* What falls on b of an amount that is on a.
Falls(a, b, x) == IF a = b THEN x ELSE 0

LEMMA InsertedRows ==
  ASSUME NEW t, MovementTable(t), NEW u, MovementTable(u), NEW a, NEW ids, IsFiniteSet(ids),
         DOMAIN u = DOMAIN t \cup ids, \A m \in DOMAIN t : m \notin ids /\ u[m] = t[m],
         NEW f, \A m \in ids : /\ f[m] \in Int /\ u[m].kind = "expense" /\ u[m].account = a
                              /\ u[m].amount = f[m]
  PROVE  \A b : MovementsOn(u, b) = MovementsOn(t, b) + Falls(a, b, -SumFunctionOnSet(f, ids))
<1> SUFFICES ASSUME NEW b
             PROVE  MovementsOn(u, b) = MovementsOn(t, b) + Falls(a, b, -SumFunctionOnSet(f, ids))
  OBVIOUS
<1> DEFINE before == [m \in ids |-> Contribution(t, m, b)]
           after == [m \in ids |-> Contribution(u, m, b)]
           total == SumFunctionOnSet(f, ids)
<1>1. \A m : m \notin ids => Contribution(t, m, b) = Contribution(u, m, b)
  BY DEF Contribution
<1>2. /\ MovementsOn(t, b) \in Int
      /\ MovementsOn(u, b) = MovementsOn(t, b) - SumFunctionOnSet(before, ids) + SumFunctionOnSet(after, ids)
  <2>1. (\A m \in ids : before[m] = Contribution(t, m, b)) /\ \A m \in ids : after[m] = Contribution(u, m, b)
    OBVIOUS
  <2> HIDE DEF before, after
  <2> QED BY <1>1, <2>1, MovementsDiffer
<1>3. \A m \in ids : before[m] = 0 /\ after[m] = IF a = b THEN -f[m] ELSE 0
  <2> SUFFICES ASSUME NEW m \in ids
               PROVE  Contribution(t, m, b) = 0 /\ Contribution(u, m, b) = IF a = b THEN -f[m] ELSE 0
    OBVIOUS
  <2> QED BY DEF Contribution, Effect
<1> HIDE DEF before, after
<1>4. SumFunctionOnSet(before, ids) = 0
  BY <1>3, SumOfZeroes
<1>5. total \in Int
  BY SumIsInt
<1>6. SumFunctionOnSet(after, ids) = IF a = b THEN -total ELSE 0
  <2>1. CASE a = b
    BY <1>3, <2>1, SumNegated
  <2>2. CASE a # b
    BY <1>3, <2>2, SumOfZeroes
  <2> QED BY <2>1, <2>2
<1> QED BY <1>2, <1>4, <1>5, <1>6 DEF Falls

Purchased(t, u, a, p, parts, ids) ==
  /\ MovementTable(t) /\ a \in AccountIds /\ p \in PlanIds /\ parts \in Schedules
  /\ \A m \in DOMAIN t : m \notin ids
  /\ \E seq \in Bijection(ids, DOMAIN parts) :
       u = Over([m \in ids |-> [kind |-> "expense", account |-> a, amount |-> parts[seq[m]], plan |-> p]], t)

Inserted(t, u, a, p, parts, ids) ==
  /\ MovementTable(u) /\ u = [m \in DOMAIN u |-> u[m]] /\ DOMAIN u = DOMAIN t \cup ids
  /\ \A m \in DOMAIN t : m \notin ids /\ u[m] = t[m]
  /\ \A m \in ids : u[m].kind = "expense" /\ u[m].account = a /\ u[m].plan = p
  /\ AmountIn(u, ids) = PartsTotal(parts)
  /\ \A b : MovementsOn(u, b) = MovementsOn(t, b) + Falls(a, b, -PartsTotal(parts))

LEMMA PurchaseInserts ==
  ASSUME NEW t, NEW u, NEW a, NEW p, NEW parts, NEW ids, Purchased(t, u, a, p, parts, ids)
  PROVE  Inserted(t, u, a, p, parts, ids)
<1>0. /\ MovementTable(t) /\ a \in AccountIds /\ p \in PlanIds /\ parts \in Schedules
      /\ \A m \in DOMAIN t : m \notin ids
  BY DEF Purchased
<1> PICK seq \in Bijection(ids, DOMAIN parts) :
       u = Over([m \in ids |-> [kind |-> "expense", account |-> a, amount |-> parts[seq[m]], plan |-> p]], t)
  BY DEF Purchased
<1>1. /\ u = [m \in DOMAIN u |-> u[m]] /\ DOMAIN u = DOMAIN t \cup ids
      /\ \A m \in DOMAIN t : m \notin ids /\ u[m] = t[m]
      /\ \A m \in ids : u[m] = [kind |-> "expense", account |-> a, amount |-> parts[seq[m]], plan |-> p]
  BY <1>0 DEF Over
<1>2. \A m \in ids : /\ u[m].kind = "expense" /\ u[m].account = a /\ u[m].plan = p
                     /\ u[m].amount = parts[seq[m]]
  BY <1>1
<1>3. PICK f : f = [m \in ids |-> parts[seq[m]]]
  OBVIOUS
<1>4. DOMAIN f = ids /\ \A m \in ids : f[m] = parts[seq[m]]
  BY <1>3
<1>5. /\ IsFiniteSet(ids) /\ \A m \in ids : f[m] \in Int /\ f[m] \in Nat
      /\ SumFunctionOnSet(f, ids) = PartsTotal(parts)
  BY <1>0, <1>4, PartsAreRows
<1>6. \A m \in ids : u[m] \in MovementRow
  <2> SUFFICES ASSUME NEW m \in ids PROVE u[m] \in MovementRow
    OBVIOUS
  <2>1. u[m] = [kind |-> "expense", account |-> a, amount |-> f[m], plan |-> p] /\ f[m] \in Nat
    BY <1>1, <1>4, <1>5
  <2> QED BY <1>0, <2>1 DEF MovementRow
<1>7. MovementTable(u)
  <2>1. IsFiniteSet(DOMAIN t) /\ \A m \in DOMAIN t : t[m] \in MovementRow
    BY <1>0 DEF MovementTable
  <2>2. IsFiniteSet(DOMAIN u)
    BY <1>1, <1>5, <2>1, FS_Union
  <2>3. \A m \in DOMAIN u : u[m] \in MovementRow
    BY <1>1, <1>6, <2>1
  <2> QED BY <2>2, <2>3 DEF MovementTable
<1>8. AmountIn(u, ids) = PartsTotal(parts)
  <2>1. [m \in ids |-> u[m].amount] = f
    BY <1>2, <1>3
  <2>2. AmountIn(u, ids) = SumFunctionOnSet(f, ids)
    BY <2>1, <1>4, Zenon DEF AmountIn, SumFunction
  <2> QED BY <2>2, <1>5
<1>9. \A b : MovementsOn(u, b) = MovementsOn(t, b) + Falls(a, b, -PartsTotal(parts))
  <2>1. \A m \in ids : /\ f[m] \in Int /\ u[m].kind = "expense" /\ u[m].account = a
                       /\ u[m].amount = f[m]
    BY <1>2, <1>4, <1>5
  <2>2. \A b : MovementsOn(u, b) = MovementsOn(t, b) + Falls(a, b, -SumFunctionOnSet(f, ids))
    BY <1>0, <1>1, <1>5, <1>7, <2>1, InsertedRows
  <2> QED BY <1>5, <2>2
<1> QED BY <1>1, <1>2, <1>7, <1>8, <1>9 DEF Inserted

LEMMA SoundPurchase ==
  ASSUME NEW A, NEW M, NEW P, NEW T, NEW I, Sound(A, M, P, T, I),
         NEW a \in DOMAIN A, NEW p \in PlanIds \ I, NEW ids \in SUBSET (MovementIds \ I), NEW total,
         NEW N, MovementTable(N), N = [m \in DOMAIN N |-> N[m]], DOMAIN N = DOMAIN M \cup ids,
         \A m \in DOMAIN M : N[m] = M[m],
         \A m \in ids : N[m].kind = "expense" /\ N[m].account = a /\ N[m].plan = p,
         AmountIn(N, ids) = total,
         NEW Q, Q = Save(P, p, [account |-> a, total |-> total]), NEW J, J = I \cup ids \cup {p}
  PROVE  Sound(A, N, Q, T, J)
<1>1. \A m \in DOMAIN M : m \notin ids
  BY DEF Sound
<1>2. DOMAIN Q = DOMAIN P \cup {p} /\ Q[p].account = a /\ Q[p].total = total /\ \A x \in DOMAIN P : x # p /\ Q[x] = P[x]
  BY DEF Save, Over, Sound
<1>3. \A m \in DOMAIN M : M[m].plan # p
  BY AccountsAssumption DEF Sound
<1>4. PartsOf(N, p) = ids
  BY <1>3 DEF PartsOf
<1>5. PlansAddUp(N, Q)
  <2> SUFFICES ASSUME NEW x \in DOMAIN Q
               PROVE  /\ AmountIn(N, PartsOf(N, x)) = Q[x].total
                      /\ \A m \in PartsOf(N, x) : N[m].account = Q[x].account
    BY DEF PlansAddUp
  <2>1. CASE x = p
    <3>1. AmountIn(N, PartsOf(N, x)) = total
      BY <1>4, <2>1, Zenon
    <3> QED BY <3>1, <1>2, <1>4, <2>1
  <2>2. CASE x # p
    <3>1. x \in DOMAIN P /\ Q[x] = P[x]
      BY <1>2, <2>2
    <3>2. PartsOf(N, x) = PartsOf(M, x) /\ \A m \in PartsOf(M, x) : N[m] = M[m]
      BY <2>2 DEF PartsOf
    <3>3. PlansAddUp(M, P)
      BY DEF Sound
    <3>4. AmountIn(N, PartsOf(N, x)) = AmountIn(M, PartsOf(M, x))
      BY <3>2, PartsAgree
    <3>5. AmountIn(M, PartsOf(M, x)) = P[x].total /\ \A m \in PartsOf(M, x) : M[m].account = P[x].account
      BY <3>1, <3>3 DEF PlansAddUp
    <3> QED BY <3>1, <3>2, <3>4, <3>5
  <2> QED BY <2>1, <2>2
<1>6. \A m \in DOMAIN N : /\ N[m].account \in DOMAIN A \cup {None} /\ N[m].plan \in DOMAIN Q \cup {None}
                          /\ N[m].plan # None => N[m].kind = "expense"
  BY <1>2 DEF Sound
<1>7. \A x \in DOMAIN Q : Q[x].account \in DOMAIN A
  BY <1>2 DEF Sound
<1>8. /\ DOMAIN N \subseteq MovementIds \cap J /\ DOMAIN Q \subseteq PlanIds \cap J
      /\ J \subseteq AccountIds \cup MovementIds \cup PlanIds /\ DOMAIN A \subseteq AccountIds \cap J
  BY <1>2 DEF Sound
<1>9. /\ AccountTable(A) /\ T \in Seq(TransferRow)
      /\ \A i \in DOMAIN T : T[i].from \in DOMAIN A /\ T[i].to \in DOMAIN A
  BY DEF Sound
<1> QED BY <1>5, <1>6, <1>7, <1>8, <1>9 DEF Sound

-----------------------------------------------------------------------------
\* What a commit does to the rows that the other mutations have read: a row is a row
\* of the same plan still, or a new one, or one that an edit has put back.
Traces(I, req, M, N) ==
  \A m \in DOMAIN N :
    \/ m \in DOMAIN M /\ N[m].plan = M[m].plan
    \/ m \notin I /\ (N[m].plan = None \/ N[m].plan \notin I)
    \/ /\ N[m].plan = None
       /\ \A s \in DOMAIN req : req[s].op = "removePlan" => m \notin req[s].ids

PlanTraces(I, P, Q) == \A p \in DOMAIN Q : p \notin I \/ (p \in DOMAIN P /\ Q[p] = P[p])

LEMMA AnchorKept ==
  ASSUME NEW I, NEW M, NEW P, NEW req, NEW s \in DOMAIN req, NEW q, q = req[s],
         Shaped(q), Anchored(I, M, P, q),
         NEW J, I \subseteq J, NEW N, Traces(I, req, M, N), NEW Q, PlanTraces(I, P, Q)
  PROVE  Anchored(J, N, Q, q)
<1>1. ASSUME q.op \in Edits PROVE q.id \in J /\ (q.id \in DOMAIN N => N[q.id].plan = None)
  BY <1>1 DEF Anchored, Traces
<1>2. ASSUME q.op \in Saves PROVE q.id \in J
  BY <1>2 DEF Anchored
<1>3. ASSUME q.op = "removePlan"
      PROVE  /\ q.plan \in J /\ q.ids \subseteq J
             /\ q.plan \in DOMAIN Q => Q[q.plan].account = q.account
             /\ \A m \in DOMAIN N : m \in q.ids <=> N[m].plan = q.plan
  <2>1. /\ q.plan \in I /\ q.ids \subseteq I /\ (q.plan \in DOMAIN P => P[q.plan].account = q.account)
        /\ \A m \in DOMAIN M : m \in q.ids <=> M[m].plan = q.plan
    BY <1>3 DEF Anchored
  <2>2. q.plan # None
    BY <1>3, AccountsAssumption DEF Shaped
  <2>3. q.plan \in DOMAIN Q => Q[q.plan].account = q.account
    BY <2>1 DEF PlanTraces
  <2>4. \A m \in DOMAIN N : m \in q.ids <=> N[m].plan = q.plan
    BY <1>3, <2>1, <2>2 DEF Traces
  <2> QED BY <2>1, <2>3, <2>4
<1> QED BY <1>1, <1>2, <1>3 DEF Anchored

LEMMA OthersWait ==
  ASSUME NEW A, NEW M, NEW P, NEW T, NEW I, NEW req, NEW old, Underway(A, M, P, T, I, req, old),
         NEW B, NEW N, Traces(I, req, M, N), NEW Q, PlanTraces(I, P, Q), NEW U, NEW J, I \subseteq J,
         NEW rest, DOMAIN rest \subseteq DOMAIN req, \A s \in DOMAIN rest : rest[s] = req[s]
  PROVE  Underway(B, N, Q, U, J, rest, DOMAIN rest)
<1>1. \A s \in DOMAIN rest : Shaped(rest[s]) /\ Anchored(J, N, Q, rest[s])
  <2> SUFFICES ASSUME NEW s \in DOMAIN rest PROVE Shaped(rest[s]) /\ Anchored(J, N, Q, rest[s])
    OBVIOUS
  <2>1. s \in DOMAIN req /\ rest[s] = req[s] /\ Shaped(req[s]) /\ Anchored(I, M, P, req[s])
    BY DEF Underway
  <2>2. Anchored(J, N, Q, req[s])
    BY <2>1, AnchorKept
  <2> QED BY <2>1, <2>2
<1>2. Apart(rest)
  BY DEF Underway, Apart
<1> QED BY <1>1, <1>2 DEF Underway

\* A commit keeps the invariant when the tables stay sound and settled.
LEMMA Committed ==
  ASSUME AccountsInv, issued \subseteq issued',
         DOMAIN request' \subseteq DOMAIN request, \A s \in DOMAIN request' : request'[s] = request[s],
         stale' = DOMAIN request', started' \in 0 .. MaxMutations, exposed' \subseteq AccountIds,
         Sound(account', movement', plan', transfer', issued'),
         Traces(issued, request, movement, movement'), PlanTraces(issued, plan, plan'),
         \A a \in DOMAIN account' \ exposed' : Settled(account', movement', transfer', a)
  PROVE  AccountsInv'
<1>1. Underway(account', movement', plan', transfer', issued', request', DOMAIN request')
  <2>1. Underway(account, movement, plan, transfer, issued, request, stale)
    BY DEF AccountsInv
  <2> QED BY <2>1, OthersWait
<1>2. Underway(account', movement', plan', transfer', issued', request', stale')
  BY <1>1
<1> QED BY <1>2 DEF AccountsInv

LEMMA Finished ==
  ASSUME AccountsInv, NEW r, FinishMutation(r)
  PROVE  /\ DOMAIN request' \subseteq DOMAIN request /\ \A s \in DOMAIN request' : request'[s] = request[s]
         /\ stale' = DOMAIN request' /\ started' \in 0 .. MaxMutations
BY DEF FinishMutation, DeleteRows, Restrict, AccountsInv

LEMMA SingleDone ==
  ASSUME AccountsInv, NEW r, NEW op, Single(r, op)
  PROVE  /\ DOMAIN request' \subseteq DOMAIN request /\ \A s \in DOMAIN request' : request'[s] = request[s]
         /\ stale' = DOMAIN request' /\ started' \in 0 .. MaxMutations
         /\ exposed' = exposed
BY AccountsAssumption DEF Single, AccountsInv

\* A mutation that has read what it needs keeps the invariant,
LEMMA Begun ==
  ASSUME AccountsInv, NEW r \in RequestIds, NEW op, NEW q, BeginMutation(r, op, q),
         Shaped(q), Anchored(issued, movement, plan, q), ReadsStill(account, movement, plan, transfer, q)
  PROVE  AccountsInv'
<1>1. /\ r \notin DOMAIN request /\ DOMAIN request' = DOMAIN request \cup {r} /\ request'[r] = q
      /\ \A s \in DOMAIN request : s # r /\ request'[s] = request[s]
      /\ stale' = stale /\ exposed' = exposed /\ started' = started + 1 /\ started < MaxMutations
      /\ account' = account /\ movement' = movement /\ plan' = plan /\ transfer' = transfer
      /\ issued' = issued
  BY DEF BeginMutation, Save, Over, accountTables
<1>2. Underway(account, movement, plan, transfer, issued, request, stale)
  BY DEF AccountsInv
<1>3. \A s \in DOMAIN request' : Shaped(request'[s]) /\ Anchored(issued, movement, plan, request'[s])
  BY <1>1, <1>2 DEF Underway
<1>4. \A s \in DOMAIN request' \ stale : ReadsStill(account, movement, plan, transfer, request'[s])
  BY <1>1, <1>2 DEF Underway
<1>5. ASSUME NEW s \in DOMAIN request', NEW t \in DOMAIN request',
             request'[s].op \in Edits, request'[t].op = "removePlan"
      PROVE  request'[s].id \notin request'[t].ids
  <2>1. CASE s # r /\ t # r
    BY <1>1, <1>2, <1>5, <2>1 DEF Underway, Apart
  <2>2. CASE s = r
    <3>1. q.op \in Edits /\ t # r
      BY <1>1, <1>5, <2>2 DEF Edits
    <3>2. q.id \in DOMAIN movement /\ movement[q.id].plan = None
      BY <3>1 DEF ReadsStill, Anchored
    <3>3. /\ request'[t].plan # None
          /\ \A m \in DOMAIN movement : m \in request'[t].ids <=> movement[m].plan = request'[t].plan
      BY <1>3, <1>5, AccountsAssumption DEF Shaped, Anchored
    <3> QED BY <1>1, <2>2, <3>2, <3>3
  <2>3. CASE t = r
    <3>1. q.op = "removePlan"
      BY <1>1, <1>5, <2>3
    <3>2. /\ q.plan # None /\ q.ids \subseteq DOMAIN movement
          /\ \A m \in DOMAIN movement : m \in q.ids <=> movement[m].plan = q.plan
      BY <3>1, AccountsAssumption DEF Shaped, ReadsStill, Anchored
    <3>3. request'[s].id \in DOMAIN movement => movement[request'[s].id].plan = None
      BY <1>3, <1>5 DEF Anchored
    <3> QED BY <1>1, <2>3, <3>2, <3>3
  <2> QED BY <2>1, <2>2, <2>3
<1>6. DOMAIN request' \subseteq RequestIds /\ stale' \subseteq DOMAIN request'
  BY <1>1, <1>2 DEF Underway
<1>7. Apart(request')
  BY <1>5 DEF Apart
<1>8. Underway(account', movement', plan', transfer', issued', request', stale')
  BY <1>1, <1>3, <1>4, <1>6, <1>7 DEF Underway
<1>9. started' \in 0 .. MaxMutations
  BY <1>1, AccountsAssumption DEF AccountsInv
<1> QED BY <1>1, <1>8, <1>9 DEF AccountsInv

\* and so does one that is given up.
LEMMA Aborted ==
  ASSUME AccountsInv, NEW r, Abort(r)
  PROVE  AccountsInv'
<1>1. /\ DOMAIN request' \subseteq DOMAIN request /\ \A s \in DOMAIN request' : request'[s] = request[s]
      /\ stale' = stale \ {r} /\ DOMAIN request' = DOMAIN request \ {r}
      /\ exposed' = exposed /\ started' = started
      /\ account' = account /\ movement' = movement /\ plan' = plan /\ transfer' = transfer
      /\ issued' = issued
  BY DEF Abort, DeleteRows, Restrict, accountTables
<1>2. Underway(account, movement, plan, transfer, issued, request, stale)
  BY DEF AccountsInv
<1>3. Underway(account', movement', plan', transfer', issued', request', stale')
  BY <1>1, <1>2 DEF Underway, Apart
<1> QED BY <1>1, <1>3 DEF AccountsInv

LEMMA AggregateIn ==
  ASSUME NEW opening, NEW a
  PROVE  BalanceFrom(opening, a) = BalanceIn(movement, transfer, opening, a)
BY Zenon DEF BalanceFrom, BalanceIn, AmountOf, AmountIn, RowsOf, RowsIn, TransferredTo, TransferredFrom,
             TransferAmountOf, TransferredIn

\* The steps that only read.
LEMMA CreationBegun ==
  ASSUME AccountsInv, NEW r \in RequestIds,
         \/ BeginCreateExpense(r) \/ BeginCreateInInstallments(r) \/ BeginCreateIncome(r) \/ BeginTransfer(r)
  PROVE  AccountsInv'
<1>1. CASE BeginCreateExpense(r)
  <2>1. PICK a \in AccountIds \cup {None}, x \in Amounts :
          /\ CreditAvailable(account, a, x)
          /\ BeginMutation(r, "createExpense", [op |-> "createExpense", account |-> a, amount |-> x])
    BY <1>1 DEF BeginCreateExpense
  <2> DEFINE q == [op |-> "createExpense", account |-> a, amount |-> x]
  <2>2. Shaped(q) /\ Anchored(issued, movement, plan, q) /\ ReadsStill(account, movement, plan, transfer, q)
    BY <2>1 DEF Shaped, Anchored, ReadsStill, Edits, Saves
  <2> HIDE DEF q
  <2>3. BeginMutation(r, "createExpense", q)
    BY <2>1 DEF q
  <2> QED BY <2>2, <2>3, Begun
<1>2. CASE BeginCreateInInstallments(r)
  <2>1. PICK a \in AccountIds, parts \in Schedules :
          /\ CreditAvailable(account, a, PartsTotal(parts))
          /\ BeginMutation(r, "createInInstallments",
                           [op |-> "createInInstallments", account |-> a, parts |-> parts])
    BY <1>2 DEF BeginCreateInInstallments
  <2> DEFINE q == [op |-> "createInInstallments", account |-> a, parts |-> parts]
  <2>2. Shaped(q) /\ Anchored(issued, movement, plan, q) /\ ReadsStill(account, movement, plan, transfer, q)
    BY <2>1 DEF Shaped, Anchored, ReadsStill, Edits, Saves
  <2> HIDE DEF q
  <2>3. BeginMutation(r, "createInInstallments", q)
    BY <2>1 DEF q
  <2> QED BY <2>2, <2>3, Begun
<1>3. CASE BeginCreateIncome(r)
  <2>1. PICK a \in AccountIds \cup {None}, x \in Amounts :
          BeginMutation(r, "createIncome", [op |-> "createIncome", account |-> a, amount |-> x])
    BY <1>3 DEF BeginCreateIncome
  <2> DEFINE q == [op |-> "createIncome", account |-> a, amount |-> x]
  <2>2. Shaped(q) /\ Anchored(issued, movement, plan, q) /\ ReadsStill(account, movement, plan, transfer, q)
    BY <2>1 DEF Shaped, Anchored, ReadsStill, Edits, Saves
  <2> HIDE DEF q
  <2>3. BeginMutation(r, "createIncome", q)
    BY <2>1 DEF q
  <2> QED BY <2>2, <2>3, Begun
<1>4. CASE BeginTransfer(r)
  <2>1. PICK from \in DOMAIN account, to \in DOMAIN account, x \in Amounts :
          /\ Covers(account, from, x)
          /\ BeginMutation(r, "transfer", [op |-> "transfer", from |-> from, to |-> to, amount |-> x])
    BY <1>4 DEF BeginTransfer
  <2> DEFINE q == [op |-> "transfer", from |-> from, to |-> to, amount |-> x]
  <2>2. from \in AccountIds /\ to \in AccountIds
    BY DEF AccountsInv, Sound
  <2>3. Shaped(q) /\ Anchored(issued, movement, plan, q) /\ ReadsStill(account, movement, plan, transfer, q)
    BY <2>1, <2>2 DEF Shaped, Anchored, ReadsStill, Edits, Saves
  <2> HIDE DEF q
  <2>4. BeginMutation(r, "transfer", q)
    BY <2>1 DEF q
  <2> QED BY <2>3, <2>4, Begun
<1> QED BY <1>1, <1>2, <1>3, <1>4

LEMMA MovementIn ==
  ASSUME AccountsInv, NEW m \in DOMAIN movement
  PROVE  /\ movement[m] \in MovementRow /\ m \in MovementIds /\ m \in issued
         /\ movement[m].plan \in PlanIds \cup {None} /\ movement[m].plan \in DOMAIN plan \cup {None}
BY DEF AccountsInv, Sound, MovementTable

LEMMA UpdateBegun ==
  ASSUME AccountsInv, NEW r \in RequestIds, NEW move,
         NEW kind, NEW edit, <<kind, edit>> \in {<<"expense", "updateExpense">>, <<"income", "updateIncome">>},
         BeginUpdate(r, kind, edit, move)
  PROVE  AccountsInv'
<1>1. PICK m \in DOMAIN movement, a \in AccountIds \cup {None}, x \in Amounts :
        /\ movement[m].kind = kind /\ movement[m].plan = None
        /\ BeginMutation(r, IF a = movement[m].account THEN edit ELSE move,
                         [op |-> edit, id |-> m, row |-> movement[m], account |-> a, amount |-> x])
  BY DEF BeginUpdate
<1> DEFINE q == [op |-> edit, id |-> m, row |-> movement[m], account |-> a, amount |-> x]
<1>2. movement[m] \in MovementRow /\ m \in MovementIds /\ m \in issued
  BY MovementIn
<1>3. Shaped(q) /\ Anchored(issued, movement, plan, q) /\ ReadsStill(account, movement, plan, transfer, q)
  BY <1>1, <1>2 DEF Shaped, Anchored, ReadsStill, Edits, Saves
<1> HIDE DEF q
<1>4. BeginMutation(r, IF a = movement[m].account THEN edit ELSE move, q)
  BY <1>1 DEF q
<1> QED BY <1>3, <1>4, Begun

LEMMA RemoveBegun ==
  ASSUME AccountsInv, NEW r \in RequestIds,
         NEW kind, NEW op, <<kind, op>> \in {<<"expense", "removeExpense">>, <<"income", "removeIncome">>},
         BeginRemove(r, kind, op)
  PROVE  AccountsInv'
<1>1. PICK m \in DOMAIN movement :
        /\ movement[m].kind = kind /\ movement[m].plan = None
        /\ BeginMutation(r, op, [op |-> op, id |-> m, row |-> movement[m]])
  BY DEF BeginRemove
<1> DEFINE q == [op |-> op, id |-> m, row |-> movement[m]]
<1>2. movement[m] \in MovementRow /\ m \in MovementIds /\ m \in issued
  BY MovementIn
<1>3. Shaped(q) /\ Anchored(issued, movement, plan, q) /\ ReadsStill(account, movement, plan, transfer, q)
  BY <1>1, <1>2 DEF Shaped, Anchored, ReadsStill, Edits, Saves
<1> HIDE DEF q
<1>4. BeginMutation(r, op, q)
  BY <1>1 DEF q
<1> QED BY <1>3, <1>4, Begun

LEMMA RemovePlanBegun ==
  ASSUME AccountsInv, NEW r \in RequestIds, BeginRemovePlan(r)
  PROVE  AccountsInv'
<1>1. PICK m \in DOMAIN movement :
        /\ movement[m].plan # None
        /\ BeginMutation(r, "removePlan",
             [op |-> "removePlan", plan |-> movement[m].plan, ids |-> PartsOf(movement, movement[m].plan),
              account |-> movement[m].account, total |-> AmountIn(movement, PartsOf(movement, movement[m].plan))])
  BY DEF BeginRemovePlan, PartsOf, AmountOf, AmountIn
<1> DEFINE p == movement[m].plan
           ids == PartsOf(movement, p)
           q == [op |-> "removePlan", plan |-> p, ids |-> ids,
                 account |-> movement[m].account, total |-> AmountIn(movement, ids)]
<1>2. p \in PlanIds /\ p \in DOMAIN plan /\ p \in issued /\ m \in ids
  BY <1>1, MovementIn DEF AccountsInv, Sound, PartsOf
<1>3. ids \subseteq DOMAIN movement /\ ids \subseteq MovementIds /\ ids \subseteq issued
  BY MovementIn DEF PartsOf
<1>4. AmountIn(movement, ids) \in Int
  BY <1>3, AmountsAddUp DEF AccountsInv, Sound
<1>5. plan[p].account = movement[m].account /\ movement[m].account \in AccountIds
  BY <1>2 DEF AccountsInv, Sound, PlansAddUp
<1>6. \A n \in DOMAIN movement : n \in ids <=> movement[n].plan = p
  BY DEF PartsOf
<1>7. q.op = "removePlan" /\ q.plan = p /\ q.ids = ids /\ q.account = movement[m].account
      /\ q.total = AmountIn(movement, ids)
  OBVIOUS
<1>8. BeginMutation(r, "removePlan", q)
  BY <1>1
<1> HIDE DEF q, p, ids
<1>9. Shaped(q) /\ Anchored(issued, movement, plan, q) /\ ReadsStill(account, movement, plan, transfer, q)
  BY <1>2, <1>3, <1>4, <1>5, <1>6, <1>7 DEF Shaped, Anchored, ReadsStill, Edits, Saves
<1> QED BY <1>8, <1>9, Begun

LEMMA AccountBegun ==
  ASSUME AccountsInv, NEW r \in RequestIds, BeginUpdateAccount(r) \/ BeginRecalculate(r)
  PROVE  AccountsInv'
<1>0. \A a \in DOMAIN account : account[a] \in AccountRow /\ a \in AccountIds /\ a \in issued
  BY DEF AccountsInv, Sound, AccountTable
<1>1. CASE BeginUpdateAccount(r)
  <2>1. PICK a \in DOMAIN account : \E o \in Openings \cup {account[a].opening} :
          BeginMutation(r, "updateAccount",
            [op |-> "saveAccount", id |-> a,
             row |-> [opening |-> o, balance |-> account[a].balance + o - account[a].opening]])
    BY <1>1 DEF BeginUpdateAccount
  <2>2. PICK o \in Openings \cup {account[a].opening} :
          BeginMutation(r, "updateAccount",
            [op |-> "saveAccount", id |-> a,
             row |-> [opening |-> o, balance |-> account[a].balance + o - account[a].opening]])
    BY <2>1
  <2>3. account[a].opening \in Int /\ account[a].balance \in Int /\ a \in AccountIds /\ a \in issued
    BY <1>0 DEF AccountRow
  <2>4. o \in Int
    BY <2>3, AccountsAssumption
  <2> DEFINE row == [opening |-> o, balance |-> account[a].balance + o - account[a].opening]
             q == [op |-> "saveAccount", id |-> a, row |-> row]
  <2>5. /\ row \in AccountRow /\ row.opening = o
        /\ row.balance - row.opening = account[a].balance - account[a].opening
    BY <2>3, <2>4 DEF AccountRow
  <2>6. q.op = "saveAccount" /\ q.id = a /\ q.row = row
    OBVIOUS
  <2>7. BeginMutation(r, "updateAccount", q)
    BY <2>2
  <2> HIDE DEF q, row
  <2>8. Shaped(q) /\ Anchored(issued, movement, plan, q) /\ ReadsStill(account, movement, plan, transfer, q)
    BY <2>3, <2>5, <2>6 DEF Shaped, Anchored, ReadsStill, Edits, Saves
  <2> QED BY <2>7, <2>8, Begun
<1>2. CASE BeginRecalculate(r)
  <2>1. PICK a \in DOMAIN account : BeginMutation(r, "recalculate", [op |-> "aggregate", id |-> a, row |-> account[a]])
    BY <1>2 DEF BeginRecalculate
  <2> DEFINE q == [op |-> "aggregate", id |-> a, row |-> account[a]]
  <2>2. Shaped(q) /\ Anchored(issued, movement, plan, q) /\ ReadsStill(account, movement, plan, transfer, q)
    BY <1>0 DEF Shaped, Anchored, ReadsStill, Edits, Saves
  <2> HIDE DEF q
  <2>3. BeginMutation(r, "recalculate", q)
    BY <2>1 DEF q
  <2> QED BY <2>2, <2>3, Begun
<1> QED BY <1>1, <1>2

LEMMA Aggregated ==
  ASSUME AccountsInv, NEW r \in RequestIds, Aggregate(r)
  PROVE  AccountsInv'
<1> DEFINE was == request[r]
           balance == BalanceIn(movement, transfer, was.row.opening, was.id)
           row == [was.row EXCEPT !.balance = balance]
           q == [op |-> "saveRecalculated", id |-> was.id, row |-> row]
<1>1. /\ r \in DOMAIN request /\ was.op = "aggregate"
      /\ request' = [request EXCEPT ![r] = q]
      /\ stale' = stale /\ exposed' = exposed /\ started' = started
      /\ account' = account /\ movement' = movement /\ plan' = plan /\ transfer' = transfer
      /\ issued' = issued
  BY AggregateIn DEF Aggregate, InFlight, accountTables
<1>2. Underway(account, movement, plan, transfer, issued, request, stale)
  BY DEF AccountsInv
<1>3. was.id \in AccountIds /\ was.id \in issued /\ was.row \in AccountRow /\ was.row.opening \in Int
  BY <1>1, <1>2 DEF Underway, Shaped, Anchored, Saves, AccountRow
<1>4. balance \in Int
  BY <1>3, AggregateIsLedger DEF AccountsInv, Sound
<1>5. row \in AccountRow /\ row.balance = balance /\ row.opening = was.row.opening
  <2> HIDE DEF balance, was
  <2> QED BY <1>3, <1>4 DEF AccountRow
<1>6. q.op = "saveRecalculated" /\ q.id = was.id /\ q.row = row
  OBVIOUS
<1>7. row.balance = BalanceIn(movement, transfer, row.opening, was.id)
  BY <1>5
<1>8. /\ DOMAIN request' = DOMAIN request /\ request'[r] = q
      /\ \A s \in DOMAIN request : s # r => request'[s] = request[s]
  <2> HIDE DEF q
  <2> QED BY <1>1
<1> HIDE DEF q, row, balance
<1>9. Shaped(q) /\ Anchored(issued, movement, plan, q) /\ ReadsStill(account, movement, plan, transfer, q)
  BY <1>3, <1>5, <1>6, <1>7 DEF Shaped, Anchored, ReadsStill, Edits, Saves
<1>10. \A s \in DOMAIN request' : Shaped(request'[s]) /\ Anchored(issued, movement, plan, request'[s])
  BY <1>2, <1>8, <1>9 DEF Underway
<1>11. \A s \in DOMAIN request' \ stale : ReadsStill(account, movement, plan, transfer, request'[s])
  BY <1>2, <1>8, <1>9 DEF Underway
<1>12. q.op \notin Edits /\ q.op # "removePlan"
  BY <1>6 DEF Edits
<1>13. Apart(request')
  BY <1>2, <1>8, <1>12 DEF Underway, Apart
<1>14. Underway(account', movement', plan', transfer', issued', request', stale')
  BY <1>1, <1>2, <1>8, <1>10, <1>11, <1>13 DEF Underway
<1> QED BY <1>1, <1>14 DEF AccountsInv

-----------------------------------------------------------------------------
\* The steps that commit.
LEMMA SettledStill ==
  ASSUME NEW A, AccountTable(A), NEW M, NEW T, NEW a \in DOMAIN A, Settled(A, M, T, a),
         MovementsOn(M, a) \in Int, TransfersOn(T, a) \in Int,
         NEW B, NEW N, NEW U, NEW d \in Int, B[a].opening = A[a].opening, B[a].balance = A[a].balance + d,
         MovementsOn(N, a) \in Int, TransfersOn(U, a) \in Int,
         MovementsOn(N, a) + TransfersOn(U, a) = MovementsOn(M, a) + TransfersOn(T, a) + d
  PROVE  Settled(B, N, U, a)
<1> DEFINE o == A[a].opening
           m == MovementsOn(M, a)
           t == TransfersOn(T, a)
           n == MovementsOn(N, a)
           u == TransfersOn(U, a)
<1>1. A[a] \in AccountRow
  BY DEF AccountTable
<1>2. o \in Int /\ A[a].balance = o + m + t
  BY <1>1 DEF Settled, AccountRow
<1>3. m \in Int /\ t \in Int /\ n \in Int /\ u \in Int /\ n + u = m + t + d
  OBVIOUS
<1>4. B[a].opening = o /\ B[a].balance = o + m + t + d
  BY <1>2
<1> HIDE DEF o, m, t, n, u
<1>5. B[a].balance = o + n + u
  BY <1>2, <1>3, <1>4
<1> QED BY <1>4, <1>5 DEF Settled, n, u

LEMMA SavedCharges ==
  ASSUME NEW t, MovementTable(t), NEW u, MovementTable(u), NEW id, NEW row \in MovementRow,
         u = Save(t, id, row), NEW a
  PROVE  /\ MovementsOn(t, a) \in Int /\ MovementsOn(u, a) \in Int
         /\ Contribution(t, id, a) \in Int /\ Effect(row, a) \in Int
         /\ MovementsOn(u, a) = MovementsOn(t, a) - Contribution(t, id, a) + Effect(row, a)
<1>1. DOMAIN u = DOMAIN t \cup {id} /\ u[id] = row /\ \A x \in DOMAIN t : x # id => u[x] = t[x]
  BY DEF Save, Over
<1>2. \A m : m # id => Contribution(t, m, a) = Contribution(u, m, a)
  BY <1>1 DEF Contribution
<1>3. Contribution(u, id, a) = Effect(row, a)
  BY <1>1 DEF Contribution
<1>4. Contribution(t, id, a) \in Int /\ Effect(row, a) \in Int
  BY ContributionIsInt, EffectIsInt
<1>5. /\ MovementsOn(t, a) \in Int /\ MovementsOn(u, a) \in Int
      /\ MovementsOn(u, a) = MovementsOn(t, a) - Contribution(t, id, a) + Contribution(u, id, a)
  BY <1>2, MovementsDifferAt
<1> QED BY <1>3, <1>4, <1>5

LEMMA RowGone ==
  ASSUME NEW t, MovementTable(t), NEW u, MovementTable(u), NEW id, NEW a,
         \A m : m # id => Contribution(t, m, a) = Contribution(u, m, a), Contribution(u, id, a) = 0
  PROVE  /\ MovementsOn(t, a) \in Int /\ MovementsOn(u, a) \in Int /\ Contribution(t, id, a) \in Int
         /\ MovementsOn(u, a) = MovementsOn(t, a) - Contribution(t, id, a)
<1>1. Contribution(t, id, a) \in Int
  BY ContributionIsInt
<1>2. /\ MovementsOn(t, a) \in Int /\ MovementsOn(u, a) \in Int
      /\ MovementsOn(u, a) = MovementsOn(t, a) - Contribution(t, id, a) + Contribution(u, id, a)
  BY MovementsDifferAt
<1> QED BY <1>1, <1>2

LEMMA DeletedCharges ==
  ASSUME NEW t, MovementTable(t), NEW u, MovementTable(u), NEW id, u = DeleteRows(t, {id}), NEW a
  PROVE  /\ MovementsOn(t, a) \in Int /\ MovementsOn(u, a) \in Int /\ Contribution(t, id, a) \in Int
         /\ MovementsOn(u, a) = MovementsOn(t, a) - Contribution(t, id, a)
<1>1. DOMAIN u = DOMAIN t \ {id} /\ \A x \in DOMAIN u : u[x] = t[x]
  BY DEF DeleteRows, Restrict
<1>2. \A m : m # id => Contribution(t, m, a) = Contribution(u, m, a)
  BY <1>1 DEF Contribution
<1>3. Contribution(u, id, a) = 0
  BY <1>1 DEF Contribution
<1> QED BY <1>2, <1>3, RowGone

\* What the invariant says of the tables, and of the mutation that commits.
LEMMA TablesIn ==
  ASSUME AccountsInv
  PROVE  /\ Sound(account, movement, plan, transfer, issued)
         /\ AccountTable(account) /\ MovementTable(movement) /\ transfer \in Seq(TransferRow)
         /\ issued \subseteq AccountIds \cup MovementIds \cup PlanIds /\ exposed \subseteq AccountIds
         /\ \A a : TransfersOn(transfer, a) \in Int /\ MovementsOn(movement, a) \in Int
         /\ \A a \in DOMAIN account : /\ a \in AccountIds /\ a # None
                                      /\ a \notin exposed => Settled(account, movement, transfer, a)
<1>1. AccountTable(account) /\ MovementTable(movement) /\ transfer \in Seq(TransferRow)
  BY DEF AccountsInv, Sound
<1>2. \A a : TransfersOn(transfer, a) \in Int /\ MovementsOn(movement, a) \in Int
  BY <1>1, TransfersOnInt, MovementsAgree
<1>3. \A a \in DOMAIN account : a \in AccountIds /\ a # None
  BY AccountsAssumption DEF AccountsInv, Sound
<1> QED BY <1>1, <1>2, <1>3 DEF AccountsInv, Sound

LEMMA RequestIn ==
  ASSUME AccountsInv, NEW r, NEW op, InFlight(r, op)
  PROVE  /\ r \in DOMAIN request /\ request[r].op = op
         /\ Shaped(request[r]) /\ Anchored(issued, movement, plan, request[r])
         /\ r \notin stale => ReadsStill(account, movement, plan, transfer, request[r])
BY DEF AccountsInv, Underway, InFlight

LEMMA Created ==
  ASSUME AccountsInv, NEW r \in RequestIds, NEW q, q = request[r], NEW kind, NEW op,
         <<kind, op>> \in {<<"expense", "createExpense">>, <<"income", "createIncome">>},
         InFlight(r, op), OwnedOrNull(q.account), NEW m \in MovementIds \ issued,
         movement' = Save(movement, m, [kind |-> kind, account |-> q.account,
                                        amount |-> q.amount, plan |-> None]),
         issued' = issued \cup {m},
         account' = AdjustBalance(account, q.account, IF kind = "income" THEN q.amount ELSE -q.amount),
         End(r), plan' = plan, transfer' = transfer
  PROVE  AccountsInv'
<1> DEFINE row == [kind |-> kind, account |-> q.account, amount |-> q.amount, plan |-> None]
           d == IF kind = "income" THEN q.amount ELSE -q.amount
<1>1. q.account \in AccountIds \cup {None} /\ q.amount \in Amounts
  BY RequestIn DEF Shaped
<1>2. q.amount \in Nat /\ q.amount \in Int /\ d \in Int
  BY <1>1, AmountsArePositive
<1>3. row \in MovementRow /\ row.plan = None /\ row.account = q.account
  BY <1>1, <1>2 DEF MovementRow
<1>4. \A a : Effect(row, a) = IF a = q.account THEN d ELSE 0
  BY <1>2 DEF Effect
<1>5. movement' = Save(movement, m, row) /\ account' = AdjustBalance(account, q.account, d)
  OBVIOUS
<1> HIDE DEF row, d
<1>6. m \notin DOMAIN movement
  BY TablesIn DEF Sound
<1>7. Sound(account, movement', plan, transfer, issued')
  <2>1. issued' \subseteq AccountIds \cup MovementIds \cup PlanIds /\ m \in MovementIds \cap issued'
    BY TablesIn
  <2>2. q.account \in DOMAIN account \cup {None}
    BY DEF OwnedOrNull, Exists
  <2> QED BY <1>3, <1>5, <1>6, <2>1, <2>2, TablesIn, SoundMovement
<1>8. /\ AccountTable(account') /\ DOMAIN account' = DOMAIN account
      /\ \A a \in DOMAIN account : /\ account'[a].opening = account[a].opening
                                   /\ account'[a].balance = account[a].balance + (IF a = q.account THEN d ELSE 0)
  BY <1>2, <1>5, TablesIn, AdjustIs
<1>9. Sound(account', movement', plan', transfer', issued')
  BY <1>7, <1>8, SoundBalances
<1>10. \A a : /\ MovementsOn(movement', a) \in Int
              /\ MovementsOn(movement', a) = MovementsOn(movement, a) + (IF a = q.account THEN d ELSE 0)
  <2> SUFFICES ASSUME NEW a
               PROVE  /\ MovementsOn(movement', a) \in Int
                      /\ MovementsOn(movement', a) = MovementsOn(movement, a) + (IF a = q.account THEN d ELSE 0)
    OBVIOUS
  <2>1. MovementTable(movement')
    BY <1>7 DEF Sound
  <2>2. Contribution(movement, m, a) = 0
    BY <1>6 DEF Contribution
  <2>3. /\ MovementsOn(movement, a) \in Int /\ MovementsOn(movement', a) \in Int /\ Effect(row, a) \in Int
        /\ MovementsOn(movement', a) = MovementsOn(movement, a) - Contribution(movement, m, a) + Effect(row, a)
    BY <1>3, <1>5, <2>1, TablesIn, SavedCharges
  <2> QED BY <1>4, <2>2, <2>3
<1>11. \A a \in DOMAIN account' \ exposed' : Settled(account', movement', transfer', a)
  <2> SUFFICES ASSUME NEW a \in DOMAIN account, a \notin exposed
               PROVE  Settled(account', movement', transfer', a)
    BY <1>8 DEF End
  <2> DEFINE x == IF a = q.account THEN d ELSE 0
  <2>1. /\ x \in Int /\ account'[a].opening = account[a].opening /\ account'[a].balance = account[a].balance + x
        /\ MovementsOn(movement', a) = MovementsOn(movement, a) + x
    BY <1>2, <1>8, <1>10
  <2> HIDE DEF x
  <2>2. Settled(account, movement, transfer, a) /\ MovementsOn(movement, a) \in Int /\ TransfersOn(transfer, a) \in Int
    BY TablesIn
  <2>3. /\ MovementsOn(movement', a) \in Int /\ TransfersOn(transfer', a) = TransfersOn(transfer, a)
        /\ MovementsOn(movement', a) + TransfersOn(transfer', a)
             = MovementsOn(movement, a) + TransfersOn(transfer, a) + x
    BY <1>10, <2>1, <2>2
  <2> QED BY <2>1, <2>2, <2>3, TablesIn, SettledStill
<1>12. /\ Traces(issued, request, movement, movement') /\ PlanTraces(issued, plan, plan')
       /\ issued \subseteq issued'
  <2>1. \A x \in DOMAIN movement' : x = m \/ (x \in DOMAIN movement /\ movement'[x] = movement[x])
    BY <1>5 DEF Save, Over
  <2>2. movement'[m].plan = None
    BY <1>3, <1>5 DEF Save, Over
  <2> QED BY <2>1, <2>2 DEF Traces, PlanTraces
<1>13. FinishMutation(r) /\ exposed' \subseteq AccountIds
  BY TablesIn DEF End
<1> QED BY <1>9, <1>11, <1>12, <1>13, Finished, Committed

\* What an edit leaves of the row it read, and what a balance owes to it.
LEMMA EditIn ==
  ASSUME AccountsInv, NEW r, NEW op \in Edits, NEW q, q = request[r], InFlight(r, op)
  PROVE  /\ q.id \in MovementIds /\ q.id \in issued /\ q.row \in MovementRow /\ q.row.plan = None
         /\ q.row.amount \in Int
         /\ q.row.kind = IF op \in {"updateExpense", "removeExpense"} THEN "expense" ELSE "income"
         /\ q.id \in DOMAIN movement => movement[q.id].plan = None
         /\ r \notin stale => q.id \in DOMAIN movement /\ movement[q.id] = q.row
         /\ \A s \in DOMAIN request : request[s].op = "removePlan" => q.id \notin request[s].ids
<1>1. r \in DOMAIN request /\ q.op = op /\ Shaped(q) /\ Anchored(issued, movement, plan, q)
  BY RequestIn
<1>2. r \notin stale => ReadsStill(account, movement, plan, transfer, q)
  BY RequestIn
<1>3. /\ q.id \in MovementIds /\ q.row \in MovementRow /\ q.row.plan = None
      /\ q.row.kind = IF op \in {"updateExpense", "removeExpense"} THEN "expense" ELSE "income"
  BY <1>1 DEF Shaped
<1>4. q.id \in issued /\ (q.id \in DOMAIN movement => movement[q.id].plan = None)
  BY <1>1 DEF Anchored
<1>5. r \notin stale => q.id \in DOMAIN movement /\ movement[q.id] = q.row
  BY <1>1, <1>2 DEF ReadsStill
<1>6. \A s \in DOMAIN request : request[s].op = "removePlan" => q.id \notin request[s].ids
  BY <1>1 DEF AccountsInv, Underway, Apart
<1>7. q.row.amount \in Int
  BY <1>3 DEF MovementRow
<1> QED BY <1>3, <1>4, <1>5, <1>6, <1>7

LEMMA SavedIn ==
  ASSUME NEW q, q.row \in MovementRow, q.account \in AccountIds \cup {None}, q.amount \in Amounts
  PROVE  /\ SavedRow(q) \in MovementRow /\ SavedRow(q).plan = q.row.plan /\ SavedRow(q).kind = q.row.kind
         /\ SavedRow(q).account = SavedAccount(q) /\ SavedRow(q).amount = q.amount
         /\ SavedAccount(q) \in {q.row.account, q.account}
<1> DEFINE a == SavedAccount(q)
           x == q.amount
<1>1. a \in AccountIds \cup {None} /\ a \in {q.row.account, q.account} /\ x \in Nat
  BY AmountsArePositive DEF SavedAccount, MovementRow
<1>2. SavedRow(q) = [q.row EXCEPT !.account = a, !.amount = x]
  BY DEF SavedRow
<1> HIDE DEF a, x
<1>3. /\ SavedRow(q) \in MovementRow /\ SavedRow(q).plan = q.row.plan /\ SavedRow(q).kind = q.row.kind
      /\ SavedRow(q).account = a /\ SavedRow(q).amount = x
  BY <1>1, <1>2 DEF MovementRow
<1> QED BY <1>1, <1>3 DEF a, x

\* the sign with which an amount of a kind of movement counts
Signed(kind, x) == IF kind = "income" THEN x ELSE -x

LEMMA EffectIs ==
  ASSUME NEW row \in MovementRow, NEW a
  PROVE  Effect(row, a) = IF row.account = a THEN Signed(row.kind, row.amount) ELSE 0
BY DEF Effect, Signed

LEMMA TwiceAdjusted ==
  ASSUME NEW t, AccountTable(t), NEW b, NEW d \in Int, NEW c, NEW e \in Int,
         NEW u, u = AdjustBalance(AdjustBalance(t, b, d), c, e)
  PROVE  /\ AccountTable(u) /\ DOMAIN u = DOMAIN t
         /\ \A a \in DOMAIN t : /\ u[a].opening = t[a].opening
                               /\ u[a].balance = t[a].balance + (IF a = b THEN d ELSE 0) + (IF a = c THEN e ELSE 0)
<1> DEFINE v == AdjustBalance(t, b, d)
<1>1. /\ AccountTable(v) /\ DOMAIN v = DOMAIN t
      /\ \A a \in DOMAIN t : /\ v[a].opening = t[a].opening
                            /\ v[a].balance = t[a].balance + (IF a = b THEN d ELSE 0)
  BY AdjustIs
<1>2. u = AdjustBalance(v, c, e)
  OBVIOUS
<1> HIDE DEF v
<1>3. /\ AccountTable(u) /\ DOMAIN u = DOMAIN v
      /\ \A a \in DOMAIN v : /\ u[a].opening = v[a].opening
                            /\ u[a].balance = v[a].balance + (IF a = c THEN e ELSE 0)
  BY <1>1, <1>2, AdjustIs
<1> QED BY <1>1, <1>3

\* The commit of an edit that saves row q.id again and moves its effect.
Rewrites(r, q, kind, op) ==
  /\ q = request[r] /\ <<kind, op>> \in {<<"expense", "updateExpense">>, <<"income", "updateIncome">>}
  /\ InFlight(r, op) /\ OwnedOrNull(SavedAccount(q))
  /\ movement' = Save(movement, q.id, SavedRow(q))
  /\ account' = IF Changed(q)
                THEN AdjustBalance(AdjustBalance(account, q.row.account, -Signed(kind, q.row.amount)),
                                   q.account, Signed(kind, q.amount))
                ELSE account
  /\ EndEdit(r, {q.row.account, q.account}, SavedAccount(q) # q.account)
  /\ plan' = plan /\ transfer' = transfer /\ issued' = issued

LEMMA Updated ==
  ASSUME AccountsInv, NEW r \in RequestIds, NEW q, NEW kind, NEW op, Rewrites(r, q, kind, op)
  PROVE  AccountsInv'
<1>0. /\ q = request[r] /\ <<kind, op>> \in {<<"expense", "updateExpense">>, <<"income", "updateIncome">>}
      /\ InFlight(r, op) /\ OwnedOrNull(SavedAccount(q))
      /\ movement' = Save(movement, q.id, SavedRow(q))
      /\ account' = IF Changed(q)
                    THEN AdjustBalance(AdjustBalance(account, q.row.account, -Signed(kind, q.row.amount)),
                                       q.account, Signed(kind, q.amount))
                    ELSE account
      /\ EndEdit(r, {q.row.account, q.account}, SavedAccount(q) # q.account)
      /\ plan' = plan /\ transfer' = transfer /\ issued' = issued
  BY DEF Rewrites
<1> USE <1>0
<1> DEFINE row == SavedRow(q)
           back == Signed(kind, q.row.amount)
           again == Signed(kind, q.amount)
<1>1. /\ op \in Edits /\ q.account \in AccountIds \cup {None} /\ q.amount \in Amounts
  BY RequestIn DEF Shaped, Edits
<1>2. /\ q.id \in MovementIds /\ q.id \in issued /\ q.row \in MovementRow /\ q.row.plan = None
      /\ q.row.amount \in Int /\ q.row.kind = kind
      /\ q.id \in DOMAIN movement => movement[q.id].plan = None
      /\ r \notin stale => q.id \in DOMAIN movement /\ movement[q.id] = q.row
      /\ \A s \in DOMAIN request : request[s].op = "removePlan" => q.id \notin request[s].ids
  BY <1>1, EditIn
<1>3. /\ row \in MovementRow /\ row.plan = None /\ row.kind = kind /\ row.account = SavedAccount(q)
      /\ row.amount = q.amount /\ SavedAccount(q) \in {q.row.account, q.account}
  BY <1>1, <1>2, SavedIn
<1>4. back \in Int /\ again \in Int /\ -back \in Int
  BY <1>1, <1>2, AmountsArePositive DEF Signed
<1>5. /\ movement' = Save(movement, q.id, row)
      /\ account' = IF Changed(q) THEN AdjustBalance(AdjustBalance(account, q.row.account, -back), q.account, again)
                    ELSE account
  OBVIOUS
<1>6. /\ \A a : Effect(q.row, a) = IF q.row.account = a THEN back ELSE 0
      /\ \A a : Effect(row, a) = IF SavedAccount(q) = a THEN again ELSE 0
  <2>1. \A a : Effect(q.row, a) = IF q.row.account = a THEN back ELSE 0
    BY <1>2, EffectIs
  <2>2. \A a : Effect(row, a) = IF row.account = a THEN Signed(row.kind, row.amount) ELSE 0
    <3> HIDE DEF row
    <3> QED BY <1>3, EffectIs
  <2> HIDE DEF row
  <2> QED BY <1>3, <2>1, <2>2
<1>7. ~Changed(q) => q.account = q.row.account /\ again = back
  BY DEF Changed
<1> HIDE DEF row, back, again
<1>8. Sound(account, movement', plan, transfer, issued)
  <2>1. SavedAccount(q) \in DOMAIN account \cup {None}
    BY DEF OwnedOrNull, Exists
  <2> QED BY <1>2, <1>3, <1>5, <2>1, TablesIn, SoundMovement
<1>9. /\ AccountTable(account') /\ DOMAIN account' = DOMAIN account
      /\ \A a \in DOMAIN account :
           /\ account'[a].opening = account[a].opening
           /\ account'[a].balance = IF Changed(q) THEN account[a].balance + (IF a = q.row.account THEN -back ELSE 0)
                                                                         + (IF a = q.account THEN again ELSE 0)
                                    ELSE account[a].balance
  <2>1. CASE Changed(q)
    BY <1>4, <1>5, <2>1, TablesIn, TwiceAdjusted
  <2>2. CASE ~Changed(q)
    BY <1>5, <2>2, TablesIn
  <2> QED BY <2>1, <2>2
<1>10. Sound(account', movement', plan', transfer', issued')
  BY <1>8, <1>9, SoundBalances
<1>11. \A a : /\ MovementsOn(movement', a) \in Int /\ Contribution(movement, q.id, a) \in Int
              /\ MovementsOn(movement', a) = MovementsOn(movement, a) - Contribution(movement, q.id, a)
                                             + (IF SavedAccount(q) = a THEN again ELSE 0)
  <2> SUFFICES ASSUME NEW a
               PROVE  /\ MovementsOn(movement', a) \in Int /\ Contribution(movement, q.id, a) \in Int
                      /\ MovementsOn(movement', a) = MovementsOn(movement, a) - Contribution(movement, q.id, a)
                                                     + (IF SavedAccount(q) = a THEN again ELSE 0)
    OBVIOUS
  <2>1. MovementTable(movement')
    BY <1>8 DEF Sound
  <2>2. /\ MovementsOn(movement', a) \in Int /\ Contribution(movement, q.id, a) \in Int
        /\ MovementsOn(movement', a) = MovementsOn(movement, a) - Contribution(movement, q.id, a) + Effect(row, a)
    BY <1>3, <1>5, <2>1, TablesIn, SavedCharges
  <2> QED BY <1>6, <2>2
<1>12. \A a \in DOMAIN account' \ exposed' : Settled(account', movement', transfer', a)
  <2> SUFFICES ASSUME NEW a \in DOMAIN account, a \notin exposed'
               PROVE  Settled(account', movement', transfer', a)
    BY <1>9
  <2>1. /\ Settled(account, movement, transfer, a) /\ MovementsOn(movement, a) \in Int
        /\ TransfersOn(transfer, a) \in Int /\ a # None
    <3>1. a \notin exposed
      BY DEF EndEdit, Expose
    <3> QED BY <3>1, TablesIn
  <2> DEFINE x == MovementsOn(movement', a) - MovementsOn(movement, a)
  <2>2. x \in Int /\ x = (IF SavedAccount(q) = a THEN again ELSE 0) - Contribution(movement, q.id, a)
    BY <1>4, <1>11, <2>1
  <2>3. account[a].balance \in Int
    BY TablesIn DEF AccountTable, AccountRow
  <2>4. account'[a].balance = account[a].balance + x
    <3>1. CASE r \in stale \/ SavedAccount(q) # q.account
      <4>1. a # q.row.account /\ a # q.account /\ a # AccountOf(q.id)
        BY <3>1, <2>1 DEF EndEdit, Expose
      <4>2. Contribution(movement, q.id, a) = 0
        BY <4>1 DEF Contribution, Effect, AccountOf
      <4>3. x = 0
        BY <1>3, <2>2, <4>1, <4>2
      <4> HIDE DEF x
      <4> QED BY <1>9, <2>3, <4>1, <4>3
    <3>2. CASE r \notin stale /\ SavedAccount(q) = q.account
      <4>1. Contribution(movement, q.id, a) = IF q.row.account = a THEN back ELSE 0
        BY <1>2, <1>6, <3>2 DEF Contribution
      <4>2. x = (IF q.account = a THEN again ELSE 0) - (IF q.row.account = a THEN back ELSE 0)
        BY <2>2, <3>2, <4>1
      <4> HIDE DEF x
      <4>3. CASE Changed(q)
        BY <1>4, <1>9, <2>3, <4>2, <4>3
      <4>4. CASE ~Changed(q)
        BY <1>4, <1>7, <1>9, <2>3, <4>2, <4>4
      <4> QED BY <4>3, <4>4
    <3> QED BY <3>1, <3>2
  <2>5. MovementsOn(movement', a) = MovementsOn(movement, a) + x /\ MovementsOn(movement', a) \in Int
    BY <1>11, <2>1
  <2> HIDE DEF x
  <2>6. /\ TransfersOn(transfer', a) = TransfersOn(transfer, a)
        /\ MovementsOn(movement', a) + TransfersOn(transfer', a)
             = MovementsOn(movement, a) + TransfersOn(transfer, a) + x
    BY <2>1, <2>2, <2>5
  <2>7. account'[a].opening = account[a].opening /\ AccountTable(account)
    BY <1>9, TablesIn
  <2>8. TransfersOn(transfer', a) \in Int
    BY <2>1, <2>6
  <2> QED BY <2>1, <2>2, <2>4, <2>5, <2>6, <2>7, <2>8, SettledStill
<1>13. Traces(issued, request, movement, movement') /\ PlanTraces(issued, plan, plan')
  <2>1. \A m \in DOMAIN movement' : m = q.id \/ (m \in DOMAIN movement /\ movement'[m] = movement[m])
    BY <1>5 DEF Save, Over
  <2>2. movement'[q.id].plan = None
    BY <1>3, <1>5 DEF Save, Over
  <2> QED BY <1>2, <2>1, <2>2 DEF Traces, PlanTraces
<1>14. FinishMutation(r) /\ exposed' \subseteq AccountIds
  <2>1. AccountOf(q.id) \in AccountIds \cup {None} /\ q.row.account \in AccountIds \cup {None}
    BY <1>2, MovementIn DEF AccountOf, MovementRow
  <2> QED BY <1>1, <2>1, TablesIn DEF EndEdit, Expose
<1> QED BY <1>10, <1>12, <1>13, <1>14, Finished, Committed

\* The commit that deletes row q.id and takes its effect back.
Withdraws(r, q, kind, op) ==
  /\ q = request[r] /\ <<kind, op>> \in {<<"expense", "removeExpense">>, <<"income", "removeIncome">>}
  /\ InFlight(r, op) /\ movement' = DeleteRows(movement, {q.id})
  /\ account' = AdjustBalance(account, q.row.account, -Signed(kind, q.row.amount))
  /\ EndEdit(r, {q.row.account}, FALSE) /\ plan' = plan /\ transfer' = transfer /\ issued' = issued

LEMMA Removed ==
  ASSUME AccountsInv, NEW r \in RequestIds, NEW q, NEW kind, NEW op, Withdraws(r, q, kind, op)
  PROVE  AccountsInv'
<1>0. /\ q = request[r] /\ <<kind, op>> \in {<<"expense", "removeExpense">>, <<"income", "removeIncome">>}
      /\ InFlight(r, op) /\ movement' = DeleteRows(movement, {q.id})
      /\ account' = AdjustBalance(account, q.row.account, -Signed(kind, q.row.amount))
      /\ EndEdit(r, {q.row.account}, FALSE) /\ plan' = plan /\ transfer' = transfer /\ issued' = issued
  BY DEF Withdraws
<1> USE <1>0
<1> DEFINE back == Signed(kind, q.row.amount)
<1>1. /\ q.row \in MovementRow /\ q.row.amount \in Int /\ q.row.kind = kind
      /\ q.id \in DOMAIN movement => movement[q.id].plan = None
      /\ r \notin stale => q.id \in DOMAIN movement /\ movement[q.id] = q.row
  <2>1. op \in Edits
    BY DEF Edits
  <2> QED BY <2>1, EditIn
<1>2. back \in Int /\ -back \in Int
  BY <1>1 DEF Signed
<1>3. \A a : Effect(q.row, a) = IF q.row.account = a THEN back ELSE 0
  BY <1>1, EffectIs
<1>4. account' = AdjustBalance(account, q.row.account, -back)
  OBVIOUS
<1> HIDE DEF back
<1>5. Sound(account, movement', plan, transfer, issued)
  BY <1>1, TablesIn, SoundRemoval
<1>6. /\ AccountTable(account') /\ DOMAIN account' = DOMAIN account
      /\ \A a \in DOMAIN account :
           /\ account'[a].opening = account[a].opening
           /\ account'[a].balance = account[a].balance + (IF a = q.row.account THEN -back ELSE 0)
  BY <1>2, <1>4, TablesIn, AdjustIs
<1>7. Sound(account', movement', plan', transfer', issued')
  BY <1>5, <1>6, SoundBalances
<1>8. \A a : /\ MovementsOn(movement', a) \in Int /\ Contribution(movement, q.id, a) \in Int
             /\ MovementsOn(movement', a) = MovementsOn(movement, a) - Contribution(movement, q.id, a)
  <2>1. MovementTable(movement')
    BY <1>5 DEF Sound
  <2> QED BY <2>1, TablesIn, DeletedCharges
<1>9. \A a \in DOMAIN account' \ exposed' : Settled(account', movement', transfer', a)
  <2> SUFFICES ASSUME NEW a \in DOMAIN account, a \notin exposed'
               PROVE  Settled(account', movement', transfer', a)
    BY <1>6
  <2>1. /\ Settled(account, movement, transfer, a) /\ MovementsOn(movement, a) \in Int
        /\ TransfersOn(transfer, a) \in Int /\ a # None
    <3>1. a \notin exposed
      BY DEF EndEdit, Expose
    <3> QED BY <3>1, TablesIn
  <2>2. Contribution(movement, q.id, a) = IF a = q.row.account THEN back ELSE 0
    <3>1. CASE r \in stale
      <4>1. a # q.row.account /\ a # AccountOf(q.id)
        BY <3>1, <2>1 DEF EndEdit, Expose
      <4> QED BY <4>1 DEF Contribution, Effect, AccountOf
    <3>2. CASE r \notin stale
      BY <1>1, <1>3, <3>2 DEF Contribution
    <3> QED BY <3>1, <3>2
  <2> DEFINE x == IF a = q.row.account THEN -back ELSE 0
  <2>3. x \in Int /\ account'[a].balance = account[a].balance + x /\ x = -Contribution(movement, q.id, a)
    BY <1>2, <1>6, <2>2
  <2> HIDE DEF x
  <2>4. /\ TransfersOn(transfer', a) = TransfersOn(transfer, a) /\ MovementsOn(movement', a) \in Int
        /\ MovementsOn(movement', a) + TransfersOn(transfer', a)
             = MovementsOn(movement, a) + TransfersOn(transfer, a) + x
    <3>1. MovementsOn(movement', a) = MovementsOn(movement, a) - Contribution(movement, q.id, a)
      BY <1>8
    <3>2. Contribution(movement, q.id, a) \in Int /\ MovementsOn(movement', a) \in Int
      BY <1>8
    <3>3. MovementsOn(movement', a) = MovementsOn(movement, a) + x
      BY <2>1, <2>3, <3>1, <3>2
    <3>4. TransfersOn(transfer', a) = TransfersOn(transfer, a)
      OBVIOUS
    <3> QED BY <2>1, <2>3, <3>2, <3>3, <3>4
  <2> QED BY <1>6, <2>1, <2>3, <2>4, TablesIn, SettledStill
<1>10. Traces(issued, request, movement, movement') /\ PlanTraces(issued, plan, plan')
  <2>1. \A m \in DOMAIN movement' : m \in DOMAIN movement /\ movement'[m] = movement[m]
    BY DEF DeleteRows, Restrict
  <2> QED BY <2>1 DEF Traces, PlanTraces
<1>11. FinishMutation(r) /\ exposed' \subseteq AccountIds
  <2>1. AccountOf(q.id) \in AccountIds \cup {None} /\ q.row.account \in AccountIds \cup {None}
    BY <1>1, MovementIn DEF AccountOf, MovementRow
  <2> QED BY <2>1, TablesIn DEF EndEdit, Expose
<1> QED BY <1>7, <1>9, <1>10, <1>11, Finished, Committed

\* Removing rows that all are expenses of one account gives it back what they add up to.
Refunded(t, u, ids, c) ==
  /\ MovementTable(t) /\ MovementTable(u) /\ ids \subseteq DOMAIN t
  /\ \A m \in ids : t[m].kind = "expense" /\ t[m].account = c
  /\ DOMAIN u = DOMAIN t \ ids /\ \A m \in DOMAIN u : u[m] = t[m]

LEMMA RemovedRows ==
  ASSUME NEW t, NEW u, NEW ids, NEW c, Refunded(t, u, ids, c), NEW a
  PROVE  /\ MovementsOn(t, a) \in Int /\ MovementsOn(u, a) \in Int /\ AmountIn(t, ids) \in Int
         /\ MovementsOn(u, a) = MovementsOn(t, a) + Falls(c, a, AmountIn(t, ids))
<1>0. /\ MovementTable(t) /\ MovementTable(u) /\ ids \in SUBSET DOMAIN t
      /\ \A m \in ids : t[m].kind = "expense" /\ t[m].account = c
      /\ DOMAIN u = DOMAIN t \ ids /\ \A m \in DOMAIN u : u[m] = t[m]
  BY DEF Refunded
<1> DEFINE f == [m \in ids |-> t[m].amount]
           before == [m \in ids |-> Contribution(t, m, a)]
           after == [m \in ids |-> Contribution(u, m, a)]
           total == AmountIn(t, ids)
<1>1. total \in Int /\ IsFiniteSet(ids)
  BY <1>0, AmountsAddUp
<1>2. \A m \in ids : f[m] = t[m].amount /\ f[m] \in Int
  BY <1>0 DEF MovementTable, MovementRow
<1>3. total = SumFunctionOnSet(f, ids)
  <2>1. DOMAIN f = ids
    OBVIOUS
  <2> QED BY <2>1, Zenon DEF AmountIn, SumFunction
<1>4. \A m \in ids : after[m] = 0 /\ before[m] = IF c = a THEN -f[m] ELSE 0
  <2> SUFFICES ASSUME NEW m \in ids
               PROVE  Contribution(u, m, a) = 0 /\ Contribution(t, m, a) = IF c = a THEN -f[m] ELSE 0
    OBVIOUS
  <2>1. t[m].kind = "expense" /\ t[m].account = c /\ m \in DOMAIN t /\ m \notin DOMAIN u
    BY <1>0
  <2> HIDE DEF f
  <2> QED BY <1>2, <2>1 DEF Contribution, Effect
<1>5. \A m : m \notin ids => Contribution(t, m, a) = Contribution(u, m, a)
  BY <1>0 DEF Contribution
<1>6. /\ \A m \in ids : before[m] = Contribution(t, m, a)
      /\ \A m \in ids : after[m] = Contribution(u, m, a)
  OBVIOUS
<1> HIDE DEF f, before, after, total
<1>7. /\ MovementsOn(t, a) \in Int /\ MovementsOn(u, a) \in Int
      /\ MovementsOn(u, a) = MovementsOn(t, a) - SumFunctionOnSet(before, ids) + SumFunctionOnSet(after, ids)
  BY <1>0, <1>1, <1>5, <1>6, MovementsDiffer
<1>8. SumFunctionOnSet(after, ids) = 0
  BY <1>1, <1>4, SumOfZeroes
<1>9. SumFunctionOnSet(before, ids) = IF c = a THEN -total ELSE 0
  <2>1. CASE c = a
    BY <1>1, <1>2, <1>3, <1>4, <2>1, SumNegated
  <2>2. CASE c # a
    BY <1>1, <1>4, <2>2, SumOfZeroes
  <2> QED BY <2>1, <2>2
<1>10. MovementsOn(u, a) = MovementsOn(t, a) + Falls(c, a, total)
  BY <1>1, <1>7, <1>8, <1>9 DEF Falls
<1> QED BY <1>1, <1>7, <1>10 DEF total

LEMMA PlanRemoved ==
  ASSUME AccountsInv, NEW r \in RequestIds, CommitRemovePlan(r)
  PROVE  AccountsInv'
<1>1. PICK q : q = request[r]
  OBVIOUS
<1>2. /\ InFlight(r, "removePlan") /\ account' = AdjustBalance(account, q.account, q.total)
      /\ movement' = DeleteRows(movement, q.ids) /\ plan' = DeleteRows(plan, {q.plan})
      /\ FinishMutation(r) /\ exposed \subseteq exposed'
      /\ r \in stale => exposed' = exposed \cup ({q.account} \ {None})
      /\ r \notin stale => exposed' = exposed
      /\ transfer' = transfer /\ issued' = issued
  BY <1>1 DEF CommitRemovePlan, Expose
<1>3. r \in DOMAIN request /\ q.op = "removePlan" /\ Shaped(q) /\ Anchored(issued, movement, plan, q)
  BY <1>1, <1>2, RequestIn
<1>4. /\ q.plan \in PlanIds /\ q.total \in Int /\ q.plan # None
      /\ q.plan \in DOMAIN plan => plan[q.plan].account = q.account
      /\ \A m \in DOMAIN movement : m \in q.ids <=> movement[m].plan = q.plan
  BY <1>3, AccountsAssumption DEF Shaped, Anchored
<1>5. r \notin stale => q.plan \in DOMAIN plan /\ q.ids \subseteq DOMAIN movement /\ q.total = AmountIn(movement, q.ids)
  BY <1>1, <1>2, <1>3, RequestIn DEF ReadsStill
<1> DEFINE ids == q.ids \cap DOMAIN movement
<1>6. \A m \in ids : movement[m].kind = "expense" /\ movement[m].account = q.account
  <2> SUFFICES ASSUME NEW m \in ids PROVE movement[m].kind = "expense" /\ movement[m].account = q.account
    OBVIOUS
  <2>1. movement[m].plan = q.plan /\ q.plan \in DOMAIN plan /\ movement[m].kind = "expense"
    BY <1>4, TablesIn DEF Sound
  <2>2. m \in PartsOf(movement, q.plan)
    BY <2>1 DEF PartsOf
  <2>3. movement[m].account = plan[q.plan].account
    BY <2>1, <2>2, TablesIn DEF Sound, PlansAddUp
  <2> QED BY <1>4, <2>1, <2>3
<1>7. Sound(account, movement', plan', transfer, issued)
  BY <1>2, <1>4, TablesIn, SoundPlanRemoval
<1>8. /\ AccountTable(account') /\ DOMAIN account' = DOMAIN account
      /\ \A a \in DOMAIN account :
           /\ account'[a].opening = account[a].opening
           /\ account'[a].balance = account[a].balance + (IF a = q.account THEN q.total ELSE 0)
  BY <1>2, <1>4, TablesIn, AdjustIs
<1>9. Sound(account', movement', plan', transfer', issued')
  BY <1>2, <1>7, <1>8, SoundBalances
<1>10. \A a : /\ MovementsOn(movement', a) \in Int /\ AmountIn(movement, ids) \in Int
              /\ MovementsOn(movement', a) = MovementsOn(movement, a) + Falls(q.account, a, AmountIn(movement, ids))
  <2>1. MovementTable(movement')
    BY <1>7 DEF Sound
  <2>2. DOMAIN movement' = DOMAIN movement \ ids /\ \A m \in DOMAIN movement' : movement'[m] = movement[m]
    BY <1>2 DEF DeleteRows, Restrict
  <2>3. ids \in SUBSET DOMAIN movement
    OBVIOUS
  <2>4. \A m \in ids : movement[m].kind = "expense" /\ movement[m].account = q.account
    BY <1>6
  <2>5. MovementTable(movement)
    BY TablesIn
  <2> HIDE DEF ids
  <2>6. Refunded(movement, movement', ids, q.account)
    BY <2>1, <2>2, <2>3, <2>4, <2>5 DEF Refunded
  <2> QED BY <2>6, RemovedRows
<1>11. \A a \in DOMAIN account' \ exposed' : Settled(account', movement', transfer', a)
  <2> SUFFICES ASSUME NEW a \in DOMAIN account, a \notin exposed'
               PROVE  Settled(account', movement', transfer', a)
    BY <1>8
  <2>1. /\ Settled(account, movement, transfer, a) /\ MovementsOn(movement, a) \in Int
        /\ TransfersOn(transfer, a) \in Int /\ a # None
    BY <1>2, TablesIn
  <2> DEFINE x == IF a = q.account THEN q.total ELSE 0
  <2>2. Falls(q.account, a, AmountIn(movement, ids)) = x
    <3>1. CASE r \in stale
      <4>1. a # q.account
        BY <1>2, <2>1, <3>1
      <4> QED BY <4>1 DEF Falls
    <3>2. CASE r \notin stale
      <4>1. ids = q.ids /\ q.total = AmountIn(movement, q.ids)
        BY <1>5, <3>2
      <4> HIDE DEF ids
      <4> QED BY <4>1 DEF Falls
    <3> QED BY <3>1, <3>2
  <2>3. x \in Int /\ account'[a].opening = account[a].opening /\ account'[a].balance = account[a].balance + x
    BY <1>4, <1>8
  <2> HIDE DEF x, ids
  <2>4. /\ TransfersOn(transfer', a) = TransfersOn(transfer, a) /\ MovementsOn(movement', a) \in Int
        /\ MovementsOn(movement', a) + TransfersOn(transfer', a)
             = MovementsOn(movement, a) + TransfersOn(transfer, a) + x
    BY <1>2, <1>10, <2>1, <2>2, <2>3
  <2> QED BY <2>1, <2>3, <2>4, TablesIn, SettledStill
<1>12. Traces(issued, request, movement, movement') /\ PlanTraces(issued, plan, plan')
  <2>1. \A m \in DOMAIN movement' : m \in DOMAIN movement /\ movement'[m] = movement[m]
    BY <1>2 DEF DeleteRows, Restrict
  <2>2. \A p \in DOMAIN plan' : p \in DOMAIN plan /\ plan'[p] = plan[p]
    BY <1>2 DEF DeleteRows, Restrict
  <2> QED BY <2>1, <2>2 DEF Traces, PlanTraces
<1>13. exposed' \subseteq AccountIds
  <2>1. q.account \in AccountIds
    BY <1>3 DEF Shaped
  <2> QED BY <1>2, <2>1, TablesIn
<1> QED BY <1>2, <1>9, <1>11, <1>12, <1>13, Finished, Committed

LEMMA PurchaseCommitted ==
  ASSUME AccountsInv, NEW r \in RequestIds, CommitCreateInInstallments(r)
  PROVE  AccountsInv'
<1> DEFINE q == request[r]
<1>2. /\ InFlight(r, "createInInstallments") /\ q.account \in DOMAIN account
      /\ account' = AdjustBalance(account, q.account, -PartsTotal(q.parts))
      /\ FinishMutation(r) /\ exposed' = exposed /\ transfer' = transfer
  BY DEF CommitCreateInInstallments, Exists, End
<1>3. PICK p \in PlanIds \ issued, ids \in SUBSET (MovementIds \ issued) :
        /\ \E seq \in Bijection(ids, DOMAIN q.parts) :
             movement' = Over([m \in ids |-> [kind |-> "expense", account |-> q.account,
                                              amount |-> q.parts[seq[m]], plan |-> p]], movement)
        /\ plan' = Save(plan, p, [account |-> q.account, total |-> PartsTotal(q.parts)])
        /\ issued' = issued \cup ids \cup {p}
  BY DEF CommitCreateInInstallments
<1>5. q.parts \in Schedules /\ q.account \in AccountIds
  BY <1>2, RequestIn DEF Shaped
<1> HIDE DEF q
<1>6. Purchased(movement, movement', q.account, p, q.parts, ids)
  <2>1. \A m \in DOMAIN movement : m \notin ids
    BY TablesIn DEF Sound
  <2> QED BY <1>3, <1>5, <2>1, TablesIn DEF Purchased
<1>7. /\ MovementTable(movement') /\ movement' = [m \in DOMAIN movement' |-> movement'[m]]
      /\ DOMAIN movement' = DOMAIN movement \cup ids
      /\ \A m \in DOMAIN movement : m \notin ids /\ movement'[m] = movement[m]
      /\ \A m \in ids : movement'[m].kind = "expense" /\ movement'[m].account = q.account /\ movement'[m].plan = p
      /\ AmountIn(movement', ids) = PartsTotal(q.parts)
      /\ \A b : MovementsOn(movement', b) = MovementsOn(movement, b) + Falls(q.account, b, -PartsTotal(q.parts))
  <2>1. Inserted(movement, movement', q.account, p, q.parts, ids)
    BY <1>6, PurchaseInserts
  <2> QED BY <2>1 DEF Inserted
<1>8. PartsTotal(q.parts) \in Int /\ -PartsTotal(q.parts) \in Int
  <2>1. ids \in SUBSET DOMAIN movement'
    BY <1>7
  <2>2. AmountIn(movement', ids) \in Int
    BY <1>7, <2>1, AmountsAddUp
  <2> QED BY <1>7, <2>2
<1>9. Sound(account, movement', plan', transfer, issued')
  <2>1. Sound(account, movement, plan, transfer, issued) /\ \A m \in DOMAIN movement : movement'[m] = movement[m]
    BY <1>7, TablesIn
  <2> QED BY <1>2, <1>3, <1>7, <2>1, SoundPurchase
<1>10. /\ AccountTable(account') /\ DOMAIN account' = DOMAIN account
       /\ \A a \in DOMAIN account :
            /\ account'[a].opening = account[a].opening
            /\ account'[a].balance = account[a].balance + (IF a = q.account THEN -PartsTotal(q.parts) ELSE 0)
  BY <1>2, <1>8, TablesIn, AdjustIs
<1>11. Sound(account', movement', plan', transfer', issued')
  BY <1>2, <1>9, <1>10, SoundBalances
<1>12. \A a \in DOMAIN account' \ exposed' : Settled(account', movement', transfer', a)
  <2> SUFFICES ASSUME NEW a \in DOMAIN account, a \notin exposed
               PROVE  Settled(account', movement', transfer', a)
    BY <1>2, <1>10
  <2>1. /\ Settled(account, movement, transfer, a) /\ MovementsOn(movement, a) \in Int
        /\ TransfersOn(transfer, a) \in Int
    BY TablesIn
  <2> DEFINE x == Falls(q.account, a, -PartsTotal(q.parts))
  <2>2. x \in Int /\ account'[a].opening = account[a].opening /\ account'[a].balance = account[a].balance + x
    BY <1>8, <1>10 DEF Falls
  <2>3. MovementsOn(movement', a) = MovementsOn(movement, a) + x
    BY <1>7
  <2> HIDE DEF x
  <2>4. /\ TransfersOn(transfer', a) = TransfersOn(transfer, a) /\ MovementsOn(movement', a) \in Int
        /\ MovementsOn(movement', a) + TransfersOn(transfer', a)
             = MovementsOn(movement, a) + TransfersOn(transfer, a) + x
    BY <1>2, <2>1, <2>2, <2>3
  <2> QED BY <2>1, <2>2, <2>4, TablesIn, SettledStill
<1>13. Traces(issued, request, movement, movement')
  BY <1>7 DEF Traces
<1>14. PlanTraces(issued, plan, plan')
  <2>1. \A x \in DOMAIN plan' : x = p \/ (x \in DOMAIN plan /\ plan'[x] = plan[x])
    BY <1>3 DEF Save, Over
  <2> QED BY <2>1 DEF PlanTraces
<1>15. exposed' \subseteq AccountIds /\ issued \subseteq issued'
  BY <1>2, <1>3, TablesIn
<1> QED BY <1>2, <1>11, <1>12, <1>13, <1>14, <1>15, Finished, Committed

\* Nothing is recorded on an account that does not exist yet.
LEMMA NothingOn ==
  ASSUME AccountsInv, NEW a \in AccountIds, a \notin DOMAIN account
  PROVE  MovementsOn(movement, a) = 0 /\ TransfersOn(transfer, a) = 0
<1>1. a # None
  BY AccountsAssumption
<1>2. MovementsOn(movement, a) = 0
  <2> DEFINE f == [m \in DOMAIN movement |-> Effect(movement[m], a)]
  <2>1. \A m \in DOMAIN movement : movement[m].account # a
    BY <1>1, TablesIn DEF Sound
  <2>2. \A m \in DOMAIN movement : f[m] = 0
    BY <2>1 DEF Effect
  <2>3. DOMAIN f = DOMAIN movement /\ IsFiniteSet(DOMAIN movement)
    BY TablesIn DEF MovementTable
  <2> HIDE DEF f
  <2>4. SumFunctionOnSet(f, DOMAIN movement) = 0
    BY <2>2, <2>3, SumOfZeroes
  <2> QED BY <2>3, <2>4, Zenon DEF MovementsOn, SumFunction, f
<1>3. TransfersOn(transfer, a) = 0
  <2> DEFINE f == [i \in DOMAIN transfer |-> TransferEffect(transfer[i], a)]
  <2>1. \A i \in DOMAIN transfer : transfer[i].from # a /\ transfer[i].to # a
    BY TablesIn DEF Sound
  <2>2. \A i \in DOMAIN transfer : f[i] = 0
    BY <2>1 DEF TransferEffect
  <2>3. DOMAIN f = DOMAIN transfer /\ IsFiniteSet(DOMAIN transfer)
    BY TablesIn, FS_Interval
  <2> HIDE DEF f
  <2>4. SumFunctionOnSet(f, DOMAIN transfer) = 0
    BY <2>2, <2>3, SumOfZeroes
  <2> QED BY <2>3, <2>4, Zenon DEF TransfersOn, SumFunction, f
<1> QED BY <1>2, <1>3

LEMMA AccountCreated ==
  ASSUME AccountsInv, NEW r \in RequestIds, CreateAccount(r)
  PROVE  AccountsInv'
<1>1. PICK a \in AccountIds \ issued, o \in Openings :
        /\ account' = Save(account, a, [opening |-> o, balance |-> o])
        /\ issued' = issued \cup {a}
  BY DEF CreateAccount
<1>2. Single(r, "createAccount") /\ movement' = movement /\ plan' = plan /\ transfer' = transfer
  BY DEF CreateAccount
<1> DEFINE row == [opening |-> o, balance |-> o]
<1>3. row \in AccountRow /\ row.opening = o /\ row.balance = o /\ o \in Int
  BY AccountsAssumption DEF AccountRow
<1>4. account' = Save(account, a, row)
  BY <1>1
<1> HIDE DEF row
<1>5. Sound(account', movement', plan', transfer', issued')
  <2>1. issued' \subseteq AccountIds \cup MovementIds \cup PlanIds /\ issued \subseteq issued' /\ a \in AccountIds \cap issued'
    BY <1>1, TablesIn
  <2>2. Sound(account', movement, plan, transfer, issued')
    BY <1>3, <1>4, <2>1, TablesIn, SoundAccount
  <2> QED BY <1>2, <2>2
<1>6. /\ a \notin DOMAIN account /\ DOMAIN account' = DOMAIN account \cup {a} /\ account'[a] = row
      /\ \A b \in DOMAIN account : account'[b] = account[b]
  BY <1>1, <1>4, TablesIn DEF Sound, Save, Over
<1>7. \A b \in DOMAIN account' \ exposed' : Settled(account', movement', transfer', b)
  <2> SUFFICES ASSUME NEW b \in DOMAIN account', b \notin exposed
               PROVE  Settled(account', movement', transfer', b)
    BY <1>2, SingleDone
  <2>1. CASE b = a
    BY <1>2, <1>3, <1>6, <2>1, NothingOn DEF Settled
  <2>2. CASE b # a
    BY <1>2, <1>6, <2>2, TablesIn DEF Settled
  <2> QED BY <2>1, <2>2
<1>8. Traces(issued, request, movement, movement') /\ PlanTraces(issued, plan, plan')
  BY <1>2 DEF Traces, PlanTraces
<1>9. issued \subseteq issued' /\ exposed' \subseteq AccountIds
  BY <1>1, <1>2, SingleDone, TablesIn
<1> QED BY <1>2, <1>5, <1>7, <1>8, <1>9, SingleDone, Committed

LEMMA AccountRemoved ==
  ASSUME AccountsInv, NEW r \in RequestIds, RemoveAccount(r)
  PROVE  AccountsInv'
<1>1. PICK a \in DOMAIN account :
        /\ \A p \in DOMAIN plan : plan[p].account # a
        /\ \A i \in DOMAIN transfer : a \notin {transfer[i].from, transfer[i].to}
        /\ account' = DeleteRows(account, {a})
        /\ movement' = [m \in DOMAIN movement |->
                          IF movement[m].account = a THEN [movement[m] EXCEPT !.account = None] ELSE movement[m]]
  BY DEF RemoveAccount
<1>2. Single(r, "removeAccount") /\ plan' = plan /\ transfer' = transfer /\ issued' = issued
  BY DEF RemoveAccount
<1>3. /\ Sound(account', movement', plan, transfer, issued)
      /\ \A m \in DOMAIN movement : movement'[m].plan = movement[m].plan
      /\ \A b \in AccountIds : \A m : b # a => Contribution(movement', m, b) = Contribution(movement, m, b)
  BY <1>1, TablesIn, SoundAccountRemoval
<1>4. Sound(account', movement', plan', transfer', issued')
  BY <1>2, <1>3
<1>5. DOMAIN account' = DOMAIN account \ {a} /\ \A b \in DOMAIN account' : account'[b] = account[b]
  BY <1>1 DEF DeleteRows, Restrict
<1>6. \A b \in DOMAIN account' \ exposed' : Settled(account', movement', transfer', b)
  <2> SUFFICES ASSUME NEW b \in DOMAIN account', b \notin exposed
               PROVE  Settled(account', movement', transfer', b)
    BY <1>2, SingleDone
  <2>1. b \in DOMAIN account /\ b \in AccountIds /\ b # a /\ Settled(account, movement, transfer, b)
    BY <1>5, TablesIn
  <2>2. \A m : Contribution(movement, m, b) = Contribution(movement', m, b)
    BY <1>3, <2>1
  <2>3. MovementTable(movement') /\ MovementTable(movement)
    BY <1>4, TablesIn DEF Sound
  <2>4. MovementsOn(movement', b) = MovementsOn(movement, b)
    BY <2>2, <2>3, MovementsAgree
  <2> QED BY <1>2, <1>5, <2>1, <2>4 DEF Settled
<1>7. Traces(issued, request, movement, movement') /\ PlanTraces(issued, plan, plan')
  <2>1. DOMAIN movement' = DOMAIN movement
    BY <1>1
  <2> QED BY <1>2, <1>3, <2>1 DEF Traces, PlanTraces
<1>8. exposed' \subseteq AccountIds
  BY <1>2, SingleDone, TablesIn
<1> QED BY <1>2, <1>4, <1>6, <1>7, <1>8, SingleDone, Committed

\* The recalculated balance is the one its reader works out.
LEMMA AccountSaved ==
  ASSUME AccountsInv, NEW r \in RequestIds, CommitUpdateAccount(r) \/ CommitRecalculate(r)
  PROVE  /\ AccountsInv'
         /\ \A a : CommitRecalculate(r) /\ r \notin stale /\ request[r].id = a
                     => Settled(account', movement', transfer', a)
<1>1. PICK q : q = request[r]
  OBVIOUS
<1>2. /\ FinishMutation(r) /\ account' = Save(account, q.id, q.row)
      /\ movement' = movement /\ plan' = plan /\ transfer' = transfer /\ issued' = issued
      /\ InFlight(r, "saveAccount") \/ InFlight(r, "saveRecalculated")
  BY <1>1 DEF CommitUpdateAccount, CommitRecalculate, SaveAccount
<1>3. q.id \in AccountIds /\ q.id \in issued /\ q.row \in AccountRow /\ q.id # None
  BY <1>1, <1>2, RequestIn, AccountsAssumption DEF Shaped, Anchored, Saves
<1>4. /\ r \in stale => exposed' = exposed \cup {q.id}
      /\ r \notin stale /\ CommitUpdateAccount(r) => exposed' = exposed
      /\ r \notin stale /\ CommitRecalculate(r) => exposed' = exposed \ {q.id}
  BY <1>1, <1>3 DEF CommitUpdateAccount, CommitRecalculate, Expose
<1>5. Sound(account', movement', plan', transfer', issued')
  <2>1. Sound(account, movement, plan, transfer, issued) /\ issued \subseteq AccountIds \cup MovementIds \cup PlanIds
    BY TablesIn
  <2>2. Sound(account', movement, plan, transfer, issued)
    BY <1>2, <1>3, <2>1, SoundAccount
  <2> QED BY <1>2, <2>2
<1>6. /\ DOMAIN account' = DOMAIN account \cup {q.id} /\ account'[q.id] = q.row
      /\ \A a \in DOMAIN account : a # q.id => account'[a] = account[a]
  BY <1>2 DEF Save, Over
<1>7. ASSUME CommitRecalculate(r), r \notin stale PROVE Settled(account', movement', transfer', q.id)
  <2>1. InFlight(r, "saveRecalculated")
    BY <1>7 DEF CommitRecalculate, SaveAccount
  <2>2. q.row.balance = BalanceIn(movement, transfer, q.row.opening, q.id)
    BY <1>1, <1>7, <2>1, RequestIn DEF ReadsStill
  <2>3. q.row.opening \in Int
    BY <1>3 DEF AccountRow
  <2>4. BalanceIn(movement, transfer, q.row.opening, q.id)
          = q.row.opening + MovementsOn(movement, q.id) + TransfersOn(transfer, q.id)
    BY <2>3, TablesIn, AggregateIsLedger
  <2> QED BY <1>2, <1>6, <2>2, <2>4 DEF Settled
<1>8. ASSUME NEW a \in DOMAIN account', a \notin exposed' PROVE Settled(account', movement', transfer', a)
  <2>1. CASE a # q.id
    <3>1. a \in DOMAIN account /\ a \notin exposed /\ account'[a] = account[a]
      BY <1>4, <1>6, <1>8, <2>1
    <3>2. Settled(account, movement, transfer, a)
      BY <3>1, TablesIn
    <3> QED BY <1>2, <3>1, <3>2 DEF Settled
  <2>2. CASE a = q.id
    <3>1. r \notin stale
      BY <1>4, <1>8, <2>2
    <3>2. CASE CommitRecalculate(r)
      BY <1>7, <2>2, <3>1, <3>2
    <3>3. CASE CommitUpdateAccount(r)
      <4>1. InFlight(r, "saveAccount") /\ a \notin exposed
        BY <1>4, <1>8, <3>1, <3>3 DEF CommitUpdateAccount, SaveAccount
      <4>2. a \in DOMAIN account /\ q.row.balance - q.row.opening = account[a].balance - account[a].opening
        BY <1>1, <2>2, <3>1, <4>1, RequestIn DEF ReadsStill
      <4>3. Settled(account, movement, transfer, a) /\ MovementsOn(movement, a) \in Int /\ TransfersOn(transfer, a) \in Int
        BY <4>1, <4>2, TablesIn
      <4>4. /\ q.row.balance \in Int /\ q.row.opening \in Int
            /\ account[a].balance \in Int /\ account[a].opening \in Int
        BY <1>3, <4>2, TablesIn DEF AccountTable, AccountRow
      <4>5. account'[a] = q.row
        BY <1>6, <2>2
      <4> DEFINE m == MovementsOn(movement, a)
                 t == TransfersOn(transfer, a)
      <4>6. account[a].balance = account[a].opening + m + t /\ m \in Int /\ t \in Int
        BY <4>3 DEF Settled
      <4> HIDE DEF m, t
      <4>7. q.row.balance = q.row.opening + m + t
        BY <4>2, <4>4, <4>6
      <4> QED BY <1>2, <4>5, <4>7 DEF Settled, m, t
    <3> QED BY <3>2, <3>3
  <2> QED BY <2>1, <2>2
<1>9. Traces(issued, request, movement, movement') /\ PlanTraces(issued, plan, plan')
  BY <1>2 DEF Traces, PlanTraces
<1>10. exposed' \subseteq AccountIds
  BY <1>3, <1>4, TablesIn
<1>11. AccountsInv'
  BY <1>2, <1>5, <1>8, <1>9, <1>10, Finished, Committed
<1> QED BY <1>1, <1>7, <1>11

LEMMA Transferred ==
  ASSUME AccountsInv, NEW r \in RequestIds, CommitTransfer(r)
  PROVE  AccountsInv'
<1>1. PICK q : q = request[r]
  OBVIOUS
<1>2. /\ InFlight(r, "transfer") /\ q.from \in DOMAIN account /\ q.to \in DOMAIN account
      /\ transfer' = Append(transfer, [from |-> q.from, to |-> q.to, amount |-> q.amount])
      /\ account' = AdjustBalance(AdjustBalance(account, q.from, -q.amount), q.to, q.amount)
      /\ FinishMutation(r) /\ exposed' = exposed /\ movement' = movement /\ plan' = plan /\ issued' = issued
  BY <1>1 DEF CommitTransfer, Exists, End
<1>3. q.from \in AccountIds /\ q.to \in AccountIds /\ q.amount \in Amounts
  BY <1>1, <1>2, RequestIn DEF Shaped
<1>4. q.amount \in Int /\ -q.amount \in Int
  BY <1>3, AmountsArePositive
<1> DEFINE row == [from |-> q.from, to |-> q.to, amount |-> q.amount]
<1>5. row \in TransferRow /\ row.from = q.from /\ row.to = q.to /\ row.amount = q.amount
  BY <1>3 DEF TransferRow
<1>6. transfer' = Append(transfer, row)
  BY <1>2
<1> HIDE DEF row
<1>7. /\ AccountTable(account') /\ DOMAIN account' = DOMAIN account
      /\ \A a \in DOMAIN account :
           /\ account'[a].opening = account[a].opening
           /\ account'[a].balance = account[a].balance + (IF a = q.from THEN -q.amount ELSE 0)
                                                       + (IF a = q.to THEN q.amount ELSE 0)
  BY <1>2, <1>4, TablesIn, TwiceAdjusted
<1>8. Sound(account', movement', plan', transfer', issued')
  <2>1. Sound(account, movement, plan, transfer', issued)
    BY <1>2, <1>5, <1>6, TablesIn, SoundTransfer
  <2> QED BY <1>2, <1>7, <2>1, SoundBalances
<1>9. \A a : TransfersOn(transfer', a) = TransfersOn(transfer, a) + TransferEffect(row, a)
  BY <1>5, <1>6, TablesIn, TransfersAppend
<1>10. ASSUME NEW a \in DOMAIN account', a \notin exposed' PROVE Settled(account', movement', transfer', a)
  <2>1. /\ a \in DOMAIN account /\ Settled(account, movement, transfer, a) /\ MovementsOn(movement, a) \in Int
        /\ TransfersOn(transfer, a) \in Int
    BY <1>2, <1>7, <1>10, TablesIn
  <2> DEFINE x == TransferEffect(row, a)
  <2>2. x = (IF a = q.to THEN q.amount ELSE 0) - (IF a = q.from THEN q.amount ELSE 0)
    BY <1>5 DEF TransferEffect
  <2>3. TransfersOn(transfer', a) = TransfersOn(transfer, a) + x
    BY <1>9
  <2> HIDE DEF x
  <2>4. x \in Int
    BY <1>4, <2>2
  <2>5. account[a].balance \in Int
    BY <2>1, TablesIn DEF AccountTable, AccountRow
  <2>6. account'[a].opening = account[a].opening /\ account'[a].balance = account[a].balance + x
    BY <1>4, <1>7, <2>1, <2>2, <2>5
  <2>7. /\ MovementsOn(movement', a) \in Int /\ TransfersOn(transfer', a) \in Int
        /\ MovementsOn(movement', a) + TransfersOn(transfer', a)
             = MovementsOn(movement, a) + TransfersOn(transfer, a) + x
    BY <1>2, <2>1, <2>3, <2>4
  <2> QED BY <2>1, <2>4, <2>6, <2>7, TablesIn, SettledStill
<1>11. Traces(issued, request, movement, movement') /\ PlanTraces(issued, plan, plan')
  BY <1>2 DEF Traces, PlanTraces
<1>12. exposed' \subseteq AccountIds /\ issued \subseteq issued'
  BY <1>2, TablesIn
<1> QED BY <1>2, <1>8, <1>10, <1>11, <1>12, Finished, Committed

-----------------------------------------------------------------------------
\* Whatever commits, and whatever the others have read, the invariant stays.
LEMMA AccountsStep ==
  ASSUME AccountsInv, [AccountsNext]_accountVars
  PROVE  AccountsInv'
<1>1. CASE UNCHANGED accountVars
  BY <1>1 DEF AccountsInv, accountVars
<1>2. ASSUME NEW r \in RequestIds, CreateAccount(r) \/ RemoveAccount(r) PROVE AccountsInv'
  BY <1>2, AccountCreated, AccountRemoved
<1>3. ASSUME NEW r \in RequestIds,
             \/ BeginCreateExpense(r) \/ BeginCreateInInstallments(r) \/ BeginCreateIncome(r) \/ BeginTransfer(r)
      PROVE  AccountsInv'
  BY <1>3, CreationBegun
<1>4. ASSUME NEW r \in RequestIds, BeginUpdateExpense(r) \/ BeginUpdateIncome(r) PROVE AccountsInv'
  <2>1. CASE BeginUpdateExpense(r)
    BY <2>1, UpdateBegun DEF BeginUpdateExpense
  <2>2. CASE BeginUpdateIncome(r)
    BY <2>2, UpdateBegun DEF BeginUpdateIncome
  <2> QED BY <1>4, <2>1, <2>2
<1>5. ASSUME NEW r \in RequestIds, BeginRemoveExpense(r) \/ BeginRemoveIncome(r) PROVE AccountsInv'
  <2>1. CASE BeginRemoveExpense(r)
    BY <2>1, RemoveBegun DEF BeginRemoveExpense
  <2>2. CASE BeginRemoveIncome(r)
    BY <2>2, RemoveBegun DEF BeginRemoveIncome
  <2> QED BY <1>5, <2>1, <2>2
<1>6. ASSUME NEW r \in RequestIds, BeginRemovePlan(r) \/ BeginUpdateAccount(r) \/ BeginRecalculate(r) \/ Aggregate(r)
      PROVE  AccountsInv'
  BY <1>6, RemovePlanBegun, AccountBegun, Aggregated
<1>7. ASSUME NEW r \in RequestIds, CommitCreateExpense(r) PROVE AccountsInv'
  <2> DEFINE q == request[r]
  <2>1. PICK m \in MovementIds \ issued :
          /\ movement' = Save(movement, m, [kind |-> "expense", account |-> q.account,
                                            amount |-> q.amount, plan |-> None])
          /\ issued' = issued \cup {m}
    BY <1>7 DEF CommitCreateExpense
  <2>2. /\ InFlight(r, "createExpense") /\ OwnedOrNull(q.account)
        /\ account' = AdjustBalance(account, q.account, -q.amount)
        /\ End(r) /\ plan' = plan /\ transfer' = transfer
    BY <1>7 DEF CommitCreateExpense
  <2>3. account' = AdjustBalance(account, q.account, IF "expense" = "income" THEN q.amount ELSE -q.amount)
    BY <2>2
  <2> HIDE DEF q
  <2>4. q = request[r]
    BY DEF q
  <2> QED BY <2>1, <2>2, <2>3, <2>4, Created
<1>8. ASSUME NEW r \in RequestIds, CommitCreateIncome(r) PROVE AccountsInv'
  <2> DEFINE q == request[r]
  <2>1. PICK m \in MovementIds \ issued :
          /\ movement' = Save(movement, m, [kind |-> "income", account |-> q.account,
                                            amount |-> q.amount, plan |-> None])
          /\ issued' = issued \cup {m}
    BY <1>8 DEF CommitCreateIncome
  <2>2. /\ InFlight(r, "createIncome") /\ OwnedOrNull(q.account)
        /\ account' = AdjustBalance(account, q.account, q.amount)
        /\ End(r) /\ plan' = plan /\ transfer' = transfer
    BY <1>8 DEF CommitCreateIncome
  <2>3. account' = AdjustBalance(account, q.account, IF "income" = "income" THEN q.amount ELSE -q.amount)
    BY <2>2
  <2> HIDE DEF q
  <2>4. q = request[r]
    BY DEF q
  <2> QED BY <2>1, <2>2, <2>3, <2>4, Created
<1>9. ASSUME NEW r \in RequestIds, CommitUpdateExpense(r) PROVE AccountsInv'
  <2> DEFINE q == request[r]
  <2>1. q.row.amount \in Int
    <3>1. InFlight(r, "updateExpense") /\ "updateExpense" \in Edits
      BY <1>9 DEF CommitUpdateExpense, Edits
    <3> QED BY <3>1, EditIn
  <2>2. /\ -Signed("expense", q.row.amount) = q.row.amount /\ Signed("expense", q.amount) = -q.amount
    BY <2>1 DEF Signed
  <2>3. /\ InFlight(r, "updateExpense") /\ OwnedOrNull(SavedAccount(q))
        /\ movement' = Save(movement, q.id, SavedRow(q))
        /\ account' = IF Changed(q)
                      THEN AdjustBalance(AdjustBalance(account, q.row.account, q.row.amount), q.account, -q.amount)
                      ELSE account
        /\ EndEdit(r, {q.row.account, q.account}, SavedAccount(q) # q.account)
        /\ plan' = plan /\ transfer' = transfer /\ issued' = issued
    BY <1>9 DEF CommitUpdateExpense
  <2> HIDE DEF q
  <2>4. account' = IF Changed(q)
                   THEN AdjustBalance(AdjustBalance(account, q.row.account, -Signed("expense", q.row.amount)),
                                      q.account, Signed("expense", q.amount))
                   ELSE account
    BY <2>2, <2>3, Zenon
  <2>5. q = request[r]
    BY DEF q
  <2>6. <<"expense", "updateExpense">> \in {<<"expense", "updateExpense">>, <<"income", "updateIncome">>}
    BY Zenon
  <2>7. Rewrites(r, q, "expense", "updateExpense")
    BY <2>3, <2>4, <2>5, <2>6, Zenon DEF Rewrites
  <2> QED BY <2>7, Updated
<1>10. ASSUME NEW r \in RequestIds, CommitUpdateIncome(r) PROVE AccountsInv'
  <2> DEFINE q == request[r]
  <2>2. -Signed("income", q.row.amount) = -q.row.amount /\ Signed("income", q.amount) = q.amount
    BY DEF Signed
  <2>3. /\ InFlight(r, "updateIncome") /\ OwnedOrNull(SavedAccount(q))
        /\ movement' = Save(movement, q.id, SavedRow(q))
        /\ account' = IF Changed(q)
                      THEN AdjustBalance(AdjustBalance(account, q.row.account, -q.row.amount), q.account, q.amount)
                      ELSE account
        /\ EndEdit(r, {q.row.account, q.account}, SavedAccount(q) # q.account)
        /\ plan' = plan /\ transfer' = transfer /\ issued' = issued
    BY <1>10 DEF CommitUpdateIncome
  <2> HIDE DEF q
  <2>4. account' = IF Changed(q)
                   THEN AdjustBalance(AdjustBalance(account, q.row.account, -Signed("income", q.row.amount)),
                                      q.account, Signed("income", q.amount))
                   ELSE account
    BY <2>2, <2>3, Zenon
  <2>5. q = request[r]
    BY DEF q
  <2>6. <<"income", "updateIncome">> \in {<<"expense", "updateExpense">>, <<"income", "updateIncome">>}
    BY Zenon
  <2>7. Rewrites(r, q, "income", "updateIncome")
    BY <2>3, <2>4, <2>5, <2>6, Zenon DEF Rewrites
  <2> QED BY <2>7, Updated
<1>11. ASSUME NEW r \in RequestIds, CommitRemoveExpense(r) PROVE AccountsInv'
  <2> DEFINE q == request[r]
  <2>1. q.row.amount \in Int
    <3>1. InFlight(r, "removeExpense") /\ "removeExpense" \in Edits
      BY <1>11 DEF CommitRemoveExpense, Edits
    <3> QED BY <3>1, EditIn
  <2>2. -Signed("expense", q.row.amount) = q.row.amount
    BY <2>1 DEF Signed
  <2>3. /\ InFlight(r, "removeExpense") /\ movement' = DeleteRows(movement, {q.id})
        /\ account' = AdjustBalance(account, q.row.account, q.row.amount)
        /\ EndEdit(r, {q.row.account}, FALSE) /\ plan' = plan /\ transfer' = transfer /\ issued' = issued
    BY <1>11 DEF CommitRemoveExpense
  <2> HIDE DEF q
  <2>4. account' = AdjustBalance(account, q.row.account, -Signed("expense", q.row.amount))
    BY <2>2, <2>3, Zenon
  <2>5. q = request[r]
    BY DEF q
  <2>6. <<"expense", "removeExpense">> \in {<<"expense", "removeExpense">>, <<"income", "removeIncome">>}
    BY Zenon
  <2>7. Withdraws(r, q, "expense", "removeExpense")
    BY <2>3, <2>4, <2>5, <2>6, Zenon DEF Withdraws
  <2> QED BY <2>7, Removed
<1>12. ASSUME NEW r \in RequestIds, CommitRemoveIncome(r) PROVE AccountsInv'
  <2> DEFINE q == request[r]
  <2>2. -Signed("income", q.row.amount) = -q.row.amount
    BY DEF Signed
  <2>3. /\ InFlight(r, "removeIncome") /\ movement' = DeleteRows(movement, {q.id})
        /\ account' = AdjustBalance(account, q.row.account, -q.row.amount)
        /\ EndEdit(r, {q.row.account}, FALSE) /\ plan' = plan /\ transfer' = transfer /\ issued' = issued
    BY <1>12 DEF CommitRemoveIncome
  <2> HIDE DEF q
  <2>4. account' = AdjustBalance(account, q.row.account, -Signed("income", q.row.amount))
    BY <2>2, <2>3, Zenon
  <2>5. q = request[r]
    BY DEF q
  <2>6. <<"income", "removeIncome">> \in {<<"expense", "removeExpense">>, <<"income", "removeIncome">>}
    BY Zenon
  <2>7. Withdraws(r, q, "income", "removeIncome")
    BY <2>3, <2>4, <2>5, <2>6, Zenon DEF Withdraws
  <2> QED BY <2>7, Removed
<1>13. ASSUME NEW r \in RequestIds,
              \/ CommitCreateInInstallments(r) \/ CommitRemovePlan(r) \/ CommitTransfer(r)
              \/ CommitUpdateAccount(r) \/ CommitRecalculate(r) \/ Abort(r)
       PROVE  AccountsInv'
  BY <1>13, PurchaseCommitted, PlanRemoved, Transferred, AccountSaved, Aborted
<1> QED BY <1>1, <1>2, <1>3, <1>4, <1>5, <1>6, <1>7, <1>8, <1>9, <1>10, <1>11, <1>12, <1>13
        DEF AccountsNext

LEMMA AccountsStart == AccountsInit => AccountsInv
<1> SUFFICES ASSUME AccountsInit PROVE AccountsInv
  OBVIOUS
<1>1. /\ account = NoRows /\ movement = NoRows /\ plan = NoRows /\ transfer = <<>>
      /\ issued = {} /\ request = NoRows /\ started = 0 /\ stale = {} /\ exposed = {}
  BY DEF AccountsInit
<1>2. DOMAIN NoRows = {} /\ NoRows = [x \in DOMAIN NoRows |-> NoRows[x]]
  BY DEF NoRows
<1>3. AccountTable(NoRows) /\ MovementTable(NoRows)
  BY <1>2, FS_EmptySet DEF AccountTable, MovementTable
<1>4. PlansAddUp(NoRows, NoRows)
  BY <1>2 DEF PlansAddUp
<1>5. Sound(account, movement, plan, transfer, issued)
  BY <1>1, <1>2, <1>3, <1>4 DEF Sound
<1>6. Underway(account, movement, plan, transfer, issued, request, stale)
  BY <1>1, <1>2 DEF Underway, Apart
<1> QED BY <1>1, <1>2, <1>5, <1>6, AccountsAssumption DEF AccountsInv

LEMMA AccountsInductive == AccountsSpec => []AccountsInv
BY AccountsStart, AccountsStep, PTL DEF AccountsSpec

LEMMA AccountsTypes == AccountsInv => AccountsTypeOK
<1> SUFFICES ASSUME AccountsInv PROVE AccountsTypeOK
  OBVIOUS
<1>1. /\ account \in [DOMAIN account -> AccountRow]
      /\ DOMAIN account \subseteq AccountIds \cap issued
  BY DEF AccountsInv, Sound, AccountTable
<1>2. movement \in [DOMAIN movement -> MovementRow]
  <2>1. movement = [m \in DOMAIN movement |-> movement[m]] /\ \A m \in DOMAIN movement : movement[m] \in MovementRow
    BY DEF AccountsInv, Sound, MovementTable
  <2> QED BY <2>1
<1>3. /\ DOMAIN movement \subseteq MovementIds \cap issued
      /\ DOMAIN plan \subseteq PlanIds \cap issued
      /\ transfer \in Seq(TransferRow)
      /\ issued \subseteq AccountIds \cup MovementIds \cup PlanIds
  BY DEF AccountsInv, Sound
<1>4. /\ DOMAIN request \subseteq RequestIds /\ stale \subseteq DOMAIN request
      /\ started \in 0 .. MaxMutations /\ exposed \subseteq AccountIds
  BY DEF AccountsInv, Underway
<1>5. /\ \A m \in DOMAIN movement : /\ OwnedOrNull(movement[m].account)
                                    /\ movement[m].plan \in DOMAIN plan \cup {None}
      /\ \A p \in DOMAIN plan : Exists(plan[p].account)
      /\ \A i \in DOMAIN transfer : Exists(transfer[i].from) /\ Exists(transfer[i].to)
  BY DEF AccountsInv, Sound, OwnedOrNull, Exists
<1> QED BY <1>1, <1>2, <1>3, <1>4, <1>5 DEF AccountsTypeOK

\* Whatever is removed in whatever order, no movement, plan or transfer is left pointing
\* at an account or a plan that is gone.
THEOREM AccountsTypeCorrect == AccountsSpec => []AccountsTypeOK
BY AccountsTypes, AccountsInductive, PTL

LEMMA ExactIsSettled == \A a : Exact(a) <=> Settled(account, movement, transfer, a)
BY Zenon DEF Exact, LedgerBalance, Settled, MovementsOn, TransfersOn

\* The balance column of an account is what its movements add up to, unless a mutation
\* of the kinds that BalanceDriftExplained names has exposed it.
THEOREM BalanceDriftIsExplained == AccountsSpec => []BalanceDriftExplained
<1>1. AccountsInv => BalanceDriftExplained
  BY ExactIsSettled DEF AccountsInv, BalanceDriftExplained
<1> QED BY <1>1, AccountsInductive, PTL

\* A purchase in installments is kept or removed as a whole.
THEOREM PlansStayWhole == AccountsSpec => []PlanWhole
<1>1. AccountsInv => PlanWhole
  BY Zenon DEF AccountsInv, Sound, PlansAddUp, PlanWhole, PartsOf, AmountOf, AmountIn
<1> QED BY <1>1, AccountsInductive, PTL

\* What CreditAvailable grants leaves the card within its limit.
LEMMA CreditGranted ==
  ASSUME NEW t, AccountTable(t), NEW a, NEW c \in CreditIds \cap DOMAIN t, NEW x \in Int,
         CreditAvailable(t, a, x), NEW u, u = AdjustBalance(t, a, -x), a = c
  PROVE  u[c].balance + CreditLimit[c] >= 0
<1>1. u[c].balance = t[c].balance + (-x)
  BY AdjustIs
<1>2. x <= CreditLimit[c] + t[c].balance
  BY DEF CreditAvailable
<1>3. CreditLimit[c] \in Nat
  BY AccountsAssumption
<1>4. t[c].balance \in Int
  BY DEF AccountTable, AccountRow
<1> QED BY <1>1, <1>2, <1>3, <1>4

\* A purchase that lowers the balance of a card leaves it within its limit.
LEMMA PurchaseWithinLimit ==
  ASSUME AccountsInv, NEW r \in RequestIds, r \notin stale, NEW c \in CreditIds \cap DOMAIN account,
         CommitCreateExpense(r) \/ CommitCreateInInstallments(r) \/ CommitUpdateExpense(r),
         account'[c].balance < account[c].balance
  PROVE  account'[c].balance + CreditLimit[c] >= 0
<1> DEFINE q == request[r]
<1>1. AccountTable(account) /\ account[c].balance \in Int
  BY TablesIn DEF AccountTable, AccountRow
<1>2. CASE CommitCreateExpense(r)
  <2>1. InFlight(r, "createExpense") /\ account' = AdjustBalance(account, q.account, -q.amount)
    BY <1>2 DEF CommitCreateExpense
  <2>2. /\ q.op = "createExpense" /\ Shaped(q) /\ ReadsStill(account, movement, plan, transfer, q)
    BY <2>1, RequestIn
  <2>3. q.amount \in Int /\ CreditAvailable(account, q.account, q.amount)
    BY <2>2, AmountsArePositive DEF Shaped, ReadsStill
  <2> HIDE DEF q
  <2>4. -q.amount \in Int
    BY <2>3
  <2>5. q.account = c
    BY <1>1, <2>1, <2>4, AdjustIs
  <2> QED BY <1>1, <2>1, <2>3, <2>5, CreditGranted
<1>3. CASE CommitCreateInInstallments(r)
  <2> DEFINE x == PartsTotal(q.parts)
  <2>1. InFlight(r, "createInInstallments") /\ account' = AdjustBalance(account, q.account, -x)
    BY <1>3 DEF CommitCreateInInstallments
  <2>2. /\ q.op = "createInInstallments" /\ Shaped(q) /\ ReadsStill(account, movement, plan, transfer, q)
    BY <2>1, RequestIn
  <2>3. x \in Int /\ CreditAvailable(account, q.account, x)
    BY <2>2, PartsTotalIsInt DEF Shaped, ReadsStill
  <2> HIDE DEF q, x
  <2>4. -x \in Int
    BY <2>3
  <2>5. q.account = c
    BY <1>1, <2>1, <2>4, AdjustIs
  <2> QED BY <1>1, <2>1, <2>3, <2>5, CreditGranted
<1>4. CASE CommitUpdateExpense(r)
  <2> DEFINE reverted == AdjustBalance(account, q.row.account, q.row.amount)
  <2>1. /\ InFlight(r, "updateExpense")
        /\ Changed(q) => CreditAvailable(reverted, q.account, q.amount)
        /\ account' = IF Changed(q) THEN AdjustBalance(reverted, q.account, -q.amount) ELSE account
    BY <1>4 DEF CommitUpdateExpense
  <2>2. /\ q.op = "updateExpense" /\ Shaped(q)
    BY <2>1, RequestIn
  <2>3. q.amount \in Int /\ q.row.amount \in Int /\ q.row.amount >= 0
    BY <2>2, AmountsArePositive DEF Shaped, Edits, MovementRow
  <2> HIDE DEF q
  <2>4. Changed(q)
    BY <1>1, <2>1
  <2>5. /\ AccountTable(reverted) /\ DOMAIN reverted = DOMAIN account
        /\ reverted[c].balance = account[c].balance + (IF c = q.row.account THEN q.row.amount ELSE 0)
    BY <1>1, <2>3, AdjustIs
  <2>6. /\ CreditAvailable(reverted, q.account, q.amount)
        /\ account' = AdjustBalance(reverted, q.account, -q.amount)
    BY <2>1, <2>4
  <2> HIDE DEF reverted
  <2>7. -q.amount \in Int
    BY <2>3
  <2>8. account'[c].balance = reverted[c].balance + (IF c = q.account THEN -q.amount ELSE 0)
    BY <2>5, <2>6, <2>7, AdjustIs
  <2>9. q.account = c
    BY <1>1, <2>3, <2>5, <2>8
  <2> QED BY <2>3, <2>5, <2>6, <2>9, CreditGranted
<1> QED BY <1>2, <1>3, <1>4

\* A transfer takes no account below zero and no card beyond its limit.
LEMMA TransferIsCovered ==
  ASSUME AccountsInv, NEW r \in RequestIds, r \notin stale, CommitTransfer(r),
         NEW a, a = request[r].from
  PROVE  account'[a].balance + (IF a \in CreditIds THEN CreditLimit[a] ELSE 0) >= 0
<1> DEFINE q == request[r]
<1>1. /\ InFlight(r, "transfer") /\ a \in DOMAIN account
      /\ account' = AdjustBalance(AdjustBalance(account, q.from, -q.amount), q.to, q.amount)
  BY DEF CommitTransfer, Exists
<1>2. q.op = "transfer" /\ Shaped(q) /\ ReadsStill(account, movement, plan, transfer, q)
  BY <1>1, RequestIn
<1>3. q.amount \in Int /\ q.amount >= 0 /\ Covers(account, a, q.amount)
  BY <1>2, AmountsArePositive DEF Shaped, ReadsStill
<1>4. AccountTable(account) /\ account[a].balance \in Int
  BY <1>1, TablesIn DEF AccountTable, AccountRow
<1>5. q.from = a
  OBVIOUS
<1> HIDE DEF q
<1>6. -q.amount \in Int
  BY <1>3
<1>7. account'[a].balance = account[a].balance + (-q.amount) + (IF a = q.to THEN q.amount ELSE 0)
  BY <1>1, <1>3, <1>4, <1>5, <1>6, TwiceAdjusted
<1>8. account'[a].balance >= account[a].balance - q.amount /\ account'[a].balance \in Int
  BY <1>3, <1>4, <1>7
<1>9. CASE a \in CreditIds
  <2>1. q.amount <= CreditLimit[a] + account[a].balance
    BY <1>1, <1>3, <1>9 DEF Covers, CreditAvailable
  <2>2. CreditLimit[a] \in Nat
    BY <1>9, AccountsAssumption
  <2> QED BY <1>3, <1>4, <1>8, <1>9, <2>1, <2>2
<1>10. CASE a \notin CreditIds
  <2>1. account[a].balance >= q.amount
    BY <1>3, <1>10 DEF Covers
  <2> QED BY <1>3, <1>4, <1>8, <1>10, <2>1
<1> QED BY <1>9, <1>10

\* No purchase takes a card beyond its limit and no transfer an asset account below zero,
\* whatever else is in flight, unless another mutation committed between check and commit.
THEOREM DebitsAreCovered == AccountsSpec => DebitsCovered
<1>1. AccountsInv /\ [AccountsNext]_accountVars =>
        [\A r \in RequestIds \ stale, c \in CreditIds \cap DOMAIN account :
           /\ \/ CommitCreateExpense(r) \/ CommitCreateInInstallments(r)
              \/ CommitUpdateExpense(r)
           /\ account'[c].balance < account[c].balance
           => account'[c].balance + CreditLimit[c] >= 0]_accountVars
  BY PurchaseWithinLimit
<1>2. AccountsInv /\ [AccountsNext]_accountVars =>
        [\A r \in RequestIds \ stale : CommitTransfer(r) =>
           LET a == request[r].from IN
           account'[a].balance + (IF a \in CreditIds THEN CreditLimit[a] ELSE 0) >= 0]_accountVars
  BY TransferIsCovered
<1> QED BY <1>1, <1>2, AccountsInductive, PTL DEF AccountsSpec, DebitsCovered, CreditRespected, TransferCovered

\* Recalculating an account whose rows nobody changed meanwhile leaves its balance equal
\* to its movements, whatever the balance was.
THEOREM RecalculationRepairs == AccountsSpec => RecalculateRepairs
<1>1. ASSUME AccountsInv, NEW r \in RequestIds \ stale, NEW a \in AccountIds,
             CommitRecalculate(r), request[r].id = a
      PROVE  Exact(a)'
  <2>1. Settled(account', movement', transfer', a)
    BY <1>1, AccountSaved
  <2>2. Exact(a)' <=> Settled(account', movement', transfer', a)
    BY Zenon DEF Exact, LedgerBalance, Settled, MovementsOn, TransfersOn
  <2> QED BY <2>1, <2>2
<1>2. AccountsInv /\ [AccountsNext]_accountVars =>
        [\A r \in RequestIds \ stale, a \in AccountIds :
           CommitRecalculate(r) /\ request[r].id = a => Exact(a)']_accountVars
  BY <1>1
<1> QED BY <1>2, AccountsInductive, PTL DEF AccountsSpec, RecalculateRepairs
=============================================================================
