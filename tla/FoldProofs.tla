------------------------------ MODULE FoldProofs ------------------------------
(***************************************************************************)
(* Folds over finite sets, for every operation and every order: what       *)
(* MapThenFoldSet of the community modules computes, and induction over    *)
(* finite sets and over numbers.  A proof that needs them instantiates     *)
(* this module with its operation.                                         *)
(***************************************************************************)
EXTENDS Integers, Folds, FiniteSetTheorems, NaturalsInduction, WellFoundedInduction, TLAPS

CONSTANTS
  Op(_, _, _),    \* Op(c, acc, x): the next result, in the context c
  Pick(_)         \* the element of a set that is folded last

Fold(c, base, S) == MapThenFoldSet(LAMBDA x, acc : Op(c, acc, x), base, LAMBDA x : x, Pick, S)

\* g folds every subset of S.
IsFold(g, c, base, S) ==
  g = [T \in SUBSET S |-> IF T = {} THEN base ELSE Op(c, g[T \ {Pick(T)}], Pick(T))]

Picks(S) == \A T \in SUBSET S : T # {} => Pick(T) \in T

-----------------------------------------------------------------------------
\* Induction over the subsets of a finite set.
LEMMA SubsetInduction ==
  ASSUME NEW S, IsFiniteSet(S), NEW good,
         \A T \in SUBSET S : (\A U \in SUBSET T : U # T => U \in good) => T \in good
  PROVE  \A T \in SUBSET S : T \in good
<1> SUFFICES ASSUME NEW X \in SUBSET S, X \notin good PROVE FALSE
  OBVIOUS
<1>1. PICK bad : bad = {T \in SUBSET S : T \notin good}
  OBVIOUS
<1>2. bad \subseteq SUBSET S /\ bad # {}
  BY <1>1
<1>3. IsWellFoundedOn(StrictSubsetOrdering(S), FiniteSubsetsOf(S))
  BY FS_StrictSubsetOrderingWellFounded
<1>4. FiniteSubsetsOf(S) = SUBSET S
  BY FS_FiniteSubsetsOfFinite
<1>5. PICK T \in bad : \A U \in bad : ~(<<U, T>> \in StrictSubsetOrdering(S))
  BY <1>2, <1>3, <1>4, WFMin
<1>6. T \in SUBSET S /\ T \notin good
  BY <1>1, <1>5
<1>7. ASSUME NEW U \in SUBSET T, U # T PROVE U \in good
  <2>1. U \in SUBSET S /\ <<U, T>> \in StrictSubsetOrdering(S)
    BY <1>6, <1>7 DEF StrictSubsetOrdering
  <2> QED
    BY <1>1, <1>5, <2>1
<1> QED
  BY <1>6, <1>7

\* Induction over the numbers up to n.
LEMMA UpTo ==
  ASSUME NEW n \in Nat, NEW good, 0 \in good,
         \A k \in 0..(n - 1) : k \in good => k + 1 \in good
  PROVE  \A k \in 0..n : k \in good
<1> SUFFICES ASSUME NEW j \in 0..n, j \notin good PROVE FALSE
  OBVIOUS
<1>1. PICK bad : bad = {k \in 0..n : k \notin good}
  OBVIOUS
<1>2. bad \subseteq Nat /\ bad # {}
  BY <1>1
<1>3. IsWellFoundedOn(OpToRel(<, Nat), Nat)
  BY NatLessThanWellFounded
<1>4. PICK k \in bad : \A m \in bad : ~(<<m, k>> \in OpToRel(<, Nat))
  BY <1>2, <1>3, WFMin
<1>5. k \in 1..n
  BY <1>1
<1>6. k - 1 \notin bad
  <2>1. k - 1 \in Nat /\ k \in Nat /\ k - 1 < k
    BY <1>5
  <2> QED
    BY <1>4, <2>1 DEF OpToRel
<1>7. k - 1 \in good /\ k - 1 \in 0..(n - 1)
  BY <1>1, <1>5, <1>6
<1>8. (k - 1) + 1 = k
  BY <1>5
<1> QED
  BY <1>1, <1>7, <1>8

-----------------------------------------------------------------------------
\* A subset is folded alike, whatever larger set it is a subset of.
LEMMA FoldUnique ==
  ASSUME NEW c, NEW base, NEW S, NEW T, NEW g, NEW h,
         IsFold(g, c, base, S), IsFold(h, c, base, T),
         NEW U \in SUBSET S, U \in SUBSET T, IsFiniteSet(U), Picks(U)
  PROVE  g[U] = h[U]
<1>1. PICK good : good = {V \in SUBSET U : g[V] = h[V]}
  OBVIOUS
<1>2. ASSUME NEW V \in SUBSET U, \A W \in SUBSET V : W # V => W \in good
      PROVE  V \in good
  <2>1. V \in SUBSET S /\ V \in SUBSET T
    OBVIOUS
  <2>2. CASE V = {}
    BY <1>1, <2>1, <2>2 DEF IsFold
  <2>3. CASE V # {}
    <3>1. PICK x : x = Pick(V)
      OBVIOUS
    <3>2. x \in V
      BY <2>3, <3>1 DEF Picks
    <3>3. g[V] = Op(c, g[V \ {x}], x)
      BY <2>1, <2>3, <3>1, Zenon DEF IsFold
    <3>4. h[V] = Op(c, h[V \ {x}], x)
      BY <2>1, <2>3, <3>1, Zenon DEF IsFold
    <3>5. V \ {x} \in good
      BY <1>2, <3>2
    <3> QED
      BY <1>1, <3>3, <3>4, <3>5
  <2> QED
    BY <2>2, <2>3
<1>3. U \in good
  BY <1>2, SubsetInduction
<1> QED
  BY <1>1, <1>3

\* Every finite set can be folded.
LEMMA FoldExists ==
  ASSUME NEW c, NEW base, NEW S, IsFiniteSet(S), Picks(S)
  PROVE  \E g : IsFold(g, c, base, S)
<1>1. PICK good : good = {T \in SUBSET S : \E g : IsFold(g, c, base, T)}
  OBVIOUS
<1>2. ASSUME NEW T \in SUBSET S, \A U \in SUBSET T : U # T => U \in good
      PROVE  T \in good
  <2> DEFINE G(U) == CHOOSE g : IsFold(g, c, base, U)
             x == Pick(T)
             last == IF T = {} THEN base ELSE Op(c, G(T \ {x})[T \ {x}], x)
             g == [U \in SUBSET T |-> IF U = T THEN last ELSE G(U)[U]]
  <2>1. \A U \in SUBSET T : U # T => IsFold(G(U), c, base, U)
    BY <1>1, <1>2
  <2>2. \A U \in SUBSET T : IsFiniteSet(U) /\ Picks(U)
    BY FS_Subset DEF Picks
  <2> HIDE DEF G
  <2>3. ASSUME NEW U \in SUBSET T
        PROVE  g[U] = IF U = {} THEN base ELSE Op(c, g[U \ {Pick(U)}], Pick(U))
    <3>1. CASE U = {} /\ U # T
      <4>1. G(U)[U] = base
        BY <2>1, <3>1 DEF IsFold
      <4> QED
        BY <3>1, <4>1
    <3>2. CASE U = T /\ U = {}
      BY <3>2
    <3>3. CASE U = T /\ U # {}
      <4>1. x \in T
        BY <3>3 DEF Picks
      <4>2. g[T \ {x}] = G(T \ {x})[T \ {x}]
        BY <4>1
      <4>3. g[T] = Op(c, G(T \ {x})[T \ {x}], x)
        BY <3>3
      <4> QED
        BY <3>3, <4>2, <4>3, Zenon
    <3>4. CASE U # T /\ U # {}
      <4>1. PICK y : y = Pick(U)
        OBVIOUS
      <4>2. y \in U
        BY <2>2, <3>4, <4>1 DEF Picks
      <4>3. IsFold(G(U), c, base, U)
        BY <2>1, <3>4
      <4>4. G(U)[U] = Op(c, G(U)[U \ {y}], y)
        BY <3>4, <4>1, <4>3, Zenon DEF IsFold
      <4>5. PICK V : V = U \ {y}
        OBVIOUS
      <4>6. V \in SUBSET T /\ V # T /\ V \in SUBSET U /\ V \in SUBSET V
        BY <4>2, <4>5
      <4>7. IsFold(G(V), c, base, V)
        BY <2>1, <4>6
      <4>8. G(U)[V] = G(V)[V]
        BY <2>2, <4>3, <4>6, <4>7, FoldUnique
      <4>9. g[U] = G(U)[U] /\ g[V] = G(V)[V]
        BY <3>4, <4>6
      <4>10. g[U] = Op(c, g[U \ {y}], y)
        BY <4>4, <4>5, <4>8, <4>9
      <4> QED
        BY <3>4, <4>1, <4>10, Zenon
    <3> QED
      BY <3>1, <3>2, <3>3, <3>4
  <2>4. DOMAIN g = SUBSET T
    OBVIOUS
  <2>5. g = [U \in DOMAIN g |-> g[U]]
    OBVIOUS
  <2> HIDE DEF g
  <2>6. IsFold(g, c, base, T)
    BY <2>3, <2>4, <2>5 DEF IsFold
  <2> QED
    BY <1>1, <2>6
<1>3. S \in good
  BY <1>2, SubsetInduction
<1> QED
  BY <1>1, <1>3

\* What folding the community modules' way gives: nothing folded is the base,
\* and the element picked from a set is folded onto the result of the others.
LEMMA FoldEquations ==
  ASSUME NEW c, NEW base, NEW S, IsFiniteSet(S), Picks(S)
  PROVE  /\ S = {} => Fold(c, base, S) = base
         /\ S # {} => Fold(c, base, S) = Op(c, Fold(c, base, S \ {Pick(S)}), Pick(S))
<1>1. ASSUME NEW T, IsFiniteSet(T), Picks(T)
      PROVE  \E g : IsFold(g, c, base, T) /\ Fold(c, base, T) = g[T]
  <2>1. Fold(c, base, T) = (CHOOSE g : IsFold(g, c, base, T))[T]
    BY DEF Fold, MapThenFoldSet, IsFold
  <2> QED
    BY <1>1, <2>1, FoldExists
<1>2. PICK g : IsFold(g, c, base, S) /\ Fold(c, base, S) = g[S]
  BY <1>1
<1>3. CASE S = {}
  BY <1>2, <1>3 DEF IsFold
<1>4. CASE S # {}
  <2>1. PICK x : x = Pick(S)
    OBVIOUS
  <2>2. x \in S
    BY <1>4, <2>1 DEF Picks
  <2>3. g[S] = Op(c, g[S \ {x}], x)
    BY <1>2, <1>4, <2>1, Zenon DEF IsFold
  <2>4. PICK T : T = S \ {x}
    OBVIOUS
  <2>5. T \in SUBSET S /\ T \in SUBSET T /\ IsFiniteSet(T) /\ Picks(T)
    BY <2>4, FS_Subset DEF Picks
  <2>6. PICK h : IsFold(h, c, base, T) /\ Fold(c, base, T) = h[T]
    BY <1>1, <2>5
  <2>7. g[T] = h[T]
    BY <1>2, <2>5, <2>6, FoldUnique
  <2> QED
    BY <1>2, <1>4, <2>1, <2>3, <2>4, <2>6, <2>7
<1> QED
  BY <1>3, <1>4

\* Two contexts that do the same with the elements of a set fold it alike.
THEOREM FoldAgrees ==
  ASSUME NEW c, NEW d, NEW base, NEW S, IsFiniteSet(S), Picks(S),
         \A acc : \A x \in S : Op(c, acc, x) = Op(d, acc, x)
  PROVE  Fold(c, base, S) = Fold(d, base, S)
<1>1. PICK good : good = {T \in SUBSET S : Fold(c, base, T) = Fold(d, base, T)}
  OBVIOUS
<1>2. ASSUME NEW T \in SUBSET S, \A U \in SUBSET T : U # T => U \in good
      PROVE  T \in good
  <2>1. IsFiniteSet(T) /\ Picks(T)
    BY FS_Subset DEF Picks
  <2>2. CASE T = {}
    <3>1. Fold(c, base, T) = base
      BY <2>1, <2>2, FoldEquations
    <3>2. Fold(d, base, T) = base
      BY <2>1, <2>2, FoldEquations
    <3> QED
      BY <1>1, <3>1, <3>2
  <2>3. CASE T # {}
    <3>1. PICK x : x = Pick(T)
      OBVIOUS
    <3>2. x \in T /\ x \in S
      BY <2>1, <2>3, <3>1 DEF Picks
    <3>3. T \ {x} \in good
      BY <1>2, <3>2
    <3>4. Fold(c, base, T) = Op(c, Fold(c, base, T \ {x}), x)
      BY <2>1, <2>3, <3>1, FoldEquations
    <3>5. Fold(d, base, T) = Op(d, Fold(d, base, T \ {x}), x)
      BY <2>1, <2>3, <3>1, FoldEquations
    <3> QED
      BY <1>1, <3>2, <3>3, <3>4, <3>5
  <2> QED
    BY <2>2, <2>3
<1>3. S \in good
  BY <1>2, SubsetInduction
<1> QED
  BY <1>1, <1>3
=============================================================================
