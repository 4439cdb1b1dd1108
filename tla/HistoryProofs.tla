----------------------------- MODULE HistoryProofs ----------------------------
(***************************************************************************)
(* What the dashboard's pages show, for every number of locations, checks, *)
(* hours and days: sums, the arithmetic of percentages and buckets, the    *)
(* inductive invariant HistoryInv and the properties of History.           *)
(***************************************************************************)
EXTENDS History, FiniteSetTheorems, WellFoundedInduction, TLAPS

-----------------------------------------------------------------------------
(* Sums of counts over finite sets.                                        *)

Counts == [total: Nat, failed: Nat]

\* The fold behind Sum, over any part S of the domain.
Total(f, S) == FoldFunctionOnSet(Plus, NoChecks, f, S)

\* g gives the total of every subset of S.
IsTotal(g, f, S) ==
  g = [s \in SUBSET S |-> IF s = {} THEN NoChecks
                          ELSE LET x == CHOOSE x \in s : TRUE IN Plus(f[x], g[s \ {x}])]

\* Induction over the subsets of a finite set.
LEMMA SubsetInduction ==
  ASSUME NEW S, IsFiniteSet(S), NEW good,
         \A T \in SUBSET S : (\A U \in SUBSET T : U # T => U \in good) => T \in good
  PROVE  \A T \in SUBSET S : T \in good
<1> SUFFICES ASSUME NEW X \in SUBSET S, X \notin good PROVE FALSE
  OBVIOUS
<1>1. PICK bad : bad = {T \in SUBSET S : T \notin good}
  OBVIOUS
<1>2. bad \subseteq SUBSET S /\ bad # {}
  BY <1>1
<1>3. IsWellFoundedOn(StrictSubsetOrdering(S), FiniteSubsetsOf(S))
  BY FS_StrictSubsetOrderingWellFounded
<1>4. FiniteSubsetsOf(S) = SUBSET S
  BY FS_FiniteSubsetsOfFinite
<1>5. PICK T \in bad : \A U \in bad : ~(<<U, T>> \in StrictSubsetOrdering(S))
  BY <1>2, <1>3, <1>4, WFMin
<1>6. T \in SUBSET S /\ T \notin good
  BY <1>1, <1>5
<1>7. ASSUME NEW U \in SUBSET T, U # T PROVE U \in good
  <2>1. U \in SUBSET S /\ <<U, T>> \in StrictSubsetOrdering(S)
    BY <1>6, <1>7 DEF StrictSubsetOrdering
  <2> QED
    BY <1>1, <1>5, <2>1
<1> QED
  BY <1>6, <1>7

\* The totals of a set do not depend on the larger set they are computed in.
LEMMA TotalUnique ==
  ASSUME NEW f, NEW S, NEW T, NEW g, NEW h, IsTotal(g, f, S), IsTotal(h, f, T),
         NEW U \in SUBSET S, U \in SUBSET T, IsFiniteSet(U)
  PROVE  g[U] = h[U]
<1>1. PICK good : good = {V \in SUBSET U : g[V] = h[V]}
  OBVIOUS
<1>2. ASSUME NEW V \in SUBSET U, \A W \in SUBSET V : W # V => W \in good
      PROVE  V \in good
  <2>1. V \in SUBSET S /\ V \in SUBSET T
    OBVIOUS
  <2>2. CASE V = {}
    BY <1>1, <2>1, <2>2 DEF IsTotal
  <2>3. CASE V # {}
    <3>1. PICK x : x = CHOOSE e \in V : TRUE
      OBVIOUS
    <3>2. x \in V
      BY <2>3, <3>1
    <3>3. g[V] = Plus(f[x], g[V \ {x}])
      BY <2>1, <2>3, <3>1, Zenon DEF IsTotal
    <3>4. h[V] = Plus(f[x], h[V \ {x}])
      BY <2>1, <2>3, <3>1, Zenon DEF IsTotal
    <3>5. V \ {x} \in good
      BY <1>2, <3>2
    <3> QED
      BY <1>1, <3>3, <3>4, <3>5
  <2> QED
    BY <2>2, <2>3
<1>3. U \in good
  BY <1>2, SubsetInduction
<1> QED
  BY <1>1, <1>3

\* Every finite set has its totals.
LEMMA TotalExists ==
  ASSUME NEW f, NEW S, IsFiniteSet(S)
  PROVE  \E g : IsTotal(g, f, S)
<1>1. PICK good : good = {T \in SUBSET S : \E g : IsTotal(g, f, T)}
  OBVIOUS
<1>2. ASSUME NEW T \in SUBSET S, \A U \in SUBSET T : U # T => U \in good
      PROVE  T \in good
  <2> DEFINE G(U) == CHOOSE g : IsTotal(g, f, U)
             first == CHOOSE x \in T : TRUE
             last == IF T = {} THEN NoChecks
                     ELSE Plus(f[first], G(T \ {first})[T \ {first}])
             g == [U \in SUBSET T |-> IF U = T THEN last ELSE G(U)[U]]
  <2>1. \A U \in SUBSET T : U # T => IsTotal(G(U), f, U)
    BY <1>1, <1>2
  <2>2. \A U \in SUBSET T : IsFiniteSet(U)
    BY FS_Subset
  <2> HIDE DEF G
  <2>3. ASSUME NEW U \in SUBSET T
        PROVE  g[U] = IF U = {} THEN NoChecks
                      ELSE LET x == CHOOSE x \in U : TRUE IN Plus(f[x], g[U \ {x}])
    <3>1. CASE U = {} /\ U # T
      <4>1. G(U)[U] = NoChecks
        BY <2>1, <3>1 DEF IsTotal
      <4> QED
        BY <3>1, <4>1
    <3>2. CASE U = T /\ U = {}
      BY <3>2
    <3>3. CASE U = T /\ U # {}
      <4>1. first \in T
        BY <3>3
      <4>2. g[T \ {first}] = G(T \ {first})[T \ {first}]
        BY <4>1
      <4>3. g[T] = Plus(f[first], G(T \ {first})[T \ {first}])
        BY <3>3
      <4> QED
        BY <3>3, <4>2, <4>3, Zenon
    <3>4. CASE U # T /\ U # {}
      <4>1. PICK x : x = CHOOSE e \in U : TRUE
        OBVIOUS
      <4>2. x \in U
        BY <3>4, <4>1
      <4>3. IsTotal(G(U), f, U)
        BY <2>1, <3>4
      <4>4. G(U)[U] = Plus(f[x], G(U)[U \ {x}])
        BY <3>4, <4>1, <4>3, Zenon DEF IsTotal
      <4>5. PICK V : V = U \ {x}
        OBVIOUS
      <4>6. V \in SUBSET T /\ V # T /\ V \in SUBSET U /\ V \in SUBSET V /\ IsFiniteSet(V)
        BY <2>2, <4>2, <4>5
      <4>7. IsTotal(G(V), f, V)
        BY <2>1, <4>6
      <4>8. G(U)[V] = G(V)[V]
        BY <4>3, <4>6, <4>7, TotalUnique
      <4>9. g[U] = G(U)[U] /\ g[V] = G(V)[V]
        BY <3>4, <4>6
      <4>10. g[U] = Plus(f[x], g[U \ {x}])
        BY <4>4, <4>5, <4>8, <4>9
      <4> QED
        BY <3>4, <4>1, <4>10, Zenon
    <3> QED
      BY <3>1, <3>2, <3>3, <3>4
  <2>4. DOMAIN g = SUBSET T
    OBVIOUS
  <2>5. g = [U \in DOMAIN g |-> g[U]]
    OBVIOUS
  <2> HIDE DEF g
  <2>6. IsTotal(g, f, T)
    BY <2>3, <2>4, <2>5 DEF IsTotal
  <2> QED
    BY <1>1, <2>6
<1>3. S \in good
  BY <1>2, SubsetInduction
<1> QED
  BY <1>1, <1>3

\* The equations of a total.
LEMMA TotalEquations ==
  ASSUME NEW f, NEW S, IsFiniteSet(S)
  PROVE  /\ S = {} => Total(f, S) = NoChecks
         /\ S # {} => \E x \in S : Total(f, S) = Plus(f[x], Total(f, S \ {x}))
<1>1. ASSUME NEW T, IsFiniteSet(T)
      PROVE  \E g : IsTotal(g, f, T) /\ Total(f, T) = g[T]
  <2>1. Total(f, T) = (CHOOSE g : IsTotal(g, f, T))[T]
    BY DEF Total, FoldFunctionOnSet, MapThenFoldSet, IsTotal
  <2> QED
    BY <1>1, <2>1, TotalExists
<1>2. PICK g : IsTotal(g, f, S) /\ Total(f, S) = g[S]
  BY <1>1
<1>3. CASE S = {}
  BY <1>2, <1>3 DEF IsTotal
<1>4. CASE S # {}
  <2>1. PICK x : x = CHOOSE e \in S : TRUE
    OBVIOUS
  <2>2. x \in S
    BY <1>4, <2>1
  <2>3. g[S] = Plus(f[x], g[S \ {x}])
    BY <1>2, <1>4, <2>1, Zenon DEF IsTotal
  <2>4. PICK T : T = S \ {x}
    OBVIOUS
  <2>5. T \in SUBSET S /\ T \in SUBSET T /\ IsFiniteSet(T)
    BY <2>4, FS_Subset
  <2>6. PICK h : IsTotal(h, f, T) /\ Total(f, T) = h[T]
    BY <1>1, <2>5
  <2>7. g[T] = h[T]
    BY <1>2, <2>5, <2>6, TotalUnique
  <2> QED
    BY <1>2, <1>4, <2>2, <2>3, <2>4, <2>6, <2>7
<1> QED
  BY <1>3, <1>4

\* Sums of counts are counts.
LEMMA PlusTypes ==
  /\ NoChecks \in Counts
  /\ \A a, b \in Counts : /\ Plus(a, b) \in Counts
                          /\ Plus(a, b).total = a.total + b.total
                          /\ Plus(a, b).failed = a.failed + b.failed
  /\ \A a, b \in Counts : a.total = b.total /\ a.failed = b.failed => a = b
  /\ NoChecks.total = 0 /\ NoChecks.failed = 0
BY DEF NoChecks, Counts, Plus

\* Counts may be added in any order.
LEMMA PlusOrder ==
  ASSUME NEW a \in Counts, NEW b \in Counts, NEW c \in Counts
  PROVE  /\ Plus(a, b) = Plus(b, a) /\ Plus(a, Plus(b, c)) = Plus(b, Plus(a, c))
         /\ Plus(Plus(a, b), c) = Plus(a, Plus(b, c)) /\ Plus(NoChecks, a) = a
BY DEF NoChecks, Counts, Plus

\* A total of counts is a count.
LEMMA TotalType ==
  ASSUME NEW f, NEW S, IsFiniteSet(S), \A x \in S : f[x] \in Counts
  PROVE  Total(f, S) \in Counts
<1>1. PICK good : good = {T \in SUBSET S : Total(f, T) \in Counts}
  OBVIOUS
<1>2. ASSUME NEW T \in SUBSET S, \A U \in SUBSET T : U # T => U \in good
      PROVE  T \in good
  <2>1. IsFiniteSet(T)
    BY FS_Subset
  <2>2. CASE T = {}
    BY <1>1, <2>1, <2>2, TotalEquations, PlusTypes
  <2>3. CASE T # {}
    <3>1. PICK x \in T : Total(f, T) = Plus(f[x], Total(f, T \ {x}))
      BY <2>1, <2>3, TotalEquations
    <3>2. Total(f, T \ {x}) \in Counts /\ f[x] \in Counts
      BY <1>1, <1>2
    <3> QED
      BY <1>1, <3>1, <3>2, PlusTypes
  <2> QED
    BY <2>2, <2>3
<1>3. S \in good
  BY <1>2, SubsetInduction
<1> QED
  BY <1>1, <1>3

\* Any element may be taken out of a total.
LEMMA TotalRemove ==
  ASSUME NEW f, NEW S, IsFiniteSet(S), \A x \in S : f[x] \in Counts, NEW x \in S
  PROVE  Total(f, S) = Plus(f[x], Total(f, S \ {x}))
<1>1. PICK good :
        good = {T \in SUBSET S : \A y \in T : Total(f, T) = Plus(f[y], Total(f, T \ {y}))}
  OBVIOUS
<1>2. ASSUME NEW T \in SUBSET S, \A U \in SUBSET T : U # T => U \in good
      PROVE  T \in good
  <2> SUFFICES ASSUME NEW y \in T PROVE Total(f, T) = Plus(f[y], Total(f, T \ {y}))
    BY <1>1
  <2>1. IsFiniteSet(T)
    BY FS_Subset
  <2>2. PICK z \in T : Total(f, T) = Plus(f[z], Total(f, T \ {z}))
    BY <2>1, TotalEquations
  <2>3. CASE y = z
    BY <2>2, <2>3
  <2>4. CASE y # z
    <3>1. PICK U : U = (T \ {z}) \ {y}
      OBVIOUS
    <3>2. U = (T \ {y}) \ {z} /\ U \in SUBSET T /\ IsFiniteSet(U)
      BY <2>1, <3>1, FS_Subset
    <3>3. Total(f, T \ {z}) = Plus(f[y], Total(f, U))
      BY <1>1, <1>2, <2>4, <3>1
    <3>4. Total(f, T \ {y}) = Plus(f[z], Total(f, U))
      BY <1>1, <1>2, <2>4, <3>2
    <3>5. f[y] \in Counts /\ f[z] \in Counts /\ Total(f, U) \in Counts
      BY <3>2, TotalType
    <3> QED
      BY <2>2, <3>3, <3>4, <3>5, PlusOrder
  <2> QED
    BY <2>3, <2>4
<1>3. S \in good
  BY <1>2, SubsetInduction
<1> QED
  BY <1>1, <1>3

\* Totals of disjoint sets add up.
LEMMA TotalUnion ==
  ASSUME NEW f, NEW A, NEW B, IsFiniteSet(A), IsFiniteSet(B), A \cap B = {},
         \A x \in A \cup B : f[x] \in Counts
  PROVE  Total(f, A \cup B) = Plus(Total(f, A), Total(f, B))
<1>1. PICK good :
        good = {T \in SUBSET A : Total(f, T \cup B) = Plus(Total(f, T), Total(f, B))}
  OBVIOUS
<1>2. ASSUME NEW T \in SUBSET A, \A U \in SUBSET T : U # T => U \in good
      PROVE  T \in good
  <2>1. IsFiniteSet(T) /\ IsFiniteSet(T \cup B)
    BY FS_Subset, FS_Union
  <2>2. Total(f, B) \in Counts
    BY TotalType
  <2>3. CASE T = {}
    <3>1. T \cup B = B /\ Total(f, T) = NoChecks
      BY <2>1, <2>3, TotalEquations
    <3> QED
      BY <1>1, <2>2, <3>1, PlusOrder
  <2>4. CASE T # {}
    <3>1. PICK x \in T : Total(f, T) = Plus(f[x], Total(f, T \ {x}))
      BY <2>1, <2>4, TotalEquations
    <3>2. (T \cup B) \ {x} = (T \ {x}) \cup B
      OBVIOUS
    <3>3. Total(f, T \cup B) = Plus(f[x], Total(f, (T \cup B) \ {x}))
      <4>1. x \in T \cup B /\ \A y \in T \cup B : f[y] \in Counts
        OBVIOUS
      <4> QED
        BY <2>1, <4>1, TotalRemove
    <3>4. Total(f, (T \ {x}) \cup B) = Plus(Total(f, T \ {x}), Total(f, B))
      BY <1>1, <1>2
    <3>5. Total(f, T \ {x}) \in Counts /\ f[x] \in Counts
      <4>1. IsFiniteSet(T \ {x}) /\ \A y \in T \ {x} : f[y] \in Counts
        BY <2>1, FS_Subset
      <4> QED
        BY <4>1, TotalType
    <3> QED
      BY <1>1, <2>2, <3>1, <3>2, <3>3, <3>4, <3>5, PlusOrder
  <2> QED
    BY <2>3, <2>4
<1>3. A \in good
  BY <1>2, SubsetInduction
<1> QED
  BY <1>1, <1>3

\* Totals compare as what they add up does.
LEMMA TotalMonotone ==
  ASSUME NEW f, NEW g, NEW S, IsFiniteSet(S),
         \A x \in S : f[x] \in Counts /\ g[x] \in Counts
  PROVE  /\ (\A x \in S : f[x] = g[x]) => Total(f, S) = Total(g, S)
         /\ (\A x \in S : f[x].total <= g[x].total) => Total(f, S).total <= Total(g, S).total
         /\ (\A x \in S : f[x].failed <= g[x].failed) =>
              Total(f, S).failed <= Total(g, S).failed
         /\ (\A x \in S : f[x].failed <= g[x].total) =>
              Total(f, S).failed <= Total(g, S).total
<1> DEFINE
      P(T) == (\A x \in S : f[x] = g[x]) => Total(f, T) = Total(g, T)
      Q(T) == (\A x \in S : f[x].total <= g[x].total) => Total(f, T).total <= Total(g, T).total
      R(T) == (\A x \in S : f[x].failed <= g[x].failed) =>
                Total(f, T).failed <= Total(g, T).failed
      H(T) == (\A x \in S : f[x].failed <= g[x].total) =>
                Total(f, T).failed <= Total(g, T).total
<1>1. PICK good : good = {T \in SUBSET S : P(T) /\ Q(T) /\ R(T) /\ H(T)}
  OBVIOUS
<1>2. ASSUME NEW T \in SUBSET S, \A U \in SUBSET T : U # T => U \in good
      PROVE  T \in good
  <2>1. IsFiniteSet(T)
    BY FS_Subset
  <2>2. CASE T = {}
    <3>1. Total(f, T) = NoChecks /\ Total(g, T) = NoChecks
      BY <2>1, <2>2, TotalEquations
    <3> QED
      BY <1>1, <3>1, PlusTypes
  <2>3. CASE T # {}
    <3>1. PICK x \in T : Total(f, T) = Plus(f[x], Total(f, T \ {x}))
      BY <2>1, <2>3, TotalEquations
    <3>2. Total(g, T) = Plus(g[x], Total(g, T \ {x}))
      BY <2>1, TotalRemove
    <3>3. PICK a, b, c, d : /\ a = f[x] /\ b = Total(f, T \ {x})
                            /\ c = g[x] /\ d = Total(g, T \ {x})
      OBVIOUS
    <3>4. a \in Counts /\ b \in Counts /\ c \in Counts /\ d \in Counts
      <4>1. IsFiniteSet(T \ {x}) /\ \A y \in T \ {x} : f[y] \in Counts /\ g[y] \in Counts
        BY <2>1, FS_Subset
      <4> QED
        BY <3>3, <4>1, TotalType
    <3>5. P(T \ {x}) /\ Q(T \ {x}) /\ R(T \ {x}) /\ H(T \ {x})
      BY <1>1, <1>2
    <3>6. /\ Total(f, T) = Plus(a, b) /\ Total(g, T) = Plus(c, d)
          /\ Total(f, T).total = a.total + b.total /\ Total(g, T).total = c.total + d.total
          /\ Total(f, T).failed = a.failed + b.failed
          /\ Total(g, T).failed = c.failed + d.failed
      BY <3>1, <3>2, <3>3, <3>4, PlusTypes
    <3>7. /\ a.total \in Nat /\ a.failed \in Nat /\ b.total \in Nat /\ b.failed \in Nat
          /\ c.total \in Nat /\ c.failed \in Nat /\ d.total \in Nat /\ d.failed \in Nat
      BY <3>4 DEF Counts
    <3>8. P(T)
      BY <3>3, <3>5, <3>6
    <3>9. Q(T)
      BY <3>3, <3>5, <3>6, <3>7
    <3>10. R(T)
      BY <3>3, <3>5, <3>6, <3>7
    <3>11. H(T)
      BY <3>3, <3>5, <3>6, <3>7
    <3> QED
      BY <1>1, <3>8, <3>9, <3>10, <3>11
  <2> QED
    BY <2>2, <2>3
<1>3. S \in good
  BY <1>2, SubsetInduction
<1> QED
  BY <1>1, <1>3

\* Nothing adds up to nothing.
LEMMA TotalZero ==
  ASSUME NEW f, NEW S, IsFiniteSet(S), \A x \in S : f[x] \in Counts /\ f[x].total = 0
  PROVE  Total(f, S).total = 0
<1>1. PICK good : good = {T \in SUBSET S : Total(f, T).total = 0}
  OBVIOUS
<1>2. ASSUME NEW T \in SUBSET S, \A U \in SUBSET T : U # T => U \in good
      PROVE  T \in good
  <2>1. IsFiniteSet(T)
    BY FS_Subset
  <2>2. CASE T = {}
    BY <1>1, <2>1, <2>2, TotalEquations, PlusTypes
  <2>3. CASE T # {}
    <3>1. PICK x \in T : Total(f, T) = Plus(f[x], Total(f, T \ {x}))
      BY <2>1, <2>3, TotalEquations
    <3>2. IsFiniteSet(T \ {x}) /\ \A y \in T \ {x} : f[y] \in Counts
      BY <2>1, FS_Subset
    <3>3. Total(f, T \ {x}) \in Counts /\ f[x] \in Counts
      BY <3>2, TotalType
    <3>4. Total(f, T).total = f[x].total + Total(f, T \ {x}).total
      BY <3>1, <3>3, PlusTypes
    <3> QED
      BY <1>1, <1>2, <3>4
  <2> QED
    BY <2>2, <2>3
<1>3. S \in good
  BY <1>2, SubsetInduction
<1> QED
  BY <1>1, <1>3

\* A part of a set has no larger total.
LEMMA TotalPart ==
  ASSUME NEW f, NEW S, IsFiniteSet(S), NEW T \in SUBSET S, \A x \in S : f[x] \in Counts
  PROVE  /\ Total(f, T).total <= Total(f, S).total
         /\ Total(f, T).failed <= Total(f, S).failed
         /\ (\A x \in S \ T : f[x].total = 0) => Total(f, T).total = Total(f, S).total
<1>1. /\ IsFiniteSet(T) /\ IsFiniteSet(S \ T) /\ T \cap (S \ T) = {} /\ T \cup (S \ T) = S
      /\ \A x \in T \cup (S \ T) : f[x] \in Counts
  BY FS_Subset
<1>2. Total(f, S) = Plus(Total(f, T), Total(f, S \ T))
  BY <1>1, TotalUnion
<1>3. PICK a, b : a = Total(f, T) /\ b = Total(f, S \ T)
  OBVIOUS
<1>4. a \in Counts /\ b \in Counts
  BY <1>1, <1>3, TotalType
<1>5. /\ Total(f, S).total = a.total + b.total /\ Total(f, S).failed = a.failed + b.failed
      /\ a.total \in Nat /\ b.total \in Nat /\ a.failed \in Nat /\ b.failed \in Nat
  BY <1>2, <1>3, <1>4, PlusTypes DEF Counts
<1>6. (\A x \in S \ T : f[x].total = 0) => b.total = 0
  BY <1>1, <1>3, TotalZero
<1> QED
  BY <1>3, <1>5, <1>6

\* One of the counts is no larger than their total.
LEMMA TotalElement ==
  ASSUME NEW f, NEW S, IsFiniteSet(S), \A x \in S : f[x] \in Counts, NEW x \in S
  PROVE  f[x].total <= Total(f, S).total /\ f[x].failed <= Total(f, S).failed
<1>1. Total(f, S) = Plus(f[x], Total(f, S \ {x}))
  BY TotalRemove
<1>2. IsFiniteSet(S \ {x}) /\ \A y \in S \ {x} : f[y] \in Counts
  BY FS_RemoveElement
<1>3. Total(f, S \ {x}) \in Counts
  BY <1>2, TotalType
<1> QED
  BY <1>1, <1>3, PlusTypes DEF Counts

\* part gives the members of S of every key in K.
Partitions(part, key, S, K) ==
  /\ \A x \in S : key[x] \in K
  /\ \A k \in K : part[k] \in SUBSET S
  /\ \A k \in K : \A x \in S : x \in part[k] <=> key[x] = k

\* The totals of the parts of a set, by a key, make the total of the set.
LEMMA TotalFibers ==
  ASSUME NEW f, NEW S, IsFiniteSet(S), \A x \in S : f[x] \in Counts, NEW key,
         NEW K, IsFiniteSet(K), NEW part, Partitions(part, key, S, K),
         NEW g, \A k \in K : g[k] = Total(f, part[k])
  PROVE  Total(g, K) = Total(f, S)
<1> USE DEF Partitions
<1>1. PICK good : good = {T \in SUBSET K : \A C \in SUBSET S :
                            (\A x \in S : x \in C <=> key[x] \in T) => Total(g, T) = Total(f, C)}
  OBVIOUS
<1>2. ASSUME NEW T \in SUBSET K, \A U \in SUBSET T : U # T => U \in good
      PROVE  T \in good
  <2> SUFFICES ASSUME NEW C \in SUBSET S, \A x \in S : x \in C <=> key[x] \in T
               PROVE  Total(g, T) = Total(f, C)
    BY <1>1
  <2>1. IsFiniteSet(T)
    BY FS_Subset
  <2>2. CASE T = {}
    <3>1. C = {}
      BY <2>2
    <3>2. Total(g, T) = NoChecks /\ Total(f, {}) = NoChecks
      BY <2>1, <2>2, TotalEquations, FS_EmptySet
    <3> QED
      BY <3>1, <3>2
  <2>3. CASE T # {}
    <3>1. PICK k \in T : Total(g, T) = Plus(g[k], Total(g, T \ {k}))
      BY <2>1, <2>3, TotalEquations
    <3>2. PICK X, Y : X = part[k] /\ Y = C \ part[k]
      OBVIOUS
    <3>3. /\ X \in SUBSET S /\ Y \in SUBSET S /\ X \cap Y = {} /\ X \cup Y = C
          /\ \A x \in S : x \in Y <=> key[x] \in T \ {k}
      BY <3>2
    <3>4. /\ IsFiniteSet(X) /\ IsFiniteSet(Y)
          /\ \A x \in X \cup Y : f[x] \in Counts
      BY <3>3, FS_Subset
    <3>5. T \ {k} \in good
      BY <1>2
    <3>6. Total(g, T \ {k}) = Total(f, Y) /\ g[k] = Total(f, X)
      BY <1>1, <3>2, <3>3, <3>5
    <3>7. Total(f, X \cup Y) = Plus(Total(f, X), Total(f, Y))
      BY <3>3, <3>4, TotalUnion
    <3> QED
      BY <3>1, <3>3, <3>6, <3>7
  <2> QED
    BY <2>2, <2>3
<1>3. K \in good
  BY <1>2, SubsetInduction
<1>4. S \in SUBSET S /\ \A x \in S : x \in S <=> key[x] \in K
  OBVIOUS
<1> QED
  BY <1>1, <1>3, <1>4

\* Sum adds up a function over its whole domain.
LEMMA SumIsTotal == \A f : Sum(f) = Total(f, DOMAIN f)
BY DEF Sum, FoldFunction, Total

-----------------------------------------------------------------------------
(* Counting checks.                                                        *)

\* A count of checks, and the checks that failed among them.
LEMMA CountTypes ==
  ASSUME NEW A, IsFiniteSet(A)
  PROVE  /\ Count(A) \in Counts /\ Count(A).failed <= Count(A).total
         /\ Count(A).total = Cardinality(A)
         /\ Count(A).failed = Cardinality({s \in A : ~s.ok})
         /\ A = {} => Count(A) = NoChecks
         /\ A # {} => Count(A).total > 0
<1>1. PICK bad : bad = {s \in A : ~s.ok}
  OBVIOUS
<1>2. bad \in SUBSET A
  BY <1>1
<1>3. IsFiniteSet(bad) /\ Cardinality(bad) <= Cardinality(A)
  BY <1>2, FS_Subset
<1>4. Cardinality(A) \in Nat /\ Cardinality(bad) \in Nat
  BY <1>3, FS_CardinalityType
<1>5. Count(A) = [total |-> Cardinality(A), failed |-> Cardinality(bad)]
  BY <1>1 DEF Count
<1>6. A # {} => Cardinality(A) > 0
  BY <1>4, FS_EmptySet
<1>7. A = {} => Cardinality(A) = 0 /\ Cardinality(bad) = 0
  BY <1>2, FS_EmptySet
<1> QED
  BY <1>1, <1>3, <1>4, <1>5, <1>6, <1>7 DEF Counts, NoChecks

\* Fewer checks count less.
LEMMA CountMonotone ==
  ASSUME NEW B, IsFiniteSet(B), NEW A \in SUBSET B
  PROVE  AtMost(Count(A), Count(B))
<1>1. IsFiniteSet(A) /\ Cardinality(A) <= Cardinality(B)
  BY FS_Subset
<1>2. PICK b, c : b = {s \in A : ~s.ok} /\ c = {s \in B : ~s.ok}
  OBVIOUS
<1>3. b \in SUBSET c /\ c \in SUBSET B
  BY <1>2
<1>4. IsFiniteSet(c) /\ Cardinality(b) <= Cardinality(c)
  BY <1>3, FS_Subset
<1> QED
  BY <1>1, <1>2, <1>4, CountTypes DEF AtMost

\* Checks that are counted apart are counted once together.
LEMMA CountUnion ==
  ASSUME NEW A, NEW B, IsFiniteSet(A), IsFiniteSet(B), A \cap B = {}
  PROVE  Count(A \cup B) = Plus(Count(A), Count(B))
<1>1. ASSUME NEW X, NEW Y, IsFiniteSet(X), IsFiniteSet(Y), X \cap Y = {}
      PROVE  Cardinality(X \cup Y) = Cardinality(X) + Cardinality(Y)
  <2>1. Cardinality(X \cup Y) = Cardinality(X) + Cardinality(Y) - Cardinality(X \cap Y)
    BY <1>1, FS_Union
  <2>2. Cardinality(X \cap Y) = 0
    BY <1>1, FS_EmptySet
  <2> QED
    BY <1>1, <2>1, <2>2, FS_CardinalityType
<1>2. PICK a, b, c : /\ a = {s \in A : ~s.ok} /\ b = {s \in B : ~s.ok}
                     /\ c = {s \in A \cup B : ~s.ok}
  OBVIOUS
<1>3. a \in SUBSET A /\ b \in SUBSET B /\ a \cap b = {} /\ c = a \cup b
  BY <1>2
<1>4. IsFiniteSet(a) /\ IsFiniteSet(b)
  BY <1>3, FS_Subset
<1>5. Cardinality(c) = Cardinality(a) + Cardinality(b)
  BY <1>1, <1>3, <1>4
<1>6. Cardinality(A \cup B) = Cardinality(A) + Cardinality(B)
  BY <1>1
<1> QED
  BY <1>2, <1>5, <1>6 DEF Count, Plus

\* The counts of the parts of a set of checks, by a key, make the count of all.
LEMMA CountPartition ==
  ASSUME NEW A, IsFiniteSet(A), NEW key, NEW K, IsFiniteSet(K),
         NEW part, Partitions(part, key, A, K),
         NEW g, \A k \in K : g[k] = Count(part[k])
  PROVE  Total(g, K) = Count(A)
<1> USE DEF Partitions
<1>1. PICK good : good = {T \in SUBSET K : \A C \in SUBSET A :
                            (\A s \in A : s \in C <=> key[s] \in T) => Total(g, T) = Count(C)}
  OBVIOUS
<1>2. ASSUME NEW T \in SUBSET K, \A U \in SUBSET T : U # T => U \in good
      PROVE  T \in good
  <2> SUFFICES ASSUME NEW C \in SUBSET A, \A s \in A : s \in C <=> key[s] \in T
               PROVE  Total(g, T) = Count(C)
    BY <1>1
  <2>1. IsFiniteSet(T)
    BY FS_Subset
  <2>2. CASE T = {}
    <3>1. C = {}
      BY <2>2
    <3>2. Total(g, T) = NoChecks /\ Count({}) = NoChecks
      BY <2>1, <2>2, TotalEquations, FS_EmptySet, CountTypes
    <3> QED
      BY <3>1, <3>2
  <2>3. CASE T # {}
    <3>1. PICK k \in T : Total(g, T) = Plus(g[k], Total(g, T \ {k}))
      BY <2>1, <2>3, TotalEquations
    <3>2. PICK X, Y : X = part[k] /\ Y = C \ part[k]
      OBVIOUS
    <3>3. /\ X \in SUBSET A /\ Y \in SUBSET A /\ X \cap Y = {} /\ X \cup Y = C
          /\ \A s \in A : s \in Y <=> key[s] \in T \ {k}
      BY <3>2
    <3>4. IsFiniteSet(X) /\ IsFiniteSet(Y)
      BY <3>3, FS_Subset
    <3>5. T \ {k} \in good
      BY <1>2
    <3>6. Total(g, T \ {k}) = Count(Y) /\ g[k] = Count(X)
      BY <1>1, <3>2, <3>3, <3>5
    <3>7. Count(X \cup Y) = Plus(Count(X), Count(Y))
      BY <3>3, <3>4, CountUnion
    <3> QED
      BY <3>1, <3>3, <3>6, <3>7
  <2> QED
    BY <2>2, <2>3
<1>3. K \in good
  BY <1>2, SubsetInduction
<1>4. A \in SUBSET A /\ \A s \in A : s \in A <=> key[s] \in K
  OBVIOUS
<1> QED
  BY <1>1, <1>3, <1>4

-----------------------------------------------------------------------------
(* Arithmetic.                                                             *)

\* The whole part of a quotient.
LEMMA Quotient ==
  ASSUME NEW a \in Int, NEW b \in Nat, b > 0
  PROVE  /\ a \div b \in Int /\ (a \div b) * b <= a /\ a < (a \div b + 1) * b
         /\ a >= 0 => a \div b \in Nat
  OBVIOUS

\* Multiplication keeps the order.
LEMMA TimesMonotone ==
  ASSUME NEW a \in Nat, NEW b \in Nat, NEW c \in Nat, a <= b
  PROVE  a * c <= b * c
  OBVIOUS

\* A quotient is the largest number of times that the divisor fits.
LEMMA QuotientFits ==
  ASSUME NEW a \in Int, NEW b \in Nat, b > 0, NEW q \in Int
  PROVE  q * b <= a <=> q <= a \div b
<1>1. PICK p : p = a \div b
  OBVIOUS
<1>2. p \in Int /\ p * b <= a /\ a < (p + 1) * b
  BY <1>1, Quotient
<1>3. ASSUME q <= p PROVE q * b <= a
  <2>1. PICK d \in Nat : p = q + d
    BY <1>2, <1>3
  <2>2. p * b = q * b + d * b /\ d * b >= 0
    BY <2>1
  <2> QED
    BY <1>2, <2>2
<1>4. ASSUME q > p PROVE ~(q * b <= a)
  <2>1. PICK d \in Nat : q = p + 1 + d
    <3>1. q - p - 1 \in Nat /\ q = p + 1 + (q - p - 1)
      BY <1>2, <1>4
    <3> QED
      BY <3>1
  <2>2. q * b = (p + 1) * b + d * b /\ d * b >= 0
    BY <1>2, <2>1
  <2> QED
    BY <1>2, <2>2
<1> QED
  BY <1>1, <1>2, <1>3, <1>4

\* A later time is in no earlier hour, and the next one in the next hour at most.
LEMMA QuotientMonotone ==
  ASSUME NEW a \in Int, NEW c \in Int, a <= c, NEW b \in Nat, b > 0
  PROVE  a \div b <= c \div b /\ (a + 1) \div b \in {a \div b, a \div b + 1}
<1>1. PICK p : p = a \div b
  OBVIOUS
<1>2. p \in Int /\ p * b <= a /\ a < (p + 1) * b
  BY <1>1, Quotient
<1>3. p <= c \div b
  BY <1>2, QuotientFits
<1>4. p <= (a + 1) \div b
  BY <1>2, QuotientFits
<1>5. (p + 2) * b = (p + 1) * b + b
  BY <1>2
<1>6. ~((p + 2) * b <= a + 1)
  BY <1>2, <1>5
<1>7. ~(p + 2 <= (a + 1) \div b)
  BY <1>2, <1>6, QuotientFits
<1>8. (a + 1) \div b \in Int
  BY Quotient
<1> QED
  BY <1>1, <1>2, <1>3, <1>4, <1>7, <1>8

\* 100% is a number.
LEMMA HundredType == Hundred \in Nat /\ Hundred > 0
BY DEF Hundred

\* A single failure, among however many checks, is not 100%.
LEMMA PercentBelow ==
  ASSUME NEW total \in Nat, NEW success \in Nat, success < total
  PROVE  FormatPercent(success, total) \in 0..(Hundred - 1)
<1>1. PICK q : q = (success * Hundred) \div total
  OBVIOUS
<1>2. FormatPercent(success, total) = q
  BY <1>1 DEF FormatPercent
<1>3. q \in Nat /\ q * total <= success * Hundred
  <2>1. success * Hundred \in Nat
    BY HundredType
  <2> QED
    BY <1>1, <2>1, Quotient
<1>4. q < Hundred
  <2>1. SUFFICES ASSUME Hundred <= q PROVE FALSE
    BY <1>3, HundredType
  <2>2. Hundred * total <= q * total
    BY <1>3, <2>1, HundredType, TimesMonotone
  <2>3. PICK d \in Nat : total = success + d /\ d > 0
    <3>1. total - success \in Nat /\ total = success + (total - success) /\ total - success > 0
      OBVIOUS
    <3> QED
      BY <3>1
  <2>4. Hundred * total = success * Hundred + d * Hundred
    BY <2>3, HundredType
  <2>5. d * Hundred > 0
    BY <2>3, HundredType
  <2>6. success * Hundred \in Nat /\ d * Hundred \in Nat /\ q * total \in Nat
    BY <1>3, <2>3, HundredType
  <2> QED
    BY <1>3, <2>2, <2>4, <2>5, <2>6
<1> QED
  BY <1>2, <1>3, <1>4, HundredType

\* FormatPercent shows 100% exactly when nothing has failed.
THEOREM PercentIsHonest ==
  ASSUME NEW total \in Nat, total > 0, NEW success \in 0..total
  PROVE  /\ FormatPercent(success, total) \in 0..Hundred
         /\ FormatPercent(success, total) = Hundred <=> success = total
<1>1. CASE success = total
  BY <1>1, HundredType DEF FormatPercent
<1>2. CASE success < total
  <2>1. success \in Nat
    OBVIOUS
  <2>2. FormatPercent(success, total) \in 0..(Hundred - 1)
    BY <1>2, <2>1, PercentBelow
  <2> QED
    BY <1>2, <2>2, HundredType
<1> QED
  BY <1>1, <1>2

\* Latency's buckets: every time of the range, its last second included, falls
\* into one of points buckets, so no grouped series has more than maxPoints.
THEOREM BucketsFit ==
  ASSUME NEW points \in Nat, points > 0, NEW span \in Nat,
         NEW from \in Int, NEW t \in from..(from + span)
  PROVE  Index(t, from, Bucket(span, points)) \in 0..(points - 1)
<1> DEFINE b == span \div points + 1
           i == (t - from) \div b
<1>1. Bucket(span, points) = b /\ Index(t, from, b) = i
  BY DEF Bucket, Index
<1>2. b \in Nat /\ b > 0 /\ span < b * points
  BY Quotient
<1>3. t - from \in Nat /\ t - from <= span
  OBVIOUS
<1>4. i \in Nat /\ i * b <= t - from
  BY <1>2, <1>3, Quotient
<1>5. i < points
  <2>1. SUFFICES ASSUME points <= i PROVE FALSE
    BY <1>4
  <2>2. points * b <= i * b
    BY <1>2, <1>4, <2>1, TimesMonotone
  <2>3. points * b = b * points
    BY <1>2
  <2>4. QED
    BY <1>2, <1>3, <1>4, <2>2, <2>3
<1> QED
  BY <1>1, <1>4, <1>5

-----------------------------------------------------------------------------
(* The inductive invariant.                                                *)

Checked == {c \in Counts : c.failed <= c.total}
Hourly == [Locations -> Checked]
CheckRecords == [at: Locations, t: Nat, ok: BOOLEAN]
MadeAt(checks, h) == Count({s \in checks : HourOf(s.t) = h})
MadeIn(checks, l, h) == Count({s \in checks : s.at = l /\ HourOf(s.t) = h})

\* Hours that count nothing that was not checked in them.
Truthful(checks, hours) ==
  /\ DOMAIN hours \subseteq Nat /\ IsFiniteSet(DOMAIN hours)
  /\ \A h \in DOMAIN hours : hours[h] \in Hourly
  /\ \A h \in DOMAIN hours, l \in Locations : AtMost(hours[h][l], MadeIn(checks, l, h))

ChecksInv ==
  /\ now \in Nat /\ made \subseteq CheckRecords /\ IsFiniteSet(made)
  /\ \A s \in made : s.t <= now
  /\ \A s, r \in made : s.at = r.at /\ s.t = r.t => s = r
  /\ gone \subseteq made /\ \A s \in gone : HourOf(s.t) < Cur

\* Only hours that have begun are stored.
HoursInv ==
  /\ Truthful(made, stored)
  /\ \A h \in DOMAIN stored : h <= Cur

\* What a worker has summed up of a day was checked, and while all of the day's
\* hours are kept it is no more than they hold.
UpdateInv(w) ==
  updates[w] # NoUpdate =>
    /\ updates[w].day \in Nat /\ updates[w].day < Today
    /\ updates[w].sum \in Checked /\ AtMost(updates[w].sum, MadeOn(updates[w].day))
    /\ Whole(updates[w].day, Cur) =>
         updates[w].sum.total <= DaySum(updates[w].day, stored).total
    /\ updates[w].whole \/ (w = "pass" /\ RetentionDays = 1)

\* A daily rollup is no fuller than the day's hours while all of them are kept.
DailyInv(d) ==
  /\ d \in Nat /\ d < Today /\ daily[d] \in Checked /\ AtMost(daily[d], MadeOn(d))
  /\ Whole(d, Cur) => daily[d].total <= DaySum(d, stored).total

HistoryInv ==
  /\ ChecksInv /\ HoursInv
  /\ DOMAIN updates = Workers /\ \A w \in Workers : UpdateInv(w)
  /\ \A d \in DOMAIN daily : DailyInv(d)

\* Comparing counts is transitive.
LEMMA AtMostTransitive ==
  ASSUME NEW a \in Counts, NEW b \in Counts, NEW c \in Counts, AtMost(a, b), AtMost(b, c)
  PROVE  AtMost(a, c)
BY DEF AtMost, Counts

\* What is checked is counted: the counts of an hour, of a location in it.
LEMMA MadeTypes ==
  ASSUME NEW checks, IsFiniteSet(checks), NEW h
  PROVE  /\ MadeAt(checks, h) \in Checked
         /\ \A l : MadeIn(checks, l, h) \in Checked
<1>1. \A A \in SUBSET checks : Count(A) \in Checked
  BY FS_Subset, CountTypes DEF Checked
<1>2. \A l : {s \in checks : s.at = l /\ HourOf(s.t) = h} \in SUBSET checks
  OBVIOUS
<1>3. {s \in checks : HourOf(s.t) = h} \in SUBSET checks
  OBVIOUS
<1> QED
  BY <1>1, <1>2, <1>3 DEF MadeAt, MadeIn

\* An hour's aggregate is a count, and compares as its locations do.
LEMMA AggregateType ==
  ASSUME NEW r \in Hourly
  PROVE  aggregate(r) \in Checked /\ aggregate(r) = Total(r, Locations)
<1>1. aggregate(r) = Total(r, Locations)
  BY SumIsTotal DEF aggregate, Hourly
<1>2. \A l \in Locations : r[l] \in Counts /\ r[l].failed <= r[l].total
  BY DEF Hourly, Checked
<1>3. IsFiniteSet(Locations)
  BY HistoryAssumption
<1>4. Total(r, Locations) \in Counts
  BY <1>2, <1>3, TotalType
<1>5. Total(r, Locations).failed <= Total(r, Locations).total
  BY <1>2, <1>3, TotalMonotone
<1> QED
  BY <1>1, <1>4, <1>5 DEF Checked

\* Fuller locations make a fuller hour.
LEMMA AggregateOrder ==
  ASSUME NEW r \in Hourly, NEW q \in Hourly
  PROVE  (\A l \in Locations : r[l].total <= q[l].total) =>
           aggregate(r).total <= aggregate(q).total
<1>1. \A l \in Locations : r[l] \in Counts /\ q[l] \in Counts
  BY DEF Hourly, Checked
<1>2. IsFiniteSet(Locations)
  BY HistoryAssumption
<1> QED
  BY <1>1, <1>2, TotalMonotone, AggregateType

\* An hour whose locations count only what they checked counts only that.
LEMMA AggregateAtMost ==
  ASSUME NEW checks \in SUBSET CheckRecords, IsFiniteSet(checks), NEW h, NEW r \in Hourly,
         \A l \in Locations : AtMost(r[l], MadeIn(checks, l, h))
  PROVE  AtMost(aggregate(r), MadeAt(checks, h))
<1>1. PICK g : g = [l \in Locations |-> MadeIn(checks, l, h)]
  OBVIOUS
<1>2. PICK A : A = {s \in checks : HourOf(s.t) = h}
  OBVIOUS
<1>3. A \in SUBSET checks /\ IsFiniteSet(A) /\ IsFiniteSet(Locations)
  BY <1>2, FS_Subset, HistoryAssumption
<1>4. PICK key : key = [s \in A |-> s.at]
  OBVIOUS
<1>5. PICK part : part = [l \in Locations |-> {s \in checks : s.at = l /\ HourOf(s.t) = h}]
  OBVIOUS
<1>6. Partitions(part, key, A, Locations) /\ \A l \in Locations : g[l] = Count(part[l])
  BY <1>1, <1>2, <1>3, <1>4, <1>5 DEF MadeIn, CheckRecords, Partitions
<1>7. Total(g, Locations) = Count(A)
  BY <1>3, <1>6, CountPartition
<1>8. \A l \in Locations : r[l] \in Counts /\ g[l] \in Counts
  BY <1>1, MadeTypes DEF Hourly, Checked
<1>9. \A l \in Locations : r[l].total <= g[l].total /\ r[l].failed <= g[l].failed
  BY <1>1 DEF AtMost
<1>10. /\ Total(r, Locations).total <= Total(g, Locations).total
       /\ Total(r, Locations).failed <= Total(g, Locations).failed
  BY <1>3, <1>8, <1>9, TotalMonotone
<1> QED
  BY <1>2, <1>7, <1>10, AggregateType DEF AtMost, MadeAt

\* The sum of a day's hours is a count of checks made that day.
LEMMA DaySumAtMost ==
  ASSUME NEW checks \in SUBSET CheckRecords, IsFiniteSet(checks), NEW hours,
         Truthful(checks, hours), NEW d
  PROVE  /\ DaySum(d, hours) \in Checked
         /\ AtMost(DaySum(d, hours), Count({s \in checks : DayOf(HourOf(s.t)) = d}))
<1>1. PICK H : H = HoursOf(d, hours)
  OBVIOUS
<1>2. H \in SUBSET DOMAIN hours /\ IsFiniteSet(H)
  BY <1>1, FS_Subset DEF HoursOf, Truthful
<1>3. PICK f : f = [h \in H |-> aggregate(hours[h])]
  OBVIOUS
<1>4. PICK g : g = [h \in H |-> MadeAt(checks, h)]
  OBVIOUS
<1>5. DaySum(d, hours) = Total(f, H)
  BY <1>1, <1>3, SumIsTotal DEF DaySum
<1>6. \A h \in H : f[h] \in Checked /\ g[h] \in Checked /\ AtMost(f[h], g[h])
  <2> SUFFICES ASSUME NEW h \in H PROVE f[h] \in Checked /\ g[h] \in Checked /\ AtMost(f[h], g[h])
    OBVIOUS
  <2>1. hours[h] \in Hourly /\ \A l \in Locations : AtMost(hours[h][l], MadeIn(checks, l, h))
    BY <1>2 DEF Truthful
  <2> QED
    BY <1>3, <1>4, <2>1, AggregateType, AggregateAtMost, MadeTypes
<1>7. \A h \in H : f[h] \in Counts /\ g[h] \in Counts
  BY <1>6 DEF Checked
<1>8. /\ Total(f, H) \in Counts /\ Total(f, H).failed <= Total(f, H).total
  <2>1. \A h \in H : f[h].failed <= f[h].total
    BY <1>6 DEF Checked
  <2> QED
    BY <1>2, <1>7, <2>1, TotalType, TotalMonotone
<1>9. Total(f, H).total <= Total(g, H).total /\ Total(f, H).failed <= Total(g, H).failed
  <2>1. \A h \in H : f[h].total <= g[h].total /\ f[h].failed <= g[h].failed
    BY <1>6 DEF AtMost
  <2> QED
    BY <1>2, <1>7, <2>1, TotalMonotone
<1>10. PICK A, B : /\ A = {s \in checks : HourOf(s.t) \in H}
                   /\ B = {s \in checks : DayOf(HourOf(s.t)) = d}
  OBVIOUS
<1>11. PICK key : key = [s \in A |-> HourOf(s.t)]
  OBVIOUS
<1>12. PICK part : part = [h \in H |-> {s \in checks : HourOf(s.t) = h}]
  OBVIOUS
<1>13. A \in SUBSET B /\ B \in SUBSET checks /\ IsFiniteSet(B) /\ IsFiniteSet(A)
  <2>1. A \in SUBSET B /\ B \in SUBSET checks
    BY <1>1, <1>10 DEF HoursOf
  <2> QED
    BY <2>1, FS_Subset
<1>14. Total(g, H) = Count(A)
  <2>1. Partitions(part, key, A, H) /\ \A h \in H : g[h] = Count(part[h])
    BY <1>4, <1>10, <1>11, <1>12 DEF MadeAt, Partitions
  <2> QED
    BY <1>2, <1>13, <2>1, CountPartition
<1>15. AtMost(Count(A), Count(B)) /\ Count(A) \in Counts /\ Count(B) \in Counts
  BY <1>13, CountMonotone, CountTypes
<1>16. AtMost(Total(f, H), Count(A))
  BY <1>9, <1>14 DEF AtMost
<1>17. AtMost(Total(f, H), Count(B))
  BY <1>8, <1>15, <1>16, AtMostTransitive
<1> QED
  BY <1>5, <1>8, <1>10, <1>17 DEF Checked

\* Fuller hours make a fuller day.
LEMMA DaySumOrder ==
  ASSUME NEW d, NEW a, NEW b, IsFiniteSet(DOMAIN a), IsFiniteSet(DOMAIN b),
         \A h \in DOMAIN a : a[h] \in Hourly, \A h \in DOMAIN b : b[h] \in Hourly,
         \A h \in HoursOf(d, a), l \in Locations :
           a[h][l].total <= (IF h \in DOMAIN b THEN b[h] ELSE Placeholder)[l].total
  PROVE  DaySum(d, a).total <= DaySum(d, b).total
<1>1. PICK A, B, C : A = HoursOf(d, a) /\ B = HoursOf(d, b) /\ C = A \cap B
  OBVIOUS
<1>2. /\ A \in SUBSET DOMAIN a /\ B \in SUBSET DOMAIN b /\ C \in SUBSET A /\ C \in SUBSET B
      /\ IsFiniteSet(A) /\ IsFiniteSet(B) /\ IsFiniteSet(C)
  <2>1. A \in SUBSET DOMAIN a /\ B \in SUBSET DOMAIN b /\ C \in SUBSET A /\ C \in SUBSET B
    BY <1>1 DEF HoursOf
  <2> QED
    BY <2>1, FS_Subset
<1>3. PICK f : f = [h \in A |-> aggregate(a[h])]
  OBVIOUS
<1>4. PICK g : g = [h \in B |-> aggregate(b[h])]
  OBVIOUS
<1>5. DaySum(d, a) = Total(f, A) /\ DaySum(d, b) = Total(g, B)
  BY <1>1, <1>3, <1>4, SumIsTotal DEF DaySum
<1>6. (\A h \in A : f[h] \in Counts) /\ (\A h \in B : g[h] \in Counts)
  BY <1>2, <1>3, <1>4, AggregateType DEF Checked
<1>7. Placeholder \in Hourly /\ \A l \in Locations : Placeholder[l].total = 0
  BY PlusTypes DEF Placeholder, Hourly, Checked
<1>8. ASSUME NEW h \in A \ C PROVE f[h].total = 0
  <2>1. h \notin DOMAIN b /\ h \in DOMAIN a
    BY <1>1 DEF HoursOf
  <2>2. \A l \in Locations : a[h][l].total <= 0 /\ a[h][l] \in Counts
    BY <1>1, <1>7, <2>1 DEF Hourly, Checked
  <2>3. \A l \in Locations : a[h][l].total = 0
    BY <2>2 DEF Counts
  <2> QED
    BY <1>3, <2>1, <2>2, <2>3, AggregateType, TotalZero, HistoryAssumption
<1>9. ASSUME NEW h \in C PROVE f[h].total <= g[h].total
  <2>1. h \in DOMAIN b /\ h \in A /\ h \in B /\ h \in DOMAIN a
    BY <1>1, <1>2
  <2>2. \A l \in Locations : a[h][l].total <= b[h][l].total
    BY <1>1, <2>1
  <2> QED
    BY <1>3, <1>4, <2>1, <2>2, AggregateOrder
<1>10. Total(f, C).total = Total(f, A).total
  BY <1>2, <1>6, <1>8, TotalPart
<1>11. Total(g, C).total <= Total(g, B).total
  BY <1>2, <1>6, TotalPart
<1>12. Total(f, C).total <= Total(g, C).total
  <2>1. \A h \in C : f[h] \in Counts /\ g[h] \in Counts
    BY <1>2, <1>6
  <2> QED
    BY <1>2, <1>9, <2>1, TotalMonotone
<1>13. /\ Total(f, A) \in Counts /\ Total(f, C) \in Counts
       /\ Total(g, B) \in Counts /\ Total(g, C) \in Counts
  <2>1. (\A h \in C : f[h] \in Counts) /\ (\A h \in C : g[h] \in Counts)
    BY <1>2, <1>6
  <2> QED
    BY <1>2, <1>6, <2>1, TotalType
<1> QED
  BY <1>5, <1>10, <1>11, <1>12, <1>13 DEF Counts

-----------------------------------------------------------------------------
(* Every step keeps the invariant.                                         *)

\* An hour stored only as a mark counts nothing.
LEMMA PlaceholderType ==
  /\ Placeholder \in Hourly
  /\ \A l \in Locations : Placeholder[l].total = 0 /\ Placeholder[l].failed = 0
BY PlusTypes DEF Placeholder, Hourly, Checked

\* What is stored of any hour is true.
LEMMA StoredType ==
  ASSUME ChecksInv, HoursInv, NEW h
  PROVE  /\ Stored(h) \in Hourly
         /\ \A l \in Locations : AtMost(Stored(h)[l], MadeIn(made, l, h))
<1>1. CASE h \in DOMAIN stored
  BY <1>1 DEF HoursInv, Truthful, Stored
<1>2. CASE h \notin DOMAIN stored
  <2>1. \A l \in Locations : MadeIn(made, l, h) \in Counts
    BY MadeTypes DEF ChecksInv, Checked
  <2>2. \A l \in Locations : AtMost(Placeholder[l], MadeIn(made, l, h))
    BY <2>1, PlaceholderType DEF AtMost, Counts
  <2> QED
    BY <1>2, <2>2, PlaceholderType DEF Stored
<1> QED
  BY <1>1, <1>2

\* mergeStored never makes an hour poorer than it is stored, nor richer than it
\* was checked; and a location that answers shows all of the current hour.
LEMMA Merged ==
  ASSUME ChecksInv, HoursInv, NEW h, NEW down \in SUBSET Locations,
         NEW m, m = mergeStored(computeAggregate(h, down), Stored(h))
  PROVE  /\ m \in Hourly
         /\ \A l \in Locations : AtMost(m[l], MadeIn(made, l, h))
         /\ \A l \in Locations : Stored(h)[l].total <= m[l].total
         /\ h = Cur => \A l \in Locations \ down : m[l] = MadeIn(made, l, h)
<1>1. PICK old : old = Stored(h)
  OBVIOUS
<1>2. PICK fresh : fresh = computeAggregate(h, down)
  OBVIOUS
<1>3. old \in Hourly /\ \A l \in Locations : AtMost(old[l], MadeIn(made, l, h))
  BY <1>1, StoredType
<1>4. ASSUME NEW l \in Locations
      PROVE  /\ fresh[l] \in Checked /\ AtMost(fresh[l], MadeIn(made, l, h))
             /\ h = Cur /\ l \notin down => fresh[l] = MadeIn(made, l, h)
             /\ MadeIn(made, l, h) \in Checked
  <2>1. PICK A, B : /\ A = {s \in raw : s.at = l /\ HourOf(s.t) = h}
                    /\ B = {s \in made : s.at = l /\ HourOf(s.t) = h}
    OBVIOUS
  <2>2. A \in SUBSET B /\ B \in SUBSET made /\ IsFiniteSet(B) /\ IsFiniteSet(A)
    <3>1. A \in SUBSET B /\ B \in SUBSET made
      BY <2>1 DEF raw
    <3> QED
      BY <3>1, FS_Subset DEF ChecksInv
  <2>3. /\ Count(A) \in Checked /\ Count(B) \in Checked /\ AtMost(Count(A), Count(B))
    BY <2>2, CountTypes, CountMonotone DEF Checked
  <2>4. h = Cur => A = B
    BY <2>1 DEF raw, ChecksInv, Cur, HourOf
  <2>5. fresh[l] = IF l \in down THEN NoChecks ELSE Count(A)
    BY <1>2, <2>1 DEF computeAggregate, ComputeLocationRollup
  <2>6. NoChecks \in Checked /\ AtMost(NoChecks, Count(B))
    BY <2>3, PlusTypes DEF Checked, AtMost, Counts
  <2> QED
    BY <2>1, <2>3, <2>4, <2>5, <2>6 DEF MadeIn
<1>5. m = [l \in Locations |-> IF old[l].total > fresh[l].total THEN old[l] ELSE fresh[l]]
  BY <1>1, <1>2 DEF mergeStored
<1>6. \A l \in Locations : /\ old[l] \in Checked /\ fresh[l] \in Checked
                           /\ old[l].total \in Nat /\ fresh[l].total \in Nat
  BY <1>3, <1>4 DEF Hourly, Checked, Counts
<1>7. m \in Hourly
  BY <1>5, <1>6 DEF Hourly
<1>8. \A l \in Locations : AtMost(m[l], MadeIn(made, l, h)) /\ old[l].total <= m[l].total
  BY <1>3, <1>4, <1>5, <1>6
<1>9. ASSUME h = Cur, NEW l \in Locations \ down PROVE m[l] = MadeIn(made, l, h)
  <2>1. fresh[l] = MadeIn(made, l, h) /\ AtMost(old[l], MadeIn(made, l, h))
    BY <1>3, <1>4, <1>9
  <2>2. ~(old[l].total > fresh[l].total)
    BY <1>6, <2>1 DEF AtMost
  <2> QED
    BY <1>5, <2>1, <2>2
<1> QED
  BY <1>1, <1>7, <1>8, <1>9

\* The clock's hours and days.
LEMMA Clock ==
  ASSUME now \in Nat
  PROVE  /\ Cur \in Nat /\ Today \in Nat /\ KeptHours \in Nat
         /\ \A t \in Int : HourOf(t) \in Int /\ (t <= now => HourOf(t) <= Cur)
         /\ \A h \in Int : DayOf(h) \in Int /\ (h <= Cur => DayOf(h) <= Today)
         /\ \A t \in Nat : HourOf(t) \in Nat /\ DayOf(t) \in Nat
<1>1. /\ HourLen \in Nat /\ HourLen > 0 /\ DayHours \in Nat /\ DayHours > 0
      /\ RetentionDays \in Nat
  BY HistoryAssumption
<1>2. \A t \in Int : /\ HourOf(t) \in Int /\ DayOf(t) \in Int
                     /\ t >= 0 => HourOf(t) \in Nat /\ DayOf(t) \in Nat
  BY <1>1, Quotient DEF HourOf, DayOf
<1>3. Cur \in Nat /\ Today \in Nat
  BY <1>2 DEF Cur, Today
<1>4. KeptHours \in Nat
  BY <1>1 DEF KeptHours
<1>6. \A t \in Int : t <= now => HourOf(t) <= Cur
  BY <1>1, QuotientMonotone DEF HourOf, Cur
<1>7. \A h \in Int : h <= Cur => DayOf(h) <= Today
  BY <1>1, <1>3, QuotientMonotone DEF DayOf, Today
<1> QED
  BY <1>2, <1>3, <1>4, <1>6, <1>7

\* The hours of a day lie between its first and the next day's.
LEMMA DayBounds ==
  ASSUME NEW h \in Int, NEW d \in Int, DayOf(h) = d
  PROVE  d * DayHours <= h /\ h < d * DayHours + DayHours
BY Quotient, HistoryAssumption DEF DayOf

\* A day that a backfill may rebuild begins inside the retention.
LEMMA FirstFullDay ==
  ASSUME NEW d \in Nat, NEW oldest \in Int, NEW first,
         first = IF oldest <= 0 THEN 0 ELSE DayOf(oldest + DayHours - 1)
  PROVE  d >= first <=> d * DayHours >= oldest
<1>1. DayHours \in Nat /\ DayHours > 0 /\ d * DayHours \in Nat
  BY HistoryAssumption
<1>2. CASE oldest <= 0
  BY <1>1, <1>2
<1>3. CASE oldest > 0
  <2>1. PICK a : a = oldest + DayHours - 1
    OBVIOUS
  <2>2. first = a \div DayHours /\ a \in Int
    BY <1>1, <1>3, <2>1 DEF DayOf
  <2>3. a \div DayHours \in Int
    BY <1>1, <2>2, Quotient
  <2>4. (d + 1) * DayHours <= a <=> d + 1 <= a \div DayHours
    BY <1>1, <2>2, QuotientFits
  <2>5. (d + 1) * DayHours = d * DayHours + DayHours
    BY <1>1
  <2>6. d + 1 <= a \div DayHours <=> ~(d >= first)
    BY <2>2, <2>3
  <2> QED
    BY <1>1, <2>1, <2>4, <2>5, <2>6
<1> QED
  BY <1>1, <1>2, <1>3

\* The invariant holds when the dashboard starts.
LEMMA InitHistory == Init => HistoryInv
<1> SUFFICES ASSUME Init PROVE HistoryInv
  OBVIOUS
<1>1. IsFiniteSet({}) /\ IsFiniteSet(made)
  BY FS_EmptySet DEF Init
<1>2. DOMAIN stored = {} /\ DOMAIN daily = {}
  BY DEF Init
<1>3. ChecksInv
  BY <1>1 DEF Init, ChecksInv
<1>4. HoursInv
  BY <1>1, <1>2 DEF HoursInv, Truthful
<1>5. DOMAIN updates = Workers /\ \A w \in Workers : updates[w] = NoUpdate
  BY DEF Init
<1> QED
  BY <1>2, <1>3, <1>4, <1>5 DEF HistoryInv, UpdateInv

\* More checks leave a true hour true.
LEMMA TruthfulGrows ==
  ASSUME NEW checks, NEW more, IsFiniteSet(more), checks \in SUBSET more, NEW hours,
         Truthful(checks, hours)
  PROVE  Truthful(more, hours)
<1> SUFFICES ASSUME NEW h \in DOMAIN hours, NEW l \in Locations
             PROVE  AtMost(hours[h][l], MadeIn(more, l, h))
  BY DEF Truthful
<1>1. hours[h][l] \in Counts /\ AtMost(hours[h][l], MadeIn(checks, l, h))
  BY DEF Truthful, Hourly, Checked
<1>2. PICK A, B : /\ A = {s \in checks : s.at = l /\ HourOf(s.t) = h}
                  /\ B = {s \in more : s.at = l /\ HourOf(s.t) = h}
  OBVIOUS
<1>3. A \in SUBSET B /\ B \in SUBSET more
  BY <1>2
<1>4. IsFiniteSet(B) /\ IsFiniteSet(A)
  BY <1>3, FS_Subset
<1>5. AtMost(Count(A), Count(B)) /\ Count(A) \in Counts /\ Count(B) \in Counts
  BY <1>3, <1>4, CountMonotone, CountTypes
<1> QED
  BY <1>1, <1>2, <1>5, AtMostTransitive DEF MadeIn

\* A check changes nothing that is stored, and is the only one of its slot.
LEMMA CheckStep ==
  ASSUME HistoryInv, NEW l \in Locations, NEW ok \in BOOLEAN, Check(l, ok)
  PROVE  HistoryInv'
<1>1. PICK s : s = [at |-> l, t |-> now, ok |-> ok]
  OBVIOUS
<1>2. /\ made' = made \cup {s} /\ s \in CheckRecords /\ s.t = now /\ s.at = l
      /\ UNCHANGED <<now, gone, stored, daily, updates, outages>>
  BY <1>1 DEF Check, CheckRecords, HistoryInv, ChecksInv
<1>3. IsFiniteSet(made') /\ made \in SUBSET made' /\ made' \in SUBSET CheckRecords
  BY <1>2, FS_AddElement DEF HistoryInv, ChecksInv
<1>4. ChecksInv'
  <2>1. \A r \in made' : r.t <= now'
    BY <1>2 DEF HistoryInv, ChecksInv
  <2>2. \A q, r \in made' : q.at = r.at /\ q.t = r.t => q = r
    BY <1>2 DEF Check, HistoryInv, ChecksInv
  <2>3. \A r \in gone' : (HourOf(r.t) < Cur)'
    BY <1>2 DEF HistoryInv, ChecksInv, HourOf, Cur
  <2> QED
    BY <1>2, <1>3, <2>1, <2>2, <2>3 DEF HistoryInv, ChecksInv
<1>5. HoursInv'
  BY <1>2, <1>3, TruthfulGrows DEF HistoryInv, HoursInv, Cur
<1>6. ASSUME NEW d PROVE /\ MadeOn(d) \in Counts /\ MadeOn(d)' \in Counts
                          /\ AtMost(MadeOn(d), MadeOn(d)')
  <2>1. PICK A, B : /\ A = {r \in made : DayOf(HourOf(r.t)) = d}
                    /\ B = {r \in made' : DayOf(HourOf(r.t)) = d}
    OBVIOUS
  <2>2. A \in SUBSET B /\ B \in SUBSET made' /\ IsFiniteSet(B) /\ IsFiniteSet(A)
    <3>1. A \in SUBSET B /\ B \in SUBSET made'
      BY <1>3, <2>1
    <3> QED
      BY <1>3, <3>1, FS_Subset
  <2>3. AtMost(Count(A), Count(B)) /\ Count(A) \in Counts /\ Count(B) \in Counts
    BY <2>2, CountMonotone, CountTypes
  <2>4. MadeOn(d) = Count(A) /\ MadeOn(d)' = Count(B)
    BY <2>1 DEF MadeOn, DayOf, HourOf, Count
  <2> QED
    BY <2>3, <2>4
<1>7. ASSUME NEW d, NEW c \in Checked, AtMost(c, MadeOn(d)) PROVE AtMost(c, MadeOn(d)')
  BY <1>6, <1>7, AtMostTransitive DEF Checked
<1>8. /\ \A d : DaySum(d, stored)' = DaySum(d, stored) /\ Whole(d, Cur)' = Whole(d, Cur)
      /\ Today' = Today
  BY <1>2 DEF Today, Cur, Whole, Kept
<1>9. ASSUME NEW w \in Workers PROVE UpdateInv(w)'
  BY <1>2, <1>7, <1>8 DEF HistoryInv, UpdateInv
<1>10. ASSUME NEW d \in DOMAIN daily' PROVE DailyInv(d)'
  BY <1>2, <1>7, <1>8 DEF HistoryInv, DailyInv
<1> QED
  BY <1>2, <1>4, <1>5, <1>9, <1>10 DEF HistoryInv

\* Raw samples expire only once their hour is over.
LEMMA RawExpiresStep ==
  ASSUME HistoryInv, NEW s \in raw, RawExpires(s)
  PROVE  HistoryInv'
<1>1. /\ gone' = gone \cup {s} /\ HourOf(s.t) < Cur - 1
      /\ UNCHANGED <<now, made, stored, daily, updates, outages>>
  BY DEF RawExpires
<1>2. now \in Nat /\ s \in CheckRecords
  BY DEF raw, HistoryInv, ChecksInv
<1>3. Cur \in Nat /\ HourOf(s.t) \in Nat
  BY <1>2, Clock DEF CheckRecords
<1>4. ChecksInv'
  <2>1. \A r \in gone' : HourOf(r.t) < Cur
    BY <1>1, <1>3 DEF HistoryInv, ChecksInv
  <2>2. gone' \subseteq made
    BY <1>1 DEF HistoryInv, ChecksInv, raw
  <2> QED
    BY <1>1, <2>1, <2>2 DEF HistoryInv, ChecksInv, HourOf, Cur
<1> QED
  BY <1>1, <1>4
  DEF HistoryInv, HoursInv, UpdateInv, DailyInv, Today, Cur, Whole, Kept, MadeOn

\* Hours that only get richer keep the invariant.
LEMMA RicherHours ==
  ASSUME HistoryInv, UNCHANGED <<now, made, gone, daily, updates>>, HoursInv',
         \A h : \A l \in Locations : Stored(h)[l].total <= Stored(h)'[l].total
  PROVE  HistoryInv'
<1>1. ChecksInv'
  BY DEF HistoryInv, ChecksInv, HourOf, Cur
<1>3. ASSUME NEW d PROVE /\ DaySum(d, stored).total <= DaySum(d, stored)'.total
                          /\ DaySum(d, stored) \in Counts /\ DaySum(d, stored)' \in Counts
  <2>1. Truthful(made, stored) /\ Truthful(made, stored') /\ made \in SUBSET CheckRecords
        /\ IsFiniteSet(made)
    BY DEF HistoryInv, HoursInv, ChecksInv
  <2>2. DaySum(d, stored) \in Counts /\ DaySum(d, stored') \in Counts
    BY <2>1, DaySumAtMost DEF Checked
  <2>3. DaySum(d, stored).total <= DaySum(d, stored').total
    <3>1. /\ IsFiniteSet(DOMAIN stored) /\ \A h \in DOMAIN stored : stored[h] \in Hourly
          /\ IsFiniteSet(DOMAIN stored') /\ \A h \in DOMAIN stored' : stored'[h] \in Hourly
      BY <2>1 DEF Truthful
    <3>2. \A h \in HoursOf(d, stored), l \in Locations :
            stored[h][l].total
              <= (IF h \in DOMAIN stored' THEN stored'[h] ELSE Placeholder)[l].total
      BY DEF Stored, HoursOf
    <3> QED
      BY <3>1, <3>2, DaySumOrder
  <2> QED
    BY <2>2, <2>3
<1>4. /\ Today' = Today /\ \A d : MadeOn(d)' = MadeOn(d) /\ Whole(d, Cur)' = Whole(d, Cur)
  BY DEF Today, Cur, MadeOn, Whole, Kept
<1>5. ASSUME NEW d, NEW c \in Checked, c.total <= DaySum(d, stored).total
      PROVE  c.total <= DaySum(d, stored)'.total
  BY <1>3, <1>5 DEF Checked, Counts
<1>6. ASSUME NEW w \in Workers PROVE UpdateInv(w)'
  BY <1>4, <1>5 DEF HistoryInv, UpdateInv
<1>7. ASSUME NEW d \in DOMAIN daily PROVE DailyInv(d)'
  BY <1>4, <1>5 DEF HistoryInv, DailyInv
<1> QED
  BY <1>1, <1>6, <1>7 DEF HistoryInv

\* RollupHour stores what is true, and never less than was stored.
LEMMA RollupStep ==
  ASSUME HistoryInv, NEW h \in 0..Cur, NEW down \in SUBSET Locations, NEW mark \in BOOLEAN,
         RollupHour(h, down, mark)
  PROVE  HistoryInv'
<1>1. PICK m : m = mergeStored(computeAggregate(h, down), Stored(h))
  OBVIOUS
<1>2. /\ UNCHANGED <<now, made, gone, daily, updates>>
      /\ \/ stored' = With(stored, h, m)
         \/ stored' = Without(stored, {h}) /\ m = Placeholder
         \/ stored' = stored
  BY <1>1 DEF RollupHour
<1>3. /\ m \in Hourly
      /\ \A l \in Locations : AtMost(m[l], MadeIn(made, l, h))
      /\ \A l \in Locations : Stored(h)[l].total <= m[l].total
  BY <1>1, Merged DEF HistoryInv
<1>4. Cur \in Nat /\ h \in Nat /\ h <= Cur /\ Cur' = Cur
  BY <1>2, Clock DEF HistoryInv, ChecksInv, Cur
<1>5. \A k : \A l \in Locations : Stored(k)[l].total \in Nat
  BY StoredType DEF HistoryInv, Hourly, Checked, Counts
<1>6. CASE stored' = With(stored, h, m)
  <2>1. /\ DOMAIN stored' = DOMAIN stored \cup {h} /\ stored'[h] = m
        /\ \A k \in DOMAIN stored : k # h => stored'[k] = stored[k]
    BY <1>6 DEF With
  <2>2. HoursInv'
    <3>1. DOMAIN stored' \subseteq Nat /\ IsFiniteSet(DOMAIN stored')
      BY <1>4, <2>1, FS_AddElement DEF HistoryInv, HoursInv, Truthful
    <3>2. \A k \in DOMAIN stored' : stored'[k] \in Hourly
      BY <1>3, <2>1 DEF HistoryInv, HoursInv, Truthful
    <3>3. \A k \in DOMAIN stored', l \in Locations : AtMost(stored'[k][l], MadeIn(made, l, k))
      BY <1>3, <2>1 DEF HistoryInv, HoursInv, Truthful
    <3>4. \A k \in DOMAIN stored' : k <= Cur
      BY <1>4, <2>1 DEF HistoryInv, HoursInv
    <3> QED
      BY <1>2, <1>4, <3>1, <3>2, <3>3, <3>4 DEF HoursInv, Truthful
  <2>3. \A k : \A l \in Locations : Stored(k)[l].total <= Stored(k)'[l].total
    <3>1. ASSUME NEW k, k # h PROVE Stored(k)' = Stored(k)
      BY <2>1, <3>1 DEF Stored
    <3>2. Stored(h)' = m
      BY <2>1 DEF Stored
    <3> QED
      BY <1>3, <1>5, <3>1, <3>2
  <2> QED
    BY <1>2, <2>2, <2>3, RicherHours
<1>7. CASE stored' = Without(stored, {h}) /\ m = Placeholder
  <2>1. /\ DOMAIN stored' = DOMAIN stored \ {h}
        /\ \A k \in DOMAIN stored' : stored'[k] = stored[k]
    BY <1>7 DEF Without
  <2>2. HoursInv'
    <3>1. DOMAIN stored' \subseteq Nat /\ IsFiniteSet(DOMAIN stored')
      BY <2>1, FS_RemoveElement DEF HistoryInv, HoursInv, Truthful
    <3>2. \A k \in DOMAIN stored' : stored'[k] \in Hourly
      BY <2>1 DEF HistoryInv, HoursInv, Truthful
    <3>3. \A k \in DOMAIN stored', l \in Locations : AtMost(stored'[k][l], MadeIn(made, l, k))
      BY <2>1 DEF HistoryInv, HoursInv, Truthful
    <3>4. \A k \in DOMAIN stored' : k <= Cur
      BY <2>1 DEF HistoryInv, HoursInv
    <3> QED
      BY <1>2, <1>4, <3>1, <3>2, <3>3, <3>4 DEF HoursInv, Truthful
  <2>3. \A k : \A l \in Locations : Stored(k)[l].total <= Stored(k)'[l].total
    <3>1. ASSUME NEW k, k # h PROVE Stored(k)' = Stored(k)
      BY <2>1, <3>1 DEF Stored
    <3>2. Stored(h)' = Placeholder
      BY <2>1 DEF Stored
    <3> QED
      BY <1>3, <1>5, <1>7, <3>1, <3>2
  <2> QED
    BY <1>2, <2>2, <2>3, RicherHours
<1>8. CASE stored' = stored
  <2>1. HoursInv'
    BY <1>2, <1>4, <1>8 DEF HistoryInv, HoursInv
  <2>2. \A k : \A l \in Locations : Stored(k)[l].total <= Stored(k)'[l].total
    <3>1. \A k : Stored(k)' = Stored(k)
      BY <1>8 DEF Stored
    <3> QED
      BY <1>5, <3>1
  <2> QED
    BY <1>2, <2>1, <2>2, RicherHours
<1> QED
  BY <1>2, <1>6, <1>7, <1>8

\* The days that a pass or a backfill rebuilds are over, and all their hours were
\* kept when it began; but a pass may find one day of retention too short.
LEMMA RebuiltDays ==
  ASSUME now \in Nat, NEW w \in Workers, NEW began \in 0..Cur, NEW d \in Nat,
         MayUpdate(w, began, d)
  PROVE  /\ d < Today
         /\ Whole(d, began) \/ (w = "pass" /\ RetentionDays = 1)
<1>1. /\ DayHours \in Nat /\ DayHours > 0 /\ RetentionDays \in Nat /\ RetentionDays > 0
      /\ d * DayHours \in Nat /\ KeptHours \in Nat /\ began \in Nat
      /\ DayOf(began) <= Today /\ DayOf(began) \in Int /\ Today \in Int
  BY HistoryAssumption, Clock
<1>2. d < Today
  BY <1>1 DEF MayUpdate
<1>3. CASE w # "pass"
  <2>1. d >= FirstFull(began)
    BY <1>3 DEF MayUpdate
  <2>2. PICK oldest : oldest = began - (KeptHours - 1) /\ oldest \in Int
    BY <1>1
  <2>3. FirstFull(began) = IF oldest <= 0 THEN 0 ELSE DayOf(oldest + DayHours - 1)
    BY <2>2 DEF FirstFull, Oldest
  <2>4. d * DayHours >= oldest
    BY <2>1, <2>2, <2>3, FirstFullDay
  <2> QED
    BY <1>1, <1>2, <2>2, <2>4 DEF Whole, Kept
<1>4. CASE w = "pass" /\ RetentionDays # 1
  <2>1. d = DayOf(began - 1)
    BY <1>4 DEF MayUpdate
  <2>2. began - 1 < d * DayHours + DayHours
    BY <1>1, <2>1, DayBounds
  <2>3. KeptHours >= DayHours + DayHours
    <3>1. PICK more \in Nat : RetentionDays = more + 2
      <4>1. RetentionDays - 2 \in Nat /\ RetentionDays = (RetentionDays - 2) + 2
        BY <1>1, <1>4
      <4> QED
        BY <4>1
    <3>2. KeptHours = more * DayHours + (DayHours + DayHours)
      BY <1>1, <3>1 DEF KeptHours
    <3>3. more * DayHours \in Nat
      BY <1>1
    <3> QED
      BY <1>1, <3>2, <3>3
  <2> QED
    BY <1>1, <1>2, <2>2, <2>3 DEF Whole, Kept
<1> QED
  BY <1>2, <1>3, <1>4

\* What a worker reads is what is stored.
LEMMA UpdateReadStep ==
  ASSUME HistoryInv, NEW w \in Workers, NEW began \in 0..Cur, NEW d \in 0..Today,
         UpdateDailyRead(w, began, d)
  PROVE  HistoryInv'
<1>1. PICK u : u = [day |-> d, sum |-> DaySum(d, stored), whole |-> Whole(d, began)]
  OBVIOUS
<1>2. /\ UNCHANGED <<now, made, gone, stored, daily>> /\ MayUpdate(w, began, d)
      /\ updates' = [updates EXCEPT ![w] = u]
  BY <1>1 DEF UpdateDailyRead
<1>3. u.day = d /\ u.sum = DaySum(d, stored) /\ u.whole = Whole(d, began)
  BY <1>1
<1>4. now \in Nat /\ d \in Nat
  BY Clock DEF HistoryInv, ChecksInv
<1>5. d < Today /\ (Whole(d, began) \/ (w = "pass" /\ RetentionDays = 1))
  BY <1>2, <1>4, RebuiltDays
<1>6. DaySum(d, stored) \in Checked /\ AtMost(DaySum(d, stored), MadeOn(d))
  BY DaySumAtMost DEF HistoryInv, HoursInv, ChecksInv, MadeOn
<1>7. DaySum(d, stored).total <= DaySum(d, stored).total
  BY <1>6 DEF Checked, Counts
<1>8. /\ Today' = Today /\ Cur' = Cur
      /\ \A e : /\ MadeOn(e)' = MadeOn(e) /\ DaySum(e, stored)' = DaySum(e, stored)
                /\ Whole(e, Cur)' = Whole(e, Cur)
  BY <1>2 DEF Today, Cur, MadeOn, Whole, Kept
<1>9. ChecksInv' /\ HoursInv' /\ \A e \in DOMAIN daily' : DailyInv(e)'
  BY <1>2, <1>8 DEF HistoryInv, ChecksInv, HoursInv, DailyInv
<1>10. ASSUME NEW v \in Workers PROVE UpdateInv(v)'
  <2>1. CASE v = w
    <3>1. updates'[v] = u
      BY <1>2, <2>1 DEF HistoryInv
    <3> QED
      BY <1>3, <1>4, <1>5, <1>6, <1>7, <1>8, <2>1, <3>1 DEF UpdateInv
  <2>2. CASE v # w
    <3>1. updates'[v] = updates[v] /\ UpdateInv(v)
      BY <1>2, <2>2 DEF HistoryInv
    <3> QED
      BY <1>8, <3>1 DEF UpdateInv
  <2> QED
    BY <2>1, <2>2
<1> QED
  BY <1>2, <1>9, <1>10 DEF HistoryInv

\* What a worker writes is no fuller than the day's hours, while these are kept.
LEMMA UpdateWriteStep ==
  ASSUME HistoryInv, NEW w \in Workers, UpdateDailyWrite(w)
  PROVE  HistoryInv'
<1>1. PICK u : u = updates[w]
  OBVIOUS
<1>2. /\ UNCHANGED <<now, made, gone, stored>> /\ u # NoUpdate
      /\ updates' = [updates EXCEPT ![w] = NoUpdate]
      /\ daily' = With(daily, u.day, u.sum)
  BY <1>1 DEF UpdateDailyWrite
<1>3. /\ u.day \in Nat /\ u.day < Today /\ u.sum \in Checked /\ AtMost(u.sum, MadeOn(u.day))
      /\ Whole(u.day, Cur) => u.sum.total <= DaySum(u.day, stored).total
  BY <1>1, <1>2 DEF HistoryInv, UpdateInv
<1>4. /\ Today' = Today /\ Cur' = Cur
      /\ \A e : /\ MadeOn(e)' = MadeOn(e) /\ DaySum(e, stored)' = DaySum(e, stored)
                /\ Whole(e, Cur)' = Whole(e, Cur)
  BY <1>2 DEF Today, Cur, MadeOn, Whole, Kept
<1>5. ChecksInv' /\ HoursInv'
  BY <1>2, <1>4 DEF HistoryInv, ChecksInv, HoursInv
<1>6. ASSUME NEW v \in Workers PROVE UpdateInv(v)'
  <2>1. updates'[v] = NoUpdate \/ (updates'[v] = updates[v] /\ UpdateInv(v))
    BY <1>2 DEF HistoryInv
  <2> QED
    BY <1>4, <2>1 DEF UpdateInv
<1>7. ASSUME NEW d \in DOMAIN daily' PROVE DailyInv(d)'
  <2>1. CASE d \in DOMAIN daily /\ daily'[d] = daily[d]
    BY <1>4, <2>1 DEF HistoryInv, DailyInv
  <2>2. CASE d = u.day /\ daily'[d] = u.sum
    BY <1>3, <1>4, <2>2 DEF DailyInv
  <2> QED
    BY <1>2, <2>1, <2>2 DEF With
<1> QED
  BY <1>2, <1>5, <1>6, <1>7 DEF HistoryInv

\* An hour that expires is of no day whose hours are all kept.
LEMMA RollupExpiresStep ==
  ASSUME HistoryInv, NEW h \in DOMAIN stored, RollupExpires(h)
  PROVE  HistoryInv'
<1>1. /\ ~Kept(h, Cur) /\ UNCHANGED <<now, made, gone, daily, updates>>
      /\ DOMAIN stored' = DOMAIN stored \ {h}
      /\ \A k \in DOMAIN stored' : stored'[k] = stored[k]
  BY DEF RollupExpires, Without
<1>2. IsFiniteSet(DOMAIN stored')
  BY <1>1, FS_RemoveElement DEF HistoryInv, HoursInv, Truthful
<1>3. /\ Today' = Today /\ Cur' = Cur
      /\ \A d : MadeOn(d)' = MadeOn(d) /\ Whole(d, Cur)' = Whole(d, Cur)
  BY <1>1 DEF Today, Cur, MadeOn, Whole, Kept
<1>4. ChecksInv' /\ HoursInv'
  BY <1>1, <1>2, <1>3 DEF HistoryInv, ChecksInv, HoursInv, Truthful
<1>5. ASSUME NEW d \in Nat, Whole(d, Cur) PROVE DaySum(d, stored)' = DaySum(d, stored)
  <2>1. /\ Cur \in Nat /\ KeptHours \in Nat /\ h \in Nat /\ d * DayHours \in Nat
    BY Clock, HistoryAssumption DEF HistoryInv, ChecksInv, HoursInv, Truthful
  <2>2. DayOf(h) # d
    <3>1. ASSUME DayOf(h) = d PROVE d * DayHours <= h
      BY <2>1, <3>1, DayBounds
    <3> QED
      BY <1>1, <1>5, <2>1, <3>1 DEF Whole, Kept
  <2>3. PICK H : H = HoursOf(d, stored) /\ H = HoursOf(d, stored')
    BY <1>1, <2>2 DEF HoursOf
  <2>4. [k \in H |-> aggregate(stored'[k])] = [k \in H |-> aggregate(stored[k])]
    BY <1>1, <2>3 DEF HoursOf
  <2> QED
    BY <2>3, <2>4 DEF DaySum
<1>6. ASSUME NEW w \in Workers PROVE UpdateInv(w)'
  BY <1>1, <1>3, <1>5 DEF HistoryInv, UpdateInv
<1>7. ASSUME NEW d \in DOMAIN daily' PROVE DailyInv(d)'
  BY <1>1, <1>3, <1>5 DEF HistoryInv, DailyInv
<1> QED
  BY <1>1, <1>4, <1>6, <1>7 DEF HistoryInv

\* Time makes a day's hours kept no longer, never again.
LEMMA TickStep ==
  ASSUME HistoryInv, Tick
  PROVE  HistoryInv'
<1>1. now \in Nat /\ now' = now + 1 /\ UNCHANGED <<made, gone, stored, daily, updates>>
  BY DEF Tick, HistoryInv, ChecksInv
<1>2. Cur \in Nat /\ Cur' \in Nat /\ Cur <= Cur'
  <2>1. HourLen \in Nat /\ HourLen > 0
    BY HistoryAssumption
  <2>2. HourOf(now) <= HourOf(now + 1) /\ HourOf(now + 1) \in Nat
    BY <1>1, <2>1, QuotientMonotone, Quotient DEF HourOf
  <2> QED
    BY <1>1, <2>2, Clock DEF Cur, HourOf
<1>3. Today \in Nat /\ Today' \in Nat /\ Today <= Today'
  <2>1. DayHours \in Nat /\ DayHours > 0
    BY HistoryAssumption
  <2>2. PICK a \in Nat, b \in Nat : a = Cur /\ b = Cur' /\ a <= b
    BY <1>2
  <2>3. a \div DayHours \in Nat /\ b \div DayHours \in Nat
        /\ a \div DayHours <= b \div DayHours
    <3>1. a \in Int /\ b \in Int /\ a >= 0 /\ b >= 0
      BY <2>2
    <3>2. a \div DayHours \in Nat
      BY <2>1, <3>1, Quotient
    <3>3. b \div DayHours \in Nat
      BY <2>1, <3>1, Quotient
    <3>4. a \div DayHours <= b \div DayHours
      BY <2>1, <2>2, <3>1, QuotientMonotone
    <3> QED
      BY <3>2, <3>3, <3>4
  <2>4. Today = a \div DayHours /\ Today' = b \div DayHours
    BY <2>2 DEF Today, DayOf
  <2> QED
    BY <2>3, <2>4
<1>4. ChecksInv'
  <2>1. \A s \in made' : s.t <= now'
    BY <1>1 DEF HistoryInv, ChecksInv, CheckRecords
  <2>2. ASSUME NEW s \in gone' PROVE (HourOf(s.t) < Cur)'
    <3>1. s \in CheckRecords /\ HourOf(s.t) < Cur
      BY <1>1 DEF HistoryInv, ChecksInv
    <3>2. HourOf(s.t) \in Nat
      BY <1>1, <3>1, Clock DEF CheckRecords
    <3>3. HourOf(s.t)' = HourOf(s.t)
      BY DEF HourOf
    <3> QED
      BY <1>2, <3>1, <3>2, <3>3
  <2> QED
    BY <1>1, <2>1, <2>2 DEF HistoryInv, ChecksInv
<1>5. HoursInv'
  BY <1>1, <1>2 DEF HistoryInv, HoursInv, Truthful
<1>6. ASSUME NEW d \in Nat
      PROVE  /\ Whole(d, Cur)' => Whole(d, Cur) /\ DaySum(d, stored)' = DaySum(d, stored)
             /\ MadeOn(d)' = MadeOn(d) /\ (d < Today => d < Today')
  <2>1. KeptHours \in Nat /\ d * DayHours \in Nat
    BY <1>1, Clock, HistoryAssumption
  <2>2. Whole(d, Cur)' => Whole(d, Cur)
    BY <1>2, <2>1 DEF Whole, Kept
  <2> QED
    BY <1>1, <1>3, <2>2 DEF MadeOn
<1>7. ASSUME NEW w \in Workers PROVE UpdateInv(w)'
  BY <1>1, <1>6 DEF HistoryInv, UpdateInv
<1>8. ASSUME NEW d \in DOMAIN daily' PROVE DailyInv(d)'
  BY <1>1, <1>6 DEF HistoryInv, DailyInv
<1> QED
  BY <1>1, <1>4, <1>5, <1>7, <1>8 DEF HistoryInv

\* Every step keeps the invariant.
LEMMA HistoryStep ==
  ASSUME HistoryInv, [Next]_vars
  PROVE  HistoryInv'
<1>1. CASE UNCHANGED vars
  BY <1>1
  DEF vars, HistoryInv, ChecksInv, HoursInv, UpdateInv, DailyInv, Today, Cur, HourOf, Whole,
      Kept, MadeOn
<1>2. CASE Next
  BY <1>2, TickStep, CheckStep, RawExpiresStep, RollupExpiresStep, RollupStep, UpdateReadStep,
     UpdateWriteStep
  DEF Next
<1> QED
  BY <1>1, <1>2

\* In every reachable state the hours stored, the sums of days that workers hold
\* (UpdateDailyRollup) and the daily rollups count only checks that were made, each
\* once, and are no fuller than the day's hours while all of these are kept.
THEOREM HistoryInvariant == Spec => []HistoryInv
<1>1. Init => HistoryInv
  BY InitHistory
<1>2. HistoryInv /\ [Next]_vars => HistoryInv'
  BY HistoryStep
<1> QED
  BY <1>1, <1>2, PTL DEF Spec

-----------------------------------------------------------------------------
(* The daily rollups and the uptime.                                       *)

\* What DaysDropByRaceOrDelay says of a step that lowers the rollup of day d.
RaceOrDelay(d) ==
  \E w \in Workers :
     /\ updates[w].day = d
     /\ \/ updates[w].sum # DaySum(d, stored)
        \/ /\ ~Whole(d, Cur)
           /\ updates[w].whole \/ (w = "pass" /\ RetentionDays = 1)

\* A write that lowers a daily rollup is one of an outdated sum, or late.
LEMMA DropStep ==
  ASSUME HistoryInv, [Next]_vars, NEW d \in DOMAIN daily, daily'[d].total < daily[d].total
  PROVE  RaceOrDelay(d)
<1>1. DailyInv(d) /\ daily[d].total \in Nat
  BY DEF HistoryInv, DailyInv, Checked, Counts
<1>2. daily' # daily
  BY <1>1
<1>3. PICK w \in Workers : UpdateDailyWrite(w)
  BY <1>2 DEF Next, vars, Tick, Check, RawExpires, RollupExpires, RollupHour, UpdateDailyRead
<1>4. updates[w] # NoUpdate /\ daily' = With(daily, updates[w].day, updates[w].sum)
  BY <1>3 DEF UpdateDailyWrite
<1>5. updates[w].day = d /\ daily'[d] = updates[w].sum
  BY <1>1, <1>4 DEF With
<1>6. updates[w].sum.total \in Nat /\ (updates[w].whole \/ (w = "pass" /\ RetentionDays = 1))
  BY <1>4 DEF HistoryInv, UpdateInv, Checked, Counts
<1>7. ASSUME updates[w].sum = DaySum(d, stored), Whole(d, Cur) PROVE FALSE
  BY <1>1, <1>5, <1>6, <1>7 DEF DailyInv
<1> QED
  BY <1>5, <1>6, <1>7 DEF RaceOrDelay

\* A daily rollup loses checks only when a worker writes a sum that the day's hours
\* no longer have (UpdateDailyRollup), or when its run, which keeps the window it
\* began with, takes so long that hours of the day expire; never because the window
\* begins inside the day.
THEOREM OnlyRacesOrDelaysDrop == Spec => DaysDropByRaceOrDelay
<1>1. HistoryInv /\ [Next]_vars =>
        [\A d \in DOMAIN daily : daily'[d].total < daily[d].total => RaceOrDelay(d)]_vars
  BY DropStep
<1> QED
  BY <1>1, HistoryInvariant, PTL DEF Spec, DaysDropByRaceOrDelay, RaceOrDelay

\* What the pages read counts only checks that were made, and all that the
\* locations that answer have checked this hour.
LEMMA PagesTrue ==
  ASSUME HistoryInv, NEW down \in SUBSET Locations,
         NEW hours, hours = HistoryHours(down), NEW live, live = liveHour(down)
  PROVE  /\ Truthful(made, hours) /\ \A h \in DOMAIN hours : h <= Cur
         /\ live \in Hourly /\ \A l \in Locations \ down : live[l] = MadeIn(made, l, Cur)
         /\ live # Placeholder => Cur \in DOMAIN hours /\ hours[Cur] = live
<1>1. Cur \in Nat
  BY Clock DEF HistoryInv, ChecksInv
<1>2. PICK kept :
        kept = Without(stored, {h \in DOMAIN stored : DayOf(h) < Today - RetentionDays})
  OBVIOUS
<1>3. DOMAIN kept \in SUBSET DOMAIN stored /\ \A h \in DOMAIN kept : kept[h] = stored[h]
  BY <1>2 DEF Without
<1>4. /\ Truthful(made, kept) /\ \A h \in DOMAIN kept : h <= Cur
  <2>1. IsFiniteSet(DOMAIN kept)
    BY <1>3, FS_Subset DEF HistoryInv, HoursInv, Truthful
  <2> QED
    BY <1>3, <2>1 DEF HistoryInv, HoursInv, Truthful
<1>5. /\ live \in Hourly
      /\ \A l \in Locations : AtMost(live[l], MadeIn(made, l, Cur))
      /\ \A l \in Locations \ down : live[l] = MadeIn(made, l, Cur)
  BY Merged DEF HistoryInv, liveHour
<1>6. CASE live = Placeholder
  <2>1. hours = kept
    BY <1>2, <1>6 DEF HistoryHours
  <2> QED
    BY <1>4, <1>5, <1>6, <2>1
<1>7. CASE live # Placeholder
  <2>1. hours = With(kept, Cur, live)
    BY <1>2, <1>7 DEF HistoryHours
  <2>2. /\ DOMAIN hours = DOMAIN kept \cup {Cur} /\ hours[Cur] = live
        /\ \A h \in DOMAIN kept : h # Cur => hours[h] = kept[h]
    BY <2>1 DEF With
  <2>3. IsFiniteSet(DOMAIN hours)
    BY <1>4, <2>2, FS_AddElement DEF Truthful
  <2>4. Truthful(made, hours)
    BY <1>1, <1>4, <1>5, <2>2, <2>3 DEF Truthful
  <2>5. \A h \in DOMAIN hours : h <= Cur
    BY <1>1, <1>4, <2>2
  <2> QED
    BY <1>5, <2>2, <2>4, <2>5
<1> QED
  BY <1>6, <1>7

\* A day of the page, from its daily rollup or from its hours.
LEMMA ByDayAtMost ==
  ASSUME HistoryInv, NEW hours, Truthful(made, hours), NEW d
  PROVE  ByDay(hours, d) \in Checked /\ AtMost(ByDay(hours, d), MadeOn(d))
<1>1. made \in SUBSET CheckRecords /\ IsFiniteSet(made)
  BY DEF HistoryInv, ChecksInv
<1>2. DaySum(d, hours) \in Checked /\ AtMost(DaySum(d, hours), MadeOn(d))
  BY <1>1, DaySumAtMost DEF MadeOn
<1> QED
  BY <1>2 DEF ByDay, HistoryInv, DailyInv

DaysUp(hours, days) == [d \in (Today - days + 1)..Today |-> ByDay(hours, d)]

\* The uptime is a total over its days.
LEMMA UptimeTotal ==
  ASSUME HistoryInv, NEW hours, Truthful(made, hours), NEW days \in Nat,
         NEW D, D = (Today - days + 1)..Today, NEW f, f = DaysUp(hours, days)
  PROVE  /\ IsFiniteSet(D) /\ Uptime(hours, days) = Total(f, D)
         /\ Uptime(hours, days) \in Checked
<1>1. Today \in Nat
  BY Clock DEF HistoryInv, ChecksInv
<1>2. IsFiniteSet(D)
  BY <1>1, FS_Interval
<1>3. Uptime(hours, days) = Total(f, D)
  BY SumIsTotal DEF Uptime, DaysUp
<1>4. \A d \in D : f[d] = ByDay(hours, d) /\ f[d] \in Counts /\ f[d].failed <= f[d].total
  BY ByDayAtMost DEF Checked, DaysUp
<1>5. Total(f, D) \in Counts /\ Total(f, D).failed <= Total(f, D).total
  BY <1>2, <1>4, TotalType, TotalMonotone
<1> QED
  BY <1>2, <1>3, <1>4, <1>5 DEF Checked

\* The uptime counts what was checked on its days at most.
LEMMA UptimeTrue ==
  ASSUME HistoryInv, NEW down \in SUBSET Locations, NEW hours, hours = HistoryHours(down),
         NEW days \in Nat
  PROVE  AtMost(Uptime(hours, days), Sum([d \in (Today - days + 1)..Today |-> MadeOn(d)]))
<1>1. Truthful(made, hours)
  BY PagesTrue
<1>2. PICK D : D = (Today - days + 1)..Today
  OBVIOUS
<1>3. PICK f : f = DaysUp(hours, days)
  OBVIOUS
<1>4. PICK g : g = [d \in D |-> MadeOn(d)]
  OBVIOUS
<1>5. /\ IsFiniteSet(D) /\ Uptime(hours, days) = Total(f, D)
      /\ \A d \in D : f[d] = ByDay(hours, d) /\ f[d] \in Counts
  <2>1. /\ IsFiniteSet(D)
    BY <1>1, <1>2, <1>3, UptimeTotal
  <2>2. Uptime(hours, days) = Total(f, D)
    BY <1>1, <1>2, <1>3, UptimeTotal
  <2>3. \A d \in D : f[d] = ByDay(hours, d) /\ f[d] \in Counts
    BY <1>1, <1>2, <1>3, ByDayAtMost DEF DaysUp, Checked
  <2> QED
    BY <2>1, <2>2, <2>3
<1>6. Sum(g) = Total(g, D)
  BY <1>4, SumIsTotal
<1>7. \A d \in D : g[d] \in Counts
  <2>1. ASSUME NEW d PROVE MadeOn(d) \in Counts
    <3>1. PICK A : A = {s \in made : DayOf(HourOf(s.t)) = d}
      OBVIOUS
    <3>2. A \in SUBSET made
      BY <3>1
    <3>3. IsFiniteSet(A)
      BY <3>2, FS_Subset DEF HistoryInv, ChecksInv
    <3> QED
      BY <3>1, <3>3, CountTypes DEF MadeOn
  <2> QED
    BY <1>4, <2>1
<1>8. \A d \in D : f[d].total <= g[d].total /\ f[d].failed <= g[d].failed
  BY <1>1, <1>4, <1>5, ByDayAtMost DEF AtMost
<1>9. Total(f, D).total <= Total(g, D).total /\ Total(f, D).failed <= Total(g, D).failed
  BY <1>5, <1>7, <1>8, TotalMonotone
<1> QED
  BY <1>2, <1>4, <1>5, <1>6, <1>9 DEF AtMost

\* The uptime of any number of days never counts a check twice or one that was
\* not made, whichever locations answer and whatever has expired.
THEOREM UptimeIsTrue == Spec => []UptimeCountsOnce
<1>1. HistoryInv => UptimeCountsOnce
  <2> SUFFICES ASSUME HistoryInv, NEW down \in SUBSET Locations,
                      NEW days \in 1..(RetentionDays + 1)
               PROVE  AtMost(Uptime(HistoryHours(down), days),
                             Sum([d \in (Today - days + 1)..Today |-> MadeOn(d)]))
    BY DEF UptimeCountsOnce
  <2>1. days \in Nat
    BY HistoryAssumption
  <2> QED
    BY <2>1, UptimeTrue
<1> QED
  BY <1>1, HistoryInvariant, PTL

-----------------------------------------------------------------------------
(* Failures show.                                                          *)

\* The failures of this hour that can be read are in today's count.
LEMMA HourFailures ==
  ASSUME HistoryInv, NEW down \in SUBSET Locations,
         NEW hours, hours = HistoryHours(down), NEW live, live = liveHour(down),
         NEW failures,
         failures = FailedNow(down),
         failures # {}
  PROVE  /\ Cur \in HoursOf(Today, hours) /\ hours[Cur] = live
         /\ Cardinality(failures) \in Nat \ {0}
         /\ Cardinality(failures) <= ByDay(hours, Today).failed
<1>1. /\ Truthful(made, hours) /\ live \in Hourly
      /\ \A l \in Locations \ down : live[l] = MadeIn(made, l, Cur)
      /\ live # Placeholder => Cur \in DOMAIN hours /\ hours[Cur] = live
  BY PagesTrue
<1>2. made \in SUBSET CheckRecords /\ IsFiniteSet(made) /\ Today \in Nat
  BY Clock DEF HistoryInv, ChecksInv
<1>3. PICK K, A : /\ K = Locations \ down
                  /\ A = {s \in made : s.at \in K /\ HourOf(s.t) = Cur}
  OBVIOUS
<1>4. failures = {s \in A : ~s.ok} /\ A \in SUBSET made
  <2>1. \A s \in made : HourOf(s.t) = Cur => s \in raw
    <3>1. Cur \in Nat
      BY Clock DEF HistoryInv, ChecksInv
    <3> QED
      BY <3>1 DEF HistoryInv, ChecksInv, raw
  <2>2. raw \in SUBSET made
    BY DEF raw
  <2> QED
    BY <1>2, <1>3, <2>1, <2>2 DEF CheckRecords, FailedNow, CheckedNow
<1>5. IsFiniteSet(A) /\ IsFiniteSet(K) /\ IsFiniteSet(Locations)
  BY <1>2, <1>3, <1>4, FS_Subset, HistoryAssumption
<1>6. Total(live, K) = Count(A)
  <2>1. PICK key : key = [s \in A |-> s.at]
    OBVIOUS
  <2>2. PICK part : part = [l \in K |-> {s \in made : s.at = l /\ HourOf(s.t) = Cur}]
    OBVIOUS
  <2>3. Partitions(part, key, A, K) /\ \A l \in K : live[l] = Count(part[l])
    BY <1>1, <1>3, <2>1, <2>2 DEF MadeIn, Partitions
  <2> QED
    BY <1>5, <2>3, CountPartition
<1>7. Count(A).failed = Cardinality(failures) /\ Count(A) \in Counts
  BY <1>4, <1>5, CountTypes
<1>8. Cardinality(failures) \in Nat \ {0}
  <2>1. failures \in SUBSET A
    BY <1>4
  <2>2. IsFiniteSet(failures)
    BY <1>5, <2>1, FS_Subset
  <2> QED
    BY <2>2, FS_EmptySet, FS_CardinalityType
<1>9. Cardinality(failures) <= aggregate(live).failed
  <2>1. \A l \in Locations : live[l] \in Counts
    BY <1>1 DEF Hourly, Checked
  <2>2. Total(live, K).failed <= Total(live, Locations).failed
    BY <1>3, <1>5, <2>1, TotalPart
  <2> QED
    BY <1>1, <1>6, <1>7, <2>2, AggregateType
<1>10. live # Placeholder
  <2>1. PICK s \in A : s \in failures
    BY <1>4
  <2>2. PICK B : B = {r \in made : r.at = s.at /\ HourOf(r.t) = Cur}
    OBVIOUS
  <2>3. B \in SUBSET made /\ s \in B
    BY <1>3, <1>4, <2>1, <2>2
  <2>4. IsFiniteSet(B)
    BY <1>2, <2>3, FS_Subset
  <2>5. Count(B).total > 0
    BY <2>3, <2>4, CountTypes
  <2>6. s.at \in Locations \ down
    BY <1>3, <2>1
  <2>7. live[s.at] = Count(B)
    BY <1>1, <2>2, <2>6 DEF MadeIn
  <2> QED
    BY <2>5, <2>6, <2>7, PlaceholderType
<1>11. Cur \in HoursOf(Today, hours) /\ hours[Cur] = live
  BY <1>1, <1>10 DEF HoursOf, Today
<1>12. ByDay(hours, Today) = DaySum(Today, hours)
  BY <1>2 DEF ByDay
<1>13. aggregate(live).failed <= DaySum(Today, hours).failed
  <2>1. PICK H : H = HoursOf(Today, hours)
    OBVIOUS
  <2>2. PICK f : f = [h \in H |-> aggregate(hours[h])]
    OBVIOUS
  <2>3. DaySum(Today, hours) = Total(f, H)
    BY <2>1, <2>2, SumIsTotal DEF DaySum
  <2>4. H \in SUBSET DOMAIN hours
    BY <2>1 DEF HoursOf
  <2>5. IsFiniteSet(H)
    BY <1>1, <2>4, FS_Subset DEF Truthful
  <2>6. \A h \in H : f[h] \in Counts
    BY <1>1, <2>2, <2>4, AggregateType DEF Truthful, Checked
  <2>7. f[Cur] = aggregate(live) /\ Cur \in H
    BY <1>11, <2>1, <2>2
  <2>8. f[Cur].failed <= Total(f, H).failed
    BY <2>5, <2>6, <2>7, TotalElement
  <2> QED
    BY <2>3, <2>7, <2>8
<1>14. aggregate(live).failed \in Nat /\ DaySum(Today, hours).failed \in Nat
  BY <1>1, <1>2, AggregateType, DaySumAtMost DEF Checked, Counts
<1> QED
  BY <1>8, <1>9, <1>11, <1>12, <1>13, <1>14

NeverPerfect(hours) ==
  \A days \in 1..(RetentionDays + 1) : sla(hours, days) \in 0..(Hundred - 1)

\* A failure keeps the uptime below 100%.
LEMMA FailureInUptime ==
  ASSUME HistoryInv, NEW hours, Truthful(made, hours), ByDay(hours, Today).failed \in Nat \ {0}
  PROVE  NeverPerfect(hours)
<1> SUFFICES ASSUME NEW days \in 1..(RetentionDays + 1) PROVE sla(hours, days) \in 0..(Hundred - 1)
  BY DEF NeverPerfect
<1>1. Today \in Nat /\ days \in Nat /\ days > 0
  BY Clock, HistoryAssumption DEF HistoryInv, ChecksInv
<1>2. PICK D : D = (Today - days + 1)..Today
  OBVIOUS
<1>3. PICK f : f = DaysUp(hours, days)
  OBVIOUS
<1>4. PICK c : c = Uptime(hours, days)
  OBVIOUS
<1>5. IsFiniteSet(D) /\ c = Total(f, D) /\ c \in Checked
  BY <1>1, <1>2, <1>3, <1>4, UptimeTotal
<1>6. \A d \in D : f[d] = ByDay(hours, d) /\ f[d] \in Counts
  BY <1>2, <1>3, ByDayAtMost DEF DaysUp, Checked
<1>7. Today \in D
  BY <1>1, <1>2
<1>8. f[Today].failed <= Total(f, D).failed
  BY <1>5, <1>6, <1>7, TotalElement
<1>9. f[Today].failed > 0 /\ f[Today].failed \in Nat
  BY <1>6, <1>7 DEF Counts
<1>10. PICK total, failed : total = c.total /\ failed = c.failed
  OBVIOUS
<1>11. total \in Nat /\ failed \in Nat /\ failed > 0 /\ failed <= total
  BY <1>5, <1>8, <1>9, <1>10 DEF Checked, Counts
<1>12. PICK success : success = total - failed
  OBVIOUS
<1>13. success \in Nat /\ success < total
  BY <1>11, <1>12
<1>14. FormatPercent(success, total) \in 0..(Hundred - 1)
  BY <1>11, <1>13, PercentBelow
<1>15. sla(hours, days) = FormatPercent(success, total)
  BY <1>4, <1>10, <1>12 DEF sla
<1> QED
  BY <1>14, <1>15

Statuses == {"unknown", "operational", "degraded", "major_outage"}

\* The ladder has four statuses.
LEMMA StatusType == \A r : aggregateStatus(r) \in Statuses
BY DEF aggregateStatus, AggregateFromLocations, Statuses

\* Nothing is worse than a major outage.
LEMMA WorstIsOutage ==
  ASSUME NEW X \in SUBSET Statuses, "major_outage" \in X
  PROVE  Worst(X) = "major_outage"
<1>1. /\ Rank("unknown") = 0 /\ Rank("operational") = 1
      /\ Rank("degraded") = 2 /\ Rank("major_outage") = 3
  BY DEF Rank
<1>2. \A t \in X : Rank(t) <= 3
  BY <1>1 DEF Statuses
<1>3. \E s \in X : \A t \in X : Rank(t) <= Rank(s)
  BY <1>1, <1>2
<1>4. PICK w : w = Worst(X)
  OBVIOUS
<1>5. w \in X /\ \A t \in X : Rank(t) <= Rank(w)
  BY <1>3, <1>4 DEF Worst
<1>6. Rank("major_outage") <= Rank(w)
  BY <1>5
<1>7. w \in Statuses
  BY <1>5
<1>8. w = "major_outage"
  BY <1>1, <1>6, <1>7 DEF Statuses
<1> QED
  BY <1>4, <1>8

\* An hour in which every check failed is a major outage.
LEMMA AllFailing ==
  ASSUME NEW r, \A l \in Locations : r[l] \in Counts /\ r[l].failed = r[l].total,
         NEW k \in Locations, r[k].total > 0
  PROVE  aggregateStatus(r) = "major_outage"
<1>1. PICK L : L = {l \in Locations : r[l].total > 0}
  OBVIOUS
<1>2. PICK st : st = [l \in L |-> LocationFromCounts(r[l].total - r[l].failed, r[l].failed)]
  OBVIOUS
<1>3. aggregateStatus(r) = AggregateFromLocations(st)
  BY <1>1, <1>2 DEF aggregateStatus
<1>4. ASSUME NEW l \in L PROVE st[l] = "outage"
  <2>1. r[l].total \in Nat /\ r[l].failed = r[l].total /\ r[l].total > 0
    BY <1>1, <1>4 DEF Counts
  <2>2. r[l].failed > r[l].total - r[l].failed /\ r[l].failed # 0
    BY <2>1
  <2> QED
    BY <1>2, <2>2 DEF LocationFromCounts
<1>5. DOMAIN st = L /\ k \in L
  BY <1>1, <1>2
<1>6. /\ {l \in DOMAIN st : st[l] # "success"} = DOMAIN st
      /\ {l \in DOMAIN st : st[l] = "outage"} # {}
  BY <1>4, <1>5
<1>7. AggregateFromLocations(st) = "major_outage"
  BY <1>5, <1>6 DEF AggregateFromLocations
<1> QED
  BY <1>3, <1>7

\* When every check of this hour failed and all can be read, the service is down.
LEMMA OutageShows ==
  ASSUME HistoryInv, NEW hours, hours = HistoryHours({}), FailedNow({}) # {},
         CheckedNow = FailedNow({})
  PROVE  /\ currentStatus(hours) = "major_outage"
         /\ dayBar(hours, Today).status = "major_outage"
<1>1. PICK live : live = liveHour({})
  OBVIOUS
<1>2. {} \in SUBSET Locations
  OBVIOUS
<1>3. /\ Truthful(made, hours) /\ \A h \in DOMAIN hours : h <= Cur
      /\ live \in Hourly /\ \A l \in Locations : live[l] = MadeIn(made, l, Cur)
  BY <1>1, <1>2, PagesTrue
<1>4. Cur \in HoursOf(Today, hours) /\ hours[Cur] = live
  BY <1>1, <1>2, HourFailures
<1>5. /\ now \in Nat /\ Cur \in Nat /\ IsFiniteSet(made) /\ made \in SUBSET CheckRecords
  BY Clock DEF HistoryInv, ChecksInv
<1>6. \A s \in made : HourOf(s.t) = Cur => s \in raw /\ ~s.ok
  <2>1. \A s \in made : HourOf(s.t) = Cur => s \in raw
    BY <1>5 DEF HistoryInv, ChecksInv, raw
  <2> QED
    BY <2>1 DEF FailedNow, CheckedNow
<1>7. ASSUME NEW l \in Locations
      PROVE  live[l] \in Counts /\ live[l].failed = live[l].total
  <2>1. PICK B : B = {s \in made : s.at = l /\ HourOf(s.t) = Cur}
    OBVIOUS
  <2>2. B \in SUBSET made /\ {s \in B : ~s.ok} = B
    BY <1>6, <2>1
  <2>3. IsFiniteSet(B)
    BY <1>5, <2>2, FS_Subset
  <2> QED
    <3>1. live[l] = Count(B)
      BY <1>3, <2>1 DEF MadeIn
    <3>2. Count(B) \in Counts /\ Count(B).failed = Count(B).total
      BY <2>2, <2>3, CountTypes
    <3> QED
      BY <3>1, <3>2
<1>8. PICK k \in Locations : live[k].total > 0
  <2>1. PICK s : s \in FailedNow({})
    OBVIOUS
  <2>2. s \in made /\ s.at \in Locations /\ HourOf(s.t) = Cur
    BY <1>5, <2>1 DEF raw, CheckRecords, FailedNow, CheckedNow
  <2>3. PICK B : B = {r \in made : r.at = s.at /\ HourOf(r.t) = Cur}
    OBVIOUS
  <2>4. B \in SUBSET made /\ s \in B
    BY <2>2, <2>3
  <2>5. IsFiniteSet(B)
    BY <1>5, <2>4, FS_Subset
  <2>6. Count(B).total > 0
    BY <2>4, <2>5, CountTypes
  <2> QED
    BY <1>3, <2>2, <2>3, <2>6 DEF MadeIn
<1>9. aggregateStatus(live) = "major_outage"
  BY <1>7, <1>8, AllFailing
<1>10. currentStatus(hours) = "major_outage"
  <2>1. PICK recent : recent = {h \in DOMAIN hours : h * HourLen >= now - MaxAge}
    OBVIOUS
  <2>2. Cur * HourLen >= now - MaxAge
    <3>1. HourLen \in Nat /\ HourLen > 0 /\ MaxAge \in Nat /\ MaxAge >= HourLen
      BY HistoryAssumption
    <3>2. now < (Cur + 1) * HourLen
      BY <1>5, <3>1, Quotient DEF Cur, HourOf
    <3>3. (Cur + 1) * HourLen = Cur * HourLen + HourLen /\ Cur * HourLen \in Nat
      BY <1>5, <3>1
    <3> QED
      BY <1>5, <3>1, <3>2, <3>3
  <2>3. Cur \in recent /\ \A h \in recent : h \in Nat /\ h <= Cur
    BY <1>3, <1>4, <2>1, <2>2 DEF HoursOf, Truthful
  <2>4. PICK m : m = Max(recent)
    OBVIOUS
  <2>5. m \in recent /\ \A h \in recent : m >= h
    <3>1. \E x \in recent : \A y \in recent : x >= y
      BY <2>3
    <3> QED
      BY <2>4, <3>1 DEF Max
  <2>6. m = Cur
    BY <1>5, <2>3, <2>5
  <2> QED
    BY <1>4, <1>9, <2>1, <2>3, <2>4, <2>6 DEF currentStatus
<1>11. dayBar(hours, Today).status = "major_outage"
  <2>1. PICK X : X = {"unknown"} \cup {aggregateStatus(hours[h]) : h \in HoursOf(Today, hours)}
    OBVIOUS
  <2>2. X \in SUBSET Statuses /\ "major_outage" \in X
    <3>1. X \in SUBSET Statuses
      BY <2>1, StatusType DEF Statuses
    <3>2. "major_outage" \in X
      BY <1>4, <1>9, <2>1
    <3> QED
      BY <3>1, <3>2
  <2>3. dayBar(hours, Today).status = Worst(X)
    BY <2>1 DEF dayBar
  <2> QED
    BY <2>2, <2>3, WorstIsOutage
<1> QED
  BY <1>10, <1>11

\* A failed check of this hour that can be read shows at once, in today's bar
\* and in the uptime; and when every location answers and only failures were
\* read, the status and today's bar are a major outage.
THEOREM FailuresAreShown == Spec => []FailuresShow
<1>1. ASSUME HistoryInv, NEW down \in SUBSET Locations, NEW hours, NEW failures,
             hours = HistoryHours(down), failures = FailedNow(down), failures # {}
      PROVE  /\ dayBar(hours, Today).failed >= Cardinality(failures)
             /\ NeverPerfect(hours)
             /\ down = {} /\ CheckedNow = failures =>
                  /\ currentStatus(hours) = "major_outage"
                  /\ dayBar(hours, Today).status = "major_outage"
  <2>1. PICK live : live = liveHour(down)
    OBVIOUS
  <2>2. Truthful(made, hours)
    BY <1>1, <2>1, PagesTrue
  <2>3. /\ Cardinality(failures) \in Nat \ {0}
        /\ Cardinality(failures) <= ByDay(hours, Today).failed
    BY <1>1, <2>1, HourFailures
  <2>4. ByDay(hours, Today).failed \in Nat /\ ByDay(hours, Today).failed \in Nat \ {0}
    BY <1>1, <2>2, <2>3, ByDayAtMost DEF Checked, Counts
  <2>5. dayBar(hours, Today).failed = ByDay(hours, Today).failed
    BY DEF dayBar
  <2>6. NeverPerfect(hours)
    BY <1>1, <2>2, <2>4, FailureInUptime
  <2>7. ASSUME down = {}, CheckedNow = failures
        PROVE  /\ currentStatus(hours) = "major_outage"
               /\ dayBar(hours, Today).status = "major_outage"
    BY <1>1, <2>7, OutageShows
  <2> QED
    BY <2>3, <2>4, <2>5, <2>6, <2>7
<1>2. HistoryInv => FailuresShow
  BY <1>1 DEF FailuresShow, NeverPerfect
<1> QED
  BY <1>2, HistoryInvariant, PTL

-----------------------------------------------------------------------------
(* The latency chart.                                                      *)

\* The values of a function on a finite set are finite, and no more than it.
LEMMA FiniteImage ==
  ASSUME NEW S, IsFiniteSet(S), NEW f, f = [x \in S |-> f[x]],
         NEW T, T = {f[x] : x \in S}
  PROVE  IsFiniteSet(T) /\ Cardinality(T) <= Cardinality(S)
<1>1. f \in [S -> T] /\ \A y \in T : \E x \in S : f[x] = y
  OBVIOUS
<1>2. f \in Surjection(S, T)
  BY <1>1 DEF Surjection
<1> QED
  BY <1>2, FS_Surjection

CountOf(entries) == [e \in entries |-> e.count]

\* A series shows all that its entries count, grouped or not.
LEMMA LineTotal ==
  ASSUME NEW own, IsFiniteSet(own), \A e \in own : e.count \in Counts,
         NEW slot, NEW K, K = {slot[e] : e \in own}, IsFiniteSet(K),
         NEW line, line = Line(own, slot)
  PROVE  Sum(line) = Total(CountOf(own), own) /\ DOMAIN line = K
<1>1. \A e \in own : slot[e] \in K
  OBVIOUS
<1>3. PICK part : part = [i \in K |-> {e \in own : slot[e] = i}]
  OBVIOUS
<1>4. DOMAIN line = K /\ \A i \in K : line[i] = Sum([e \in part[i] |-> e.count])
  BY <1>3 DEF Line
<1>5. PICK count : count = CountOf(own)
  OBVIOUS
<1>6. \A e \in own : count[e] = e.count /\ count[e] \in Counts
  BY <1>5 DEF CountOf
<1>7. ASSUME NEW i \in K PROVE part[i] \in SUBSET own /\ line[i] = Total(count, part[i])
  <2>1. PICK P : P = part[i]
    OBVIOUS
  <2>2. P \in SUBSET own
    BY <1>3, <2>1
  <2>3. PICK f : f = [e \in P |-> e.count]
    OBVIOUS
  <2>4. IsFiniteSet(P) /\ \A e \in P : f[e] \in Counts /\ count[e] \in Counts /\ f[e] = count[e]
    <3>1. IsFiniteSet(P)
      BY <2>2, FS_Subset
    <3>2. \A e \in P : f[e] \in Counts /\ count[e] \in Counts /\ f[e] = count[e]
      BY <1>6, <2>2, <2>3
    <3> QED
      BY <3>1, <3>2
  <2>5. Total(f, P) = Total(count, P)
    BY <2>4, TotalMonotone
  <2>6. line[i] = Sum(f) /\ DOMAIN f = P
    BY <1>4, <2>1, <2>3
  <2> QED
    BY <2>1, <2>2, <2>5, <2>6, SumIsTotal
<1>8. Partitions(part, slot, own, K)
  BY <1>1, <1>3 DEF Partitions
<1>9. Total(line, K) = Total(count, own)
  <2>1. \A e \in own : count[e] \in Counts
    BY <1>6
  <2>2. \A i \in K : line[i] = Total(count, part[i])
    BY <1>7
  <2> QED
    BY <1>8, <2>1, <2>2, TotalFibers
<1> QED
  BY <1>4, <1>5, <1>9, SumIsTotal

InHour(samples, l, h, from) == {s \in samples : s.at = l /\ HourOf(s.t) = h /\ s.t >= from}
RawUsed(l, h, from, down) == {s \in RawHour(l, h, down) : s.t >= from}

\* Raw samples are plotted one by one: no two of a location share a time.
LEMMA RawPlotted ==
  ASSUME HistoryInv, NEW l, NEW h, NEW from, NEW down,
         NEW E, E = RawEntries(l, h, from, down), NEW R, R = RawUsed(l, h, from, down)
  PROVE  /\ IsFiniteSet(E) /\ IsFiniteSet(R) /\ R \in SUBSET made
         /\ \A e \in E : e.count \in Counts /\ \E s \in R : e.t = s.t
         /\ Total(CountOf(E), E) = Count(R)
<1>1. R \in SUBSET made /\ \A s \in R : s.at = l
  BY DEF RawUsed, RawHour, raw
<1>2. IsFiniteSet(R)
  BY <1>1, FS_Subset DEF HistoryInv, ChecksInv
<1>3. \A s \in made : Count({s}) \in Counts
  BY CountTypes, FS_Singleton
<1>4. PICK key : key = [s \in R |-> [t |-> s.t, count |-> Count({s})]]
  OBVIOUS
<1>5. E = {key[s] : s \in R}
  BY <1>4 DEF RawEntries, RawUsed
<1>6. key = [s \in R |-> key[s]]
  BY <1>4
<1>7. IsFiniteSet(E)
  BY <1>2, <1>5, <1>6, FiniteImage
<1>8. PICK part : part = [e \in E |-> {s \in R : key[s] = e}]
  OBVIOUS
<1>9. Partitions(part, key, R, E)
  BY <1>5, <1>8 DEF Partitions
<1>10. \A e \in E : CountOf(E)[e] = Count(part[e])
  <2> SUFFICES ASSUME NEW e \in E PROVE CountOf(E)[e] = Count(part[e])
    OBVIOUS
  <2>1. PICK s \in R : e = key[s]
    BY <1>5
  <2>2. e.t = s.t /\ e.count = Count({s})
    BY <1>4, <2>1
  <2>3. \A r \in R : key[r] = e => r = s
    <3>1. \A r \in R : key[r].t = r.t
      BY <1>4
    <3>2. \A r \in R : r.t = s.t => r = s
      BY <1>1 DEF HistoryInv, ChecksInv
    <3> QED
      BY <2>2, <3>1, <3>2
  <2>4. part[e] = {s}
    BY <1>8, <2>1, <2>3
  <2>5. CountOf(E)[e] = e.count
    BY DEF CountOf
  <2> QED
    BY <2>2, <2>4, <2>5
<1>11. Total(CountOf(E), E) = Count(R)
  BY <1>2, <1>7, <1>9, <1>10, CountPartition
<1>12. \A e \in E : e.count \in Counts /\ \E s \in R : e.t = s.t
  <2> SUFFICES ASSUME NEW e \in E PROVE e.count \in Counts /\ \E s \in R : e.t = s.t
    OBVIOUS
  <2>1. PICK s \in R : e = key[s]
    BY <1>5
  <2>2. e.t = s.t /\ e.count = Count({s})
    BY <1>4, <2>1
  <2> QED
    BY <1>1, <1>3, <2>2
<1> QED
  BY <1>1, <1>2, <1>7, <1>11, <1>12

\* An hour's entries are in the hour and in the range.
LEMMA HourEntriesIn ==
  ASSUME HistoryInv, NEW l \in Locations, NEW h, NEW from \in Int, NEW down,
         NEW e \in HourEntries(l, h, from, down)
  PROVE  /\ e.t \in from..now /\ HourOf(e.t) = h /\ e.count \in Counts
<1>1. now \in Nat /\ made \in SUBSET CheckRecords /\ \A s \in made : s.t <= now
  BY DEF HistoryInv, ChecksInv
<1>2. CASE h \in DOMAIN stored /\ stored[h][l].total > 0 /\ UseRollup(l, h, from, down)
  <2>1. e = [t |-> h * HourLen, count |-> stored[h][l]]
    BY <1>2 DEF HourEntries
  <2>2. e.t = h * HourLen /\ e.count = stored[h][l]
    BY <2>1
  <2>3. h \in Nat /\ h <= Cur /\ stored[h][l] \in Counts
    BY <1>2 DEF HistoryInv, HoursInv, Truthful, Hourly, Checked
  <2>4. HourLen \in Nat /\ HourLen > 0
    BY HistoryAssumption
  <2>5. h * HourLen >= from /\ h * HourLen \in Nat
    BY <1>2, <2>3, <2>4 DEF UseRollup
  <2>6. h * HourLen <= now
    BY <1>1, <2>3, <2>4, QuotientFits DEF Cur, HourOf
  <2>7. HourOf(h * HourLen) = h
    <3>1. PICK p : p = (h * HourLen) \div HourLen
      OBVIOUS
    <3>2. p \in Int
      BY <2>4, <2>5, <3>1, Quotient
    <3>3. h <= p
      BY <2>3, <2>4, <2>5, <3>1, QuotientFits
    <3>4. ~(h + 1 <= p)
      <4>1. (h + 1) * HourLen = h * HourLen + HourLen
        BY <2>3, <2>4
      <4>2. ~((h + 1) * HourLen <= h * HourLen)
        BY <2>4, <2>5, <4>1
      <4> QED
        BY <2>3, <2>4, <2>5, <3>1, <4>2, QuotientFits
    <3> QED
      BY <2>3, <3>1, <3>2, <3>3, <3>4 DEF HourOf
  <2> QED
    BY <1>1, <2>2, <2>3, <2>5, <2>6, <2>7
<1>3. CASE ~(h \in DOMAIN stored /\ stored[h][l].total > 0 /\ UseRollup(l, h, from, down))
  <2>1. PICK E : E = RawEntries(l, h, from, down)
    OBVIOUS
  <2>2. e \in E
    BY <1>3, <2>1 DEF HourEntries
  <2>3. e.count \in Counts /\ \E s \in RawUsed(l, h, from, down) : e.t = s.t
    BY <2>1, <2>2, RawPlotted
  <2>4. PICK s \in RawUsed(l, h, from, down) : e.t = s.t
    BY <2>3
  <2>5. s \in made /\ HourOf(s.t) = h /\ s.t >= from
    BY <2>4 DEF RawUsed, RawHour, raw
  <2> QED
    BY <1>1, <2>3, <2>4, <2>5 DEF CheckRecords
<1> QED
  BY <1>2, <1>3

\* An hour's entries show no check that the hour has not, and no fewer than the
\* raw samples that can be read.
LEMMA HourPlotted ==
  ASSUME HistoryInv, NEW l \in Locations, NEW h \in Int, NEW from \in Int,
         NEW down \in SUBSET Locations, NEW E, E = HourEntries(l, h, from, down)
  PROVE  /\ IsFiniteSet(E) /\ Total(CountOf(E), E) \in Counts
         /\ AtMost(Total(CountOf(E), E), Count(InHour(made, l, h, from)))
         /\ l \notin down =>
              Count(InHour(raw, l, h, from)).total <= Total(CountOf(E), E).total
<1>1. PICK A, B : A = InHour(made, l, h, from) /\ B = InHour(raw, l, h, from)
  OBVIOUS
<1>2. A \in SUBSET made /\ B \in SUBSET A
  BY <1>1 DEF InHour, raw
<1>3. IsFiniteSet(A) /\ IsFiniteSet(B)
  <2>1. IsFiniteSet(A)
    BY <1>2, FS_Subset DEF HistoryInv, ChecksInv
  <2> QED
    BY <1>2, <2>1, FS_Subset
<1>4. /\ Count(A) \in Counts /\ Count(B) \in Counts /\ Count(B).total = Cardinality(B)
  BY <1>3, CountTypes
<1>5. CASE h \in DOMAIN stored /\ stored[h][l].total > 0 /\ UseRollup(l, h, from, down)
  <2>1. PICK e : e = [t |-> h * HourLen, count |-> stored[h][l]]
    OBVIOUS
  <2>2. E = {e} /\ e.count = stored[h][l]
    BY <1>5, <2>1 DEF HourEntries
  <2>3. /\ h \in Nat /\ stored[h][l] \in Counts
        /\ AtMost(stored[h][l], MadeIn(made, l, h))
    BY <1>5 DEF HistoryInv, HoursInv, Truthful, Hourly, Checked
  <2>4. IsFiniteSet(E) /\ Total(CountOf(E), E) = stored[h][l]
    <3>1. IsFiniteSet(E) /\ E # {} /\ IsFiniteSet({})
      BY <2>2, FS_Singleton, FS_EmptySet
    <3>2. PICK x \in E : Total(CountOf(E), E) = Plus(CountOf(E)[x], Total(CountOf(E), E \ {x}))
      BY <3>1, TotalEquations
    <3>3. x = e /\ E \ {x} = {} /\ CountOf(E)[x] = stored[h][l]
      BY <2>2, <3>2 DEF CountOf
    <3>4. Total(CountOf(E), {}) = NoChecks
      BY <3>1, TotalEquations
    <3>5. Total(CountOf(E), E) = Plus(stored[h][l], NoChecks)
      BY <3>2, <3>3, <3>4
    <3> QED
      BY <2>3, <3>1, <3>5, PlusOrder, PlusTypes
  <2>5. h * HourLen >= from /\ h * HourLen \in Nat
    BY <1>5, <2>3, HistoryAssumption DEF UseRollup
  <2>6. Count(A) = MadeIn(made, l, h)
    <3>1. ASSUME NEW s \in made, HourOf(s.t) = h PROVE s.t >= from
      <4>1. s.t \in Nat
        BY DEF HistoryInv, ChecksInv, CheckRecords
      <4>2. h * HourLen <= s.t
        BY <3>1, <4>1, Quotient, HistoryAssumption DEF HourOf
      <4> QED
        BY <2>5, <4>1, <4>2
    <3>2. A = {s \in made : s.at = l /\ HourOf(s.t) = h}
      BY <1>1, <3>1 DEF InHour
    <3> QED
      BY <3>2 DEF MadeIn
  <2>7. ASSUME l \notin down PROVE Count(B).total <= stored[h][l].total
    <3>1. PICK rh : rh = RawHour(l, h, down)
      OBVIOUS
    <3>2. rh = {} \/ stored[h][l].total > Cardinality(rh)
      BY <1>5, <3>1 DEF UseRollup
    <3>3. B \in SUBSET rh /\ rh \in SUBSET made
      BY <1>1, <2>7, <3>1 DEF RawHour, InHour, raw
    <3>4. IsFiniteSet(rh)
      BY <3>3, FS_Subset DEF HistoryInv, ChecksInv
    <3>5. Cardinality(B) <= Cardinality(rh) /\ Cardinality(rh) \in Nat /\ Cardinality(B) \in Nat
      BY <1>3, <3>3, <3>4, FS_Subset, FS_CardinalityType
    <3>6. rh = {} => Cardinality(rh) = 0
      BY FS_EmptySet
    <3> QED
      BY <1>4, <2>3, <3>2, <3>5, <3>6 DEF Counts
  <2> QED
    BY <1>1, <2>3, <2>4, <2>6, <2>7
<1>6. CASE ~(h \in DOMAIN stored /\ stored[h][l].total > 0 /\ UseRollup(l, h, from, down))
  <2>1. E = RawEntries(l, h, from, down)
    BY <1>6 DEF HourEntries
  <2>2. PICK R : R = RawUsed(l, h, from, down)
    OBVIOUS
  <2>3. IsFiniteSet(E) /\ IsFiniteSet(R) /\ Total(CountOf(E), E) = Count(R)
    BY <2>1, <2>2, RawPlotted
  <2>4. R \in SUBSET A /\ (l \notin down => R = B)
    BY <1>1, <2>2 DEF RawUsed, RawHour, InHour, raw
  <2>5. AtMost(Count(R), Count(A)) /\ Count(R) \in Counts
    BY <1>3, <2>3, <2>4, CountMonotone, CountTypes
  <2> QED
    BY <1>1, <1>4, <2>3, <2>4, <2>5 DEF Counts
<1> QED
  BY <1>5, <1>6

Ranged(samples, l, from) == {s \in samples : s.at = l /\ s.t >= from}

\* The counts of the hours of a range make the count of the range.
LEMMA RangeByHour ==
  ASSUME HistoryInv, NEW samples \in SUBSET made, NEW l, NEW from \in Int,
         NEW H, IsFiniteSet(H), \A t \in Nat : t >= from /\ t <= now => HourOf(t) \in H,
         NEW g, \A h \in H : g[h] = Count(InHour(samples, l, h, from))
  PROVE  /\ Total(g, H) = InRange(samples, l, from)
         /\ \A h \in H : g[h] \in Counts
<1>1. IsFiniteSet(samples) /\ made \in SUBSET CheckRecords /\ now \in Nat
  BY FS_Subset DEF HistoryInv, ChecksInv
<1>3. PICK A : A = Ranged(samples, l, from)
  OBVIOUS
<1>4. A \in SUBSET samples
  BY <1>3 DEF Ranged
<1>5. IsFiniteSet(A)
  BY <1>1, <1>4, FS_Subset
<1>6. PICK key : key = [s \in A |-> HourOf(s.t)]
  OBVIOUS
<1>7. PICK part : part = [h \in H |-> InHour(samples, l, h, from)]
  OBVIOUS
<1>8. ASSUME NEW s \in A PROVE key[s] \in H
  <2>1. s.t \in Nat /\ s.t >= from /\ s.t <= now
    BY <1>1, <1>3, <1>4 DEF Ranged, CheckRecords, HistoryInv, ChecksInv
  <2> QED
    BY <1>6, <2>1
<1>9. Partitions(part, key, A, H)
  BY <1>3, <1>6, <1>7, <1>8 DEF Partitions, InHour, Ranged
<1>10. \A h \in H : g[h] = Count(part[h])
  BY <1>7
<1>11. Total(g, H) = Count(A)
  BY <1>5, <1>9, <1>10, CountPartition
<1>12. ASSUME NEW h \in H PROVE g[h] \in Counts
  <2>1. PICK B : B = InHour(samples, l, h, from)
    OBVIOUS
  <2>2. B \in SUBSET samples
    BY <2>1 DEF InHour
  <2>3. IsFiniteSet(B)
    BY <1>1, <2>2, FS_Subset
  <2> QED
    BY <2>1, <2>3, CountTypes
<1> QED
  BY <1>3, <1>11, <1>12 DEF InRange, Ranged

\* The entries of a location are those of its hours, which share none.
LEMMA EntriesTotal ==
  ASSUME HistoryInv, NEW l \in Locations, NEW from \in Int, NEW down \in SUBSET Locations,
         NEW own, own = Entries(l, from, down)
  PROVE  /\ IsFiniteSet(own)
         /\ \A e \in own : e.t \in from..now /\ e.count \in Counts
         /\ Total(CountOf(own), own) \in Counts
         /\ AtMost(Total(CountOf(own), own), InRange(made, l, from))
         /\ l \notin down => InRange(raw, l, from).total <= Total(CountOf(own), own).total
<1>1. PICK H : H = HourOf(from)..Cur
  OBVIOUS
<1>2. /\ \A h \in H : h \in Int
      /\ \A t \in Nat : t >= from /\ t <= now => HourOf(t) \in H
  <2>1. /\ now \in Nat /\ HourOf(from) \in Int /\ Cur \in Int
        /\ \A t \in Int : HourOf(t) \in Int /\ (t <= now => HourOf(t) <= Cur)
    BY Clock DEF HistoryInv, ChecksInv
  <2>2. \A t \in Int : t >= from => HourOf(from) <= HourOf(t)
    BY QuotientMonotone, HistoryAssumption DEF HourOf
  <2> QED
    BY <1>1, <2>1, <2>2
<1>H. IsFiniteSet(H)
  <2>1. HourOf(from) \in Int /\ Cur \in Int
    BY Clock DEF HistoryInv, ChecksInv
  <2> QED
    BY <1>1, <2>1, FS_Interval
<1>3. PICK part : part = [h \in H |-> HourEntries(l, h, from, down)]
  OBVIOUS
<1>4. own = UNION {part[h] : h \in H}
  BY <1>1, <1>3 DEF Entries
<1>5. \A h \in H : IsFiniteSet(part[h])
  BY <1>2, <1>3, HourPlotted
<1>6. IsFiniteSet(own)
  <2>1. PICK P : P = {part[h] : h \in H}
    OBVIOUS
  <2>2. part = [h \in H |-> part[h]]
    BY <1>3
  <2>3. IsFiniteSet(P)
    BY <1>H, <2>1, <2>2, FiniteImage
  <2>4. \A T \in P : IsFiniteSet(T)
    BY <1>5, <2>1
  <2> QED
    BY <1>4, <2>1, <2>3, <2>4, FS_UNION
<1>7. \A h \in H : \A e \in part[h] : e.t \in from..now /\ HourOf(e.t) = h /\ e.count \in Counts
  BY <1>3, HourEntriesIn
<1>8. \A e \in own : \E h \in H : e \in part[h]
  BY <1>4
<1>9. PICK key : key = [e \in own |-> HourOf(e.t)]
  OBVIOUS
<1>10. Partitions(part, key, own, H)
  <2>1. \A e \in own : key[e] \in H
    BY <1>7, <1>8, <1>9
  <2>2. \A h \in H : part[h] \in SUBSET own
    BY <1>4
  <2>3. \A h \in H : \A e \in own : e \in part[h] <=> key[e] = h
    BY <1>7, <1>8, <1>9
  <2> QED
    BY <2>1, <2>2, <2>3 DEF Partitions
<1>11. PICK count : count = CountOf(own)
  OBVIOUS
<1>12. \A e \in own : count[e] = e.count /\ count[e] \in Counts
  BY <1>7, <1>8, <1>11 DEF CountOf
<1>13. PICK g : g = [h \in H |-> Total(CountOf(part[h]), part[h])]
  OBVIOUS
<1>14. ASSUME NEW h \in H PROVE g[h] = Total(count, part[h])
  <2>1. PICK E : E = part[h]
    OBVIOUS
  <2>2. IsFiniteSet(E) /\ \A e \in E : e \in own
    BY <1>4, <1>5, <2>1
  <2>3. \A e \in E : CountOf(E)[e] = e.count
    BY DEF CountOf
  <2>4. \A e \in E : CountOf(E)[e] \in Counts /\ count[e] \in Counts /\ CountOf(E)[e] = count[e]
    BY <1>12, <2>2, <2>3
  <2>5. Total(CountOf(E), E) = Total(count, E)
    BY <2>2, <2>4, TotalMonotone
  <2> QED
    BY <1>13, <2>1, <2>5
<1>15. Total(g, H) = Total(count, own)
  <2>1. \A e \in own : count[e] \in Counts
    BY <1>12
  <2>2. \A h \in H : g[h] = Total(count, part[h])
    BY <1>14
  <2> QED
    BY <1>H, <1>6, <1>10, <2>1, <2>2, TotalFibers
<1>16. PICK most : most = [h \in H |-> Count(InHour(made, l, h, from))]
  OBVIOUS
<1>17. PICK least : least = [h \in H |-> Count(InHour(raw, l, h, from))]
  OBVIOUS
<1>18. /\ Total(most, H) = InRange(made, l, from)
       /\ \A h \in H : most[h] \in Counts
  <2>1. made \in SUBSET made /\ \A h \in H : most[h] = Count(InHour(made, l, h, from))
    BY <1>16
  <2> QED
    BY <1>H, <1>2, <2>1, RangeByHour
<1>19. /\ Total(least, H) = InRange(raw, l, from)
       /\ \A h \in H : least[h] \in Counts
  <2>1. raw \in SUBSET made /\ \A h \in H : least[h] = Count(InHour(raw, l, h, from))
    BY <1>17 DEF raw
  <2> QED
    BY <1>H, <1>2, <2>1, RangeByHour
<1>20. ASSUME NEW h \in H
       PROVE  /\ g[h] \in Counts /\ AtMost(g[h], most[h])
              /\ l \notin down => least[h].total <= g[h].total
  BY <1>2, <1>3, <1>13, <1>16, <1>17, HourPlotted
<1>21. Total(g, H).total <= Total(most, H).total /\ Total(g, H).failed <= Total(most, H).failed
  <2>1. \A h \in H : g[h] \in Counts /\ most[h] \in Counts
    BY <1>18, <1>20
  <2>2. \A h \in H : g[h].total <= most[h].total /\ g[h].failed <= most[h].failed
    BY <1>20 DEF AtMost
  <2> QED
    BY <1>H, <2>1, <2>2, TotalMonotone
<1>22. l \notin down => Total(least, H).total <= Total(g, H).total
  <2>1. \A h \in H : least[h] \in Counts /\ g[h] \in Counts
    BY <1>19, <1>20
  <2> QED
    BY <1>H, <1>20, <2>1, TotalMonotone
<1>23. Total(g, H) \in Counts
  BY <1>H, <1>20, TotalType
<1> QED
  BY <1>6, <1>7, <1>8, <1>11, <1>15, <1>18, <1>19, <1>21, <1>22, <1>23 DEF AtMost

\* A location's series.
LEMMA SeriesTrue ==
  ASSUME HistoryInv, NEW l \in Locations, NEW down \in SUBSET Locations,
         NEW from \in Int, from <= now, NEW points \in Nat,
         NEW line, line = Latency(from, points, down)[l]
  PROVE  /\ AtMost(Sum(line), InRange(made, l, from))
         /\ l \notin down => InRange(raw, l, from).total <= Sum(line).total
         /\ points > 0 => Cardinality(DOMAIN line) <= points
<1>1. PICK own : own = Entries(l, from, down)
  OBVIOUS
<1>2. /\ IsFiniteSet(own)
      /\ \A e \in own : e.t \in from..now /\ e.count \in Counts
      /\ AtMost(Total(CountOf(own), own), InRange(made, l, from))
      /\ l \notin down => InRange(raw, l, from).total <= Total(CountOf(own), own).total
  BY <1>1, EntriesTotal
<1>3. PICK grouped \in BOOLEAN :
        grouped <=> points > 0
                      /\ \E k \in Locations : Cardinality(Entries(k, from, down)) > points
  OBVIOUS
<1>4. PICK slot : slot = [e \in own |-> IF grouped
                                          THEN Index(e.t, from, Bucket(now - from, points))
                                          ELSE e.t]
  OBVIOUS
<1>5. line = Line(own, slot)
  BY <1>1, <1>3, <1>4 DEF Latency
<1>6. PICK K : K = {slot[e] : e \in own}
  OBVIOUS
<1>7. IsFiniteSet(K) /\ Cardinality(K) <= Cardinality(own)
  <2>1. slot = [e \in own |-> slot[e]]
    BY <1>4
  <2> QED
    BY <1>2, <1>6, <2>1, FiniteImage
<1>8. Sum(line) = Total(CountOf(own), own) /\ DOMAIN line = K
  BY <1>2, <1>5, <1>6, <1>7, LineTotal
<1>9. Cardinality(K) \in Nat /\ Cardinality(own) \in Nat
  BY <1>2, <1>7, FS_CardinalityType
<1>10. CASE points > 0 /\ grouped
  <2>1. now \in Nat /\ now - from \in Nat /\ from + (now - from) = now
    BY DEF HistoryInv, ChecksInv
  <2>2. \A e \in own : slot[e] \in 0..(points - 1)
    <3> SUFFICES ASSUME NEW e \in own PROVE slot[e] \in 0..(points - 1)
      OBVIOUS
    <3>1. slot[e] = Index(e.t, from, Bucket(now - from, points))
      BY <1>4, <1>10
    <3>2. e.t \in from..(from + (now - from))
      BY <1>2, <2>1
    <3> QED
      BY <1>10, <2>1, <3>1, <3>2, BucketsFit
  <2>3. K \in SUBSET (0..(points - 1))
    BY <1>6, <2>2
  <2>4. IsFiniteSet(0..(points - 1)) /\ Cardinality(0..(points - 1)) = points
    <3>1. 0 \in Int /\ points - 1 \in Int
      OBVIOUS
    <3> QED
      BY <1>10, <3>1, FS_Interval
  <2>5. Cardinality(K) <= points
    BY <2>3, <2>4, FS_Subset
  <2> QED
    BY <1>2, <1>8, <2>5
<1>11. CASE points > 0 /\ ~grouped
  <2>1. ~(Cardinality(own) > points)
    BY <1>1, <1>3, <1>11
  <2> QED
    BY <1>2, <1>7, <1>8, <1>9, <2>1
<1>12. CASE points = 0
  BY <1>2, <1>8, <1>12
<1> QED
  BY <1>10, <1>11, <1>12

\* The latency chart plots every check of its range that a location still holds
\* exactly once, nothing that was not checked in the range, and no more points
\* than maxPlotPoints.
THEOREM LatencyIsTrue == Spec => []LatencyPlotsOnce
<1>1. HistoryInv => LatencyPlotsOnce
  <2> SUFFICES ASSUME HistoryInv, NEW days \in 1..RetentionDays, NEW down \in SUBSET Locations,
                      NEW l \in Locations
               PROVE  LET line == Latency(From(days), PointsOf(days), down)[l] IN
                      /\ AtMost(Sum(line), InRange(made, l, From(days)))
                      /\ l \notin down => InRange(raw, l, From(days)).total <= Sum(line).total
                      /\ PointsOf(days) > 0 => Cardinality(DOMAIN line) <= PointsOf(days)
    BY HistoryAssumption DEF LatencyPlotsOnce
  <2>1. days \in Nat /\ DayHours \in Nat /\ HourLen \in Nat /\ now \in Nat
    BY HistoryAssumption DEF HistoryInv, ChecksInv
  <2>2. days * DayHours \in Nat
    BY <2>1
  <2>3. days * DayHours * HourLen \in Nat
    BY <2>1, <2>2
  <2>4. From(days) \in Int /\ From(days) <= now
    BY <2>1, <2>3 DEF From
  <2>5. PointsOf(days) \in Nat
    BY HistoryAssumption DEF PointsOf
  <2> QED
    BY <2>4, <2>5, SeriesTrue
<1> QED
  BY <1>1, HistoryInvariant, PTL
=============================================================================
