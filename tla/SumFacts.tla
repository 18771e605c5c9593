------------------------------ MODULE SumFacts ------------------------------
(***************************************************************************)
(* What a sum over a finite set is: nothing for the empty set, and for     *)
(* another one the value of any of its elements and the sum over the rest. *)
(* SumFunctionOnSet chooses an element and goes on with the others, so     *)
(* that this needs a proof: first that the recursion has a solution, then  *)
(* that the order does not matter.  The proofs about money, shares and     *)
(* trades cite the facts at the end.                                       *)
(***************************************************************************)
EXTENDS Integers, FiniteSets, Functions, FiniteSetTheorems, WellFoundedInduction, TLAPS

LEMMA SubsetsWellFounded ==
    ASSUME NEW S, IsFiniteSet(S)
    PROVE  IsWellFoundedOn(StrictSubsetOrdering(S), SUBSET S)
  <1>1. IsWellFoundedOn(StrictSubsetOrdering(S), FiniteSubsetsOf(S))
    BY FS_StrictSubsetOrderingWellFounded
  <1>2. FiniteSubsetsOf(S) = SUBSET S BY FS_FiniteSubsetsOfFinite
  <1> QED BY <1>1, <1>2

LEMMA MinimalElement ==
    ASSUME NEW S, NEW R, NEW T, T \subseteq S, T # {}, IsWellFoundedOn(R, S)
    PROVE  \E x \in T : \A y \in T : <<y, x>> \notin R
  BY WFMin

LEMMA MinimalSubset ==
    ASSUME NEW S, IsFiniteSet(S), NEW Sets, Sets \subseteq SUBSET S, Sets # {}
    PROVE  \E T \in Sets : \A U \in Sets : U \subseteq T => U = T
  <1>1. IsWellFoundedOn(StrictSubsetOrdering(S), SUBSET S) BY SubsetsWellFounded
  <1>2. \E T \in Sets : \A U \in Sets : <<U, T>> \notin StrictSubsetOrdering(S)
    BY <1>1, MinimalElement
  <1> QED BY <1>2 DEF StrictSubsetOrdering

\* Induction over a finite set, with a set in place of a predicate: what holds
\* of a set when it holds of all its proper subsets holds of the whole.
LEMMA SubsetInduction ==
    ASSUME NEW S, IsFiniteSet(S), NEW Good,
           \A T \in SUBSET S : (\A U \in SUBSET T : U # T => U \in Good) => T \in Good
    PROVE  S \in Good
  <1>1. PICK Bad : Bad = (SUBSET S) \ Good OBVIOUS
  <1>2. CASE Bad = {} BY <1>1, <1>2
  <1>3. CASE Bad # {}
    <2>1. Bad \subseteq SUBSET S BY <1>1
    <2>2. PICK T \in Bad : \A U \in Bad : U \subseteq T => U = T
      BY <1>3, <2>1, MinimalSubset
    <2>3. \A U \in SUBSET T : U # T => U \in Good BY <1>1, <2>2
    <2> QED BY <1>1, <2>2, <2>3
  <1> QED BY <1>2, <1>3

AnyOf(S) == CHOOSE x \in S : TRUE

LEMMA AnyOfIn == ASSUME NEW S, S # {} PROVE AnyOf(S) \in S
  BY DEF AnyOf

\* g is what the recursion of the sum of f asks for, on the subsets of S.
Recurses(f, g, S) ==
    g = [s \in SUBSET S |-> IF s = {} THEN 0 ELSE f[AnyOf(s)] + g[s \ {AnyOf(s)}]]

LEMMA RecursesAt ==
    ASSUME NEW f, NEW g, NEW S, Recurses(f, g, S)
    PROVE  /\ g[{}] = 0
           /\ \A s \in SUBSET S : s # {} => g[s] = f[AnyOf(s)] + g[s \ {AnyOf(s)}]
  <1> DEFINE F == [s \in SUBSET S |-> IF s = {} THEN 0 ELSE f[AnyOf(s)] + g[s \ {AnyOf(s)}]]
  <1>1. g = F BY DEF Recurses
  <1>2. /\ F[{}] = 0
        /\ \A s \in SUBSET S : s # {} => F[s] = f[AnyOf(s)] + g[s \ {AnyOf(s)}]
    OBVIOUS
  <1> HIDE DEF F
  <1> QED BY <1>1, <1>2

\* Two solutions agree where both are defined.
LEMMA RecursesUnique ==
    ASSUME NEW f, NEW g, NEW h, NEW S, NEW T, Recurses(f, g, S), Recurses(f, h, T),
           NEW s, s \subseteq S, s \subseteq T, IsFiniteSet(s)
    PROVE  g[s] = h[s]
  <1> DEFINE Good == {t \in SUBSET s : g[t] = h[t]}
  <1>1. ASSUME NEW t \in SUBSET s, \A u \in SUBSET t : u # t => u \in Good
        PROVE  t \in Good
    <2>1. CASE t = {} BY <2>1, RecursesAt
    <2>2. CASE t # {}
      <3>1. AnyOf(t) \in t BY <2>2, AnyOfIn
      <3>2. t \ {AnyOf(t)} \in Good BY <1>1, <3>1
      <3>3. t \in SUBSET S /\ t \in SUBSET T OBVIOUS
      <3>4. g[t] = f[AnyOf(t)] + g[t \ {AnyOf(t)}] BY <2>2, <3>3, RecursesAt
      <3>5. h[t] = f[AnyOf(t)] + h[t \ {AnyOf(t)}] BY <2>2, <3>3, RecursesAt
      <3> QED BY <3>2, <3>4, <3>5
    <2> QED BY <2>1, <2>2
  <1> HIDE DEF Good
  <1>2. s \in Good BY <1>1, SubsetInduction
  <1> QED BY <1>2 DEF Good

LEMMA RecursesExists ==
    ASSUME NEW f, NEW S, IsFiniteSet(S)
    PROVE  \E g : Recurses(f, g, S)
  <1> DEFINE Good == {T \in SUBSET S : \E g : Recurses(f, g, T)}
  <1>1. ASSUME NEW T \in SUBSET S, \A U \in SUBSET T : U # T => U \in Good
        PROVE  T \in Good
    <2> DEFINE G(U) == CHOOSE g : Recurses(f, g, U)
               H == [s \in SUBSET T |->
                       IF s = {} THEN 0
                       ELSE f[AnyOf(s)] + G(s \ {AnyOf(s)})[s \ {AnyOf(s)}]]
    <2>1. ASSUME NEW U \in SUBSET T, U # T PROVE Recurses(f, G(U), U)
      <3>1. \E g : Recurses(f, g, U) BY <1>1, <2>1
      <3> QED BY <3>1
    <2>2. H[{}] = 0 OBVIOUS
    <2>3. \A s \in SUBSET T : s # {} =>
            H[s] = f[AnyOf(s)] + G(s \ {AnyOf(s)})[s \ {AnyOf(s)}]
      OBVIOUS
    <2>4. H = [s \in SUBSET T |-> H[s]] OBVIOUS
    <2> HIDE DEF G, H
    <2>5. ASSUME NEW u \in SUBSET T, u # T PROVE H[u] = G(u)[u]
      <3>1. Recurses(f, G(u), u) BY <2>1, <2>5
      <3>2. CASE u = {} BY <2>2, <3>1, <3>2, RecursesAt
      <3>3. CASE u # {}
        <4> DEFINE v == u \ {AnyOf(u)}
        <4>1. AnyOf(u) \in u BY <3>3, AnyOfIn
        <4>2. v \in SUBSET T /\ v # T /\ v \subseteq u BY <4>1
        <4>3. Recurses(f, G(v), v) BY <2>1, <4>2
        <4>4. u \in SUBSET u OBVIOUS
        <4>5. G(u)[u] = f[AnyOf(u)] + G(u)[v] BY <3>1, <3>3, <4>4, RecursesAt
        <4>6. IsFiniteSet(v) BY FS_Subset
        <4> HIDE DEF v
        <4>7. G(u)[v] = G(v)[v] BY <3>1, <4>2, <4>3, <4>6, RecursesUnique
        <4>8. H[u] = f[AnyOf(u)] + G(v)[v] BY <2>3, <3>3 DEF v
        <4> QED BY <4>5, <4>7, <4>8
      <3> QED BY <3>2, <3>3
    <2>6. ASSUME NEW s \in SUBSET T, s # {}
          PROVE  H[s] = f[AnyOf(s)] + H[s \ {AnyOf(s)}]
      <3>1. AnyOf(s) \in s BY <2>6, AnyOfIn
      <3>2. H[s \ {AnyOf(s)}] = G(s \ {AnyOf(s)})[s \ {AnyOf(s)}] BY <2>5, <3>1
      <3> QED BY <2>3, <2>6, <3>2
    <2>7. Recurses(f, H, T)
      <3> DEFINE F == [s \in SUBSET T |-> IF s = {} THEN 0 ELSE f[AnyOf(s)] + H[s \ {AnyOf(s)}]]
      <3>1. \A s \in SUBSET T : F[s] = H[s] BY <2>2, <2>6
      <3>2. F = [s \in SUBSET T |-> F[s]] OBVIOUS
      <3>3. H = F
        <4> HIDE DEF F
        <4> QED BY <2>4, <3>1, <3>2
      <3> QED BY <3>3 DEF Recurses
    <2> QED BY <2>7
  <1> HIDE DEF Good
  <1>2. S \in Good BY <1>1, SubsetInduction
  <1> QED BY <1>2 DEF Good

LEMMA SumRecurses ==
    ASSUME NEW f, NEW S, IsFiniteSet(S)
    PROVE  \E g : Recurses(f, g, S) /\ SumFunctionOnSet(f, S) = g[S]
  <1> DEFINE g == CHOOSE h : Recurses(f, h, S)
  <1>1. Recurses(f, g, S) BY RecursesExists
  <1>2. SumFunctionOnSet(f, S) = g[S]
    BY Zenon DEF SumFunctionOnSet, FoldFunctionOnSet, MapThenFoldSet, Recurses, AnyOf
  <1> QED BY <1>1, <1>2
-----------------------------------------------------------------------------
LEMMA SumEmpty == ASSUME NEW f PROVE SumFunctionOnSet(f, {}) = 0
  <1>1. IsFiniteSet({}) BY FS_EmptySet
  <1> QED BY <1>1, SumRecurses, RecursesAt

LEMMA SumFirst ==
    ASSUME NEW f, NEW S, IsFiniteSet(S), S # {}
    PROVE  SumFunctionOnSet(f, S) = f[AnyOf(S)] + SumFunctionOnSet(f, S \ {AnyOf(S)})
  <1> DEFINE T == S \ {AnyOf(S)}
  <1>1. IsFiniteSet(T) /\ T \subseteq S BY FS_Subset
  <1> HIDE DEF T
  <1>2. PICK g : Recurses(f, g, S) /\ SumFunctionOnSet(f, S) = g[S] BY SumRecurses
  <1>3. PICK h : Recurses(f, h, T) /\ SumFunctionOnSet(f, T) = h[T] BY <1>1, SumRecurses
  <1>4. g[T] = h[T] BY <1>1, <1>2, <1>3, RecursesUnique
  <1>5. S \in SUBSET S OBVIOUS
  <1>6. g[S] = f[AnyOf(S)] + g[T] BY <1>2, <1>5, RecursesAt DEF T
  <1> QED BY <1>2, <1>3, <1>4, <1>6 DEF T

\* Any element can be taken out first.
LEMMA SumAnyFirst ==
    ASSUME NEW f, NEW S, IsFiniteSet(S), \A x \in S : f[x] \in Int
    PROVE  /\ SumFunctionOnSet(f, S) \in Int
           /\ \A x \in S : SumFunctionOnSet(f, S) = f[x] + SumFunctionOnSet(f, S \ {x})
  <1> DEFINE Sum(T) == SumFunctionOnSet(f, T)
             Good == {T \in SUBSET S : Sum(T) \in Int /\ \A x \in T : Sum(T) = f[x] + Sum(T \ {x})}
  <1>1. ASSUME NEW T \in SUBSET S, \A U \in SUBSET T : U # T => U \in Good
        PROVE  T \in Good
    <2>1. CASE T = {} BY <2>1, SumEmpty
    <2>2. CASE T # {}
      <3> DEFINE y == AnyOf(T)
      <3>1. y \in T BY <2>2, AnyOfIn
      <3>2. IsFiniteSet(T) BY FS_Subset
      <3>3. Sum(T) = f[y] + Sum(T \ {y}) BY <2>2, <3>2, SumFirst
      <3> HIDE DEF y
      <3>4. \A x \in T : T \ {x} \in Good BY <1>1
      <3>5. \A x \in T : f[x] \in Int /\ Sum(T \ {x}) \in Int BY <3>4
      <3>6. ASSUME NEW x \in T, x # y PROVE Sum(T) = f[x] + Sum(T \ {x})
        <4>1. T \ {y} \in Good /\ x \in T \ {y} BY <3>1, <3>4, <3>6
        <4>2. T \ {x} \in Good /\ y \in T \ {x} BY <3>1, <3>4, <3>6
        <4>3. Sum(T \ {y}) = f[x] + Sum((T \ {y}) \ {x}) BY <4>1
        <4>4. Sum(T \ {x}) = f[y] + Sum((T \ {x}) \ {y}) BY <4>2
        <4>5. PICK rest : rest = (T \ {x}) \ {y} /\ rest = (T \ {y}) \ {x} OBVIOUS
        <4>6. rest \in Good BY <1>1, <3>1, <4>5
        <4>7. Sum(rest) \in Int BY <4>6
        <4>8. Sum(T) = f[y] + (f[x] + Sum(rest)) BY <3>3, <4>3, <4>5
        <4>9. Sum(T \ {x}) = f[y] + Sum(rest) BY <4>4, <4>5
        <4> HIDE DEF Sum, Good
        <4> QED BY <3>1, <3>5, <4>7, <4>8, <4>9
      <3>7. Sum(T) \in Int BY <3>1, <3>3, <3>5
      <3> QED BY <3>1, <3>3, <3>6, <3>7
    <2> QED BY <2>1, <2>2
  <1> HIDE DEF Good
  <1>2. S \in Good BY <1>1, SubsetInduction
  <1> QED BY <1>2 DEF Good
-----------------------------------------------------------------------------
(***************************************************************************)
(* The facts to cite.                                                      *)
(***************************************************************************)
LEMMA SumType ==
    ASSUME NEW f, NEW S, IsFiniteSet(S), \A x \in S : f[x] \in Int
    PROVE  SumFunctionOnSet(f, S) \in Int
  BY SumAnyFirst

LEMMA SumRemove ==
    ASSUME NEW f, NEW S, IsFiniteSet(S), \A x \in S : f[x] \in Int, NEW x \in S
    PROVE  SumFunctionOnSet(f, S) = f[x] + SumFunctionOnSet(f, S \ {x})
  BY SumAnyFirst

LEMMA SumAdd ==
    ASSUME NEW f, NEW S, IsFiniteSet(S), NEW x, x \notin S, \A y \in S \cup {x} : f[y] \in Int
    PROVE  SumFunctionOnSet(f, S \cup {x}) = f[x] + SumFunctionOnSet(f, S)
  <1>1. PICK T : T = S \cup {x} OBVIOUS
  <1>2. IsFiniteSet(T) BY <1>1, FS_AddElement
  <1>3. SumFunctionOnSet(f, T) = f[x] + SumFunctionOnSet(f, T \ {x})
    BY <1>1, <1>2, SumRemove
  <1>4. T \ {x} = S BY <1>1
  <1> QED BY <1>1, <1>3, <1>4

LEMMA SumAgree ==
    ASSUME NEW f, NEW g, NEW S, IsFiniteSet(S), \A x \in S : f[x] = g[x]
    PROVE  SumFunctionOnSet(f, S) = SumFunctionOnSet(g, S)
  <1> DEFINE Good == {T \in SUBSET S : SumFunctionOnSet(f, T) = SumFunctionOnSet(g, T)}
  <1>1. ASSUME NEW T \in SUBSET S, \A U \in SUBSET T : U # T => U \in Good
        PROVE  T \in Good
    <2>1. CASE T = {} BY <2>1, SumEmpty
    <2>2. CASE T # {}
      <3>1. AnyOf(T) \in T BY <2>2, AnyOfIn
      <3>2. T \ {AnyOf(T)} \in Good BY <1>1, <3>1
      <3>3. IsFiniteSet(T) BY FS_Subset
      <3>4. /\ SumFunctionOnSet(f, T) = f[AnyOf(T)] + SumFunctionOnSet(f, T \ {AnyOf(T)})
            /\ SumFunctionOnSet(g, T) = g[AnyOf(T)] + SumFunctionOnSet(g, T \ {AnyOf(T)})
        BY <2>2, <3>3, SumFirst
      <3>5. f[AnyOf(T)] = g[AnyOf(T)] BY <3>1
      <3> QED BY <3>2, <3>4, <3>5
    <2> QED BY <2>1, <2>2
  <1> HIDE DEF Good
  <1>2. S \in Good BY <1>1, SubsetInduction
  <1> QED BY <1>2 DEF Good

LEMMA SumNat ==
    ASSUME NEW f, NEW S, IsFiniteSet(S), \A x \in S : f[x] \in Nat
    PROVE  SumFunctionOnSet(f, S) \in Nat
  <1> DEFINE Good == {T \in SUBSET S : SumFunctionOnSet(f, T) \in Nat}
  <1>1. ASSUME NEW T \in SUBSET S, \A U \in SUBSET T : U # T => U \in Good
        PROVE  T \in Good
    <2>1. CASE T = {} BY <2>1, SumEmpty
    <2>2. CASE T # {}
      <3>1. AnyOf(T) \in T BY <2>2, AnyOfIn
      <3>2. T \ {AnyOf(T)} \in Good BY <1>1, <3>1
      <3>3. IsFiniteSet(T) BY FS_Subset
      <3>4. SumFunctionOnSet(f, T) = f[AnyOf(T)] + SumFunctionOnSet(f, T \ {AnyOf(T)})
        BY <2>2, <3>3, SumFirst
      <3>5. f[AnyOf(T)] \in Nat BY <3>1
      <3> QED BY <3>2, <3>4, <3>5
    <2> QED BY <2>1, <2>2
  <1> HIDE DEF Good
  <1>2. S \in Good BY <1>1, SubsetInduction
  <1> QED BY <1>2 DEF Good

\* Zeros add up to zero.
LEMMA SumZero ==
    ASSUME NEW f, NEW S, IsFiniteSet(S), \A x \in S : f[x] = 0
    PROVE  SumFunctionOnSet(f, S) = 0
  <1> DEFINE Good == {T \in SUBSET S : SumFunctionOnSet(f, T) = 0}
  <1>1. ASSUME NEW T \in SUBSET S, \A U \in SUBSET T : U # T => U \in Good
        PROVE  T \in Good
    <2>1. CASE T = {} BY <2>1, SumEmpty
    <2>2. CASE T # {}
      <3>1. PICK x : x \in T BY <2>2
      <3>2. IsFiniteSet(T) /\ \A y \in T : f[y] \in Int BY FS_Subset
      <3>3. SumFunctionOnSet(f, T) = f[x] + SumFunctionOnSet(f, T \ {x}) BY <3>1, <3>2, SumRemove
      <3>4. T \ {x} \in Good BY <1>1, <3>1
      <3> QED BY <3>1, <3>3, <3>4
    <2> QED BY <2>1, <2>2
  <1> HIDE DEF Good
  <1>2. S \in Good BY <1>1, SubsetInduction
  <1> QED BY <1>2 DEF Good

LEMMA SumUnion ==
    ASSUME NEW f, NEW S, NEW T, IsFiniteSet(S), IsFiniteSet(T), S \cap T = {},
           \A x \in S \cup T : f[x] \in Int
    PROVE  SumFunctionOnSet(f, S \cup T) = SumFunctionOnSet(f, S) + SumFunctionOnSet(f, T)
  <1> DEFINE Good == {U \in SUBSET T :
                        SumFunctionOnSet(f, S \cup U) = SumFunctionOnSet(f, S) + SumFunctionOnSet(f, U)}
  <1>0. SumFunctionOnSet(f, S) \in Int BY SumType
  <1>1. ASSUME NEW U \in SUBSET T, \A V \in SUBSET U : V # U => V \in Good
        PROVE  U \in Good
    <2>1. CASE U = {}
      <3>1. S \cup U = S BY <2>1
      <3>2. SumFunctionOnSet(f, S \cup U) = SumFunctionOnSet(f, S) BY <3>1, Zenon
      <3>3. SumFunctionOnSet(f, U) = 0 BY <2>1, SumEmpty
      <3> QED BY <1>0, <3>2, <3>3
    <2>2. CASE U # {}
      <3>1. PICK x : x \in U BY <2>2
      <3>2. PICK V : V = U \ {x} OBVIOUS
      <3>3. V \in Good BY <1>1, <3>1, <3>2
      <3>4. IsFiniteSet(U) /\ IsFiniteSet(V) BY <3>2, FS_Subset
      <3>5. SumFunctionOnSet(f, U) = f[x] + SumFunctionOnSet(f, V)
        BY <3>1, <3>2, <3>4, SumRemove
      <3>6. IsFiniteSet(S \cup V) BY <3>4, FS_Union
      <3>7. SumFunctionOnSet(f, (S \cup V) \cup {x}) = f[x] + SumFunctionOnSet(f, S \cup V)
        <4>1. x \notin S \cup V /\ \A y \in (S \cup V) \cup {x} : f[y] \in Int
          BY <3>1, <3>2
        <4> QED BY <3>6, <4>1, SumAdd
      <3>8. (S \cup V) \cup {x} = S \cup U BY <3>1, <3>2
      <3>9. f[x] \in Int /\ SumFunctionOnSet(f, V) \in Int BY <3>1, <3>2, <3>4, SumType
      <3>10. SumFunctionOnSet(f, S \cup V) = SumFunctionOnSet(f, S) + SumFunctionOnSet(f, V)
        BY <3>3
      <3>11. SumFunctionOnSet(f, S \cup U) = f[x] + SumFunctionOnSet(f, S \cup V)
        BY <3>7, <3>8
      <3> QED BY <1>0, <3>5, <3>9, <3>10, <3>11
    <2> QED BY <2>1, <2>2
  <1> HIDE DEF Good
  <1>2. T \in Good BY <1>1, SubsetInduction
  <1> QED BY <1>2 DEF Good

\* A part of naturals is at most the whole.
LEMMA SumPart ==
    ASSUME NEW f, NEW S, IsFiniteSet(S), NEW T, T \subseteq S, \A x \in S : f[x] \in Nat
    PROVE  /\ SumFunctionOnSet(f, T) \in Nat /\ SumFunctionOnSet(f, S) \in Nat
           /\ SumFunctionOnSet(f, T) <= SumFunctionOnSet(f, S)
  <1>1. PICK R : R = S \ T OBVIOUS
  <1>2. IsFiniteSet(T) /\ IsFiniteSet(R) BY <1>1, FS_Subset
  <1>3. T \cup R = S /\ T \cap R = {} BY <1>1
  <1>4. SumFunctionOnSet(f, T \cup R) = SumFunctionOnSet(f, T) + SumFunctionOnSet(f, R)
    BY <1>2, <1>3, SumUnion
  <1>5. SumFunctionOnSet(f, T) \in Nat /\ SumFunctionOnSet(f, R) \in Nat
    BY <1>1, <1>2, SumNat
  <1>6. SumFunctionOnSet(f, T \cup R) = SumFunctionOnSet(f, S) BY <1>3, Zenon
  <1> QED BY <1>4, <1>5, <1>6

\* One value of the function changes.
LEMMA SumChange ==
    ASSUME NEW f, NEW g, NEW S, IsFiniteSet(S), NEW x \in S,
           \A y \in S : f[y] \in Int /\ g[y] \in Int,
           \A y \in S \ {x} : f[y] = g[y]
    PROVE  SumFunctionOnSet(g, S) = (SumFunctionOnSet(f, S) - f[x]) + g[x]
  <1>1. PICK T : T = S \ {x} OBVIOUS
  <1>2. IsFiniteSet(T) BY <1>1, FS_Subset
  <1>3. SumFunctionOnSet(f, S) = f[x] + SumFunctionOnSet(f, T) BY <1>1, SumRemove
  <1>4. SumFunctionOnSet(g, S) = g[x] + SumFunctionOnSet(g, T) BY <1>1, SumRemove
  <1>5. SumFunctionOnSet(f, T) = SumFunctionOnSet(g, T) BY <1>1, <1>2, SumAgree
  <1>6. SumFunctionOnSet(f, T) \in Int BY <1>1, <1>2, SumType
  <1> QED BY <1>3, <1>4, <1>5, <1>6

\* A sum over the values of an injection is one over what it is defined on.
Pairs(e, S, T) == /\ e \in [S -> T] /\ \A x, y \in S : e[x] = e[y] => x = y
                  /\ \A t \in T : \E x \in S : e[x] = t

Follows(f, q, e, S) == \A x \in S : f[x] \in Int /\ f[x] = q[e[x]]

LEMMA SumImage ==
    ASSUME NEW S, IsFiniteSet(S), NEW T, NEW e, Pairs(e, S, T),
           NEW f, NEW q, Follows(f, q, e, S)
    PROVE  IsFiniteSet(T) /\ SumFunctionOnSet(q, T) = SumFunctionOnSet(f, S)
  <1> USE DEF Pairs, Follows
  <1> DEFINE Im(U) == {t \in T : \E x \in U : e[x] = t}
             Good == {U \in SUBSET S : /\ IsFiniteSet(Im(U))
                                       /\ SumFunctionOnSet(q, Im(U)) = SumFunctionOnSet(f, U)}
  <1>1. ASSUME NEW U \in SUBSET S, \A V \in SUBSET U : V # U => V \in Good
        PROVE  U \in Good
    <2>1. CASE U = {}
      <3>1. Im(U) = {} BY <2>1
      <3>2. SumFunctionOnSet(q, {}) = 0 /\ SumFunctionOnSet(f, {}) = 0 BY SumEmpty
      <3>3. IsFiniteSet({}) BY FS_EmptySet
      <3> HIDE DEF Im
      <3> QED BY <2>1, <3>1, <3>2, <3>3
    <2>2. CASE U # {}
      <3>1. PICK x : x \in U BY <2>2
      <3>2. PICK V : V = U \ {x} OBVIOUS
      <3>3. V \in Good BY <1>1, <3>1, <3>2
      <3>4. PICK I : I = Im(V) OBVIOUS
      <3>5. IsFiniteSet(I) /\ SumFunctionOnSet(q, I) = SumFunctionOnSet(f, V) BY <3>3, <3>4
      <3>6. Im(U) = I \cup {e[x]} BY <3>1, <3>2, <3>4
      <3>7. e[x] \notin I BY <3>1, <3>2, <3>4
      <3>8. \A y \in I \cup {e[x]} : q[y] \in Int BY <3>1, <3>2, <3>4
      <3>9. IsFiniteSet(I \cup {e[x]}) BY <3>5, FS_AddElement
      <3>10. SumFunctionOnSet(q, I \cup {e[x]}) = q[e[x]] + SumFunctionOnSet(q, I)
        BY <3>5, <3>7, <3>8, SumAdd
      <3>11. IsFiniteSet(U) BY FS_Subset
      <3>12. SumFunctionOnSet(f, U) = f[x] + SumFunctionOnSet(f, V)
        BY <3>1, <3>2, <3>11, SumRemove
      <3>13. f[x] = q[e[x]] BY <3>1
      <3> HIDE DEF Im
      <3> QED BY <3>5, <3>6, <3>9, <3>10, <3>12, <3>13
    <2> QED BY <2>1, <2>2
  <1>2. Im(S) = T OBVIOUS
  <1> HIDE DEF Good, Im
  <1>3. S \in Good BY <1>1, SubsetInduction
  <1> QED BY <1>2, <1>3 DEF Good

\* Summing a stretch of a sequence: the next element is added.
LEMMA SumNext ==
    ASSUME NEW f, NEW n \in Nat, \A j \in 1..(n + 1) : f[j] \in Int
    PROVE  SumFunctionOnSet(f, 1..(n + 1)) = f[n + 1] + SumFunctionOnSet(f, 1..n)
  <1>1. PICK S : S = 1..n OBVIOUS
  <1>2. IsFiniteSet(S) BY <1>1, FS_Interval
  <1>3. S \cup {n + 1} = 1..(n + 1) /\ n + 1 \notin S BY <1>1
  <1>4. \A y \in S \cup {n + 1} : f[y] \in Int BY <1>3
  <1>5. SumFunctionOnSet(f, S \cup {n + 1}) = f[n + 1] + SumFunctionOnSet(f, S)
    BY <1>2, <1>3, <1>4, SumAdd
  <1> QED BY <1>1, <1>3, <1>5

\* A finite set of numbers has a greatest.
LEMMA FiniteMax ==
    ASSUME NEW S, IsFiniteSet(S), S # {}, S \subseteq Int
    PROVE  \E x \in S : \A y \in S : y <= x
  <1> DEFINE Good == {T \in SUBSET S : T # {} => \E x \in T : \A y \in T : y <= x}
  <1>1. ASSUME NEW T \in SUBSET S, \A U \in SUBSET T : U # T => U \in Good
        PROVE  T \in Good
    <2>1. CASE T = {} BY <2>1
    <2>2. CASE T # {}
      <3>1. PICK z : z \in T BY <2>2
      <3>2. T \ {z} \in Good BY <1>1, <3>1
      <3>3. CASE T \ {z} = {} BY <3>1, <3>3
      <3>4. CASE T \ {z} # {}
        <4>1. PICK x \in T \ {z} : \A y \in T \ {z} : y <= x BY <3>2, <3>4
        <4>2. x \in Int /\ z \in Int BY <3>1
        <4>3. CASE z <= x BY <4>1, <4>3
        <4>4. CASE x <= z
          <5>1. \A y \in T : y <= z BY <4>1, <4>2, <4>4
          <5> QED BY <3>1, <5>1
        <4> QED BY <4>2, <4>3, <4>4
      <3> QED BY <3>3, <3>4
    <2> QED BY <2>1, <2>2
  <1> HIDE DEF Good
  <1>2. S \in Good BY <1>1, SubsetInduction
  <1> QED BY <1>2 DEF Good

\* A finite set of numbers has a least.
LEMMA FiniteMin ==
    ASSUME NEW S, IsFiniteSet(S), S # {}, S \subseteq Int
    PROVE  \E x \in S : \A y \in S : x <= y
  <1> DEFINE Good == {T \in SUBSET S : T # {} => \E x \in T : \A y \in T : x <= y}
  <1>1. ASSUME NEW T \in SUBSET S, \A U \in SUBSET T : U # T => U \in Good
        PROVE  T \in Good
    <2>1. CASE T = {} BY <2>1
    <2>2. CASE T # {}
      <3>1. PICK z : z \in T BY <2>2
      <3>2. T \ {z} \in Good BY <1>1, <3>1
      <3>3. CASE T \ {z} = {} BY <3>1, <3>3
      <3>4. CASE T \ {z} # {}
        <4>1. PICK x \in T \ {z} : \A y \in T \ {z} : x <= y BY <3>2, <3>4
        <4>2. x \in Int /\ z \in Int BY <3>1
        <4>3. CASE x <= z BY <4>1, <4>3
        <4>4. CASE z <= x
          <5>1. \A y \in T : z <= y BY <4>1, <4>2, <4>4
          <5> QED BY <3>1, <5>1
        <4> QED BY <4>2, <4>3, <4>4
      <3> QED BY <3>3, <3>4
    <2> QED BY <2>1, <2>2
  <1> HIDE DEF Good
  <1>2. S \in Good BY <1>1, SubsetInduction
  <1> QED BY <1>2 DEF Good
=============================================================================
