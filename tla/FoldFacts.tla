------------------------------ MODULE FoldFacts ------------------------------
(***************************************************************************)
(* Folds and sums over finite sets, folds along a sequence, and places in  *)
(* an order, for the provers: the community modules define sums and folds  *)
(* by recursion, and these lemmas say what they are. The provers cannot    *)
(* instantiate a theorem about every predicate, so each induction is over  *)
(* a set of parts of S that is closed under adding one element             *)
(* (EveryPart), or from a smallest part where a claim fails (SmallestOf);  *)
(* the facts they need are named operators.                                *)
(***************************************************************************)
EXTENDS Integers, Sequences, FiniteSets, FiniteSetsExt, FiniteSetTheorems, WellFoundedInduction, TLAPS

\* A set of naturals has a least element.
LEMMA LeastOf ==
  ASSUME NEW T, T \subseteq Nat, T # {}
  PROVE  \E x \in T : \A y \in T : x <= y
<1>1. PICK x \in T : \A y \in T : <<y, x>> \notin OpToRel(<, Nat)
  <2> DEFINE R == OpToRel(<, Nat)
  <2>1. IsWellFoundedOn(R, Nat)
    BY NatLessThanWellFounded
  <2> HIDE DEF R
  <2>2. \E x \in T : \A y \in T : <<y, x>> \notin R
    BY <2>1, WFMin
  <2> QED
    BY <2>2 DEF R
<1>2. \A y \in T : ~ (y < x)
  BY <1>1 DEF OpToRel
<1> QED
  BY <1>2

FiniteSets(S, T) == T \subseteq SUBSET S /\ T # {} /\ \A t \in T : IsFiniteSet(t)
Smallest(x, T) == x \in T /\ \A y \in T : y \subseteq x => y = x

LEMMA SmallestOf ==
  ASSUME NEW S, NEW T, FiniteSets(S, T)
  PROVE  \E x : Smallest(x, T)
<1>1. IsWellFoundedOn(StrictSubsetOrdering(S), FiniteSubsetsOf(S))
  BY FS_StrictSubsetOrderingWellFounded
<1>2. T \subseteq FiniteSubsetsOf(S) /\ T # {}
  BY DEF FiniteSubsetsOf, FiniteSets
<1>3. \E x \in T : \A y \in T : <<y, x>> \notin StrictSubsetOrdering(S)
  BY <1>1, <1>2, WFMin
<1> QED
  BY <1>2, <1>3 DEF StrictSubsetOrdering, Smallest, FiniteSets

\* c picks an element of every non-empty part of S.
Chooses(c, S) == \A s \in SUBSET S : s # {} => c[s] \in s

\* e folds one element into a value of V, for every non-empty part of S.
Combines(e, S, V) == \A s \in SUBSET S : s # {} => e[s] \in [V -> V]

Folded(s, base, c, e, g) == IF s = {} THEN base ELSE e[s][g[s \ {c[s]}]]

\* g solves the recursion of the fold on the parts of S.
Solves(g, S, base, c, e) == \A s \in SUBSET S : g[s] = Folded(s, base, c, e, g)

LEMMA FoldUnique ==
  ASSUME NEW S, IsFiniteSet(S), NEW base, NEW c, NEW e, NEW g, NEW h, Chooses(c, S),
         Solves(g, S, base, c, e), Solves(h, S, base, c, e)
  PROVE  g[S] = h[S]
<1> DEFINE Bad == {s \in SUBSET S : g[s] # h[s]}
<1>1. ASSUME Bad # {} PROVE FALSE
  <2>1. FiniteSets(S, Bad)
    BY <1>1, FS_Subset DEF FiniteSets
  <2> HIDE DEF Bad
  <2>2. PICK s : Smallest(s, Bad)
    BY <2>1, SmallestOf
  <2> USE DEF Bad
  <2>3. s \in SUBSET S /\ g[s] # h[s] /\ \A t \in Bad : t \subseteq s => t = s
    BY <2>2 DEF Smallest
  <2>4. g[s] = Folded(s, base, c, e, g) /\ h[s] = Folded(s, base, c, e, h)
    BY <2>3 DEF Solves
  <2>5. s # {} /\ c[s] \in s
    BY <2>3, <2>4 DEF Folded, Chooses
  <2>6. s \ {c[s]} \notin Bad
    BY <2>3, <2>5
  <2>7. g[s \ {c[s]}] = h[s \ {c[s]}]
    BY <2>3, <2>6
  <2> QED
    BY <2>3, <2>4, <2>5, <2>7 DEF Folded
<1> QED
  BY <1>1

LEMMA FoldExists ==
  ASSUME NEW S, IsFiniteSet(S), NEW V, NEW base \in V, NEW c, NEW e,
         Chooses(c, S), Combines(e, S, V)
  PROVE  \E g \in [SUBSET S -> V] : Solves(g, S, base, c, e)
<1> DEFINE Bad == {t \in SUBSET S : ~ \E g \in [SUBSET t -> V] : Solves(g, t, base, c, e)}
<1>1. ASSUME Bad # {} PROVE FALSE
  <2>1. FiniteSets(S, Bad)
    BY <1>1, FS_Subset DEF FiniteSets
  <2> HIDE DEF Bad
  <2>2. PICK t : Smallest(t, Bad)
    BY <2>1, SmallestOf
  <2> USE DEF Bad
  <2>a. t \in SUBSET S /\ IsFiniteSet(t) /\ \A s \in Bad : s \subseteq t => s = t
    BY <2>2, FS_Subset DEF Smallest
  <2> DEFINE G(s) == CHOOSE g \in [SUBSET s -> V] : Solves(g, s, base, c, e)
  <2>3. ASSUME NEW s \in SUBSET t, s # t PROVE G(s) \in [SUBSET s -> V] /\ Solves(G(s), s, base, c, e)
    <3>1. s \notin Bad /\ s \in SUBSET S
      BY <2>a, <2>3
    <3>2. \E g \in [SUBSET s -> V] : Solves(g, s, base, c, e)
      BY <3>1
    <3> QED
      BY <3>2
  <2>4. ASSUME NEW s \in SUBSET t, s # t, NEW r \in SUBSET s PROVE G(s)[r] = G(r)[r]
    <3>1. r # t /\ r \in SUBSET t /\ r \in SUBSET S /\ IsFiniteSet(r)
      BY <2>a, <2>4, FS_Subset
    <3>2. Solves(G(s), s, base, c, e) /\ Solves(G(r), r, base, c, e)
      BY <2>3, <2>4, <3>1
    <3> HIDE DEF G
    <3>3. Solves(G(s), r, base, c, e)
      BY <2>4, <3>2 DEF Solves
    <3>4. Chooses(c, r)
      BY <3>1 DEF Chooses
    <3> QED
      BY <3>1, <3>2, <3>3, <3>4, FoldUnique
  <2> HIDE DEF G
  <2> DEFINE rest == t \ {c[t]}
             top == IF t = {} THEN base ELSE e[t][G(rest)[rest]]
             g == [s \in SUBSET t |-> IF s = t THEN top ELSE G(s)[s]]
  <2>5. t # {} => rest \in SUBSET t /\ rest # t
    BY <2>a DEF Chooses
  <2>6. top \in V
    <3>1. CASE t = {}
      BY <3>1
    <3>2. CASE t # {}
      <4>1. G(rest) \in [SUBSET rest -> V]
        BY <2>3, <2>5, <3>2
      <4>2. G(rest)[rest] \in V
        BY <4>1
      <4>3. e[t] \in [V -> V]
        BY <2>a, <3>2 DEF Combines
      <4> QED
        BY <3>2, <4>2, <4>3
    <3> QED
      BY <3>1, <3>2
  <2>7. \A s \in SUBSET t : s # t => G(s)[s] \in V
    BY <2>3
  <2>8. g \in [SUBSET t -> V]
    <3> HIDE DEF top
    <3> QED
      BY <2>6, <2>7
  <2>9. ASSUME NEW s \in SUBSET t PROVE g[s] = Folded(s, base, c, e, g)
    <3>1. CASE s = t
      <4>1. t # {} => g[rest] = G(rest)[rest]
        <5> HIDE DEF top, rest
        <5> QED
          BY <2>5
      <4>2. g[t] = top
        <5> HIDE DEF top
        <5> QED
          OBVIOUS
      <4> HIDE DEF g
      <4> QED
        BY <3>1, <4>1, <4>2 DEF Folded
    <3>2. CASE s # t
      <4> DEFINE less == s \ {c[s]}
      <4>1. g[s] = G(s)[s]
        <5> HIDE DEF top
        <5> QED
          BY <3>2
      <4>2. G(s)[s] = Folded(s, base, c, e, G(s))
        BY <2>3, <3>2 DEF Solves
      <4>3. s # {} => less \in SUBSET s /\ less \in SUBSET t /\ less # t
        BY <2>a, <3>2
      <4>4. s # {} => G(s)[less] = G(less)[less]
        <5> HIDE DEF less
        <5> QED
          BY <2>4, <3>2, <4>3
      <4>5. s # {} => g[less] = G(less)[less]
        <5> HIDE DEF top, less
        <5> QED
          BY <4>3
      <4> HIDE DEF g
      <4> QED
        BY <4>1, <4>2, <4>4, <4>5 DEF Folded
    <3> QED
      BY <3>1, <3>2
  <2>10. Solves(g, t, base, c, e)
    <3> HIDE DEF g
    <3> QED
      BY <2>9 DEF Solves
  <2> HIDE DEF g
  <2> QED
    BY <2>2, <2>8, <2>10 DEF Smallest
<1>2. S \notin Bad
  BY <1>1
<1> QED
  BY <1>2

\* h goes on folding wherever what it has so far is a value of V.
Refolds(h, S, V, base, c, e) ==
  \A s \in SUBSET S :
    /\ s = {} => h[s] = base
    /\ s # {} /\ h[s \ {c[s]}] \in V => h[s] = e[s][h[s \ {c[s]}]]

LEMMA FoldTyped ==
  ASSUME NEW S, IsFiniteSet(S), NEW V, NEW base \in V, NEW c, NEW e, NEW h,
         Chooses(c, S), Combines(e, S, V), Refolds(h, S, V, base, c, e)
  PROVE  Solves(h, S, base, c, e) /\ \A s \in SUBSET S : h[s] \in V
<1> DEFINE Bad == {s \in SUBSET S : h[s] \notin V}
<1>1. ASSUME Bad # {} PROVE FALSE
  <2>1. FiniteSets(S, Bad)
    BY <1>1, FS_Subset DEF FiniteSets
  <2> HIDE DEF Bad
  <2>2. PICK s : Smallest(s, Bad)
    BY <2>1, SmallestOf
  <2> USE DEF Bad
  <2>3. s \in SUBSET S /\ h[s] \notin V /\ \A t \in Bad : t \subseteq s => t = s
    BY <2>2 DEF Smallest
  <2>4. s # {} /\ c[s] \in s
    BY <2>3 DEF Refolds, Chooses
  <2>5. s \ {c[s]} \notin Bad
    BY <2>3, <2>4
  <2>6. h[s \ {c[s]}] \in V
    BY <2>3, <2>5
  <2>7. h[s] = e[s][h[s \ {c[s]}]] /\ e[s] \in [V -> V]
    BY <2>3, <2>4, <2>6 DEF Refolds, Combines
  <2> QED
    BY <2>3, <2>6, <2>7
<1>2. \A s \in SUBSET S : h[s] \in V
  BY <1>1
<1>3. ASSUME NEW s \in SUBSET S PROVE h[s] = Folded(s, base, c, e, h)
  <2>1. s # {} => h[s \ {c[s]}] \in V
    BY <1>2
  <2> QED
    BY <2>1 DEF Folded, Refolds
<1> QED
  BY <1>2, <1>3 DEF Solves

\* A set of naturals below a bound has a largest element.
LEMMA LargestOf ==
  ASSUME NEW n \in Nat, NEW s \in SUBSET (1..n), s # {}
  PROVE  \E x \in s : \A y \in s : x >= y
<1>1. \A x \in s : x \in Nat /\ x <= n
  OBVIOUS
<1> DEFINE T == {n - x : x \in s}
<1>2. T \subseteq Nat /\ T # {}
  <2>1. PICK x \in s : TRUE
    OBVIOUS
  <2>2. n - x \in T
    BY <2>1
  <2>3. ASSUME NEW y \in T PROVE y \in Nat
    <3>1. PICK z \in s : y = n - z
      OBVIOUS
    <3> QED
      BY <1>1, <3>1
  <2> QED
    BY <2>2, <2>3
<1> HIDE DEF T
<1>3. PICK m \in T : \A y \in T : m <= y
  BY <1>2, LeastOf
<1> USE DEF T
<1>4. PICK x \in s : m = n - x
  BY <1>3
<1>5. ASSUME NEW y \in s PROVE y <= x
  <2>1. n - y \in T
    OBVIOUS
  <2>2. n - x <= n - y
    BY <1>3, <1>4, <2>1
  <2> QED
    BY <1>1, <2>2
<1> QED
  BY <1>1, <1>5

\* A set of parts of S that is closed under adding one element.
ClosedUnderAdding(G, S) == {} \in G /\ \A t \in SUBSET S : \A x \in S \ t : t \in G => t \cup {x} \in G

\* What holds of no element, and of one more whenever it holds of some, holds of
\* a finite set: induction over the parts of S.
LEMMA EveryPart ==
  ASSUME NEW S, IsFiniteSet(S), NEW G, ClosedUnderAdding(G, S)
  PROVE  S \in G
<1> DEFINE Bad == {s \in SUBSET S : s \notin G}
<1>1. ASSUME Bad # {} PROVE FALSE
  <2>1. FiniteSets(S, Bad)
    BY <1>1, FS_Subset DEF FiniteSets
  <2> HIDE DEF Bad
  <2>2. PICK s : Smallest(s, Bad)
    BY <2>1, SmallestOf
  <2> USE DEF Bad
  <2>3. s \in SUBSET S /\ s \notin G /\ \A t \in Bad : t \subseteq s => t = s
    BY <2>2 DEF Smallest
  <2>4. PICK x \in s : TRUE
    BY <2>3 DEF ClosedUnderAdding
  <2> DEFINE t == s \ {x}
  <2>5. t \in SUBSET S /\ x \in S \ t /\ s = t \cup {x} /\ t \subseteq s /\ t # s
    BY <2>3
  <2> HIDE DEF t
  <2>6. t \in G
    BY <2>3, <2>5
  <2> QED
    BY <2>3, <2>5, <2>6 DEF ClosedUnderAdding
<1> QED
  BY <1>1

-----------------------------------------------------------------------------
(* Sums over finite sets *)

SumOf(f, S) == MapThenSumSet(LAMBDA x : f[x], S)

Summable(f, S) == IsFiniteSet(S) /\ \A x \in S : f[x] \in Int

SumChoice(S) == [s \in SUBSET S |-> CHOOSE x \in s : TRUE]
SumSteps(f, S) == [s \in SUBSET S |-> [n \in Int |-> f[CHOOSE x \in s : TRUE] + n]]

LEMMA SumSolves ==
  ASSUME NEW S, NEW f, Summable(f, S)
  PROVE  /\ Chooses(SumChoice(S), S) /\ Combines(SumSteps(f, S), S, Int)
         /\ \E g : g[S] = SumOf(f, S) /\ Solves(g, S, 0, SumChoice(S), SumSteps(f, S))
                   /\ \A s \in SUBSET S : g[s] \in Int
<1> DEFINE c == SumChoice(S)
           e == SumSteps(f, S)
<1>1. ASSUME NEW s \in SUBSET S, s # {}
      PROVE  c[s] = (CHOOSE x \in s : TRUE) /\ c[s] \in s
    BY <1>1 DEF SumChoice
<1>2. ASSUME NEW s \in SUBSET S, s # {}
      PROVE  e[s] = [n \in Int |-> f[c[s]] + n] /\ e[s] \in [Int -> Int]
  <2>1. f[c[s]] \in Int
    BY <1>1, <1>2 DEF Summable
  <2>2. e[s] = [n \in Int |-> f[c[s]] + n]
    BY <1>1, <1>2 DEF SumSteps
  <2> QED
    BY <2>1, <2>2
<1>3. Chooses(c, S) /\ Combines(e, S, Int) /\ IsFiniteSet(S)
  BY <1>1, <1>2 DEF Chooses, Combines, Summable
<1> DEFINE Body(g) == [s \in SUBSET S |->
                         IF s = {} THEN 0 ELSE f[CHOOSE x \in s : TRUE] + g[s \ {CHOOSE x \in s : TRUE}]]
           h == CHOOSE g : g = Body(g)
<1>4. SumOf(f, S) = h[S]
  BY DEF SumOf, MapThenSumSet, MapThenFoldSet
<1> HIDE DEF c, e
<1>5. PICK g \in [SUBSET S -> Int] : Solves(g, S, 0, c, e)
  <2> HIDE DEF h
  <2>1. 0 \in Int
    OBVIOUS
  <2>2. Chooses(c, S) /\ Combines(e, S, Int) /\ IsFiniteSet(S)
    BY <1>3
  <2> QED
    BY <2>1, <2>2, FoldExists
<1>6. g = Body(g)
  <2>1. ASSUME NEW s \in SUBSET S PROVE g[s] = Body(g)[s]
    <3>1. g[s] = Folded(s, 0, c, e, g)
      BY <1>5 DEF Solves
    <3>2. CASE s = {}
      BY <3>1, <3>2 DEF Folded
    <3>3. CASE s # {}
      <4>1. g[s] = e[s][g[s \ {c[s]}]] /\ g[s \ {c[s]}] \in Int
        BY <1>5, <3>1, <3>3 DEF Folded
      <4>2. g[s] = f[c[s]] + g[s \ {c[s]}]
        BY <1>2, <3>3, <4>1
      <4> QED
        BY <1>1, <3>3, <4>2
    <3> QED
      BY <3>2, <3>3
  <2>2. Body(g) = [s \in SUBSET S |-> Body(g)[s]]
    OBVIOUS
  <2> QED
    BY <2>1, <2>2
<1> HIDE DEF Body
<1>7. h = Body(h)
  BY <1>6
<1> HIDE DEF h
<1>8. Refolds(h, S, Int, 0, c, e)
  <2> SUFFICES ASSUME NEW s \in SUBSET S
               PROVE  /\ s = {} => h[s] = 0
                      /\ s # {} /\ h[s \ {c[s]}] \in Int => h[s] = e[s][h[s \ {c[s]}]]
    BY DEF Refolds
  <2>1. h[s] = IF s = {} THEN 0 ELSE f[CHOOSE x \in s : TRUE] + h[s \ {CHOOSE x \in s : TRUE}]
    BY <1>7 DEF Body
  <2>2. CASE s = {}
    BY <2>1, <2>2
  <2>3. CASE s # {}
    <3>1. h[s] = f[c[s]] + h[s \ {c[s]}]
      BY <1>1, <2>1, <2>3
    <3> QED
      BY <1>2, <2>3, <3>1
  <2> QED
    BY <2>2, <2>3
<1>9. Solves(h, S, 0, c, e) /\ \A s \in SUBSET S : h[s] \in Int
  BY <1>3, <1>8, FoldTyped
<1> QED
  BY <1>3, <1>4, <1>9 DEF c, e

LEMMA SumOfNone == ASSUME NEW f PROVE SumOf(f, {}) = 0
<1>1. Summable(f, {})
  BY FS_EmptySet DEF Summable
<1>2. PICK g : g[{}] = SumOf(f, {}) /\ Solves(g, {}, 0, SumChoice({}), SumSteps(f, {}))
  BY <1>1, SumSolves
<1> QED
  BY <1>2 DEF Solves, Folded

LEMMA SumIsInt == ASSUME NEW S, NEW f, Summable(f, S) PROVE SumOf(f, S) \in Int
BY SumSolves

\* The sums over the parts of S are one solution of one recursion.
PartSums(g, f, S) ==
  \A s \in SUBSET S :
    /\ g[s] = SumOf(f, s) /\ g[s] \in Int
    /\ s # {} => \E x \in s : g[s] = f[x] + g[s \ {x}]

LEMMA SumOfParts == ASSUME NEW S, NEW f, Summable(f, S) PROVE \E g : PartSums(g, f, S)
<1>1. PICK g : /\ g[S] = SumOf(f, S) /\ Solves(g, S, 0, SumChoice(S), SumSteps(f, S))
               /\ \A s \in SUBSET S : g[s] \in Int
  BY SumSolves
<1>2. ASSUME NEW s \in SUBSET S PROVE g[s] = SumOf(f, s)
  <2>1. Summable(f, s) /\ IsFiniteSet(s)
    BY FS_Subset DEF Summable
  <2>2. PICK h : h[s] = SumOf(f, s) /\ Solves(h, s, 0, SumChoice(s), SumSteps(f, s))
    BY <2>1, SumSolves
  <2>3. Solves(g, s, 0, SumChoice(s), SumSteps(f, s))
    <3> SUFFICES ASSUME NEW t \in SUBSET s PROVE g[t] = Folded(t, 0, SumChoice(s), SumSteps(f, s), g)
      BY DEF Solves
    <3>1. t \in SUBSET S
      OBVIOUS
    <3>2. SumChoice(s)[t] = SumChoice(S)[t]
      BY <3>1 DEF SumChoice
    <3>3. SumSteps(f, s)[t] = SumSteps(f, S)[t]
      BY <3>1 DEF SumSteps
    <3>4. g[t] = Folded(t, 0, SumChoice(S), SumSteps(f, S), g)
      BY <1>1, <3>1 DEF Solves
    <3> QED
      BY <3>2, <3>3, <3>4 DEF Folded
  <2>4. Chooses(SumChoice(s), s)
    BY <2>1, SumSolves
  <2>5. g[s] = h[s]
    BY <2>1, <2>2, <2>3, <2>4, FoldUnique
  <2> QED
    BY <2>2, <2>5
<1>3. ASSUME NEW s \in SUBSET S, s # {} PROVE \E x \in s : g[s] = f[x] + g[s \ {x}]
  <2> DEFINE x == CHOOSE x \in s : TRUE
  <2>1. x \in s /\ SumChoice(S)[s] = x
    BY <1>3 DEF SumChoice
  <2>2. g[s] = SumSteps(f, S)[s][g[s \ {x}]]
    BY <1>1, <1>3, <2>1 DEF Solves, Folded
  <2>3. g[s \ {x}] \in Int
    BY <1>1
  <2>4. SumSteps(f, S)[s] = [n \in Int |-> f[x] + n]
    BY DEF SumSteps
  <2> HIDE DEF x
  <2>5. g[s] = f[x] + g[s \ {x}]
    BY <2>2, <2>3, <2>4
  <2> QED
    BY <2>1, <2>5
<1> QED
  BY <1>1, <1>2, <1>3 DEF PartSums

\* Any element may be counted first.
Splits(f, s) == \A x \in s : SumOf(f, s) = f[x] + SumOf(f, s \ {x})

LEMMA SumWithout ==
  ASSUME NEW S, NEW f, Summable(f, S), NEW x \in S
  PROVE  SumOf(f, S) = f[x] + SumOf(f, S \ {x})
<1> DEFINE Bad == {s \in SUBSET S : ~Splits(f, s)}
<1>0. PICK g : PartSums(g, f, S)
  <2> HIDE DEF Bad
  <2> QED
    BY SumOfParts
<1>1. \A s \in SUBSET S :
        /\ g[s] = SumOf(f, s) /\ g[s] \in Int
        /\ s # {} => \E y \in s : g[s] = f[y] + g[s \ {y}]
  BY <1>0 DEF PartSums
<1>2. ASSUME Bad # {} PROVE FALSE
  <2>1. FiniteSets(S, Bad)
    BY <1>2, FS_Subset DEF FiniteSets, Summable
  <2> HIDE DEF Bad
  <2>2. PICK s : Smallest(s, Bad)
    BY <2>1, SmallestOf
  <2> USE DEF Bad
  <2>3. s \in SUBSET S /\ ~Splits(f, s) /\ \A t \in Bad : t \subseteq s => t = s
    BY <2>2 DEF Smallest
  <2>4. PICK z \in s : SumOf(f, s) # f[z] + SumOf(f, s \ {z})
    BY <2>3 DEF Splits
  <2>5. PICK y \in s : g[s] = f[y] + g[s \ {y}]
    BY <1>1, <2>3
  <2>6. z # y
    BY <1>1, <2>3, <2>4, <2>5
  <2> DEFINE both == (s \ {y}) \ {z}
  <2>7. Splits(f, s \ {y}) /\ Splits(f, s \ {z})
    BY <2>3, <2>4, <2>5
  <2>8. (s \ {z}) \ {y} = both
    OBVIOUS
  <2>9. z \in s \ {y} /\ y \in s \ {z} /\ s \ {y} \in SUBSET S /\ s \ {z} \in SUBSET S /\ both \in SUBSET S
    BY <2>3, <2>4, <2>5, <2>6
  <2>10. f[y] \in Int /\ f[z] \in Int /\ SumOf(f, both) \in Int /\ g[s] = SumOf(f, s)
         /\ g[s \ {y}] = SumOf(f, s \ {y})
    BY <1>1, <2>3, <2>9 DEF Summable
  <2> HIDE DEF both
  <2>11. SumOf(f, s \ {y}) = f[z] + SumOf(f, both) /\ SumOf(f, s \ {z}) = f[y] + SumOf(f, both)
    BY <2>7, <2>8, <2>9 DEF Splits, both
  <2> QED
    BY <2>4, <2>5, <2>10, <2>11
<1>3. S \notin Bad
  BY <1>2
<1> QED
  BY <1>3 DEF Splits

\* One more element adds what it counts for.
AddsOne(f, S) ==
  \A t \in SUBSET S : \A x \in S \ t :
    SumOf(f, t \cup {x}) = f[x] + SumOf(f, t) /\ f[x] \in Int /\ SumOf(f, t) \in Int

LEMMA SumWith ==
  ASSUME NEW S, NEW f, Summable(f, S)
  PROVE  AddsOne(f, S)
<1> SUFFICES ASSUME NEW t \in SUBSET S, NEW x \in S \ t
             PROVE  SumOf(f, t \cup {x}) = f[x] + SumOf(f, t) /\ f[x] \in Int /\ SumOf(f, t) \in Int
  BY DEF AddsOne
<1>1. (t \cup {x}) \ {x} = t /\ t \cup {x} \in SUBSET S
  OBVIOUS
<1>2. Summable(f, t \cup {x}) /\ Summable(f, t)
  BY <1>1, FS_Subset DEF Summable
<1>3. f[x] \in Int
  BY DEF Summable
<1> QED
  BY <1>1, <1>2, <1>3, SumWithout, SumIsInt

-----------------------------------------------------------------------------
(* What sums preserve *)

EachAdds(h, f, g, S) == \A x \in S : h[x] = f[x] + g[x]
EachScaled(h, k, f, S) == \A x \in S : h[x] = k * f[x]
EachAtMost(f, g, S) == \A x \in S : f[x] <= g[x]
Counts(f, C, S) == \A x \in S : f[x] = IF x \in C THEN 1 ELSE 0

LEMMA SumOfSum ==
  ASSUME NEW S, NEW f, NEW g, NEW h, Summable(f, S), Summable(g, S), Summable(h, S),
         EachAdds(h, f, g, S)
  PROVE  SumOf(h, S) = SumOf(f, S) + SumOf(g, S)
<1>a. AddsOne(f, S) /\ AddsOne(g, S) /\ AddsOne(h, S)
  BY SumWith
<1> DEFINE G == {s \in SUBSET S : SumOf(h, s) = SumOf(f, s) + SumOf(g, s)}
<1>1. {} \in G
  BY SumOfNone
<1>2. ASSUME NEW t \in SUBSET S, NEW x \in S \ t, t \in G PROVE t \cup {x} \in G
  <2>1. /\ SumOf(f, t \cup {x}) = f[x] + SumOf(f, t) /\ f[x] \in Int /\ SumOf(f, t) \in Int
        /\ SumOf(g, t \cup {x}) = g[x] + SumOf(g, t) /\ g[x] \in Int /\ SumOf(g, t) \in Int
        /\ SumOf(h, t \cup {x}) = h[x] + SumOf(h, t)
    <3>1. SumOf(f, t \cup {x}) = f[x] + SumOf(f, t) /\ f[x] \in Int /\ SumOf(f, t) \in Int
      BY <1>a DEF AddsOne
    <3>2. SumOf(g, t \cup {x}) = g[x] + SumOf(g, t) /\ g[x] \in Int /\ SumOf(g, t) \in Int
      BY <1>a DEF AddsOne
    <3>3. SumOf(h, t \cup {x}) = h[x] + SumOf(h, t) /\ h[x] \in Int /\ SumOf(h, t) \in Int
      BY <1>a DEF AddsOne
    <3> QED
      BY <3>1, <3>2, <3>3
  <2>2. SumOf(h, t) = SumOf(f, t) + SumOf(g, t) /\ h[x] = f[x] + g[x]
    BY <1>2 DEF EachAdds
  <2>3. SumOf(h, t \cup {x}) = SumOf(f, t \cup {x}) + SumOf(g, t \cup {x})
    BY <2>1, <2>2
  <2> QED
    BY <2>3
<1>3. ClosedUnderAdding(G, S) /\ IsFiniteSet(S)
  <2> HIDE DEF G
  <2> QED
    BY <1>1, <1>2 DEF ClosedUnderAdding, Summable
<1>4. S \in G
  <2> HIDE DEF G
  <2> QED
    BY <1>3, EveryPart
<1> QED
  BY <1>4

LEMMA SumScaled ==
  ASSUME NEW S, NEW f, NEW h, NEW k \in Int, Summable(f, S), Summable(h, S),
         EachScaled(h, k, f, S)
  PROVE  SumOf(h, S) = k * SumOf(f, S)
<1>a. AddsOne(f, S) /\ AddsOne(h, S)
  BY SumWith
<1> DEFINE G == {s \in SUBSET S : SumOf(h, s) = k * SumOf(f, s)}
<1>1. {} \in G
  BY SumOfNone
<1>2. ASSUME NEW t \in SUBSET S, NEW x \in S \ t, t \in G PROVE t \cup {x} \in G
  <2>1. /\ SumOf(f, t \cup {x}) = f[x] + SumOf(f, t) /\ f[x] \in Int /\ SumOf(f, t) \in Int
        /\ SumOf(h, t \cup {x}) = h[x] + SumOf(h, t)
    <3>1. SumOf(f, t \cup {x}) = f[x] + SumOf(f, t) /\ f[x] \in Int /\ SumOf(f, t) \in Int
      BY <1>a DEF AddsOne
    <3>2. SumOf(h, t \cup {x}) = h[x] + SumOf(h, t) /\ h[x] \in Int /\ SumOf(h, t) \in Int
      BY <1>a DEF AddsOne
    <3> QED
      BY <3>1, <3>2
  <2>2. SumOf(h, t) = k * SumOf(f, t) /\ h[x] = k * f[x]
    BY <1>2 DEF EachScaled
  <2>3. k * (f[x] + SumOf(f, t)) = k * f[x] + k * SumOf(f, t)
    BY <2>1
  <2>4. SumOf(h, t \cup {x}) = k * SumOf(f, t \cup {x})
    BY <2>1, <2>2, <2>3
  <2> QED
    BY <2>4
<1>3. ClosedUnderAdding(G, S) /\ IsFiniteSet(S)
  <2> HIDE DEF G
  <2> QED
    BY <1>1, <1>2 DEF ClosedUnderAdding, Summable
<1>4. S \in G
  <2> HIDE DEF G
  <2> QED
    BY <1>3, EveryPart
<1> QED
  BY <1>4

LEMMA SumAtMost ==
  ASSUME NEW S, NEW f, NEW g, Summable(f, S), Summable(g, S), EachAtMost(f, g, S)
  PROVE  SumOf(f, S) <= SumOf(g, S)
<1>a. AddsOne(f, S) /\ AddsOne(g, S)
  BY SumWith
<1> DEFINE G == {s \in SUBSET S : SumOf(f, s) <= SumOf(g, s)}
<1>1. {} \in G
  BY SumOfNone
<1>2. ASSUME NEW t \in SUBSET S, NEW x \in S \ t, t \in G PROVE t \cup {x} \in G
  <2>1. /\ SumOf(f, t \cup {x}) = f[x] + SumOf(f, t) /\ f[x] \in Int /\ SumOf(f, t) \in Int
        /\ SumOf(g, t \cup {x}) = g[x] + SumOf(g, t) /\ g[x] \in Int /\ SumOf(g, t) \in Int
    <3>1. SumOf(f, t \cup {x}) = f[x] + SumOf(f, t) /\ f[x] \in Int /\ SumOf(f, t) \in Int
      BY <1>a DEF AddsOne
    <3>2. SumOf(g, t \cup {x}) = g[x] + SumOf(g, t) /\ g[x] \in Int /\ SumOf(g, t) \in Int
      BY <1>a DEF AddsOne
    <3> QED
      BY <3>1, <3>2
  <2>2. SumOf(f, t) <= SumOf(g, t) /\ f[x] <= g[x]
    BY <1>2 DEF EachAtMost
  <2>3. SumOf(f, t \cup {x}) <= SumOf(g, t \cup {x})
    BY <2>1, <2>2
  <2> QED
    BY <2>3
<1>3. ClosedUnderAdding(G, S) /\ IsFiniteSet(S)
  <2> HIDE DEF G
  <2> QED
    BY <1>1, <1>2 DEF ClosedUnderAdding, Summable
<1>4. S \in G
  <2> HIDE DEF G
  <2> QED
    BY <1>3, EveryPart
<1> QED
  BY <1>4

LEMMA SumOfEqual ==
  ASSUME NEW S, NEW f, NEW g, Summable(f, S), \A x \in S : f[x] = g[x]
  PROVE  SumOf(f, S) = SumOf(g, S)
<1>1. Summable(g, S)
  BY DEF Summable
<1>2. EachAtMost(f, g, S) /\ EachAtMost(g, f, S)
  BY DEF Summable, EachAtMost
<1>3. SumOf(f, S) <= SumOf(g, S) /\ SumOf(g, S) <= SumOf(f, S)
  BY <1>1, <1>2, SumAtMost
<1> QED
  BY <1>1, <1>3, SumIsInt

\* A sum of ones and zeros counts the ones.
LEMMA SumCounts ==
  ASSUME NEW S, NEW C \in SUBSET S, IsFiniteSet(S), NEW f, Counts(f, C, S)
  PROVE  Summable(f, S) /\ SumOf(f, S) = Cardinality(C)
<1>1. Summable(f, S)
  BY DEF Summable, Counts
<1>a. AddsOne(f, S)
  BY <1>1, SumWith
<1> DEFINE G == {s \in SUBSET S : SumOf(f, s) = Cardinality(C \cap s)}
<1>2. {} \in G
  <2>1. C \cap {} = {}
    OBVIOUS
  <2> QED
    BY <2>1, SumOfNone, FS_EmptySet
<1>3. ASSUME NEW t \in SUBSET S, NEW x \in S \ t, t \in G PROVE t \cup {x} \in G
  <2>1. SumOf(f, t \cup {x}) = f[x] + SumOf(f, t) /\ SumOf(f, t) = Cardinality(C \cap t)
    BY <1>3, <1>a DEF AddsOne
  <2>2. IsFiniteSet(C \cap t) /\ Cardinality(C \cap t) \in Nat
    BY FS_Subset, FS_CardinalityType
  <2> DEFINE k == Cardinality(C \cap t)
             n == SumOf(f, t \cup {x})
  <2>3. CASE x \in C
    <3>1. C \cap (t \cup {x}) = (C \cap t) \cup {x} /\ x \notin C \cap t
      BY <2>3
    <3>2. Cardinality((C \cap t) \cup {x}) = Cardinality(C \cap t) + 1
      BY <2>2, <3>1, FS_AddElement
    <3>3. f[x] = 1
      BY <2>3 DEF Counts
    <3>4. n = 1 + k /\ k \in Nat
      <4> HIDE DEF G
      <4> QED
        BY <2>1, <2>2, <3>3
    <3>5. Cardinality(C \cap (t \cup {x})) = k + 1
      <4> HIDE DEF G
      <4> QED
        BY <3>1, <3>2, Zenon
    <3> HIDE DEF k, n
    <3>6. n = k + 1
      BY <3>4
    <3>7. n = Cardinality(C \cap (t \cup {x}))
      BY <3>5, <3>6, Zenon
    <3> QED
      BY <3>7, Zenon DEF n
  <2>4. CASE x \notin C
    <3>1. C \cap (t \cup {x}) = C \cap t
      BY <2>4
    <3>2. f[x] = 0
      BY <2>4 DEF Counts
    <3>3. n = k
      <4> HIDE DEF G
      <4> QED
        BY <2>1, <2>2, <3>2
    <3> QED
      BY <3>1, <3>3, Zenon
  <2> QED
    BY <2>3, <2>4
<1>4. ClosedUnderAdding(G, S)
  <2> HIDE DEF G
  <2> QED
    BY <1>2, <1>3 DEF ClosedUnderAdding
<1>5. S \in G
  <2> HIDE DEF G
  <2> QED
    BY <1>4, EveryPart
<1>6. C \cap S = C
  OBVIOUS
<1> QED
  BY <1>1, <1>5, <1>6

EachEqual(f, g, S) == \A x \in S : f[x] = g[x]
NoneNegative(f, S) == \A x \in S : f[x] >= 0

LEMMA SumSame ==
  ASSUME NEW S, NEW f, NEW g, Summable(f, S), EachEqual(f, g, S)
  PROVE  Summable(g, S) /\ SumOf(f, S) = SumOf(g, S)
<1>1. Summable(g, S)
  BY DEF Summable, EachEqual
<1>2. EachAtMost(f, g, S) /\ EachAtMost(g, f, S)
  BY DEF EachAtMost, EachEqual, Summable
<1>3. SumOf(f, S) <= SumOf(g, S) /\ SumOf(g, S) <= SumOf(f, S)
  BY <1>1, <1>2, SumAtMost
<1>4. SumOf(f, S) \in Int /\ SumOf(g, S) \in Int
  BY <1>1, SumIsInt
<1> QED
  BY <1>1, <1>3, <1>4

\* A part adds up to no more than the whole.
LEMMA SumOfPart ==
  ASSUME NEW S, NEW f, Summable(f, S), NoneNegative(f, S), NEW T \in SUBSET S
  PROVE  SumOf(f, T) <= SumOf(f, S)
<1> DEFINE G == {s \in SUBSET S : SumOf(f, s \cap T) <= SumOf(f, s)}
<1>0. AddsOne(f, S)
  BY SumWith
<1>1. {} \in G
  <2>1. SumOf(f, {}) = 0 /\ {} \cap T = {}
    BY SumOfNone
  <2> QED
    BY <2>1
<1>2. ASSUME NEW t \in SUBSET S, NEW x \in S \ t, t \in G PROVE t \cup {x} \in G
  <2>1. /\ SumOf(f, t \cup {x}) = f[x] + SumOf(f, t) /\ f[x] \in Int /\ SumOf(f, t) \in Int
        /\ f[x] >= 0 /\ SumOf(f, t \cap T) <= SumOf(f, t)
    BY <1>0, <1>2 DEF AddsOne, NoneNegative
  <2>2. t \cap T \in SUBSET S /\ x \in S \ (t \cap T)
    BY <1>2
  <2> DEFINE u == t \cap T
  <2>3. SumOf(f, u \cup {x}) = f[x] + SumOf(f, u) /\ SumOf(f, u) \in Int
    <3> HIDE DEF u
    <3>1. u \in SUBSET S /\ x \in S \ u
      BY <2>2 DEF u
    <3> QED
      BY <1>0, <3>1 DEF AddsOne
  <2>4. CASE x \in T
    <3>1. (t \cup {x}) \cap T = u \cup {x}
      BY <2>4
    <3>2. SumOf(f, u) <= SumOf(f, t)
      BY <2>1
    <3> HIDE DEF u
    <3>3. SumOf(f, u \cup {x}) <= SumOf(f, t \cup {x})
      BY <2>1, <2>3, <3>2
    <3>4. SumOf(f, (t \cup {x}) \cap T) <= SumOf(f, t \cup {x})
      BY <3>1, <3>3
    <3> QED
      BY <1>2, <3>4
  <2>5. CASE x \notin T
    <3>1. (t \cup {x}) \cap T = u
      BY <2>5
    <3>2. SumOf(f, u) <= SumOf(f, t)
      BY <2>1
    <3> HIDE DEF u
    <3>3. SumOf(f, u) <= SumOf(f, t \cup {x})
      BY <2>1, <2>3, <3>2
    <3>4. SumOf(f, (t \cup {x}) \cap T) <= SumOf(f, t \cup {x})
      BY <3>1, <3>3
    <3> QED
      BY <1>2, <3>4
  <2> QED
    BY <2>4, <2>5
<1> HIDE DEF G
<1>3. ClosedUnderAdding(G, S) /\ IsFiniteSet(S)
  BY <1>1, <1>2 DEF ClosedUnderAdding, Summable
<1>4. S \in G
  BY <1>3, EveryPart
<1>5. S \cap T = T
  OBVIOUS
<1> QED
  BY <1>4, <1>5 DEF G

LEMMA EachAtMostSum ==
  ASSUME NEW S, NEW f, Summable(f, S), NoneNegative(f, S), NEW x \in S
  PROVE  f[x] <= SumOf(f, S)
<1>1. Summable(f, {x})
  BY FS_Subset DEF Summable
<1>2. SumOf(f, {x}) = f[x] + SumOf(f, {x} \ {x}) /\ {x} \ {x} = {}
  BY <1>1, SumWithout
<1>3. SumOf(f, {x}) = f[x]
  BY <1>2, SumOfNone DEF Summable
<1>4. SumOf(f, {x}) <= SumOf(f, S)
  BY SumOfPart
<1> QED
  BY <1>3, <1>4

\* f counts for the elements of A only.
CountsIn(h, f, A, S) == \A x \in S : h[x] = IF x \in A THEN f[x] ELSE 0

LEMMA SumChosen ==
  ASSUME NEW S, IsFiniteSet(S), NEW A, NEW f, NEW h, Summable(f, S \cap A), CountsIn(h, f, A, S)
  PROVE  Summable(h, S) /\ SumOf(h, S) = SumOf(f, S \cap A)
<1>1. Summable(h, S)
  BY DEF Summable, CountsIn
<1>2. AddsOne(h, S) /\ AddsOne(f, S \cap A)
  BY <1>1, SumWith
<1> DEFINE G == {s \in SUBSET S : SumOf(h, s) = SumOf(f, s \cap A)}
<1>3. {} \in G
  <2>1. {} \cap A = {}
    OBVIOUS
  <2> QED
    BY <2>1, SumOfNone
<1>4. ASSUME NEW t \in SUBSET S, NEW x \in S \ t, t \in G PROVE t \cup {x} \in G
  <2> DEFINE u == t \cap A
  <2>1. SumOf(h, t \cup {x}) = h[x] + SumOf(h, t) /\ h[x] \in Int /\ SumOf(h, t) \in Int
    BY <1>2, <1>4 DEF AddsOne
  <2>2. SumOf(h, t) = SumOf(f, u) /\ h[x] = IF x \in A THEN f[x] ELSE 0
    BY <1>4 DEF CountsIn
  <2>3. CASE x \in A
    <3>1. (t \cup {x}) \cap A = u \cup {x} /\ u \in SUBSET (S \cap A) /\ x \in (S \cap A) \ u
      BY <1>4, <2>3
    <3> HIDE DEF u
    <3>2. SumOf(f, u \cup {x}) = f[x] + SumOf(f, u)
      BY <1>2, <3>1 DEF AddsOne
    <3>3. SumOf(h, t \cup {x}) = SumOf(f, (t \cup {x}) \cap A)
      BY <2>1, <2>2, <2>3, <3>1, <3>2
    <3> QED
      BY <1>4, <3>3
  <2>4. CASE x \notin A
    <3>1. (t \cup {x}) \cap A = u
      BY <2>4
    <3>2. SumOf(h, t \cup {x}) = SumOf(h, t)
      <4> HIDE DEF G
      <4> QED
        BY <2>1, <2>2, <2>4
    <3>3. SumOf(h, t \cup {x}) = SumOf(f, (t \cup {x}) \cap A)
      <4> HIDE DEF u
      <4> QED
        BY <2>2, <3>1, <3>2, Zenon
    <3> QED
      BY <1>4, <3>3
  <2> QED
    BY <2>3, <2>4
<1> HIDE DEF G
<1>5. ClosedUnderAdding(G, S)
  BY <1>3, <1>4 DEF ClosedUnderAdding
<1>6. S \in G
  BY <1>5, EveryPart
<1> QED
  BY <1>1, <1>6 DEF G

\* b names the elements of S, each by a name of its own, and h is f of the name.
Renames(h, f, b, S) == \A x \in S : h[x] = f[b[x]] /\ \A y \in S : b[x] = b[y] => x = y
Names(b, S) == {b[x] : x \in S}

LEMMA SumRenamed ==
  ASSUME NEW S, NEW f, NEW b, NEW h, Summable(h, S), Renames(h, f, b, S)
  PROVE  Summable(f, Names(b, S)) /\ SumOf(h, S) = SumOf(f, Names(b, S))
<1>1. Summable(f, Names(b, S))
  <2>1. IsFiniteSet(Names(b, S))
    <3> DEFINE T == Names(b, S)
               img == [x \in S |-> b[x]]
    <3>1. img \in Surjection(S, T)
      BY DEF Names, Surjection
    <3> HIDE DEF T, img
    <3>2. IsFiniteSet(S)
      BY DEF Summable
    <3>3. IsFiniteSet(T)
      BY <3>1, <3>2, FS_Surjection
    <3> QED
      BY <3>3 DEF T
  <2> QED
    BY <2>1 DEF Summable, Names, Renames
<1>2. AddsOne(h, S) /\ AddsOne(f, Names(b, S))
  BY <1>1, SumWith
<1> DEFINE G == {s \in SUBSET S : SumOf(h, s) = SumOf(f, Names(b, s))}
<1>3. {} \in G
  <2>1. Names(b, {}) = {}
    BY DEF Names
  <2> QED
    BY <2>1, SumOfNone
<1>4. ASSUME NEW t \in SUBSET S, NEW x \in S \ t, t \in G PROVE t \cup {x} \in G
  <2>1. SumOf(h, t \cup {x}) = h[x] + SumOf(h, t) /\ h[x] = f[b[x]] /\ SumOf(h, t) = SumOf(f, Names(b, t))
    BY <1>2, <1>4 DEF AddsOne, Renames
  <2>2. Names(b, t \cup {x}) = Names(b, t) \cup {b[x]} /\ b[x] \in Names(b, S) \ Names(b, t)
        /\ Names(b, t) \in SUBSET Names(b, S)
    BY <1>4 DEF Names, Renames
  <2>3. SumOf(f, Names(b, t) \cup {b[x]}) = f[b[x]] + SumOf(f, Names(b, t))
    BY <1>2, <2>2 DEF AddsOne
  <2>4. SumOf(h, t \cup {x}) = SumOf(f, Names(b, t \cup {x}))
    BY <2>1, <2>2, <2>3
  <2> QED
    BY <1>4, <2>4
<1> HIDE DEF G
<1>5. ClosedUnderAdding(G, S) /\ IsFiniteSet(S)
  BY <1>3, <1>4 DEF ClosedUnderAdding, Summable
<1>6. S \in G
  BY <1>5, EveryPart
<1> QED
  BY <1>1, <1>6 DEF G

\* Sums of sums: p[x][y] counted along the rows or along the columns.
RowSums(p, X, Y) == [x \in X |-> SumOf(p[x], Y)]
Column(p, X, y) == [x \in X |-> p[x][y]]
ColumnSums(p, X, Y) == [y \in Y |-> SumOf(Column(p, X, y), X)]
Table(p, X, Y) == IsFiniteSet(X) /\ IsFiniteSet(Y) /\ p \in [X -> [Y -> Int]]

LEMMA SumSwap ==
  ASSUME NEW X, NEW Y, NEW p, Table(p, X, Y)
  PROVE  /\ Summable(RowSums(p, X, Y), X) /\ Summable(ColumnSums(p, X, Y), Y)
         /\ SumOf(RowSums(p, X, Y), X) = SumOf(ColumnSums(p, X, Y), Y)
<1>1. ASSUME NEW x \in X PROVE Summable(p[x], Y)
  BY DEF Table, Summable
<1>2. ASSUME NEW y \in Y PROVE Summable(Column(p, X, y), X)
  BY DEF Table, Summable, Column
<1>3. Summable(RowSums(p, X, Y), X)
  BY <1>1, SumIsInt DEF RowSums, Summable, Table
<1>4. \A y \in Y : SumOf(Column(p, X, y), X) \in Int
  BY <1>2, SumIsInt
<1>5. Summable(ColumnSums(p, X, Y), Y)
  BY <1>4 DEF ColumnSums, Summable, Table
<1> DEFINE rows == RowSums(p, X, Y)
           upTo(s) == [y \in Y |-> SumOf(Column(p, X, y), s)]
           G == {s \in SUBSET X : Summable(upTo(s), Y) /\ SumOf(rows, s) = SumOf(upTo(s), Y)}
<1>6. {} \in G
  <2>1. \A y \in Y : upTo({})[y] = 0
    BY SumOfNone
  <2>2. Counts(upTo({}), {}, Y)
    BY <2>1 DEF Counts
  <2>3. Summable(upTo({}), Y) /\ SumOf(upTo({}), Y) = Cardinality({})
    <3> HIDE DEF upTo
    <3>1. IsFiniteSet(Y) /\ {} \in SUBSET Y
      BY DEF Table
    <3> QED
      BY <2>2, <3>1, SumCounts
  <2>4. SumOf(rows, {}) = 0 /\ Cardinality({}) = 0
    BY SumOfNone, FS_EmptySet
  <2> HIDE DEF upTo, rows
  <2> QED
    BY <2>3, <2>4
<1>7. ASSUME NEW t \in SUBSET X, NEW x \in X \ t, t \in G PROVE t \cup {x} \in G
  <2> DEFINE more == t \cup {x}
  <2>1. AddsOne(rows, X)
    <3> HIDE DEF rows
    <3> QED
      BY <1>3, SumWith DEF rows
  <2>2. SumOf(rows, more) = rows[x] + SumOf(rows, t) /\ rows[x] \in Int /\ SumOf(rows, t) \in Int
    <3> HIDE DEF rows
    <3> QED
      BY <1>7, <2>1 DEF AddsOne
  <2>3. rows[x] = SumOf(p[x], Y)
    BY DEF RowSums
  <2>4. ASSUME NEW y \in Y
        PROVE  /\ upTo(more)[y] = p[x][y] + upTo(t)[y]
               /\ upTo(more)[y] \in Int /\ upTo(t)[y] \in Int /\ p[x][y] \in Int
    <3> DEFINE col == Column(p, X, y)
    <3>1. col[x] = p[x][y]
      BY DEF Column
    <3> HIDE DEF col
    <3>2. AddsOne(col, X)
      BY <1>2, SumWith DEF col
    <3>3. SumOf(col, more) = col[x] + SumOf(col, t) /\ col[x] \in Int /\ SumOf(col, t) \in Int
      BY <1>7, <3>2 DEF AddsOne
    <3> QED
      BY <3>1, <3>3 DEF col
  <2> HIDE DEF upTo, rows, more
  <2>5. Summable(upTo(more), Y) /\ Summable(upTo(t), Y) /\ Summable(p[x], Y)
    BY <1>1, <2>4 DEF Summable, Table
  <2>6. EachAdds(upTo(more), p[x], upTo(t), Y)
    BY <2>4 DEF EachAdds
  <2>7. SumOf(upTo(more), Y) = SumOf(p[x], Y) + SumOf(upTo(t), Y)
    BY <2>5, <2>6, SumOfSum
  <2>8. SumOf(rows, more) = SumOf(upTo(more), Y)
    BY <1>7, <2>2, <2>3, <2>7
  <2> QED
    BY <1>7, <2>5, <2>8 DEF more
<1>8. upTo(X) = ColumnSums(p, X, Y)
  BY DEF ColumnSums
<1> HIDE DEF G
<1>9. ClosedUnderAdding(G, X) /\ IsFiniteSet(X)
  BY <1>6, <1>7 DEF ClosedUnderAdding, Table
<1>10. X \in G
  BY <1>9, EveryPart
<1>11. SumOf(rows, X) = SumOf(upTo(X), Y)
  BY <1>10 DEF G
<1> HIDE DEF upTo
<1> QED
  BY <1>3, <1>5, <1>8, <1>11

-----------------------------------------------------------------------------
(* Folds along a sequence *)

LEMMA MaxOf ==
  ASSUME NEW n \in Nat, NEW s \in SUBSET (1..n), s # {}
  PROVE  Max(s) \in s /\ \A x \in s : x <= Max(s)
<1>1. \E x \in s : \A y \in s : x >= y
  BY LargestOf
<1>2. \A y \in s : y \in Nat
  OBVIOUS
<1> QED
  BY <1>1, <1>2 DEF Max

LastOf(S) == [s \in SUBSET S |-> Max(s)]

\* step[x] is what the element x does to a value of V.
StepsAlong(step, seq) == [s \in SUBSET DOMAIN seq |-> step[seq[Max(s)]]]

\* h[s] folds the elements at the places s from left to right, at least as long
\* as what it has so far is a value of V.
GoesAlong(h, step, V, base, seq) ==
  \A s \in SUBSET DOMAIN seq :
    /\ s = {} => h[s] = base
    /\ s # {} /\ h[s \ {Max(s)}] \in V => h[s] = step[seq[Max(s)]][h[s \ {Max(s)}]]

LEMMA AlongSteps ==
  ASSUME NEW X, NEW V, NEW base \in V, NEW step \in [X -> [V -> V]], NEW seq \in Seq(X)
  PROVE  /\ IsFiniteSet(DOMAIN seq) /\ Chooses(LastOf(DOMAIN seq), DOMAIN seq)
         /\ Combines(StepsAlong(step, seq), DOMAIN seq, V)
         /\ \A s \in SUBSET DOMAIN seq : s # {} => Max(s) \in s
<1>1. DOMAIN seq = 1..Len(seq) /\ Len(seq) \in Nat /\ \A i \in DOMAIN seq : seq[i] \in X
  OBVIOUS
<1>2. IsFiniteSet(DOMAIN seq)
  BY <1>1, FS_Interval
<1>3. \A s \in SUBSET DOMAIN seq : s # {} => Max(s) \in s
  BY <1>1, MaxOf
<1>4. \A s \in SUBSET DOMAIN seq : s # {} => step[seq[Max(s)]] \in [V -> V]
  <2> SUFFICES ASSUME NEW s \in SUBSET DOMAIN seq, s # {} PROVE step[seq[Max(s)]] \in [V -> V]
    OBVIOUS
  <2>1. seq[Max(s)] \in X
    BY <1>1, <1>3
  <2> QED
    BY <2>1
<1> QED
  BY <1>2, <1>3, <1>4 DEF Chooses, Combines, LastOf, StepsAlong

\* There is such a fold.
LEMMA AlongExists ==
  ASSUME NEW X, NEW V, NEW base \in V, NEW step \in [X -> [V -> V]], NEW seq \in Seq(X)
  PROVE  \E g \in [SUBSET DOMAIN seq -> V] : GoesAlong(g, step, V, base, seq)
<1> DEFINE c == LastOf(DOMAIN seq)
           e == StepsAlong(step, seq)
<1>1. IsFiniteSet(DOMAIN seq) /\ Chooses(c, DOMAIN seq) /\ Combines(e, DOMAIN seq, V)
  BY AlongSteps
<1> HIDE DEF c, e
<1>2. PICK g \in [SUBSET DOMAIN seq -> V] : Solves(g, DOMAIN seq, base, c, e)
  BY <1>1, FoldExists
<1>3. GoesAlong(g, step, V, base, seq)
  BY <1>2 DEF Solves, Folded, GoesAlong, LastOf, StepsAlong, c, e
<1> QED
  BY <1>3

LEMMA AlongSolves ==
  ASSUME NEW X, NEW V, NEW base \in V, NEW step \in [X -> [V -> V]], NEW seq \in Seq(X),
         NEW h, GoesAlong(h, step, V, base, seq)
  PROVE  /\ Solves(h, DOMAIN seq, base, LastOf(DOMAIN seq), StepsAlong(step, seq))
         /\ \A s \in SUBSET DOMAIN seq : h[s] \in V
<1> DEFINE c == LastOf(DOMAIN seq)
           e == StepsAlong(step, seq)
<1>1. IsFiniteSet(DOMAIN seq) /\ Chooses(c, DOMAIN seq) /\ Combines(e, DOMAIN seq, V)
  BY AlongSteps
<1>2. Refolds(h, DOMAIN seq, V, base, c, e)
  BY DEF GoesAlong, Refolds, LastOf, StepsAlong
<1> HIDE DEF c, e
<1>3. Solves(h, DOMAIN seq, base, c, e) /\ \A s \in SUBSET DOMAIN seq : h[s] \in V
  BY <1>1, <1>2, FoldTyped
<1> QED
  BY <1>3 DEF c, e

\* One more element is folded last.
LEMMA AlongAppend ==
  ASSUME NEW X, NEW V, NEW base \in V, NEW step \in [X -> [V -> V]], NEW seq \in Seq(X), NEW x \in X,
         NEW g, GoesAlong(g, step, V, base, seq),
         NEW h, GoesAlong(h, step, V, base, Append(seq, x))
  PROVE  /\ g[DOMAIN seq] \in V
         /\ h[DOMAIN Append(seq, x)] = step[x][g[DOMAIN seq]]
<1> DEFINE more == Append(seq, x)
           n == Len(seq)
           c == LastOf(1..(n + 1))
           e == StepsAlong(step, more)
<1>1. /\ n \in Nat /\ DOMAIN seq = 1..n /\ DOMAIN more = 1..(n + 1) /\ more \in Seq(X)
      /\ \A i \in 1..n : more[i] = seq[i]
      /\ more[n + 1] = x
  OBVIOUS
<1>2. /\ Solves(g, 1..n, base, LastOf(1..n), StepsAlong(step, seq))
      /\ \A s \in SUBSET (1..n) : g[s] \in V
  <2>1. /\ Solves(g, DOMAIN seq, base, LastOf(DOMAIN seq), StepsAlong(step, seq))
        /\ \A s \in SUBSET DOMAIN seq : g[s] \in V
    BY AlongSolves
  <2> QED
    BY <1>1, <2>1
<1>3. GoesAlong(h, step, V, base, more) /\ more \in Seq(X)
  BY <1>1
<1>4. /\ Chooses(c, 1..(n + 1))
      /\ Solves(h, 1..(n + 1), base, c, e)
  <2> HIDE DEF more
  <2>1. Solves(h, DOMAIN more, base, LastOf(DOMAIN more), StepsAlong(step, more))
    BY <1>3, AlongSolves
  <2>2. Chooses(LastOf(DOMAIN more), DOMAIN more)
    BY <1>3, AlongSteps
  <2> QED
    BY <1>1, <2>1, <2>2
<1>5. 1..n \subseteq 1..(n + 1)
  BY <1>1
<1>6. ASSUME NEW s \in SUBSET (1..n), s # {}
      PROVE  c[s] = LastOf(1..n)[s] /\ e[s] = StepsAlong(step, seq)[s]
  <2>1. Max(s) \in 1..n
    BY <1>1, <1>6, MaxOf
  <2> QED
    BY <1>1, <1>5, <2>1 DEF LastOf, StepsAlong
<1>7. Solves(g, 1..n, base, c, e)
  <2> HIDE DEF c, e
  <2> QED
    BY <1>2, <1>6 DEF Solves, Folded
<1>8. Solves(h, 1..n, base, c, e) /\ Chooses(c, 1..n)
  <2> HIDE DEF c, e
  <2> QED
    BY <1>4, <1>5 DEF Solves, Chooses
<1>9. g[1..n] = h[1..n]
  <2>1. IsFiniteSet(1..n)
    BY <1>1, FS_Interval
  <2> HIDE DEF c, e, n
  <2> QED
    BY <1>7, <1>8, <2>1, FoldUnique
<1>10. Max(1..(n + 1)) = n + 1
  <2> DEFINE all == 1..(n + 1)
  <2>1. n + 1 \in Nat /\ n + 1 \in all
    BY <1>1
  <2> HIDE DEF n
  <2>2. Max(all) \in all /\ \A y \in all : y <= Max(all)
    BY <2>1, MaxOf
  <2> QED
    BY <1>1, <2>1, <2>2
<1>11. c[1..(n + 1)] = n + 1 /\ e[1..(n + 1)] = step[x]
  BY <1>1, <1>10 DEF LastOf, StepsAlong
<1>12. (1..(n + 1)) \ {n + 1} = 1..n
  <2>1. n \in Nat
    BY <1>1
  <2> HIDE DEF n
  <2> QED
    BY <2>1
<1>13. h[1..(n + 1)] = e[1..(n + 1)][h[1..n]]
  <2>1. n + 1 \in 1..(n + 1)
    BY <1>1
  <2> HIDE DEF c, e
  <2> QED
    BY <1>4, <1>11, <1>12, <2>1 DEF Solves, Folded
<1> HIDE DEF c, e
<1>14. h[1..(n + 1)] = step[x][g[1..n]] /\ g[1..n] \in V
  BY <1>2, <1>9, <1>11, <1>13
<1> QED
  BY <1>1, <1>14

LEMMA AlongNone ==
  ASSUME NEW step, NEW V, NEW base, NEW h, GoesAlong(h, step, V, base, << >>)
  PROVE  h[DOMAIN << >>] = base
<1>1. DOMAIN << >> = {} /\ {} \in SUBSET (DOMAIN << >>)
  OBVIOUS
<1> QED
  BY <1>1, Zenon DEF GoesAlong

\* step adds what an element of X weighs.
AddsWeight(step, weight, X) ==
  /\ weight \in [X -> Int] /\ step \in [X -> [Int -> Int]]
  /\ \A x \in X : step[x] = [v \in Int |-> v + weight[x]]

WeightAlong(weight, seq) == [i \in DOMAIN seq |-> weight[seq[i]]]

LEMMA AlongSum ==
  ASSUME NEW X, NEW weight, NEW step, AddsWeight(step, weight, X), NEW base \in Int,
         NEW seq \in Seq(X), NEW h, GoesAlong(h, step, Int, base, seq)
  PROVE  /\ Summable(WeightAlong(weight, seq), DOMAIN seq)
         /\ h[DOMAIN seq] = base + SumOf(WeightAlong(weight, seq), DOMAIN seq)
<1> DEFINE D == DOMAIN seq
           f == WeightAlong(weight, seq)
           c == LastOf(D)
           e == StepsAlong(step, seq)
           g == [s \in SUBSET D |-> base + SumOf(f, s)]
<1>0. weight \in [X -> Int] /\ step \in [X -> [Int -> Int]]
  BY DEF AddsWeight
<1>1. IsFiniteSet(D) /\ Chooses(c, D) /\ \A s \in SUBSET D : s # {} => Max(s) \in s
  BY <1>0, AlongSteps
<1>2. Solves(h, D, base, c, e)
  BY <1>0, AlongSolves
<1>3. \A i \in D : seq[i] \in X
  OBVIOUS
<1>4. Summable(f, D)
  BY <1>0, <1>1, <1>3 DEF Summable, WeightAlong
<1>5. ASSUME NEW s \in SUBSET D PROVE g[s] = Folded(s, base, c, e, g)
  <2>1. CASE s = {}
    BY <2>1, SumOfNone DEF Folded
  <2>2. CASE s # {}
    <3> DEFINE m == Max(s)
               rest == s \ {m}
    <3>1. m \in s /\ c[s] = m /\ e[s] = step[seq[m]] /\ seq[m] \in X
      BY <1>1, <1>3, <2>2 DEF LastOf, StepsAlong
    <3>2. Summable(f, s) /\ Summable(f, rest)
      BY <1>4, FS_Subset DEF Summable
    <3> HIDE DEF m
    <3>3. SumOf(f, s) = f[m] + SumOf(f, rest) /\ SumOf(f, rest) \in Int
      <4> HIDE DEF f, rest
      <4> QED
        BY <3>1, <3>2, SumWithout, SumIsInt DEF rest
    <3>4. f[m] = weight[seq[m]] /\ weight[seq[m]] \in Int
      BY <1>0, <3>1 DEF WeightAlong
    <3>5. step[seq[m]] = [v \in Int |-> v + weight[seq[m]]]
      BY <3>1 DEF AddsWeight
    <3> HIDE DEF f
    <3>6. g[rest] = base + SumOf(f, rest) /\ g[s] = base + SumOf(f, s) /\ g[rest] \in Int
      BY <3>3
    <3> HIDE DEF g, rest
    <3>7. e[s][g[rest]] = g[rest] + weight[seq[m]]
      BY <3>1, <3>5, <3>6
    <3>8. g[s] = g[rest] + weight[seq[m]]
      <4>1. SumOf(f, s) = weight[seq[m]] + SumOf(f, rest)
        BY <3>3, <3>4
      <4>2. \A w, r \in Int : base + (w + r) = (base + r) + w
        OBVIOUS
      <4>3. base + (weight[seq[m]] + SumOf(f, rest)) = (base + SumOf(f, rest)) + weight[seq[m]]
        BY <3>3, <3>4, <4>2
      <4> QED
        BY <3>6, <4>1, <4>3, Zenon
    <3>9. g[s] = e[s][g[rest]]
      BY <3>7, <3>8, Zenon
    <3> HIDE DEF c, e
    <3> QED
      BY <2>2, <3>1, <3>9 DEF Folded, rest
  <2> QED
    BY <2>1, <2>2
<1>6. Solves(g, D, base, c, e)
  <2> HIDE DEF g, c, e
  <2> QED
    BY <1>5 DEF Solves
<1>7. g[D] = h[D]
  <2> HIDE DEF g, c, e
  <2> QED
    BY <1>1, <1>2, <1>6, FoldUnique
<1> HIDE DEF f
<1> QED
  BY <1>4, <1>7 DEF f

-----------------------------------------------------------------------------
(* Places in an order *)

\* P puts the elements of W in a line.
Ordered(P, W) ==
  /\ IsFiniteSet(W)
  /\ \A w \in W : <<w, w>> \notin P
  /\ \A u, v, w \in W : <<u, v>> \in P /\ <<v, w>> \in P => <<u, w>> \in P
  /\ \A v, w \in W : v # w => <<v, w>> \in P \/ <<w, v>> \in P

Before(P, W, w) == {v \in W : <<v, w>> \in P}
Place(P, W, w) == Cardinality(Before(P, W, w))

\* Places are counted from zero, and grow along the line.
LEMMA PlacesGrow ==
  ASSUME NEW W, NEW P, Ordered(P, W)
  PROVE  /\ \A w \in W : Place(P, W, w) \in 0 .. Cardinality(W) - 1
         /\ \A v, w \in W : <<v, w>> \in P => Place(P, W, v) < Place(P, W, w)
<1>1. IsFiniteSet(W) /\ Cardinality(W) \in Nat
  BY FS_CardinalityType DEF Ordered
<1>2. ASSUME NEW w \in W
      PROVE  /\ Place(P, W, w) = Cardinality(Before(P, W, w)) /\ Place(P, W, w) \in Nat
             /\ IsFiniteSet(Before(P, W, w)) /\ Before(P, W, w) \in SUBSET W
             /\ w \notin Before(P, W, w)
  <2>1. Before(P, W, w) \in SUBSET W /\ w \notin Before(P, W, w)
    BY DEF Before, Ordered
  <2>2. Place(P, W, w) = Cardinality(Before(P, W, w))
    BY DEF Place
  <2>3. IsFiniteSet(Before(P, W, w))
    BY <1>1, <2>1, FS_Subset
  <2> QED
    BY <2>1, <2>2, <2>3, FS_CardinalityType
<1>3. ASSUME NEW v \in W, NEW S, S \in SUBSET W, v \in S, IsFiniteSet(S), Before(P, W, v) \subseteq S \ {v}
      PROVE  Place(P, W, v) <= Cardinality(S) - 1
  <2>1. IsFiniteSet(S \ {v}) /\ Cardinality(S \ {v}) = Cardinality(S) - 1
    BY <1>3, FS_RemoveElement
  <2>2. Cardinality(Before(P, W, v)) <= Cardinality(S \ {v})
    BY <1>3, <2>1, FS_Subset
  <2> QED
    BY <1>2, <2>1, <2>2
<1>4. ASSUME NEW w \in W PROVE Place(P, W, w) \in 0 .. Cardinality(W) - 1
  <2>1. Before(P, W, w) \subseteq W \ {w}
    BY <1>2
  <2>2. Place(P, W, w) <= Cardinality(W) - 1
    BY <1>1, <1>3, <2>1
  <2> QED
    BY <1>1, <1>2, <2>2
<1>5. ASSUME NEW v \in W, NEW w \in W, <<v, w>> \in P
      PROVE  Place(P, W, v) < Place(P, W, w)
  <2>1. v \in Before(P, W, w) /\ Before(P, W, v) \subseteq Before(P, W, w) \ {v}
    BY <1>5 DEF Before, Ordered
  <2>2. Place(P, W, v) <= Cardinality(Before(P, W, w)) - 1
    BY <1>2, <1>3, <2>1
  <2> QED
    BY <1>2, <2>2
<1> QED
  BY <1>4, <1>5

\* As many elements have a place below k as k says: no place is left free.
LEMMA PlacedBelow ==
  ASSUME NEW W, NEW P, Ordered(P, W), NEW k \in 0 .. Cardinality(W)
  PROVE  Cardinality({w \in W : Place(P, W, w) < k}) = k
<1> DEFINE n == Cardinality(W)
           place == [w \in W |-> Place(P, W, w)]
           A == {w \in W : Place(P, W, w) < k}
           low == [w \in A |-> Place(P, W, w)]
<1>1. IsFiniteSet(W) /\ n \in Nat
  BY FS_CardinalityType DEF Ordered
<1>2. \A w \in W : Place(P, W, w) \in 0 .. n - 1
  BY PlacesGrow
<1> HIDE DEF n
<1>3. \A v, w \in W : v # w => Place(P, W, v) # Place(P, W, w)
  <2> SUFFICES ASSUME NEW v \in W, NEW w \in W, v # w PROVE Place(P, W, v) # Place(P, W, w)
    OBVIOUS
  <2>1. Place(P, W, v) \in Int /\ Place(P, W, w) \in Int
    BY <1>1, <1>2
  <2>2. <<v, w>> \in P \/ <<w, v>> \in P
    BY DEF Ordered
  <2>3. Place(P, W, v) < Place(P, W, w) \/ Place(P, W, w) < Place(P, W, v)
    BY <2>2, PlacesGrow
  <2> QED
    BY <2>1, <2>3
<1>4. place \in Injection(W, 0 .. n - 1)
  <2>1. place \in [W -> 0 .. n - 1]
    BY <1>2
  <2>2. \A v, w \in W : place[v] = place[w] => v = w
    BY <1>3
  <2> QED
    BY <2>1, <2>2 DEF Injection, IsInjective
<1>5. IsFiniteSet(0 .. n - 1) /\ Cardinality(0 .. n - 1) = n
  BY <1>1, FS_Interval
<1>6. place \in Surjection(W, 0 .. n - 1)
  <2> HIDE DEF place
  <2>1. Cardinality(W) = Cardinality(0 .. n - 1)
    BY <1>5 DEF n
  <2> QED
    BY <1>4, <1>5, <2>1, FS_Injection
<1>7. \A i \in 0 .. n - 1 : \E w \in W : Place(P, W, w) = i
  BY <1>6 DEF Surjection
<1>8. k \in 0 .. n /\ \A w \in W : Place(P, W, w) \in 0 .. n - 1
  BY <1>2 DEF n
<1>9. low \in Bijection(A, 0 .. k - 1)
  <2>1. low \in [A -> 0 .. k - 1]
    <3> SUFFICES ASSUME NEW w \in A PROVE Place(P, W, w) \in 0 .. k - 1
      OBVIOUS
    <3> QED
      BY <1>1, <1>8
  <2>2. \A v, w \in A : low[v] = low[w] => v = w
    BY <1>3
  <2>3. ASSUME NEW i \in 0 .. k - 1 PROVE \E w \in A : low[w] = i
    <3>1. i \in 0 .. n - 1 /\ i < k
      BY <1>1, <1>8
    <3>2. PICK w \in W : Place(P, W, w) = i
      BY <1>7, <3>1
    <3>3. w \in A /\ low[w] = i
      BY <3>1, <3>2
    <3> QED
      BY <3>3
  <2> QED
    BY <2>1, <2>2, <2>3 DEF Bijection, Injection, Surjection, IsInjective
<1>10. IsFiniteSet(A)
  BY <1>1, FS_Subset
<1>11. Cardinality(0 .. k - 1) = k /\ IsFiniteSet(0 .. k - 1)
  BY <1>8, FS_Interval
<1> HIDE DEF low, A
<1>12. ExistsBijection(A, 0 .. k - 1)
  BY <1>9 DEF ExistsBijection
<1>13. Cardinality(0 .. k - 1) = Cardinality(A)
  BY <1>10, <1>12, FS_Bijection
<1> QED
  BY <1>11, <1>13 DEF A

\* An element further along the line has k elements between place i and its own.
LEMMA PlacesBetween ==
  ASSUME NEW W, NEW P, Ordered(P, W), NEW i \in Nat, NEW k \in Nat, i + k <= Cardinality(W)
  PROVE  Cardinality({w \in W : Place(P, W, w) \in i .. i + k - 1}) = k
<1> DEFINE low == {w \in W : Place(P, W, w) < i}
           high == {w \in W : Place(P, W, w) < i + k}
           page == {w \in W : Place(P, W, w) \in i .. i + k - 1}
<1>1. IsFiniteSet(W) /\ Cardinality(W) \in Nat
  BY FS_CardinalityType DEF Ordered
<1>2. Cardinality(low) = i /\ Cardinality(high) = i + k
  <2>1. i \in 0 .. Cardinality(W) /\ i + k \in 0 .. Cardinality(W)
    BY <1>1
  <2> HIDE DEF low, high
  <2> QED
    BY <2>1, PlacedBelow DEF low, high
<1>3. \A w \in W : Place(P, W, w) \in Int
  <2>1. \A w \in W : Place(P, W, w) \in 0 .. Cardinality(W) - 1
    BY PlacesGrow
  <2> QED
    BY <1>1, <2>1
<1>4. page = high \ low /\ low \subseteq high
  BY <1>3
<1>5. IsFiniteSet(high) /\ IsFiniteSet(low)
  BY <1>1, FS_Subset
<1> HIDE DEF low, high, page
<1>6. Cardinality(high \ low) = Cardinality(high) - Cardinality(high \cap low) /\ high \cap low = low
  BY <1>4, <1>5, FS_Difference
<1>7. Cardinality(page) = k
  BY <1>2, <1>4, <1>6
<1> QED
  BY <1>7 DEF page
=============================================================================
