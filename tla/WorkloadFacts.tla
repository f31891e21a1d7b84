---------------------------- MODULE WorkloadFacts ----------------------------
(***************************************************************************)
(* The work of a cleaner's day, for the provers: the days of a slot are    *)
(* those it meets, the work of a day is a sum, a slot that is released     *)
(* takes nothing from the others, and one that workload_issue lets in      *)
(* keeps every limit, also of slots that were there before it.             *)
(***************************************************************************)
EXTENDS WorkloadRules, FoldFacts

\* Slots of positive length, finitely many.
SlotSet(S) ==
  /\ IsFiniteSet(S)
  /\ \A s \in S : s.from \in Int /\ s.to \in Int /\ s.from < s.to /\ s.limit \in Nat /\ s.zone \in Int

\* Every slot is within the limit it carries, of a set that holds one cleaner's.
WithinOwnLimits(S) ==
  \A s \in S : s.limit # 0 =>
    \A d \in Days(s, s.zone) :
      (\A t \in OnDay(S, d, s.zone) : t.reviewed) /\ Work(S, d, s.zone) <= s.limit

LEMMA DayOfInstant ==
  ASSUME NEW t \in Int, NEW zone \in Int, NEW d \in Int
  PROVE  /\ Day(t, zone) \in Int /\ DayStart(d, zone) \in Int
         /\ Day(t, zone) <= d <=> t < DayStart(d + 1, zone)
         /\ d <= Day(t, zone) <=> DayStart(d, zone) <= t
         /\ DayStart(d + 1, zone) = DayStart(d, zone) + DayLength
<1> DEFINE D == DayLength
           x == t + zone
           q == x \div D
           r == x % D
<1>1. D \in Nat /\ D > 0 /\ x \in Int
  BY WorkloadAssumption
<1>2. q \in Int /\ r \in Int /\ 0 <= r /\ r < D /\ x = (D * q) + r
  <2> HIDE DEF D, x
  <2> QED
    BY <1>1
<1> HIDE DEF D, x, q, r
<1>3. ASSUME NEW a \in Int, NEW b \in Int, a <= b PROVE D * a <= D * b
  <2>1. b - a \in Nat
    BY <1>3
  <2>2. D * (b - a) >= 0 /\ D * (b - a) = (D * b) - (D * a)
    BY <1>1, <2>1
  <2> QED
    BY <1>1, <1>3, <2>2
<1>4. D * (d + 1) = (D * d) + D /\ D * (q + 1) = (D * q) + D /\ D * d \in Int /\ D * q \in Int
  BY <1>1, <1>2
<1>5. q <= d => x < (D * d) + D
  <2> SUFFICES ASSUME q <= d PROVE x < (D * d) + D
    OBVIOUS
  <2>1. D * q <= D * d
    BY <1>2, <1>3
  <2> QED
    BY <1>1, <1>2, <1>4, <2>1
<1>6. d + 1 <= q => (D * d) + D <= x
  <2> SUFFICES ASSUME d + 1 <= q PROVE (D * d) + D <= x
    OBVIOUS
  <2>1. D * (d + 1) <= D * q
    BY <1>2, <1>3
  <2> QED
    BY <1>1, <1>2, <1>4, <2>1
<1>7. d <= q => D * d <= x
  <2> SUFFICES ASSUME d <= q PROVE D * d <= x
    OBVIOUS
  <2>1. D * d <= D * q
    BY <1>2, <1>3
  <2> QED
    BY <1>1, <1>2, <1>4, <2>1
<1>8. q + 1 <= d => x < D * d
  <2> SUFFICES ASSUME q + 1 <= d PROVE x < D * d
    OBVIOUS
  <2>1. D * (q + 1) <= D * d
    BY <1>2, <1>3
  <2> QED
    BY <1>1, <1>2, <1>4, <2>1
<1>9. Day(t, zone) = q
  BY DEF Day, q, x, D
<1>10. DayStart(d, zone) = (D * d) - zone /\ DayStart(d + 1, zone) = ((D * d) + D) - zone
  <2>1. DayStart(d, zone) = d * D - zone /\ DayStart(d + 1, zone) = (d + 1) * D - zone
    BY DEF DayStart, D
  <2>2. d * D = D * d /\ (d + 1) * D = D * (d + 1)
    BY <1>1
  <2> QED
    BY <1>4, <2>1, <2>2
<1>11. x = t + zone
  BY DEF x
<1>12. q <= d \/ d + 1 <= q
  BY <1>2
<1>13. d <= q \/ q + 1 <= d
  BY <1>2
<1>14. q <= d <=> t < DayStart(d + 1, zone)
  BY <1>1, <1>2, <1>4, <1>5, <1>6, <1>10, <1>11, <1>12
<1>15. d <= q <=> DayStart(d, zone) <= t
  BY <1>1, <1>2, <1>4, <1>7, <1>8, <1>10, <1>11, <1>13
<1> QED
  BY <1>1, <1>2, <1>4, <1>9, <1>10, <1>14, <1>15 DEF D

LEMMA DaysFollow ==
  ASSUME NEW zone \in Int, NEW d \in Int
  PROVE  /\ DayStart(d, zone) \in Int /\ DayStart(d + 1, zone) = DayStart(d, zone) + DayLength
         /\ DayLength \in Nat /\ DayLength > 0
<1>1. 0 \in Int
  OBVIOUS
<1> QED
  BY <1>1, DayOfInstant, WorkloadAssumption

\* The days of a slot are those it meets.
LEMMA DaysMet ==
  ASSUME NEW s, s.from \in Int, s.to \in Int, s.from < s.to, NEW zone \in Int, NEW d \in Int
  PROVE  /\ d \in Days(s, zone) <=> Meets(s, DayStart(d, zone), DayStart(d + 1, zone))
         /\ Days(s, zone) \subseteq Int
<1>1. s.to - 1 \in Int
  OBVIOUS
<1>2. /\ Day(s.from, zone) <= d <=> s.from < DayStart(d + 1, zone)
      /\ d <= Day(s.to - 1, zone) <=> DayStart(d, zone) <= s.to - 1
      /\ Day(s.from, zone) \in Int /\ Day(s.to - 1, zone) \in Int /\ DayStart(d, zone) \in Int
  BY <1>1, DayOfInstant
<1>3. DayStart(d, zone) <= s.to - 1 <=> DayStart(d, zone) < s.to
  BY <1>2
<1> QED
  BY <1>2, <1>3 DEF Days, Meets

\* Each slot of a day counts for something.
LEMMA MinutesType ==
  ASSUME NEW s, s.from \in Int, s.to \in Int, s.from < s.to, NEW zone \in Int, NEW d \in Int,
         Meets(s, DayStart(d, zone), DayStart(d + 1, zone))
  PROVE  MinutesOn(s, d, zone) \in Int /\ MinutesOn(s, d, zone) > 0
<1>1. /\ DayStart(d, zone) \in Int /\ DayStart(d + 1, zone) \in Int
      /\ DayStart(d, zone) < DayStart(d + 1, zone)
  BY DaysFollow
<1> QED
  BY <1>1 DEF MinutesOn, Meets, Earlier, Later

\* What each slot of T counts for on the day.
Minutes(T, d, zone) == [s \in T |-> MinutesOn(s, d, zone)]

\* The work of a day as a sum FoldFacts speaks of.
LEMMA WorkIsSum ==
  ASSUME NEW S, NEW d, NEW zone
  PROVE  Work(S, d, zone) = SumOf(Minutes(OnDay(S, d, zone), d, zone), OnDay(S, d, zone))
<1> DEFINE T == OnDay(S, d, zone)
           f == Minutes(T, d, zone)
           B(g) == [s \in SUBSET T |->
                      IF s = {} THEN 0 ELSE MinutesOn(CHOOSE x \in s : TRUE, d, zone) + g[s \ {CHOOSE x \in s : TRUE}]]
           C(g) == [s \in SUBSET T |->
                      IF s = {} THEN 0 ELSE f[CHOOSE x \in s : TRUE] + g[s \ {CHOOSE x \in s : TRUE}]]
<1>1. ASSUME NEW g PROVE B(g) = C(g)
  <2>1. \A s \in SUBSET T : s # {} => (CHOOSE x \in s : TRUE) \in T
    OBVIOUS
  <2>2. \A s \in SUBSET T : s # {} => f[CHOOSE x \in s : TRUE] = MinutesOn(CHOOSE x \in s : TRUE, d, zone)
    BY <2>1 DEF Minutes
  <2> HIDE DEF f, T
  <2> QED
    BY <2>2
<1>2. Work(S, d, zone) = (CHOOSE g : g = B(g))[T]
  BY DEF Work, MapThenSumSet, MapThenFoldSet
<1>3. SumOf(f, T) = (CHOOSE g : g = C(g))[T]
  BY DEF SumOf, MapThenSumSet, MapThenFoldSet
<1> HIDE DEF B, C, f, T
<1>4. \A g : g = B(g) <=> g = C(g)
  BY <1>1
<1>5. (CHOOSE g : g = B(g)) = (CHOOSE g : g = C(g))
  BY <1>4, Zenon
<1> QED
  BY <1>2, <1>3, <1>5 DEF f, T

LEMMA MinutesSum ==
  ASSUME NEW S, SlotSet(S), NEW zone \in Int, NEW d \in Int, NEW T, T \subseteq OnDay(S, d, zone)
  PROVE  Summable(Minutes(T, d, zone), T) /\ NoneNegative(Minutes(T, d, zone), T)
<1>1. IsFiniteSet(T)
  BY FS_Subset DEF OnDay, SlotSet
<1>2. ASSUME NEW s \in T PROVE MinutesOn(s, d, zone) \in Int /\ MinutesOn(s, d, zone) >= 0
  <2>1. s.from \in Int /\ s.to \in Int /\ s.from < s.to /\ Meets(s, DayStart(d, zone), DayStart(d + 1, zone))
    BY DEF OnDay, SlotSet
  <2>2. MinutesOn(s, d, zone) \in Int /\ MinutesOn(s, d, zone) > 0
    BY <2>1, MinutesType
  <2> QED
    BY <2>2
<1> QED
  BY <1>1, <1>2 DEF Minutes, Summable, NoneNegative

\* Releasing slots leaves less work.
LEMMA LessWork ==
  ASSUME NEW S, SlotSet(S), NEW R \in SUBSET S, NEW zone \in Int, NEW d \in Int
  PROVE  Work(R, d, zone) <= Work(S, d, zone) /\ Work(R, d, zone) \in Int /\ Work(S, d, zone) \in Int
<1> DEFINE T == OnDay(S, d, zone)
           U == OnDay(R, d, zone)
           f == Minutes(T, d, zone)
           g == Minutes(U, d, zone)
<1>1. U \in SUBSET T
  BY DEF OnDay
<1>2. Summable(f, T) /\ NoneNegative(f, T) /\ Summable(g, U)
  BY <1>1, MinutesSum
<1>3. EachEqual(g, f, U)
  BY <1>1 DEF EachEqual, Minutes
<1>4. Work(S, d, zone) = SumOf(f, T) /\ Work(R, d, zone) = SumOf(g, U)
  BY WorkIsSum
<1> HIDE DEF f, g, T, U
<1>5. SumOf(g, U) = SumOf(f, U)
  BY <1>2, <1>3, SumSame
<1>6. SumOf(f, U) <= SumOf(f, T)
  BY <1>1, <1>2, SumOfPart
<1> QED
  BY <1>2, <1>4, <1>5, <1>6, SumIsInt

\* What adding n does to the work of a day of S.
AddsWork(S, n) ==
  \A zone \in Int, d \in Int :
    Meets(n, DayStart(d, zone), DayStart(d + 1, zone)) =>
      Work(S \cup {n}, d, zone) = Work(S, d, zone) + MinutesOn(n, d, zone)

LEMMA MoreWork ==
  ASSUME NEW S, SlotSet(S), NEW n, SlotSet({n}), n \notin S
  PROVE  AddsWork(S, n)
<1> SUFFICES ASSUME NEW zone \in Int, NEW d \in Int,
                    Meets(n, DayStart(d, zone), DayStart(d + 1, zone))
             PROVE  Work(S \cup {n}, d, zone) = Work(S, d, zone) + MinutesOn(n, d, zone)
  BY DEF AddsWork
<1> DEFINE W == S \cup {n}
           T == OnDay(W, d, zone)
           U == OnDay(S, d, zone)
           f == Minutes(T, d, zone)
           g == Minutes(U, d, zone)
<1>1. SlotSet(W)
  BY FS_AddElement DEF SlotSet
<1>2. T = U \cup {n} /\ n \notin U
  BY DEF OnDay
<1>3. Summable(f, T) /\ Summable(g, U)
  BY <1>1, MinutesSum
<1>4. EachEqual(g, f, U) /\ f[n] = MinutesOn(n, d, zone)
  BY <1>2 DEF EachEqual, Minutes
<1>5. Work(W, d, zone) = SumOf(f, T) /\ Work(S, d, zone) = SumOf(g, U)
  BY WorkIsSum
<1> HIDE DEF f, g, T, U
<1>6. SumOf(g, U) = SumOf(f, U)
  BY <1>3, <1>4, SumSame
<1>7. U \in SUBSET T /\ n \in T \ U
  BY <1>2
<1>8. AddsOne(f, T)
  BY <1>3, SumWith
<1>9. SumOf(f, U \cup {n}) = f[n] + SumOf(f, U) /\ f[n] \in Int /\ SumOf(f, U) \in Int
  BY <1>7, <1>8 DEF AddsOne
<1>10. Work(W, d, zone) = Work(S, d, zone) + MinutesOn(n, d, zone)
  BY <1>2, <1>4, <1>5, <1>6, <1>9
<1> QED
  BY <1>10

\* A slot that is released takes nothing from the others.
LEMMA ReleasedKeepsLimits ==
  ASSUME NEW S, SlotSet(S), NEW R \in SUBSET S, WithinOwnLimits(S)
  PROVE  WithinOwnLimits(R)
<1> SUFFICES ASSUME NEW s \in R, s.limit # 0, NEW d \in Days(s, s.zone)
             PROVE  (\A t \in OnDay(R, d, s.zone) : t.reviewed) /\ Work(R, d, s.zone) <= s.limit
  BY DEF WithinOwnLimits
<1>1. s \in S /\ s.zone \in Int /\ s.limit \in Nat /\ s.from \in Int /\ s.to \in Int /\ s.from < s.to
  BY DEF SlotSet
<1>2. d \in Int
  BY <1>1, DayOfInstant DEF Days
<1>3. (\A t \in OnDay(S, d, s.zone) : t.reviewed) /\ Work(S, d, s.zone) <= s.limit
  BY <1>1 DEF WithinOwnLimits
<1>4. Work(R, d, s.zone) <= Work(S, d, s.zone) /\ Work(R, d, s.zone) \in Int /\ Work(S, d, s.zone) \in Int
  BY <1>1, <1>2, LessWork
<1>5. \A t \in OnDay(R, d, s.zone) : t.reviewed
  BY <1>3 DEF OnDay
<1> QED
  BY <1>1, <1>3, <1>4, <1>5

\* What workload_issue lets through keeps every limit of the cleaner, also those
\* of slots reserved before.
LEMMA HeldWithinLimits ==
  ASSUME NEW S, SlotSet(S), WithinOwnLimits(S), NEW n, SlotSet({n}), n \notin S, WithinLimits(n, S)
  PROVE  WithinOwnLimits(S \cup {n})
<1> DEFINE W == S \cup {n}
<1> SUFFICES ASSUME NEW s \in W, s.limit # 0, NEW d \in Days(s, s.zone)
             PROVE  (\A t \in OnDay(W, d, s.zone) : t.reviewed) /\ Work(W, d, s.zone) <= s.limit
  BY DEF WithinOwnLimits
<1>1. /\ s.zone \in Int /\ s.limit \in Nat /\ s.from \in Int /\ s.to \in Int /\ s.from < s.to
      /\ n.from \in Int /\ n.to \in Int /\ n.from < n.to
  BY DEF SlotSet
<1>2. d \in Int
  BY <1>1, DayOfInstant DEF Days
<1>3. s \in OnDay(W, d, s.zone)
  BY <1>1, <1>2, DaysMet DEF OnDay
<1>4. /\ DayStart(d, s.zone) \in Int /\ DayStart(d + 1, s.zone) = DayStart(d, s.zone) + DayLength
      /\ DayLength \in Nat /\ DayLength > 0
  BY <1>1, <1>2, DaysFollow
<1>5. CASE Meets(n, DayStart(d, s.zone), DayStart(d + 1, s.zone))
  <2>1. Meets(s, DayStart(d, s.zone), DayStart(d + 1, s.zone))
    BY <1>3 DEF OnDay
  <2>2. Meets(s, n.from - DayLength, n.to + DayLength)
    BY <1>1, <1>4, <1>5, <2>1 DEF Meets
  <2>3. Policy(s) \in NearPolicies(n, S) /\ Policy(s).zone = s.zone /\ Policy(s).limit = s.limit
    BY <2>2 DEF NearPolicies, Policy
  <2>4. d \in Days(n, s.zone)
    BY <1>1, <1>2, <1>5, DaysMet
  <2>5. Binds(Policy(s), d, S \cup {n})
    BY <1>3, <2>3 DEF Binds
  <2>6. /\ \A t \in OnDay(S \cup {n}, d, s.zone) : t.reviewed
        /\ Work(S, d, s.zone) + MinutesOn(n, d, s.zone) <= s.limit
    BY <2>3, <2>4, <2>5 DEF WithinLimits
  <2>7. AddsWork(S, n)
    BY MoreWork
  <2>8. Work(S \cup {n}, d, s.zone) = Work(S, d, s.zone) + MinutesOn(n, d, s.zone)
    <3> HIDE DEF W
    <3> QED
      BY <1>1, <1>2, <1>5, <2>7 DEF AddsWork
  <2> QED
    BY <2>6, <2>8
<1>6. CASE ~Meets(n, DayStart(d, s.zone), DayStart(d + 1, s.zone))
  <2>1. OnDay(W, d, s.zone) = OnDay(S, d, s.zone)
    BY <1>6 DEF OnDay
  <2>2. s \in S
    BY <1>3, <2>1 DEF OnDay
  <2>3. Work(W, d, s.zone) = Work(S, d, s.zone)
    BY <2>1, WorkIsSum
  <2> QED
    BY <2>1, <2>2, <2>3 DEF WithinOwnLimits
<1> QED
  BY <1>5, <1>6
=============================================================================
