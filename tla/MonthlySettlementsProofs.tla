---------------------- MODULE MonthlySettlementsProofs ----------------------
(***************************************************************************)
(* What holds of corrections and monthly statements for any number of      *)
(* proposals, statements, lines, transfers and events: an occurrence is    *)
(* corrected once, earnings stay in their column, every saved history      *)
(* opens, statements claim a thing once, every transfer the page offers is *)
(* accepted, and the whole is PayLedger. The three inductive invariants    *)
(* (AdjustmentInv and JournalInv of the corrections, IInv and PayInv of    *)
(* the composition) stand before the lemmas that keep them.                *)
(***************************************************************************)
EXTENDS MonthlySettlements, FoldFacts

-----------------------------------------------------------------------------
(* Corrections of earnings *)

\* Every proposal was made by an event of the journal.
Dated == \A i \in Items : Exists(i) => item[i].at <= source.version

\* Proposals about one occurrence are made one after the other, and all but
\* the last of them are rejected.
OnlyLastLives ==
  \A i, j \in Items :
    Exists(i) /\ Exists(j) /\ i # j /\ item[i].occurrence = item[j].occurrence =>
      /\ item[i].at # item[j].at
      /\ item[i].at < item[j].at => item[i].status = "rejected"

\* The inductive invariant of corrections.
AdjustmentInv == AdjustmentTypeOK /\ Dated /\ OnlyLastLives

LEMMA AdjustmentInitInv == AdjustmentInit => AdjustmentInv
  BY DEF AdjustmentInit, AdjustmentInv, AdjustmentTypeOK, Item, NoItem, Statuses, Kinds, Dated,
         OnlyLastLives, Exists

\* A step that leaves the proposals as they were, except that it may reject one
\* or change its other marks.
LEMMA MarksKeepInv ==
  ASSUME AdjustmentInv, NEW i \in Items, Exists(i),
         item' \in [Items -> Item], source' \in [version : Nat, revision : Nat],
         source'.version = source.version + 1,
         \A j \in Items \ {i} : item'[j] = item[j],
         item'[i].occurrence = item[i].occurrence, item'[i].at = item[i].at,
         item'[i].status # "none",
         item[i].status = "rejected" => item'[i].status = "rejected"
  PROVE  AdjustmentInv'
<1>1. AdjustmentTypeOK'
  BY DEF AdjustmentInv, AdjustmentTypeOK
<1>2. \A j \in Items : Exists(j)' <=> Exists(j)
  BY DEF Exists
<1>3. \A j \in Items :
        /\ item'[j].occurrence = item[j].occurrence /\ item'[j].at = item[j].at
        /\ item[j].status = "rejected" => item'[j].status = "rejected"
  OBVIOUS
<1>4. Dated'
  <2>1. \A j \in Items : item[j].at \in Nat
    BY DEF AdjustmentInv, AdjustmentTypeOK, Item
  <2>2. source.version \in Nat
    BY DEF AdjustmentInv, AdjustmentTypeOK
  <2> QED BY <1>2, <1>3, <2>1, <2>2 DEF AdjustmentInv, Dated
<1>5. OnlyLastLives'
  BY <1>2, <1>3 DEF AdjustmentInv, OnlyLastLives
<1> QED BY <1>1, <1>4, <1>5 DEF AdjustmentInv

LEMMA RecordedTypes ==
  ASSUME AdjustmentInv, NEW e, NEW revision \in Nat, Recorded(e, revision)
  PROVE  /\ source' \in [version : Nat, revision : Nat]
         /\ source'.version = source.version + 1
  BY DEF Recorded, AdjustmentInv, AdjustmentTypeOK

LEMMA ProposeKeepsInv ==
  ASSUME AdjustmentInv, NEW i \in Items, NEW c \in Corrections, NEW occurrence \in Occurrences,
         NEW supersedes \in Items \cup {None}, Propose(i, c, occurrence, supersedes)
  PROVE  AdjustmentInv'
<1> USE AdjustmentReplayAssumption, EarningsAdjustmentsAssumption
<1> DEFINE old == IF c.kind = "reimbursement" THEN 0 ELSE Earned
<1>1. /\ old \in (-MaxCents - 1)..MaxCents
      /\ old + c.delta \in 0..MaxCents
      /\ item' = [item EXCEPT ![i] =
           [status |-> "proposed", kind |-> c.kind, delta |-> c.delta,
            occurrence |-> occurrence, old |-> old, new |-> old + c.delta,
            revision |-> source.revision, at |-> source.version + 1, disputed |-> FALSE,
            frozen |-> FALSE, simulated |-> FALSE, claimed |-> FALSE]]
  BY DEF Propose
<1> HIDE DEF old
<1>2. /\ ~Exists(i)
      /\ LinkedReplacement(occurrence, supersedes)
      /\ \E e : Recorded(e, source.revision)
  BY DEF Propose
<1>3. /\ item \in [Items -> Item] /\ source.version \in Nat /\ source.revision \in Nat
      /\ c.kind \in Kinds /\ c.delta \in Int
  BY DEF AdjustmentInv, AdjustmentTypeOK
<1>4. /\ source' \in [version : Nat, revision : Nat] /\ source'.version = source.version + 1
  BY <1>2, <1>3, RecordedTypes
<1>5. item'[i] \in Item /\ \A j \in Items \ {i} : item'[j] = item[j]
  BY <1>1, <1>3 DEF Item, Statuses
<1>6. AdjustmentTypeOK'
  BY <1>1, <1>3, <1>4, <1>5 DEF AdjustmentTypeOK
<1>7. /\ item'[i].occurrence = occurrence
      /\ item'[i].at = source.version + 1
      /\ item'[i].status = "proposed"
  BY <1>1, <1>3
<1>8. \A j \in Items : item[j].at \in Nat
  BY <1>3 DEF Item
<1>9. Dated'
  BY <1>3, <1>4, <1>5, <1>7, <1>8 DEF AdjustmentInv, Dated, Exists
<1>10. \A j \in About(occurrence) : item[j].status = "rejected"
  <2> SUFFICES ASSUME NEW j \in About(occurrence)
               PROVE  item[j].status = "rejected"
    OBVIOUS
  <2>1. /\ supersedes \in About(occurrence)
        /\ Latest(supersedes)
        /\ item[supersedes].status = "rejected"
    BY <1>2 DEF LinkedReplacement
  <2>2. item[j].at <= item[supersedes].at
    BY <2>1 DEF Latest, About
  <2> QED BY <1>8, <2>1, <2>2 DEF AdjustmentInv, OnlyLastLives, About
<1>11. OnlyLastLives'
  <2> SUFFICES ASSUME NEW j \in Items, NEW k \in Items, Exists(j)', Exists(k)', j # k,
                      item'[j].occurrence = item'[k].occurrence
               PROVE  /\ item'[j].at # item'[k].at
                      /\ item'[j].at < item'[k].at => item'[j].status = "rejected"
    BY DEF OnlyLastLives
  <2>1. CASE j # i /\ k # i
    BY <1>5, <2>1 DEF AdjustmentInv, OnlyLastLives, Exists
  <2>2. CASE j = i
    <3>1. item'[k] = item[k] /\ item[k].at <= source.version
      BY <1>5, <2>2 DEF AdjustmentInv, Dated, Exists
    <3> QED BY <1>3, <1>7, <1>8, <2>2, <3>1
  <2>3. CASE k = i
    <3>1. item'[j] = item[j] /\ item[j].at <= source.version
      BY <1>5, <2>3 DEF AdjustmentInv, Dated, Exists
    <3>2. j \in About(occurrence)
      BY <1>5, <1>7, <2>3 DEF About, Exists
    <3> QED BY <1>3, <1>7, <1>8, <1>10, <2>3, <3>1, <3>2
  <2> QED BY <2>1, <2>2, <2>3
<1> QED BY <1>6, <1>9, <1>11 DEF AdjustmentInv

LEMMA AdjustmentNextInv == AdjustmentInv /\ [AdjustmentNext]_adjustmentVars => AdjustmentInv'
<1> SUFFICES ASSUME AdjustmentInv, [AdjustmentNext]_adjustmentVars PROVE AdjustmentInv'
  OBVIOUS
<1> DEFINE Marked(i) ==
      /\ item' \in [Items -> Item]
      /\ \A j \in Items \ {i} : item'[j] = item[j]
      /\ item'[i].occurrence = item[i].occurrence /\ item'[i].at = item[i].at
      /\ item'[i].status # "none"
      /\ item[i].status = "rejected" => item'[i].status = "rejected"
<1>1. item \in [Items -> Item] /\ source.revision \in Nat /\ source.version \in Nat
  BY DEF AdjustmentInv, AdjustmentTypeOK
<1>2. CASE UNCHANGED adjustmentVars
  BY <1>2 DEF AdjustmentInv, AdjustmentTypeOK, Dated, OnlyLastLives, Exists, adjustmentVars
<1>3. CASE RegisterSource
  <2>1. source'.version = source.version + 1 /\ source' \in [version : Nat, revision : Nat]
    BY <1>3, RecordedTypes DEF RegisterSource
  <2>2. UNCHANGED item /\ \A j \in Items : item[j].at \in Nat
    BY <1>1, <1>3 DEF RegisterSource, Item
  <2> QED BY <1>1, <2>1, <2>2 DEF AdjustmentInv, AdjustmentTypeOK, Dated, OnlyLastLives, Exists
<1>4. CASE RepeatedPost
  BY <1>2, <1>4 DEF RepeatedPost
<1>5. ASSUME NEW i \in Items, NEW c \in Corrections, NEW occurrence \in Occurrences,
             NEW supersedes \in Items \cup {None}, Propose(i, c, occurrence, supersedes)
      PROVE  AdjustmentInv'
  BY <1>5, ProposeKeepsInv
<1>6. ASSUME NEW i \in Items, Exists(i), Marked(i), NEW e, NEW revision \in Nat,
             Recorded(e, revision)
      PROVE  AdjustmentInv'
  BY <1>6, MarksKeepInv, RecordedTypes
<1>7. ASSUME NEW i \in Items, RaiseDispute(i) PROVE AdjustmentInv'
  <2>1. Exists(i) /\ Recorded([type |-> "raise_dispute", item |-> i], source.revision)
    BY <1>7 DEF RaiseDispute
  <2>2. Marked(i)
    BY <1>1, <1>7 DEF RaiseDispute, Item, Exists
  <2> QED BY <1>1, <1>6, <2>1, <2>2
<1>8. ASSUME NEW i \in Items, ResolveDispute(i) PROVE AdjustmentInv'
  <2>1. Recorded([type |-> "resolve_dispute", item |-> i], source.revision)
    BY <1>8 DEF ResolveDispute
  <2>2. Exists(i)
    BY <1>8 DEF ResolveDispute
  <2>3. Marked(i)
    BY <1>1, <1>8, <2>2 DEF ResolveDispute, Item, Exists
  <2> QED BY <1>1, <1>6, <2>1, <2>2, <2>3
<1>9. ASSUME NEW i \in Items, ApproveCorrection(i) PROVE AdjustmentInv'
  <2>1. Exists(i) /\ Recorded([type |-> "approve", item |-> i], source.revision + 1)
    BY <1>9 DEF ApproveCorrection, CurrentProposal, Exists
  <2>2. Marked(i)
    BY <1>1, <1>9 DEF ApproveCorrection, CurrentProposal, Item, Statuses
  <2> QED BY <1>1, <1>6, <2>1, <2>2
<1>10. ASSUME NEW i \in Items, Reject(i) PROVE AdjustmentInv'
  <2>1. Exists(i) /\ Recorded([type |-> "reject", item |-> i], source.revision)
    BY <1>10 DEF Reject, Exists
  <2>2. Marked(i)
    BY <1>1, <1>10 DEF Reject, Item, Statuses
  <2> QED BY <1>1, <1>6, <2>1, <2>2
<1>11. ASSUME NEW i \in Items, FreezeReview(i) PROVE AdjustmentInv'
  <2>1. Exists(i) /\ Recorded([type |-> "freeze_review", item |-> i], source.revision)
    BY <1>11 DEF FreezeReview, Exists
  <2>2. Marked(i)
    BY <1>1, <1>11 DEF FreezeReview, Item
  <2> QED BY <1>1, <1>6, <2>1, <2>2
<1>12. ASSUME NEW i \in Items, Simulate(i) PROVE AdjustmentInv'
  <2>1. Exists(i) /\ Recorded([type |-> "simulate_settlement", item |-> i], source.revision)
    BY <1>12 DEF Simulate, Exists
  <2>2. Marked(i)
    BY <1>1, <1>12 DEF Simulate, Item
  <2> QED BY <1>1, <1>6, <2>1, <2>2
<1> QED BY <1>2, <1>3, <1>4, <1>5, <1>7, <1>8, <1>9, <1>10, <1>11, <1>12 DEF AdjustmentNext

LEMMA AdjustmentInductive == AdjustmentSpec => []AdjustmentInv
  BY AdjustmentInitInv, AdjustmentNextInv, PTL DEF AdjustmentSpec

LEMMA AdjustmentCorrectedOnce == AdjustmentInv => CorrectedOnce
<1> SUFFICES ASSUME AdjustmentInv, NEW i \in Items, NEW j \in Items, Exists(i), Exists(j), i # j,
                    item[i].occurrence = item[j].occurrence
             PROVE  item[i].status = "rejected" \/ item[j].status = "rejected"
  BY DEF CorrectedOnce
<1>1. item[i].at \in Nat /\ item[j].at \in Nat
  BY DEF AdjustmentInv, AdjustmentTypeOK, Item
<1>2. item[i].at < item[j].at \/ item[j].at < item[i].at
  BY <1>1 DEF AdjustmentInv, OnlyLastLives
<1> QED BY <1>2 DEF AdjustmentInv, OnlyLastLives

\* However proposals about an occurrence are rejected and replaced, at most one
\* of them is not rejected.
THEOREM OneCorrection == AdjustmentSpec => []CorrectedOnce
  BY AdjustmentInductive, AdjustmentCorrectedOnce, PTL

-----------------------------------------------------------------------------
(* What corrections add up to *)

\* The corrections that the rows `it' count as earnings, and their amounts.
Counted(it) == {i \in Items : it[i].status = "approved" /\ it[i].kind # "reimbursement"}
Deltas(it) == [i \in Items |-> it[i].delta]
\* What is earned with these rows, as a sum over a finite set.
EarnedOf(it) == Original + SumOf(Deltas(it), Counted(it))

\* The sum the specification takes is that one: both count the same rows.
LEMMA EarnedIsSum ==
  ASSUME NEW it
  PROVE  Original + MapThenSumSet(LAMBDA i : it[i].delta, Counted(it)) = EarnedOf(it)
<1> DEFINE T == Counted(it)
           f == Deltas(it)
           B(g) == [s \in SUBSET T |->
                      IF s = {} THEN 0 ELSE it[CHOOSE x \in s : TRUE].delta + g[s \ {CHOOSE x \in s : TRUE}]]
           C(g) == [s \in SUBSET T |->
                      IF s = {} THEN 0 ELSE f[CHOOSE x \in s : TRUE] + g[s \ {CHOOSE x \in s : TRUE}]]
<1>1. ASSUME NEW g PROVE B(g) = C(g)
  <2>1. \A s \in SUBSET T : s # {} => f[CHOOSE x \in s : TRUE] = it[CHOOSE x \in s : TRUE].delta
    BY DEF Deltas, Counted
  <2> HIDE DEF f, T
  <2> QED
    BY <2>1
<1>2. MapThenSumSet(LAMBDA i : it[i].delta, T) = (CHOOSE g : g = B(g))[T]
  BY DEF MapThenSumSet, MapThenFoldSet
<1>3. SumOf(f, T) = (CHOOSE g : g = C(g))[T]
  BY DEF SumOf, MapThenSumSet, MapThenFoldSet
<1> HIDE DEF B, C, f, T
<1>4. \A g : g = B(g) <=> g = C(g)
  BY <1>1
<1>5. (CHOOSE g : g = B(g)) = (CHOOSE g : g = C(g))
  BY <1>4, Zenon
<1>6. MapThenSumSet(LAMBDA i : it[i].delta, T) = SumOf(f, T)
  BY <1>2, <1>3, <1>5
<1> QED
  BY <1>6 DEF EarnedOf, f, T

\* In this state and in the next one.
LEMMA EarnedNow == Earned = EarnedOf(item)
<1>1. ApprovedDeltas = Counted(item)
  BY DEF ApprovedDeltas, Counted
<1> QED
  BY <1>1, EarnedIsSum DEF Earned

LEMMA EarnedNext == Earned' = EarnedOf(item')
<1>1. (Earned = EarnedOf(item))'
  BY EarnedNow, PTL
<1> QED
  BY <1>1 DEF EarnedOf, Counted, Deltas, SumOf, MapThenSumSet, MapThenFoldSet

\* The amounts that count can be added up.
LEMMA DeltasSum ==
  ASSUME NEW it \in [Items -> Item], NEW T \in SUBSET Items
  PROVE  Summable(Deltas(it), T) /\ EarnedOf(it) \in Int
<1>1. ASSUME NEW S \in SUBSET Items PROVE Summable(Deltas(it), S)
  <2>1. IsFiniteSet(S)
    BY FS_Subset, AdjustmentReplayAssumption
  <2> QED
    BY <2>1 DEF Summable, Deltas, Item
<1>2. Summable(Deltas(it), Counted(it))
  BY <1>1 DEF Counted
<1>3. SumOf(Deltas(it), Counted(it)) \in Int
  BY <1>2, SumIsInt
<1> QED
  BY <1>1, <1>3, AdjustmentReplayAssumption DEF EarnedOf

\* The same corrections count, with the same amounts.
CountsSame(it, new) ==
  /\ Counted(new) = Counted(it)
  /\ \A i \in Counted(it) : new[i].delta = it[i].delta

\* Rows that count as before earn as before.
LEMMA EarnedSame ==
  ASSUME NEW it \in [Items -> Item], NEW new, CountsSame(it, new)
  PROVE  EarnedOf(new) = EarnedOf(it)
<1> DEFINE T == Counted(it)
<1>1. T \in SUBSET Items
  BY DEF Counted
<1>2. Summable(Deltas(it), T)
  BY <1>1, DeltasSum
<1>3. EachEqual(Deltas(it), Deltas(new), T)
  BY <1>1 DEF EachEqual, Deltas, CountsSame
<1>4. SumOf(Deltas(new), T) = SumOf(Deltas(it), T)
  <2> HIDE DEF T
  <2> QED
    BY <1>2, <1>3, SumSame
<1> QED
  BY <1>4 DEF EarnedOf, CountsSame

\* One more is approved.
LEMMA EarnedMore ==
  ASSUME NEW it \in [Items -> Item], NEW new \in [Items -> Item], NEW i \in Items,
         it[i].status # "approved", new[i] = [it[i] EXCEPT !.status = "approved"],
         \A j \in Items \ {i} : new[j] = it[j]
  PROVE  EarnedOf(new) = EarnedOf(it) + (IF it[i].kind = "reimbursement" THEN 0 ELSE it[i].delta)
<1>1. it[i] \in Item /\ new[i].status = "approved" /\ new[i].kind = it[i].kind /\ new[i].delta = it[i].delta
  BY DEF Item
<1>2. CASE it[i].kind = "reimbursement"
  <2>1. CountsSame(it, new)
    BY <1>1, <1>2 DEF CountsSame, Counted
  <2>2. EarnedOf(new) = EarnedOf(it) /\ EarnedOf(it) \in Int
    BY <2>1, EarnedSame, DeltasSum
  <2> QED
    BY <1>2, <2>2
<1>3. CASE it[i].kind # "reimbursement"
  <2> DEFINE T == Counted(it)
  <2>1. T \in SUBSET Items /\ i \notin T /\ Counted(new) = T \cup {i}
    BY <1>1, <1>3 DEF Counted
  <2>2. \A j \in Items : Deltas(new)[j] = Deltas(it)[j]
    BY <1>1 DEF Deltas
  <2> HIDE DEF T
  <2>3. Summable(Deltas(it), T) /\ Summable(Deltas(it), T \cup {i})
    BY <2>1, DeltasSum
  <2>4. EachEqual(Deltas(it), Deltas(new), T \cup {i})
    BY <2>1, <2>2 DEF EachEqual
  <2>5. SumOf(Deltas(new), T \cup {i}) = SumOf(Deltas(it), T \cup {i})
    BY <2>3, <2>4, SumSame
  <2>6. AddsOne(Deltas(it), T \cup {i})
    BY <2>3, SumWith
  <2>7. SumOf(Deltas(it), T \cup {i}) = Deltas(it)[i] + SumOf(Deltas(it), T) /\ SumOf(Deltas(it), T) \in Int
    BY <2>1, <2>6 DEF AddsOne
  <2>8. Deltas(it)[i] = it[i].delta /\ it[i].delta \in Int
    BY <1>1 DEF Deltas, Item
  <2>9. EarnedOf(new) = Original + (it[i].delta + SumOf(Deltas(it), T))
    BY <2>1, <2>5, <2>7, <2>8 DEF EarnedOf
  <2>10. EarnedOf(it) = Original + SumOf(Deltas(it), T)
    BY DEF EarnedOf, T
  <2>11. Original \in Int
    BY AdjustmentReplayAssumption
  <2>12. EarnedOf(new) = EarnedOf(it) + it[i].delta
    BY <2>7, <2>8, <2>9, <2>10, <2>11
  <2> QED
    BY <1>3, <2>12
<1> QED
  BY <1>2, <1>3

-----------------------------------------------------------------------------
(* What the page's own total is *)

\* A correction as the page has it, and what it adds to the total of the page.
Adjustment ==
  [id : Items, kind : Kinds, delta : Int, occurrence : Occurrences, old : Int, new : Int,
   revision : Nat, status : Statuses, disputed : BOOLEAN, frozen : BOOLEAN, simulated : BOOLEAN]

Weight ==
  [a \in Adjustment |-> IF a.status = "approved" /\ a.kind # "reimbursement" THEN a.delta ELSE 0]

TotalSteps == [a \in Adjustment |-> [v \in Int |-> v + Weight[a]]]

\* The fold of CurrentTotal, by the corrections it has reached.
TotalAlong(list) ==
  CHOOSE g : g = [s \in SUBSET DOMAIN list |->
                    IF s = {} THEN Original
                    ELSE IF list[Max(s)].status = "approved" /\ list[Max(s)].kind # "reimbursement"
                         THEN g[s \ {Max(s)}] + list[Max(s)].delta
                         ELSE g[s \ {Max(s)}]]

\* CurrentTotal goes along the list and adds the weights one by one.
LEMMA TotalSolved ==
  ASSUME NEW pg, pg.adjustments \in Seq(Adjustment)
  PROVE  /\ CurrentTotal(pg) = TotalAlong(pg.adjustments)[DOMAIN pg.adjustments]
         /\ GoesAlong(TotalAlong(pg.adjustments), TotalSteps, Int, Original, pg.adjustments)
<1> DEFINE list == pg.adjustments
           D == DOMAIN list
           Next1(v, a) == IF a.status = "approved" /\ a.kind # "reimbursement" THEN v + a.delta ELSE v
           Body(g) == [s \in SUBSET D |-> IF s = {} THEN Original ELSE Next1(g[s \ {Max(s)}], list[Max(s)])]
           h == TotalAlong(list)
<1>1. /\ Weight \in [Adjustment -> Int] /\ TotalSteps \in [Adjustment -> [Int -> Int]]
      /\ Original \in Int /\ list \in Seq(Adjustment)
  <2>1. Weight \in [Adjustment -> Int]
    BY DEF Weight, Adjustment
  <2>2. \A a \in Adjustment : Weight[a] \in Int
    BY <2>1
  <2>3. TotalSteps \in [Adjustment -> [Int -> Int]]
    BY <2>2 DEF TotalSteps
  <2> QED
    BY <2>1, <2>3, AdjustmentReplayAssumption
<1>2. PICK g \in [SUBSET D -> Int] : GoesAlong(g, TotalSteps, Int, Original, list)
  <2> HIDE DEF list
  <2> QED
    BY <1>1, AlongExists
<1>3. ASSUME NEW f, NEW s \in SUBSET D, s # {}, f[s \ {Max(s)}] \in Int
      PROVE  TotalSteps[list[Max(s)]][f[s \ {Max(s)}]] = Next1(f[s \ {Max(s)}], list[Max(s)])
  <2>1. Max(s) \in s
    <3> HIDE DEF list
    <3> QED
      BY <1>1, <1>3, AlongSteps
  <2>2. list[Max(s)] \in Adjustment
    BY <2>1
  <2> DEFINE a == list[Max(s)]
             v == f[s \ {Max(s)}]
  <2>3. TotalSteps[a][v] = v + Weight[a]
    <3> HIDE DEF a, v
    <3> QED
      BY <1>3, <2>2 DEF TotalSteps, a, v
  <2>4. Weight[a] = IF a.status = "approved" /\ a.kind # "reimbursement" THEN a.delta ELSE 0
    BY <2>2 DEF Weight
  <2> HIDE DEF a, v
  <2> QED
    BY <1>3, <2>3, <2>4 DEF a, v
<1>4. g = Body(g)
  <2>1. ASSUME NEW s \in SUBSET D
        PROVE  g[s] = IF s = {} THEN Original ELSE Next1(g[s \ {Max(s)}], list[Max(s)])
    <3>1. g[s \ {Max(s)}] \in Int
      BY <1>2
    <3> HIDE DEF Next1
    <3> QED
      BY <1>2, <1>3, <3>1 DEF GoesAlong
  <2> HIDE DEF Next1
  <2> QED
    BY <2>1
<1>5. h = Body(h)
  BY <1>4 DEF TotalAlong
<1>6. GoesAlong(h, TotalSteps, Int, Original, list)
  <2> SUFFICES ASSUME NEW s \in SUBSET D
               PROVE  /\ s = {} => h[s] = Original
                      /\ s # {} /\ h[s \ {Max(s)}] \in Int => h[s] = TotalSteps[list[Max(s)]][h[s \ {Max(s)}]]
    BY DEF GoesAlong
  <2> HIDE DEF h, Next1
  <2>1. h[s] = IF s = {} THEN Original ELSE Next1(h[s \ {Max(s)}], list[Max(s)])
    BY <1>5
  <2> QED
    BY <1>3, <2>1
<1>7. CurrentTotal(pg) = h[D]
  BY DEF CurrentTotal, TotalAlong, FoldLeft, MapThenFoldSet
<1> QED
  BY <1>6, <1>7

\* a is how the page shows the row r.
Shows(a, r) ==
  /\ a.status = r.status /\ a.kind = r.kind /\ a.delta = r.delta
  /\ a.occurrence = r.occurrence /\ a.revision = r.revision
  /\ a.old = r.old /\ a.new = r.new
  /\ a.disputed = r.disputed /\ a.frozen = r.frozen /\ a.simulated = r.simulated

\* What a page that reads may be.
Pages == [readable : {TRUE}, registered : BOOLEAN, revision : Nat, adjustments : Seq(Adjustment)]

\* The page has the rows that exist, in the order they were proposed.
Lists(list, it) ==
  /\ list \in Seq(Adjustment)
  /\ \A n \in DOMAIN list : it[list[n].id].status # "none" /\ Shows(list[n], it[list[n].id])
  /\ \A i \in Items : it[i].status # "none" => \E n \in DOMAIN list : list[n].id = i
  /\ \A m, n \in DOMAIN list : m < n => it[list[m].id].at < it[list[n].id].at

\* Every row is listed at one place.
LEMMA ListedOnce ==
  ASSUME NEW it \in [Items -> Item], NEW list, Lists(list, it),
         NEW m \in DOMAIN list, NEW n \in DOMAIN list
  PROVE  /\ list[n] \in Adjustment /\ list[n].id \in Items /\ n \in 1..Len(list) /\ n \in Nat
         /\ list[m].id = list[n].id => m = n
         /\ it[list[m].id].at <= it[list[n].id].at => m <= n
<1>1. list \in Seq(Adjustment)
  BY DEF Lists
<1>2. list[n] \in Adjustment /\ list[m] \in Adjustment /\ n \in 1..Len(list) /\ m \in 1..Len(list)
      /\ m \in Nat /\ n \in Nat
  BY <1>1
<1>3. it[list[m].id].at \in Nat /\ it[list[n].id].at \in Nat /\ list[n].id \in Items
  BY <1>2 DEF Adjustment, Item
<1>4. m < n => it[list[m].id].at < it[list[n].id].at
  BY DEF Lists
<1>5. n < m => it[list[n].id].at < it[list[m].id].at
  BY DEF Lists
<1> QED
  BY <1>2, <1>3, <1>4, <1>5

\* The total of the page is what the rows earn.
LEMMA TotalIsEarned ==
  ASSUME NEW it \in [Items -> Item], NEW pg, Lists(pg.adjustments, it)
  PROVE  CurrentTotal(pg) = EarnedOf(it)
<1> DEFINE list == pg.adjustments
           D == DOMAIN list
           A == {n \in D : list[n].status = "approved" /\ list[n].kind # "reimbursement"}
           w == WeightAlong(Weight, list)
           f == [n \in D |-> list[n].delta]
           b == [n \in D |-> list[n].id]
<1>1. list \in Seq(Adjustment) /\ D = 1..Len(list) /\ Len(list) \in Nat /\ IsFiniteSet(D)
  <2>1. list \in Seq(Adjustment)
    BY DEF Lists
  <2> QED
    BY <2>1, FS_Interval
<1>2. \A n \in D : list[n] \in Adjustment
  BY <1>1
<1>3. /\ Weight \in [Adjustment -> Int] /\ TotalSteps \in [Adjustment -> [Int -> Int]]
      /\ Original \in Int /\ AddsWeight(TotalSteps, Weight, Adjustment)
  <2>1. Weight \in [Adjustment -> Int]
    BY DEF Weight, Adjustment
  <2>2. \A a \in Adjustment : Weight[a] \in Int
    BY <2>1
  <2>3. TotalSteps \in [Adjustment -> [Int -> Int]]
    BY <2>2 DEF TotalSteps
  <2>4. AddsWeight(TotalSteps, Weight, Adjustment)
    BY <2>1, <2>3 DEF AddsWeight, TotalSteps
  <2> QED
    BY <2>1, <2>3, <2>4, AdjustmentReplayAssumption
<1>4. /\ CurrentTotal(pg) = TotalAlong(list)[D]
      /\ GoesAlong(TotalAlong(list), TotalSteps, Int, Original, list)
  BY <1>1, TotalSolved
<1>5. CurrentTotal(pg) = Original + SumOf(w, D)
  <2> DEFINE h == TotalAlong(list)
  <2> HIDE DEF h, list
  <2>1. GoesAlong(h, TotalSteps, Int, Original, list) /\ CurrentTotal(pg) = h[DOMAIN list]
    BY <1>4 DEF h
  <2>2. h[DOMAIN list] = Original + SumOf(WeightAlong(Weight, list), DOMAIN list)
    <3>1. list \in Seq(Adjustment) /\ Original \in Int /\ AddsWeight(TotalSteps, Weight, Adjustment)
      BY <1>1, <1>3
    <3> QED
      BY <2>1, <3>1, AlongSum
  <2> QED
    BY <2>1, <2>2
<1>6. CountsIn(w, f, A, D)
  <2>1. \A n \in D : w[n] = Weight[list[n]]
    BY DEF WeightAlong
  <2>2. \A n \in D : Weight[list[n]] =
          IF list[n].status = "approved" /\ list[n].kind # "reimbursement" THEN list[n].delta ELSE 0
    BY <1>2 DEF Weight
  <2> HIDE DEF w, list
  <2> QED
    BY <2>1, <2>2 DEF CountsIn
<1>7. A \subseteq D /\ D \cap A = A /\ Summable(f, A)
  <2>1. \A n \in D : f[n] \in Int
    BY <1>2 DEF Adjustment
  <2>2. A \subseteq D /\ D \cap A = A
    OBVIOUS
  <2>3. IsFiniteSet(A)
    BY <1>1, <2>2, FS_Subset
  <2> QED
    BY <2>1, <2>2, <2>3 DEF Summable
<1>8. SumOf(w, D) = SumOf(f, A)
  <2> HIDE DEF w, f, A, D
  <2>1. Summable(f, D \cap A)
    BY <1>7
  <2>2. SumOf(w, D) = SumOf(f, D \cap A)
    BY <1>1, <1>6, <2>1, SumChosen
  <2> QED
    BY <1>7, <2>2
<1>9. Renames(f, Deltas(it), b, A)
  <2>1. ASSUME NEW n \in A PROVE f[n] = Deltas(it)[b[n]]
    <3>1. list[n].id \in Items /\ list[n].delta = it[list[n].id].delta
      BY <1>2 DEF Lists, Shows, Adjustment
    <3> QED
      BY <3>1 DEF Deltas
  <2>2. \A m, n \in A : b[m] = b[n] => m = n
    BY ListedOnce
  <2> HIDE DEF f, b, A
  <2> QED
    BY <2>1, <2>2 DEF Renames
<1>10. Names(b, A) = Counted(it)
  <2>1. ASSUME NEW n \in A PROVE b[n] \in Counted(it)
    <3>1. list[n].id \in Items /\ list[n].status = it[list[n].id].status
          /\ list[n].kind = it[list[n].id].kind
      BY <1>2 DEF Lists, Shows, Adjustment
    <3> QED
      BY <3>1 DEF Counted
  <2>2. ASSUME NEW i \in Counted(it) PROVE \E n \in A : b[n] = i
    <3>1. i \in Items /\ it[i].status # "none" /\ it[i].status = "approved" /\ it[i].kind # "reimbursement"
      BY DEF Counted
    <3>2. PICK n \in D : list[n].id = i
      BY <3>1 DEF Lists
    <3>3. list[n].status = it[i].status /\ list[n].kind = it[i].kind
      BY <3>2 DEF Lists, Shows
    <3> QED
      BY <3>1, <3>2, <3>3
  <2> HIDE DEF b, A
  <2> QED
    BY <2>1, <2>2 DEF Names
<1>11. SumOf(f, A) = SumOf(Deltas(it), Counted(it))
  <2> HIDE DEF f, A, b
  <2> QED
    BY <1>7, <1>9, <1>10, SumRenamed
<1> QED
  BY <1>5, <1>8, <1>11 DEF EarnedOf

-----------------------------------------------------------------------------
(* The journal and the rows *)

\* What a proposal starts from is what is earned, until another is approved.
BasisOf(it, revision) ==
  \A i \in Items : it[i].status # "none" =>
    /\ it[i].revision <= revision
    /\ it[i].new = it[i].old + it[i].delta /\ it[i].new \in 0..MaxCents
    /\ it[i].status = "proposed" /\ it[i].revision = revision /\ it[i].kind # "reimbursement"
       => it[i].old = EarnedOf(it)

\* The page shows the rows, and each proposal was made against what was earned.
JournalOf(it, src, pg) ==
  /\ it \in [Items -> Item]
  /\ src.version \in Nat /\ src.revision \in Nat /\ (src.version = 0 => src.revision = 0)
  /\ pg \in Pages
  /\ Lists(pg.adjustments, it)
  /\ (pg.registered = TRUE <=> src.version > 0)
  /\ pg.revision = src.revision
  /\ \A i \in Items : it[i].status # "none" => src.version > 0
  /\ EarnedOf(it) \in 0..MaxCents
  /\ BasisOf(it, src.revision)

\* The inductive invariant of the journal.
JournalInv == AdjustmentInv /\ JournalOf(item, source, page)

\* The events that change a proposal, when each is allowed, and what becomes of the row.
Changes ==
  {"raise_dispute", "resolve_dispute", "approve", "reject", "freeze_review", "simulate_settlement"}

\* When a change is accepted of a row, or of what the page shows of it.
Allows(r, type, revision) ==
  CASE type = "raise_dispute" -> TRUE
    [] type = "resolve_dispute" -> r.disputed
    [] type = "approve" -> r.status = "proposed" /\ ~r.disputed /\ r.revision = revision
    [] type = "reject" -> r.status = "proposed"
    [] type = "freeze_review" -> r.status = "approved" /\ ~r.disputed /\ ~r.simulated
    [] type = "simulate_settlement" ->
         r.status = "approved" /\ ~r.disputed /\ r.frozen /\ ~r.simulated

StatusAfter(r, type) ==
  IF type = "approve" THEN "approved" ELSE IF type = "reject" THEN "rejected" ELSE r.status

\* One row changed by such an event.
LEMMA ChangedRow ==
  ASSUME NEW r \in Item, NEW type \in Changes
  PROVE  LET c == Changed(r, type) IN
         /\ c \in Item
         /\ c.kind = r.kind /\ c.delta = r.delta /\ c.occurrence = r.occurrence
         /\ c.old = r.old /\ c.new = r.new /\ c.revision = r.revision /\ c.at = r.at
         /\ c.status = StatusAfter(r, type)
         /\ type = "approve" => c = [r EXCEPT !.status = "approved"]
<1>1. CASE type = "raise_dispute"
  <2>1. Changed(r, type) = [r EXCEPT !.disputed = TRUE, !.frozen = FALSE]
    BY <1>1 DEF Changed
  <2> QED
    BY <1>1, <2>1 DEF Item, StatusAfter
<1>2. CASE type = "resolve_dispute"
  <2>1. Changed(r, type) = [r EXCEPT !.disputed = FALSE, !.frozen = FALSE]
    BY <1>2 DEF Changed
  <2> QED
    BY <1>2, <2>1 DEF Item, StatusAfter
<1>3. CASE type = "approve"
  <2>1. Changed(r, type) = [r EXCEPT !.status = "approved"]
    BY <1>3 DEF Changed
  <2> QED
    BY <1>3, <2>1 DEF Item, StatusAfter, Statuses
<1>4. CASE type = "reject"
  <2>1. Changed(r, type) = [r EXCEPT !.status = "rejected"]
    BY <1>4 DEF Changed
  <2> QED
    BY <1>4, <2>1 DEF Item, StatusAfter, Statuses
<1>5. CASE type = "freeze_review"
  <2>1. Changed(r, type) = [r EXCEPT !.frozen = TRUE]
    BY <1>5 DEF Changed
  <2> QED
    BY <1>5, <2>1 DEF Item, StatusAfter
<1>6. CASE type = "simulate_settlement"
  <2>1. Changed(r, type) = [r EXCEPT !.simulated = TRUE]
    BY <1>6 DEF Changed
  <2> QED
    BY <1>6, <2>1 DEF Item, StatusAfter
<1> QED
  BY <1>1, <1>2, <1>3, <1>4, <1>5, <1>6 DEF Changes

\* The page changes what it shows of it in the same way.
LEMMA ChangedShown ==
  ASSUME NEW a \in Adjustment, NEW r \in Item, Shows(a, r), NEW type \in Changes, NEW revision
  PROVE  /\ Changed(a, type) \in Adjustment
         /\ Changed(a, type).id = a.id
         /\ Shows(Changed(a, type), Changed(r, type))
         /\ Allows(r, type, revision) => Allows(a, type, revision)
<1>0. Allows(r, type, revision) => Allows(a, type, revision)
  BY DEF Allows, Shows, Changes
<1>1. CASE type = "raise_dispute"
  <2>1. /\ Changed(r, type) = [r EXCEPT !.disputed = TRUE, !.frozen = FALSE]
        /\ Changed(a, type) = [a EXCEPT !.disputed = TRUE, !.frozen = FALSE]
    BY <1>1 DEF Changed
  <2> QED
    BY <1>0, <2>1 DEF Item, Adjustment, Shows
<1>2. CASE type = "resolve_dispute"
  <2>1. /\ Changed(r, type) = [r EXCEPT !.disputed = FALSE, !.frozen = FALSE]
        /\ Changed(a, type) = [a EXCEPT !.disputed = FALSE, !.frozen = FALSE]
    BY <1>2 DEF Changed
  <2> QED
    BY <1>0, <2>1 DEF Item, Adjustment, Shows
<1>3. CASE type = "approve"
  <2>1. /\ Changed(r, type) = [r EXCEPT !.status = "approved"]
        /\ Changed(a, type) = [a EXCEPT !.status = "approved"]
    BY <1>3 DEF Changed
  <2> QED
    BY <1>0, <2>1 DEF Item, Adjustment, Shows, Statuses
<1>4. CASE type = "reject"
  <2>1. /\ Changed(r, type) = [r EXCEPT !.status = "rejected"]
        /\ Changed(a, type) = [a EXCEPT !.status = "rejected"]
    BY <1>4 DEF Changed
  <2> QED
    BY <1>0, <2>1 DEF Item, Adjustment, Shows, Statuses
<1>5. CASE type = "freeze_review"
  <2>1. /\ Changed(r, type) = [r EXCEPT !.frozen = TRUE]
        /\ Changed(a, type) = [a EXCEPT !.frozen = TRUE]
    BY <1>5 DEF Changed
  <2> QED
    BY <1>0, <2>1 DEF Item, Adjustment, Shows
<1>6. CASE type = "simulate_settlement"
  <2>1. /\ Changed(r, type) = [r EXCEPT !.simulated = TRUE]
        /\ Changed(a, type) = [a EXCEPT !.simulated = TRUE]
    BY <1>6 DEF Changed
  <2> QED
    BY <1>0, <2>1 DEF Item, Adjustment, Shows
<1> QED
  BY <1>1, <1>2, <1>3, <1>4, <1>5, <1>6 DEF Changes

\* The page finds the correction an event names.
LEMMA FoundAt ==
  ASSUME NEW it \in [Items -> Item], NEW pg, Lists(pg.adjustments, it),
         NEW n \in DOMAIN pg.adjustments
  PROVE  IndexOf(pg, pg.adjustments[n].id) = n /\ n # 0
<1> DEFINE list == pg.adjustments
           I == {k \in 1..Len(list) : list[k].id = list[n].id}
<1>1. list \in Seq(Adjustment) /\ DOMAIN list = 1..Len(list) /\ n \in Nat /\ n # 0
  BY DEF Lists
<1>2. I = {n}
  BY <1>1, ListedOnce
<1>3. Min({n}) = n
  BY <1>1 DEF Min
<1>4. IndexOf(pg, list[n].id) = IF I # {} THEN Min(I) ELSE 0
  BY DEF IndexOf, SelectInSeq
<1> HIDE DEF I
<1> QED
  BY <1>1, <1>2, <1>3, <1>4

\* The event of such a change.
Event(type, i) == [type |-> type, item |-> i]
RevisionAfter(type, revision) == IF type = "approve" THEN revision + 1 ELSE revision

\* The page accepts the event that the database recorded.
LEMMA ChangeApplied ==
  ASSUME NEW it, NEW src, NEW pg, JournalOf(it, src, pg), NEW n \in DOMAIN pg.adjustments,
         NEW type \in Changes, Allows(it[pg.adjustments[n].id], type, src.revision)
  PROVE  LET list == pg.adjustments
             new == Replayed(pg, Event(type, list[n].id))
         IN /\ new \in Pages /\ new.registered = pg.registered
            /\ new.revision = RevisionAfter(type, pg.revision)
            /\ new.adjustments = [list EXCEPT ![n] = Changed(list[n], type)]
<1> DEFINE list == pg.adjustments
           i == list[n].id
           e == Event(type, i)
           b == Changed(list[n], type)
           more == [list EXCEPT ![n] = b]
           new == [pg EXCEPT !.adjustments = more, !.revision = RevisionAfter(type, pg.revision)]
<1>1. /\ it \in [Items -> Item] /\ pg \in Pages /\ Lists(list, it) /\ pg.revision = src.revision
      /\ (pg.registered = TRUE <=> src.version > 0) /\ \A j \in Items : it[j].status # "none" => src.version > 0
  BY DEF JournalOf
<1>2. list \in Seq(Adjustment) /\ list[n] \in Adjustment /\ i \in Items /\ pg.readable = TRUE
      /\ pg.revision \in Nat /\ pg.registered \in BOOLEAN
  <2>1. list \in Seq(Adjustment)
    BY <1>1 DEF Lists
  <2>2. list[n] \in Adjustment
    BY <2>1
  <2>3. i \in Items
    BY <2>2 DEF Adjustment
  <2> QED
    BY <1>1, <2>1, <2>2, <2>3 DEF Pages
<1>3. it[i] \in Item /\ it[i].status # "none" /\ Shows(list[n], it[i])
  BY <1>1, <1>2 DEF Lists
<1>4. b \in Adjustment /\ Allows(list[n], type, pg.revision)
  <2>1. b \in Adjustment
    BY <1>2, <1>3, ChangedShown
  <2>2. Allows(it[i], type, src.revision) => Allows(list[n], type, src.revision)
    BY <1>2, <1>3, ChangedShown
  <2> QED
    BY <1>1, <2>1, <2>2
<1>5. IndexOf(pg, i) = n /\ n # 0
  BY <1>1, FoundAt
<1>6. e.type = type /\ e.item = i /\ e.type # "register_source" /\ e.type # "propose"
  BY DEF Event, Changes
<1> HIDE DEF e
<1>7. AcceptsChange(pg, e)
  <2> HIDE DEF i
  <2>1. IndexOf(pg, e.item) = n
    BY <1>5, <1>6
  <2> QED
    BY <1>4, <1>5, <1>6, <2>1 DEF AcceptsChange, Allows, Changes
<1>8. pg.registered = TRUE
  BY <1>1, <1>2, <1>3
<1>9. Replayed(pg, e) = Applied(pg, e)
  <2>1. Accepts(pg, e)
    BY <1>6, <1>7, <1>8 DEF Accepts
  <2> QED
    BY <1>2, <2>1 DEF Replayed
<1>10. Applied(pg, e) = new
  <2> HIDE DEF i
  <2>1. Applied(pg, e) =
          [pg EXCEPT !.adjustments[IndexOf(pg, e.item)] = Changed(@, e.type),
                     !.revision = IF e.type = "approve" THEN @ + 1 ELSE @]
    BY <1>6 DEF Applied
  <2>2. IndexOf(pg, e.item) = n
    BY <1>5, <1>6
  <2> QED
    BY <1>1, <1>6, <2>1, <2>2 DEF RevisionAfter, Pages
<1>11. more \in Seq(Adjustment)
  BY <1>2, <1>4
<1> HIDE DEF more
<1>12. new \in Pages /\ new.registered = pg.registered /\ new.adjustments = more
       /\ new.revision = RevisionAfter(type, pg.revision)
  <2>1. RevisionAfter(type, pg.revision) \in Nat
    BY <1>2 DEF RevisionAfter
  <2> QED
    BY <1>1, <1>2, <1>11, <2>1 DEF Pages
<1> QED
  BY <1>9, <1>10, <1>12 DEF more, e

\* Afterwards it lists the rows as before.
LEMMA ChangeKeepsLists ==
  ASSUME NEW it \in [Items -> Item], NEW list, Lists(list, it), NEW n \in DOMAIN list,
         NEW type \in Changes, NEW new,
         new = [it EXCEPT ![list[n].id] = Changed(it[list[n].id], type)]
  PROVE  Lists([list EXCEPT ![n] = Changed(list[n], type)], new)
<1> DEFINE i == list[n].id
           b == Changed(list[n], type)
           r == Changed(it[i], type)
           more == [list EXCEPT ![n] = b]
<1>1. list \in Seq(Adjustment) /\ list[n] \in Adjustment /\ i \in Items
      /\ \A m \in DOMAIN list : list[m].id \in Items /\ (list[m].id = i => m = n)
  BY ListedOnce DEF Lists
<1>2. it[i] \in Item /\ it[i].status # "none" /\ Shows(list[n], it[i])
  BY <1>1 DEF Lists
<1>3. b \in Adjustment /\ b.id = i /\ Shows(b, r)
  BY <1>1, <1>2, ChangedShown
<1>4. r.at = it[i].at /\ r.status = StatusAfter(it[i], type)
  BY <1>1, <1>2, ChangedRow
<1>5. r.status # "none"
  BY <1>2, <1>4 DEF StatusAfter
<1>6. new[i] = r /\ \A j \in Items : j # i => new[j] = it[j]
  BY <1>1
<1> HIDE DEF b, r
<1>7. /\ more \in Seq(Adjustment) /\ DOMAIN more = DOMAIN list /\ more[n] = b
      /\ \A m \in DOMAIN list : m # n => more[m] = list[m]
  BY <1>1, <1>3
<1> HIDE DEF more, i
<1>8. \A m \in DOMAIN list : more[m].id = list[m].id
  BY <1>3, <1>7 DEF i
<1>9. \A j \in Items : new[j].at = it[j].at /\ (new[j].status # "none" <=> it[j].status # "none")
  BY <1>2, <1>4, <1>5, <1>6
<1>10. ASSUME NEW m \in DOMAIN more
       PROVE  new[more[m].id].status # "none" /\ Shows(more[m], new[more[m].id])
  <2>1. CASE m = n
    BY <1>3, <1>5, <1>6, <1>7, <2>1
  <2>2. CASE m # n
    <3>1. list[m].id \in Items /\ list[m].id # i
      BY <1>1, <1>7, <2>2
    <3>2. more[m] = list[m] /\ new[list[m].id] = it[list[m].id]
      BY <1>6, <1>7, <2>2, <3>1
    <3> QED
      BY <1>7, <3>2 DEF Lists
  <2> QED
    BY <2>1, <2>2
<1>11. \A j \in Items : new[j].status # "none" => \E m \in DOMAIN more : more[m].id = j
  BY <1>7, <1>8, <1>9 DEF Lists
<1>12. \A m, k \in DOMAIN more : m < k => new[more[m].id].at < new[more[k].id].at
  BY <1>1, <1>7, <1>8, <1>9 DEF Lists
<1>13. Lists(more, new)
  BY <1>7, <1>10, <1>11, <1>12 DEF Lists
<1> QED
  BY <1>13 DEF more, b

\* Proposals that can still be approved start from what is earned.
LEMMA ChangeKeepsBasis ==
  ASSUME NEW it \in [Items -> Item], NEW revision \in Nat, BasisOf(it, revision),
         EarnedOf(it) \in 0..MaxCents, NEW i \in Items, it[i].status # "none",
         NEW type \in Changes, Allows(it[i], type, revision), NEW new,
         new = [it EXCEPT ![i] = Changed(it[i], type)]
  PROVE  EarnedOf(new) \in 0..MaxCents /\ BasisOf(new, RevisionAfter(type, revision))
<1> DEFINE r == Changed(it[i], type)
<1>0. it[i] \in Item
  OBVIOUS
<1>1. /\ r \in Item
      /\ r.kind = it[i].kind /\ r.delta = it[i].delta
      /\ r.old = it[i].old /\ r.new = it[i].new /\ r.revision = it[i].revision
      /\ r.status = StatusAfter(it[i], type)
      /\ type = "approve" => r = [it[i] EXCEPT !.status = "approved"]
  BY <1>0, ChangedRow
<1> HIDE DEF r
<1>2. new \in [Items -> Item] /\ new[i] = r /\ \A j \in Items \ {i} : new[j] = it[j]
  BY <1>1 DEF r
<1>3. \A j \in Items :
        /\ new[j].kind = it[j].kind /\ new[j].delta = it[j].delta /\ new[j].old = it[j].old
        /\ new[j].new = it[j].new /\ new[j].revision = it[j].revision
        /\ new[j].status # "none" => it[j].status # "none"
        /\ new[j].status = "proposed" => it[j].status = "proposed"
        /\ it[j].revision \in Nat /\ it[j].old \in Int /\ it[j].delta \in Int
  BY <1>1, <1>2 DEF StatusAfter, Item
<1>4. CASE type = "approve"
  <2>1. it[i].status = "proposed" /\ it[i].revision = revision
    BY <1>4 DEF Allows
  <2>2. EarnedOf(new) = EarnedOf(it) + (IF it[i].kind = "reimbursement" THEN 0 ELSE it[i].delta)
    BY <1>1, <1>2, <1>4, <2>1, EarnedMore
  <2>3. it[i].new = it[i].old + it[i].delta /\ it[i].new \in 0..MaxCents
        /\ (it[i].kind # "reimbursement" => it[i].old = EarnedOf(it))
    BY <2>1 DEF BasisOf
  <2>4. EarnedOf(new) \in 0..MaxCents
    BY <2>2, <2>3, AdjustmentReplayAssumption
  <2>5. \A j \in Items : it[j].status # "none" =>
          it[j].revision <= revision /\ it[j].new = it[j].old + it[j].delta /\ it[j].new \in 0..MaxCents
    BY DEF BasisOf
  <2>6. BasisOf(new, revision + 1)
    BY <1>3, <2>5 DEF BasisOf
  <2> QED
    BY <1>4, <2>4, <2>6 DEF RevisionAfter
<1>5. CASE type # "approve"
  <2>1. (new[i].status = "approved") <=> (it[i].status = "approved")
    BY <1>1, <1>2, <1>5 DEF StatusAfter, Allows
  <2>2. \A j \in Items : new[j].status = "approved" <=> it[j].status = "approved"
    BY <1>2, <2>1
  <2>3. CountsSame(it, new)
    BY <1>3, <2>2 DEF CountsSame, Counted
  <2>4. EarnedOf(new) = EarnedOf(it)
    BY <2>3, EarnedSame
  <2>5. BasisOf(new, revision)
    BY <1>3, <2>4 DEF BasisOf
  <2> QED
    BY <1>5, <2>4, <2>5 DEF RevisionAfter
<1> QED
  BY <1>4, <1>5

\* Together: such an event keeps the journal readable.
LEMMA ChangeKeepsJournal ==
  ASSUME JournalOf(item, source, page), NEW i \in Items, Exists(i), NEW type \in Changes,
         Allows(item[i], type, source.revision),
         item' = [item EXCEPT ![i] = Changed(item[i], type)],
         Recorded(Event(type, i), RevisionAfter(type, source.revision))
  PROVE  JournalOf(item', source', page')
<1>1. /\ item \in [Items -> Item] /\ source.version \in Nat /\ source.revision \in Nat
      /\ Lists(page.adjustments, item) /\ page.revision = source.revision
      /\ (page.registered = TRUE <=> source.version > 0)
      /\ \A j \in Items : item[j].status # "none" => source.version > 0
      /\ EarnedOf(item) \in 0..MaxCents /\ BasisOf(item, source.revision)
  BY DEF JournalOf
<1>2. item[i].status # "none" /\ item[i] \in Item
  BY <1>1 DEF Exists
<1>3. PICK n \in DOMAIN page.adjustments : page.adjustments[n].id = i
  BY <1>1, <1>2 DEF Lists
<1> DEFINE list == page.adjustments
           more == [list EXCEPT ![n] = Changed(list[n], type)]
<1>4. /\ page' \in Pages /\ page'.registered = page.registered
      /\ page'.revision = RevisionAfter(type, page.revision)
      /\ page'.adjustments = more
  <2>1. page' = Replayed(page, Event(type, list[n].id))
    BY <1>3 DEF Recorded
  <2>2. Allows(item[list[n].id], type, source.revision)
    BY <1>3
  <2> QED
    BY <2>1, <2>2, ChangeApplied
<1>5. Lists(more, item')
  BY <1>1, <1>3, ChangeKeepsLists
<1>6. EarnedOf(item') \in 0..MaxCents /\ BasisOf(item', RevisionAfter(type, source.revision))
  BY <1>1, <1>2, ChangeKeepsBasis
<1>7. source'.version = source.version + 1 /\ source'.revision = RevisionAfter(type, source.revision)
  BY DEF Recorded
<1>8. RevisionAfter(type, source.revision) \in Nat
  BY <1>1 DEF RevisionAfter
<1>9. item' \in [Items -> Item]
  BY <1>1, <1>2, ChangedRow
<1>10. source.version > 0
  BY <1>1, <1>2
<1> HIDE DEF more
<1> QED
  BY <1>1, <1>4, <1>5, <1>6, <1>7, <1>8, <1>9, <1>10 DEF JournalOf

\* The page accepts the same replacement as the database.
LEMMA ReplacementRead ==
  ASSUME JournalOf(item, source, page), NEW e, LinkedReplacement(e.occurrence, e.supersedes)
  PROVE  ReplacesRejected(page, e)
<1> DEFINE list == page.adjustments
           I == {n \in 1..Len(list) : list[n].occurrence = e.occurrence}
           p == LastAbout(page, e.occurrence)
           s == e.supersedes
<1>1. item \in [Items -> Item] /\ Lists(list, item)
  BY DEF JournalOf
<1>2. list \in Seq(Adjustment) /\ DOMAIN list = 1..Len(list) /\ Len(list) \in Nat
  BY <1>1 DEF Lists
<1>3. p = IF I # {} THEN Max(I) ELSE 0
  BY DEF LastAbout, SelectLastInSeq
<1>4. ASSUME NEW n \in DOMAIN list
      PROVE  /\ list[n].id \in Items /\ item[list[n].id].occurrence = list[n].occurrence
             /\ Exists(list[n].id) /\ item[list[n].id].status = list[n].status
  <2>1. list[n].id \in Items /\ item[list[n].id].status # "none" /\ Shows(list[n], item[list[n].id])
    BY <1>1, ListedOnce DEF Lists
  <2> QED
    BY <2>1 DEF Shows, Exists
<1>5. \A n \in I : list[n].id \in About(e.occurrence)
  BY <1>2, <1>4 DEF About
<1>6. \A i \in About(e.occurrence) : \E n \in I : list[n].id = i
  <2> SUFFICES ASSUME NEW i \in About(e.occurrence) PROVE \E n \in I : list[n].id = i
    OBVIOUS
  <2>1. i \in Items /\ item[i].status # "none" /\ item[i].occurrence = e.occurrence
    BY DEF About, Exists
  <2>2. PICK n \in DOMAIN list : list[n].id = i
    BY <1>1, <2>1 DEF Lists
  <2>3. list[n].occurrence = e.occurrence
    BY <1>4, <2>1, <2>2
  <2> QED
    BY <1>2, <2>2, <2>3
<1>7. CASE About(e.occurrence) = {}
  <2>1. I = {}
    BY <1>5, <1>7
  <2>2. p = 0 /\ s = None
    BY <1>3, <1>7, <2>1 DEF LinkedReplacement
  <2> QED
    BY <2>2 DEF ReplacesRejected
<1>8. CASE About(e.occurrence) # {}
  <2>1. s \in About(e.occurrence) /\ Latest(s) /\ item[s].status = "rejected"
    BY <1>8 DEF LinkedReplacement
  <2>2. PICK m \in I : list[m].id = s
    BY <1>6, <2>1
  <2>3. I # {} /\ I \in SUBSET (1..Len(list))
    BY <2>2
  <2>4. Max(I) \in I /\ \A n \in I : n <= Max(I)
    <3> HIDE DEF I
    <3> QED
      BY <1>2, <2>3, MaxOf
  <2>5. p = Max(I)
    BY <1>3, <2>3
  <2> HIDE DEF p
  <2>6. p \in I /\ p \in DOMAIN list /\ m \in DOMAIN list /\ m <= p /\ p # 0
    BY <1>2, <2>2, <2>4, <2>5
  <2>7. list[p].id \in About(item[s].occurrence)
    BY <1>5, <2>1, <2>6 DEF About
  <2>8. item[list[p].id].at <= item[list[m].id].at
    BY <2>1, <2>2, <2>7 DEF Latest
  <2>9. p <= m /\ p \in Nat /\ m \in Nat
    BY <1>1, <2>6, <2>8, ListedOnce
  <2>10. p = m
    BY <2>6, <2>9
  <2>11. list[p].status = "rejected" /\ list[p].id = s
    BY <1>4, <2>1, <2>2, <2>6, <2>10
  <2> QED
    BY <2>6, <2>11 DEF ReplacesRejected, p
<1> QED
  BY <1>7, <1>8

\* The event that proposes.
Proposal(i, c, occurrence, supersedes) ==
  [type |-> "propose", item |-> i, kind |-> c.kind, delta |-> c.delta,
   occurrence |-> occurrence, supersedes |-> supersedes]

\* A proposal keeps the journal readable.
LEMMA ProposeKeepsJournal ==
  ASSUME AdjustmentInv, JournalOf(item, source, page), NEW i \in Items, NEW c \in Corrections,
         NEW occurrence \in Occurrences, NEW supersedes \in Items \cup {None},
         Propose(i, c, occurrence, supersedes)
  PROVE  JournalOf(item', source', page')
<1> DEFINE old == IF c.kind = "reimbursement" THEN 0 ELSE Earned
           row == [status |-> "proposed", kind |-> c.kind, delta |-> c.delta,
                   occurrence |-> occurrence, old |-> old, new |-> old + c.delta,
                   revision |-> source.revision, at |-> source.version + 1, disputed |-> FALSE,
                   frozen |-> FALSE, simulated |-> FALSE, claimed |-> FALSE]
           e == Proposal(i, c, occurrence, supersedes)
           list == page.adjustments
           a == Proposed(page, e)
           more == Append(list, a)
<1>1. /\ item \in [Items -> Item] /\ source.version \in Nat /\ source.revision \in Nat
      /\ page \in Pages /\ Lists(list, item) /\ page.revision = source.revision
      /\ (page.registered = TRUE <=> source.version > 0)
      /\ EarnedOf(item) \in 0..MaxCents /\ BasisOf(item, source.revision)
  BY DEF JournalOf
<1>2. /\ source.version > 0 /\ item[i].status = "none" /\ c.delta # 0
      /\ c.kind # "calculation_correction" => c.delta > 0
      /\ LinkedReplacement(occurrence, supersedes)
      /\ old + c.delta \in 0..MaxCents
      /\ item' = [item EXCEPT ![i] = row]
      /\ Recorded(e, source.revision)
  BY DEF Propose, Exists, Proposal
<1>3. Earned = EarnedOf(item) /\ CurrentTotal(page) = EarnedOf(item)
  BY <1>1, EarnedNow, TotalIsEarned
<1>4. c.kind \in Kinds /\ c.delta \in Int /\ MaxCents \in Nat
  BY EarningsAdjustmentsAssumption, AdjustmentReplayAssumption
<1>5. old \in 0..MaxCents /\ old \in Int /\ (c.kind # "reimbursement" => old = EarnedOf(item))
  BY <1>1, <1>3, <1>4
<1> HIDE DEF old
<1>6. /\ e.type = "propose" /\ e.item = i /\ e.kind = c.kind /\ e.delta = c.delta
      /\ e.occurrence = occurrence /\ e.supersedes = supersedes
  BY DEF Proposal
<1> HIDE DEF e
<1>7. OldCents(page, e) = old
  BY <1>3, <1>6 DEF OldCents, old
<1>8. ReplacesRejected(page, e)
  BY <1>2, <1>6, ReplacementRead
<1>9. AcceptsProposal(page, e)
  BY <1>2, <1>4, <1>5, <1>6, <1>7, <1>8 DEF AcceptsProposal
<1>10. page.registered = TRUE /\ page.readable = TRUE /\ list \in Seq(Adjustment)
  BY <1>1, <1>2 DEF Pages, Lists
<1>11. page' = [page EXCEPT !.adjustments = Append(@, a)]
  <2>1. Accepts(page, e)
    BY <1>6, <1>9, <1>10 DEF Accepts
  <2>2. page' = Applied(page, e)
    BY <1>2, <1>10, <2>1 DEF Recorded, Replayed
  <2> QED
    BY <1>6, <2>2 DEF Applied
<1>12. a = [id |-> i, kind |-> c.kind, delta |-> c.delta, occurrence |-> occurrence,
            old |-> old, new |-> old + c.delta, revision |-> source.revision,
            status |-> "proposed", disputed |-> FALSE, frozen |-> FALSE, simulated |-> FALSE]
  BY <1>1, <1>6, <1>7 DEF Proposed
<1>13. a \in Adjustment /\ a.id = i /\ Shows(a, row)
  BY <1>1, <1>4, <1>5, <1>12 DEF Adjustment, Shows, Statuses
<1>14. row \in Item /\ row.at = source.version + 1 /\ row.status = "proposed"
       /\ row.revision = source.revision /\ row.new = row.old + row.delta /\ row.new \in 0..MaxCents
       /\ (row.kind # "reimbursement" => row.old = EarnedOf(item))
  BY <1>1, <1>2, <1>4, <1>5 DEF Item, Statuses
<1> HIDE DEF a, row
<1>15. /\ item' \in [Items -> Item] /\ item'[i] = row
       /\ \A j \in Items \ {i} : item'[j] = item[j]
  BY <1>1, <1>2, <1>14
<1>16. /\ more \in Seq(Adjustment) /\ DOMAIN more = DOMAIN list \cup {Len(list) + 1}
       /\ more[Len(list) + 1] = a /\ \A n \in DOMAIN list : more[n] = list[n]
       /\ Len(list) \in Nat /\ DOMAIN list = 1..Len(list)
  BY <1>10, <1>13
<1> HIDE DEF more
<1>17. ASSUME NEW n \in DOMAIN list
       PROVE  /\ list[n].id \in Items /\ list[n].id # i /\ more[n] = list[n]
              /\ item[list[n].id].status # "none" /\ Shows(list[n], item[list[n].id])
              /\ item'[list[n].id] = item[list[n].id]
              /\ item[list[n].id].at <= source.version /\ item[list[n].id].at \in Nat
  <2>1. list[n].id \in Items /\ item[list[n].id].status # "none" /\ Shows(list[n], item[list[n].id])
    BY <1>1, ListedOnce DEF Lists
  <2>2. list[n].id # i
    BY <1>2, <2>1
  <2>3. item[list[n].id].at <= source.version /\ item[list[n].id].at \in Nat
    BY <1>1, <2>1 DEF AdjustmentInv, Dated, Exists, Item
  <2> QED
    BY <1>15, <1>16, <2>1, <2>2, <2>3
<1>18. Lists(more, item')
  <2>1. ASSUME NEW n \in DOMAIN more
        PROVE  item'[more[n].id].status # "none" /\ Shows(more[n], item'[more[n].id])
    <3>1. CASE n \in DOMAIN list
      BY <1>17, <3>1
    <3>2. CASE n = Len(list) + 1
      BY <1>13, <1>14, <1>15, <1>16, <3>2
    <3> QED
      BY <1>16, <3>1, <3>2
  <2>2. ASSUME NEW j \in Items, item'[j].status # "none" PROVE \E n \in DOMAIN more : more[n].id = j
    <3>1. CASE j = i
      BY <1>13, <1>16, <3>1
    <3>2. CASE j # i
      <4>1. item[j].status # "none"
        BY <1>15, <2>2, <3>2
      <4>2. PICK n \in DOMAIN list : list[n].id = j
        BY <1>1, <4>1 DEF Lists
      <4> QED
        BY <1>16, <4>2
    <3> QED
      BY <3>1, <3>2
  <2>3. ASSUME NEW m \in DOMAIN more, NEW n \in DOMAIN more, m < n
        PROVE  item'[more[m].id].at < item'[more[n].id].at
    <3>1. m \in DOMAIN list
      BY <1>16, <2>3
    <3>2. CASE n \in DOMAIN list
      <4>1. item[list[m].id].at < item[list[n].id].at
        BY <1>1, <2>3, <3>1, <3>2 DEF Lists
      <4> QED
        BY <1>17, <3>1, <3>2, <4>1
    <3>3. CASE n = Len(list) + 1
      <4>1. item'[more[n].id].at = source.version + 1
        BY <1>13, <1>14, <1>15, <1>16, <3>3
      <4>2. item'[more[m].id].at <= source.version /\ item'[more[m].id].at \in Nat
        BY <1>17, <3>1
      <4> QED
        BY <1>1, <4>1, <4>2
    <3> QED
      BY <1>16, <3>2, <3>3
  <2> QED
    BY <1>16, <2>1, <2>2, <2>3 DEF Lists
<1>19. EarnedOf(item') = EarnedOf(item)
  <2>1. CountsSame(item, item')
    BY <1>2, <1>14, <1>15 DEF CountsSame, Counted
  <2> QED
    BY <1>1, <2>1, EarnedSame
<1>20. BasisOf(item', source.revision)
  <2> SUFFICES ASSUME NEW j \in Items, item'[j].status # "none"
               PROVE  /\ item'[j].revision <= source.revision
                      /\ item'[j].new = item'[j].old + item'[j].delta /\ item'[j].new \in 0..MaxCents
                      /\ item'[j].status = "proposed" /\ item'[j].revision = source.revision
                           /\ item'[j].kind # "reimbursement" => item'[j].old = EarnedOf(item')
    BY DEF BasisOf
  <2>1. CASE j = i
    BY <1>1, <1>14, <1>15, <1>19, <2>1
  <2>2. CASE j # i
    <3>1. item'[j] = item[j]
      BY <1>15, <2>2
    <3> QED
      BY <1>1, <1>19, <3>1 DEF BasisOf
  <2> QED
    BY <2>1, <2>2
<1>21. source'.version = source.version + 1 /\ source'.revision = source.revision
  BY <1>2 DEF Recorded
<1>22. page' \in Pages /\ page'.adjustments = more /\ page'.registered = TRUE
       /\ page'.revision = source.revision
  <2>1. page' = [page EXCEPT !.adjustments = more]
    BY <1>11 DEF more, Pages
  <2> QED
    BY <1>1, <1>10, <1>16, <2>1 DEF Pages
<1> QED
  BY <1>1, <1>15, <1>18, <1>19, <1>20, <1>21, <1>22 DEF JournalOf

\* The first event does.
LEMMA RegisterKeepsJournal ==
  ASSUME JournalOf(item, source, page), RegisterSource
  PROVE  JournalOf(item', source', page')
<1>1. /\ page \in Pages /\ page.revision = source.revision /\ (page.registered = TRUE <=> source.version > 0)
      /\ source.version = 0 /\ \A i \in Items : item[i].status = "none"
  BY DEF JournalOf, RegisterSource
<1>2. page' = Replayed(page, [type |-> "register_source"]) /\ UNCHANGED item
      /\ source'.version = 1 /\ source'.revision = 0
  BY <1>1 DEF RegisterSource, Recorded
<1>3. page.registered = FALSE /\ page.readable = TRUE
  <2>1. page.registered \in BOOLEAN /\ page.readable = TRUE
    BY <1>1 DEF Pages
  <2>2. ~(source.version > 0)
    BY <1>1
  <2> QED
    BY <1>1, <2>1, <2>2
<1>4. page' = [page EXCEPT !.registered = TRUE]
  BY <1>2, <1>3 DEF Replayed, Accepts, Applied
<1>5. page' \in Pages /\ page'.adjustments = page.adjustments /\ page'.registered = TRUE
      /\ page'.revision = page.revision
  BY <1>1, <1>4 DEF Pages
<1>6. BasisOf(item, 0)
  BY <1>1 DEF BasisOf
<1>7. item \in [Items -> Item] /\ Lists(page.adjustments, item) /\ EarnedOf(item) \in 0..MaxCents
      /\ source.revision \in Nat
  BY DEF JournalOf
<1>8. page'.revision = 0
  <2>1. source.revision = 0
    BY DEF RegisterSource, JournalOf
  <2> QED
    BY <1>1, <1>5, <2>1
<1> QED
  BY <1>1, <1>2, <1>5, <1>6, <1>7, <1>8 DEF JournalOf

\* Nothing recorded, nothing read.
LEMMA InitJournal == AdjustmentInit => JournalOf(item, source, page)
<1> SUFFICES ASSUME AdjustmentInit PROVE JournalOf(item, source, page)
  OBVIOUS
<1>1. item \in [Items -> Item] /\ \A i \in Items : item[i].status = "none"
  BY DEF AdjustmentInit, Item, NoItem, Statuses, Kinds
<1>2. /\ source.version = 0 /\ source.revision = 0
      /\ page = NothingRead
  BY DEF AdjustmentInit
<1>3. /\ page.readable = TRUE /\ page.registered = FALSE /\ page.revision = 0
      /\ page.adjustments = << >> /\ page \in Pages
  <2>1. << >> \in Seq(Adjustment)
    OBVIOUS
  <2> QED
    BY <1>2, <2>1 DEF NothingRead, Pages
<1>4. Lists(page.adjustments, item)
  <2>1. << >> \in Seq(Adjustment) /\ DOMAIN << >> = {}
    OBVIOUS
  <2> QED
    BY <1>1, <1>3, <2>1 DEF Lists
<1>5. EarnedOf(item) \in 0..MaxCents
  <2>1. Counted(item) = {}
    BY <1>1 DEF Counted
  <2>2. SumOf(Deltas(item), {}) = 0
    BY SumOfNone
  <2> QED
    BY <2>1, <2>2, AdjustmentReplayAssumption DEF EarnedOf
<1>6. BasisOf(item, 0)
  BY <1>1 DEF BasisOf
<1> QED
  BY <1>1, <1>2, <1>3, <1>4, <1>5, <1>6 DEF JournalOf

\* Every event keeps the invariant of the journal.
LEMMA NextJournal == JournalInv /\ [AdjustmentNext]_adjustmentVars => JournalInv'
<1> SUFFICES ASSUME JournalInv, [AdjustmentNext]_adjustmentVars PROVE JournalInv'
  OBVIOUS
<1>1. AdjustmentInv /\ JournalOf(item, source, page) /\ source.revision \in Nat
  BY DEF JournalInv, JournalOf
<1>2. AdjustmentInv'
  BY <1>1, AdjustmentNextInv
<1>3. ASSUME UNCHANGED adjustmentVars PROVE JournalOf(item', source', page')
  <2>1. item' = item /\ source' = source /\ page' = page
    BY <1>3 DEF adjustmentVars
  <2> QED
    BY <1>1, <2>1
<1>4. ASSUME RegisterSource PROVE JournalOf(item', source', page')
  BY <1>1, <1>4, RegisterKeepsJournal
<1>5. ASSUME NEW i \in Items, NEW c \in Corrections, NEW occurrence \in Occurrences,
             NEW supersedes \in Items \cup {None}, Propose(i, c, occurrence, supersedes)
      PROVE  JournalOf(item', source', page')
  BY <1>1, <1>5, ProposeKeepsJournal
<1>6. ASSUME NEW i \in Items, Exists(i), NEW type \in Changes, Allows(item[i], type, source.revision),
             item' = [item EXCEPT ![i] = Changed(item[i], type)],
             Recorded(Event(type, i), RevisionAfter(type, source.revision))
      PROVE  JournalOf(item', source', page')
  BY <1>1, <1>6, ChangeKeepsJournal
<1>7. ASSUME NEW i \in Items, RaiseDispute(i) PROVE JournalOf(item', source', page')
  <2> DEFINE type == "raise_dispute"
  <2>1. Exists(i) /\ type \in Changes /\ Allows(item[i], type, source.revision)
    BY <1>7 DEF RaiseDispute, Changes, Allows
  <2>2. Recorded(Event(type, i), RevisionAfter(type, source.revision))
    BY <1>7 DEF RaiseDispute, Event, RevisionAfter
  <2>3. item' = [item EXCEPT ![i] = Changed(item[i], type)]
    BY <1>7 DEF RaiseDispute, Changed
  <2> QED
    BY <1>6, <2>1, <2>2, <2>3
<1>8. ASSUME NEW i \in Items, ResolveDispute(i) PROVE JournalOf(item', source', page')
  <2> DEFINE type == "resolve_dispute"
  <2>1. Exists(i) /\ type \in Changes /\ Allows(item[i], type, source.revision)
    BY <1>8 DEF ResolveDispute, Changes, Allows
  <2>2. Recorded(Event(type, i), RevisionAfter(type, source.revision))
    BY <1>8 DEF ResolveDispute, Event, RevisionAfter
  <2>3. item' = [item EXCEPT ![i] = Changed(item[i], type)]
    BY <1>8 DEF ResolveDispute, Changed
  <2> QED
    BY <1>6, <2>1, <2>2, <2>3
<1>9. ASSUME NEW i \in Items, ApproveCorrection(i) PROVE JournalOf(item', source', page')
  <2> DEFINE type == "approve"
  <2>1. Exists(i) /\ type \in Changes /\ Allows(item[i], type, source.revision)
    BY <1>9 DEF ApproveCorrection, CurrentProposal, Exists, Changes, Allows
  <2>2. Recorded(Event(type, i), RevisionAfter(type, source.revision))
    BY <1>9 DEF ApproveCorrection, Event, RevisionAfter
  <2>3. item' = [item EXCEPT ![i] = Changed(item[i], type)]
    BY <1>9 DEF ApproveCorrection, Changed
  <2> QED
    BY <1>6, <2>1, <2>2, <2>3
<1>10. ASSUME NEW i \in Items, Reject(i) PROVE JournalOf(item', source', page')
  <2> DEFINE type == "reject"
  <2>1. Exists(i) /\ type \in Changes /\ Allows(item[i], type, source.revision)
    BY <1>10 DEF Reject, Exists, Changes, Allows
  <2>2. Recorded(Event(type, i), RevisionAfter(type, source.revision))
    BY <1>10 DEF Reject, Event, RevisionAfter
  <2>3. item' = [item EXCEPT ![i] = Changed(item[i], type)]
    BY <1>10 DEF Reject, Changed
  <2> QED
    BY <1>6, <2>1, <2>2, <2>3
<1>11. ASSUME NEW i \in Items, FreezeReview(i) PROVE JournalOf(item', source', page')
  <2> DEFINE type == "freeze_review"
  <2>1. Exists(i) /\ type \in Changes /\ Allows(item[i], type, source.revision)
    BY <1>11 DEF FreezeReview, Exists, Changes, Allows
  <2>2. Recorded(Event(type, i), RevisionAfter(type, source.revision))
    BY <1>11 DEF FreezeReview, Event, RevisionAfter
  <2>3. item' = [item EXCEPT ![i] = Changed(item[i], type)]
    BY <1>11 DEF FreezeReview, Changed
  <2> QED
    BY <1>6, <2>1, <2>2, <2>3
<1>12. ASSUME NEW i \in Items, Simulate(i) PROVE JournalOf(item', source', page')
  <2> DEFINE type == "simulate_settlement"
  <2>1. Exists(i) /\ type \in Changes /\ Allows(item[i], type, source.revision)
    BY <1>12 DEF Simulate, Exists, Changes, Allows
  <2>2. Recorded(Event(type, i), RevisionAfter(type, source.revision))
    BY <1>12 DEF Simulate, Event, RevisionAfter
  <2>3. item' = [item EXCEPT ![i] = Changed(item[i], type)]
    BY <1>12 DEF Simulate, Changed
  <2> QED
    BY <1>6, <2>1, <2>2, <2>3
<1>13. JournalOf(item', source', page')
  BY <1>3, <1>4, <1>5, <1>7, <1>8, <1>9, <1>10, <1>11, <1>12 DEF AdjustmentNext, RepeatedPost
<1> QED
  BY <1>2, <1>13 DEF JournalInv, JournalOf, BasisOf, EarnedOf, Counted, Deltas, Lists, Pages,
     SumOf, MapThenSumSet, MapThenFoldSet

LEMMA JournalInductive == AdjustmentSpec => []JournalInv
<1>1. AdjustmentInit => JournalInv
  BY AdjustmentInitInv, InitJournal DEF JournalInv
<1> QED
  BY <1>1, NextJournal, PTL DEF AdjustmentSpec

\* The invariant says that the history reads.
LEMMA JournalReads == JournalInv => HistoryReads
<1> SUFFICES ASSUME JournalInv PROVE HistoryReads
  OBVIOUS
<1> DEFINE list == page.adjustments
           D == DOMAIN list
           E == {i \in Items : Exists(i)}
           b == [n \in D |-> list[n].id]
<1>1. /\ item \in [Items -> Item] /\ Lists(list, item) /\ page.revision = source.revision
      /\ page \in Pages
  BY DEF JournalInv, JournalOf
<1>2. list \in Seq(Adjustment) /\ D = 1..Len(list) /\ Len(list) \in Nat
  BY <1>1 DEF Lists
<1>3. ASSUME NEW n \in D
      PROVE  list[n].id \in Items /\ Exists(list[n].id) /\ Shows(list[n], item[list[n].id])
  BY <1>1, ListedOnce DEF Lists, Exists
<1>4. b \in Bijection(D, E)
  <2>1. b \in [D -> E]
    BY <1>3
  <2>2. \A m, n \in D : b[m] = b[n] => m = n
    BY <1>1, ListedOnce
  <2>3. \A i \in E : \E n \in D : b[n] = i
    BY <1>1 DEF Lists, Exists
  <2> HIDE DEF b, E, D
  <2> QED
    BY <2>1, <2>2, <2>3 DEF Bijection, Injection, Surjection, IsInjective
<1>5. IsFiniteSet(D) /\ Cardinality(D) = Len(list)
  BY <1>2, FS_Interval
<1>6. Len(list) = Cardinality(E)
  <2> HIDE DEF b, E, D
  <2>1. ExistsBijection(D, E)
    BY <1>4 DEF ExistsBijection
  <2>2. Cardinality(D) = Cardinality(E)
    BY <1>5, <2>1, FS_Bijection
  <2> QED
    BY <1>5, <2>2
<1>7. page.readable
  BY <1>1 DEF Pages
<1> QED
  BY <1>1, <1>3, <1>6, <1>7 DEF HistoryReads, Shows

\* However corrections are proposed, rejected, replaced and approved, those that
\* are approved never take the earnings out of their column.
THEOREM EarningsAlwaysFit == AdjustmentSpec => []EarningsStayInRange
<1>1. JournalInv => EarningsStayInRange
  BY EarnedNow DEF JournalInv, JournalOf, EarningsStayInRange
<1> QED
  BY <1>1, JournalInductive, PTL

\* A page that replays the journal opens, and shows every correction as its row has it.
THEOREM HistoryAlwaysReads == AdjustmentSpec => []HistoryReads
  BY JournalInductive, JournalReads, PTL

-----------------------------------------------------------------------------
(* Monthly statements *)

\* The correction of a line is marked as claimed, and stays approved.
LinesMarked ==
  \A s \in Statements : \A n \in DOMAIN statement[s].lines :
    LET l == statement[s].lines[n] IN
    l.correction => l.about \in Items /\ item[l.about].claimed

MarkedApproved == \A i \in Items : item[i].claimed => item[i].status = "approved"

\* A correction that was settled alone is claimed by no statement.
NotSettledTwice == \A i \in Items : ~(item[i].simulated /\ item[i].claimed)

\* What a line is about is claimed, and by no other line of any statement.
LinesClaimed ==
  \A s \in Statements : \A n \in DOMAIN statement[s].lines :
    /\ statement[s].lines[n].about \in claims
    /\ \A r \in Statements : \A m \in DOMAIN statement[r].lines :
         statement[s].lines[n].about = statement[r].lines[m].about => s = r /\ n = m

\* Corrections are the lines about items.
LinesKnown ==
  \A s \in Statements : \A n \in DOMAIN statement[s].lines :
    statement[s].lines[n].about \in Items => statement[s].lines[n].correction

\* Only the last transfer may be uncertain.
LastOpen(st) ==
  \A k \in DOMAIN st.transfers : st.transfers[k].uncertain => k = Len(st.transfers)

\* What the owner approved is what was frozen, and what the lines add up to.
ApprovedAsFrozen(st) ==
  st.approval # None =>
    /\ st.freeze # None
    /\ st.approval = st.freeze.total
    /\ st.approval = Total(st.lines)

Orderly == \A s \in Statements : LastOpen(statement[s]) /\ ApprovedAsFrozen(statement[s])

\* The inductive invariant of statements and claims.
IInv ==
  /\ TypeOK /\ AdjustmentInv
  /\ LinesMarked /\ LinesKnown /\ LinesClaimed
  /\ MarkedApproved /\ NotSettledTwice
  /\ Orderly

LEMMA InitIInv == Init => IInv
<1> SUFFICES ASSUME Init PROVE IInv
  OBVIOUS
<1>1. AdjustmentInv /\ AdjustmentTypeOK
  BY AdjustmentInitInv DEF Init, AdjustmentInv
<1>2. \A i \in Items : ~item[i].claimed /\ ~item[i].simulated
  BY DEF Init, AdjustmentInit, NoItem
<1>3. \A s \in Statements : statement[s] = NoStatement
  BY DEF Init
<1>4. \A s \in Statements :
        /\ StatementOK(statement[s])
        /\ DOMAIN statement[s].lines = {}
        /\ LastOpen(statement[s]) /\ ApprovedAsFrozen(statement[s])
  <2>1. /\ NoStatement.lines = <<>> /\ NoStatement.transfers = <<>>
        /\ NoStatement.freeze = None /\ NoStatement.approval = None
        /\ NoStatement.created = FALSE /\ NoStatement.provided = FALSE
        /\ DOMAIN NoStatement =
             {"created", "lines", "transfers", "freeze", "approval", "provided"}
    BY DEF NoStatement
  <2>2. <<>> \in Seq(Line) /\ Len(<<>>) = 0 /\ DOMAIN <<>> = 1..0 /\ DOMAIN <<>> = {}
    OBVIOUS
  <2>3. StatementOK(NoStatement)
    BY <2>1, <2>2 DEF StatementOK
  <2>4. DOMAIN NoStatement.lines = {} /\ LastOpen(NoStatement) /\ ApprovedAsFrozen(NoStatement)
    BY <2>1, <2>2 DEF LastOpen, ApprovedAsFrozen
  <2> QED BY <1>3, <2>3, <2>4
<1>5. TypeOK
  BY <1>1, <1>4 DEF TypeOK, Init
<1> QED BY <1>1, <1>2, <1>4, <1>5 DEF IInv, LinesMarked, LinesKnown, LinesClaimed,
           MarkedApproved, NotSettledTwice, Orderly

-----------------------------------------------------------------------------
(* Steps on the corrections alone *)

\* Nothing done to a correction touches its claim; only an unclaimed one is settled alone.
LEMMA AdjustmentKeepsClaims ==
  ASSUME IInv, AdjustmentNext
  PROVE  \A i \in Items :
           /\ item'[i].claimed = item[i].claimed
           /\ item[i].status = "approved" => item'[i].status = "approved"
           /\ item'[i].simulated => item[i].simulated \/ ~item[i].claimed
<1>1. item \in [Items -> Item]
  BY DEF IInv, TypeOK, AdjustmentTypeOK
<1>2. CASE UNCHANGED item
  BY <1>2
<1>3. ASSUME NEW i \in Items, NEW c \in Corrections, NEW occurrence \in Occurrences,
             NEW supersedes \in Items \cup {None}, Propose(i, c, occurrence, supersedes)
      PROVE  \A j \in Items :
               /\ item'[j].claimed = item[j].claimed
               /\ item[j].status = "approved" => item'[j].status = "approved"
               /\ item'[j].simulated => item[j].simulated \/ ~item[j].claimed
  <2> DEFINE old == IF c.kind = "reimbursement" THEN 0 ELSE Earned
  <2>1. /\ item' = [item EXCEPT ![i] =
             [status |-> "proposed", kind |-> c.kind, delta |-> c.delta,
              occurrence |-> occurrence, old |-> old, new |-> old + c.delta,
              revision |-> source.revision, at |-> source.version + 1, disputed |-> FALSE,
              frozen |-> FALSE, simulated |-> FALSE, claimed |-> FALSE]]
        /\ item[i].status = "none"
    BY <1>3 DEF Propose, Exists
  <2> HIDE DEF old
  <2>2. ~item[i].claimed
    BY <2>1 DEF IInv, MarkedApproved
  <2>3. item[i].claimed = FALSE
    BY <1>1, <2>2 DEF Item
  <2>4. item'[i].claimed = FALSE /\ item'[i].simulated = FALSE
    BY <1>1, <2>1
  <2>5. \A j \in Items \ {i} : item'[j] = item[j]
    BY <1>1, <2>1
  <2> QED BY <2>1, <2>3, <2>4, <2>5
<1>4. ASSUME NEW i \in Items, RaiseDispute(i) \/ ResolveDispute(i)
      PROVE  \A j \in Items :
               /\ item'[j].claimed = item[j].claimed
               /\ item[j].status = "approved" => item'[j].status = "approved"
               /\ item'[j].simulated => item[j].simulated \/ ~item[j].claimed
  BY <1>1, <1>4 DEF RaiseDispute, ResolveDispute, Item
<1>5. ASSUME NEW i \in Items, ApproveCorrection(i) \/ Reject(i)
      PROVE  \A j \in Items :
               /\ item'[j].claimed = item[j].claimed
               /\ item[j].status = "approved" => item'[j].status = "approved"
               /\ item'[j].simulated => item[j].simulated \/ ~item[j].claimed
  BY <1>1, <1>5 DEF ApproveCorrection, CurrentProposal, Reject, Item
<1>6. ASSUME NEW i \in Items, FreezeReview(i) \/ Simulate(i)
      PROVE  \A j \in Items :
               /\ item'[j].claimed = item[j].claimed
               /\ item[j].status = "approved" => item'[j].status = "approved"
               /\ item'[j].simulated => item[j].simulated \/ ~item[j].claimed
  BY <1>1, <1>6 DEF FreezeReview, Simulate, Item
<1> QED BY <1>2, <1>3, <1>4, <1>5, <1>6
        DEF AdjustmentNext, RegisterSource, RepeatedPost, adjustmentVars

LEMMA AdjustmentKeepsIInv ==
  ASSUME IInv, AdjustmentNext, UNCHANGED statementVars
  PROVE  IInv'
<1>1. AdjustmentInv'
  BY AdjustmentNextInv DEF IInv
<1>2. UNCHANGED <<statement, claims>>
  BY DEF statementVars
<1>3. TypeOK'
  BY <1>1, <1>2 DEF IInv, TypeOK, AdjustmentInv, StatementOK, TransferOK
<1>4. Orderly'
  BY <1>2 DEF IInv, Orderly, LastOpen, ApprovedAsFrozen
<1>5. LinesMarked' /\ LinesKnown' /\ LinesClaimed'
  BY <1>2, AdjustmentKeepsClaims DEF IInv, LinesMarked, LinesKnown, LinesClaimed
<1>6. MarkedApproved' /\ NotSettledTwice'
  BY AdjustmentKeepsClaims DEF IInv, MarkedApproved, NotSettledTwice
<1> QED BY <1>1, <1>3, <1>4, <1>5, <1>6 DEF IInv

-----------------------------------------------------------------------------
(* Steps on one statement *)

LEMMA MaxCentsNat == MaxCents \in Nat
  BY AdjustmentReplayAssumption

\* What a step on the lines there are has to show about the new statement.
LEMMA StatementKeepsIInv ==
  ASSUME IInv, NEW s \in Statements, NEW st, Saved(s, st),
         StatementOK(st), LastOpen(st), ApprovedAsFrozen(st),
         DOMAIN st.lines = DOMAIN statement[s].lines,
         \A n \in DOMAIN st.lines :
           /\ st.lines[n].about = statement[s].lines[n].about
           /\ st.lines[n].correction = statement[s].lines[n].correction,
         UNCHANGED <<source, item, page, claims>>
  PROVE  IInv'
<1>1. /\ DOMAIN statement' = Statements
      /\ statement'[s] = st
      /\ \A r \in Statements \ {s} : statement'[r] = statement[r]
  BY DEF Saved, IInv, TypeOK
<1>2. \A r \in Statements :
        /\ StatementOK(statement'[r]) /\ LastOpen(statement'[r]) /\ ApprovedAsFrozen(statement'[r])
        /\ DOMAIN statement'[r].lines = DOMAIN statement[r].lines
        /\ \A n \in DOMAIN statement'[r].lines :
             /\ statement'[r].lines[n].about = statement[r].lines[n].about
             /\ statement'[r].lines[n].correction = statement[r].lines[n].correction
  BY <1>1 DEF IInv, TypeOK, Orderly
<1>3. AdjustmentInv' /\ AdjustmentTypeOK'
  BY DEF IInv, AdjustmentInv, AdjustmentTypeOK, Dated, OnlyLastLives, Exists
<1>4. TypeOK'
  BY <1>1, <1>2, <1>3 DEF IInv, TypeOK
<1>5. Orderly'
  BY <1>2 DEF Orderly
<1>6. LinesMarked'
  BY <1>2 DEF IInv, LinesMarked
<1>7. LinesKnown'
  BY <1>2 DEF IInv, LinesKnown
<1>8. LinesClaimed'
  BY <1>2 DEF IInv, LinesClaimed
<1>9. MarkedApproved' /\ NotSettledTwice'
  BY DEF IInv, MarkedApproved, NotSettledTwice
<1> QED BY <1>3, <1>4, <1>5, <1>6, <1>7, <1>8, <1>9 DEF IInv

LEMMA CreateKeepsIInv ==
  ASSUME IInv, NEW s \in Statements, Create(s)
  PROVE  IInv'
<1> DEFINE old == statement[s]
           st == [old EXCEPT !.created = TRUE]
<1>1. StatementOK(old) /\ LastOpen(old) /\ ApprovedAsFrozen(old)
  BY DEF IInv, TypeOK, Orderly
<1>2. /\ DOMAIN st = DOMAIN old /\ st.created = TRUE
      /\ st.lines = old.lines /\ st.transfers = old.transfers
      /\ st.freeze = old.freeze /\ st.approval = old.approval /\ st.provided = old.provided
  BY <1>1 DEF StatementOK
<1>3. Saved(s, st) /\ UNCHANGED <<source, item, page, claims>>
  BY DEF Create
<1> HIDE DEF st
<1>4. StatementOK(st) /\ LastOpen(st) /\ ApprovedAsFrozen(st)
  BY <1>1, <1>2 DEF StatementOK, LastOpen, ApprovedAsFrozen
<1> QED BY <1>2, <1>3, <1>4, StatementKeepsIInv

\* Disputes, resolutions and collections: the same lines with other marks.
LEMMA ReopenedKeepsIInv ==
  ASSUME IInv, NEW s \in Statements, NEW lines \in Seq(Line),
         Saved(s, Reopened([statement[s] EXCEPT !.lines = lines])),
         DOMAIN lines = DOMAIN statement[s].lines,
         \A n \in DOMAIN lines :
           /\ lines[n].about = statement[s].lines[n].about
           /\ lines[n].correction = statement[s].lines[n].correction,
         UNCHANGED <<source, item, page, claims>>
  PROVE  IInv'
<1> DEFINE old == statement[s]
           st == Reopened([old EXCEPT !.lines = lines])
<1>1. StatementOK(old) /\ LastOpen(old)
  BY DEF IInv, TypeOK, Orderly
<1>2. /\ DOMAIN st = DOMAIN old /\ st.created = old.created
      /\ st.lines = lines /\ st.transfers = old.transfers
      /\ st.freeze = None /\ st.approval = None /\ st.provided = FALSE
  BY <1>1 DEF StatementOK, Reopened
<1> HIDE DEF st
<1>3. StatementOK(st) /\ LastOpen(st) /\ ApprovedAsFrozen(st)
  BY <1>1, <1>2 DEF StatementOK, LastOpen, ApprovedAsFrozen
<1>4. Saved(s, st)
  BY DEF st
<1> QED BY <1>2, <1>3, <1>4, StatementKeepsIInv

\* lines is old with other marks on its lines.
SameClaims(lines, old) ==
  /\ lines \in Seq(Line)
  /\ DOMAIN lines = DOMAIN old
  /\ \A m \in DOMAIN lines :
       lines[m].about = old[m].about /\ lines[m].correction = old[m].correction

LEMMA MarkedLines ==
  ASSUME NEW old \in Seq(Line), NEW n \in DOMAIN old, NEW b \in BOOLEAN
  PROVE  /\ SameClaims([old EXCEPT ![n].collected = b], old)
         /\ SameClaims([old EXCEPT ![n].disputed = b], old)
<1>1. old[n] \in Line /\ Len(old) \in Nat /\ DOMAIN old = 1..Len(old)
  OBVIOUS
<1>2. \A line \in Line : SameClaims([old EXCEPT ![n] = line], old)
        \/ line.about # old[n].about \/ line.correction # old[n].correction
  BY <1>1 DEF SameClaims
<1>3. /\ [old[n] EXCEPT !.collected = b] \in Line
      /\ [old[n] EXCEPT !.collected = b].about = old[n].about
      /\ [old[n] EXCEPT !.collected = b].correction = old[n].correction
  BY <1>1 DEF Line
<1>4. /\ [old[n] EXCEPT !.disputed = b] \in Line
      /\ [old[n] EXCEPT !.disputed = b].about = old[n].about
      /\ [old[n] EXCEPT !.disputed = b].correction = old[n].correction
  BY <1>1 DEF Line
<1>5. SameClaims([old EXCEPT ![n] = [old[n] EXCEPT !.collected = b]], old)
  BY <1>2, <1>3
<1>6. SameClaims([old EXCEPT ![n] = [old[n] EXCEPT !.disputed = b]], old)
  BY <1>2, <1>4
<1> QED BY <1>5, <1>6

LEMMA MarkKeepsIInv ==
  ASSUME IInv, NEW s \in Statements, NEW n \in Nat,
         CollectPool(s, n) \/ Dispute(s, n) \/ Resolve(s, n)
  PROVE  IInv'
<1> DEFINE old == statement[s].lines
<1>1. n \in DOMAIN old /\ UNCHANGED <<source, item, page, claims>>
  BY DEF CollectPool, Dispute, Resolve
<1>2. old \in Seq(Line)
  BY DEF IInv, TypeOK, StatementOK
<1>3. ASSUME NEW lines, SameClaims(lines, old),
             Saved(s, Reopened([statement[s] EXCEPT !.lines = lines]))
      PROVE  IInv'
  BY <1>1, <1>3, ReopenedKeepsIInv DEF SameClaims
<1>4. CASE CollectPool(s, n)
  <2>1. Saved(s, Reopened([statement[s] EXCEPT !.lines = [old EXCEPT ![n].collected = TRUE]]))
    BY <1>4 DEF CollectPool
  <2> QED BY <1>1, <1>2, <1>3, <2>1, MarkedLines
<1>5. CASE Dispute(s, n)
  <2>1. Saved(s, Reopened([statement[s] EXCEPT !.lines = [old EXCEPT ![n].disputed = TRUE]]))
    BY <1>5 DEF Dispute
  <2> QED BY <1>1, <1>2, <1>3, <2>1, MarkedLines
<1>6. CASE Resolve(s, n)
  <2>1. Saved(s, Reopened([statement[s] EXCEPT !.lines = [old EXCEPT ![n].disputed = FALSE]]))
    BY <1>6 DEF Resolve
  <2> QED BY <1>1, <1>2, <1>3, <2>1, MarkedLines
<1> QED BY <1>4, <1>5, <1>6

LEMMA FreezeKeepsIInv ==
  ASSUME IInv, NEW s \in Statements, Freeze(s)
  PROVE  IInv'
<1> DEFINE old == statement[s]
           frozen == [total |-> Total(old.lines), linked |-> LinkedVersions(old.lines)]
           st == [old EXCEPT !.freeze = frozen, !.approval = None, !.provided = FALSE]
<1>1. StatementOK(old) /\ LastOpen(old)
  BY DEF IInv, TypeOK, Orderly
<1>2. Saved(s, st) /\ UNCHANGED <<source, item, page, claims>>
  BY DEF Freeze
<1>3. Total(old.lines) \in Int
  BY MaxCentsNat DEF Freeze, Payable
<1>4. LinkedVersions(old.lines) \in UNION {[S -> Nat] : S \in SUBSET Items}
  <2>1. Linked(old.lines) \subseteq Items
    BY DEF Linked, Eligible, IInv, LinesMarked
  <2>2. source.version \in Nat
    BY DEF IInv, TypeOK, AdjustmentTypeOK
  <2> QED BY <2>1, <2>2 DEF LinkedVersions
<1>5. frozen \in Freezes
  BY <1>3, <1>4 DEF Freezes
<1> HIDE DEF frozen
<1>6. /\ DOMAIN st = DOMAIN old /\ st.created = old.created
      /\ st.lines = old.lines /\ st.transfers = old.transfers
      /\ st.freeze = frozen /\ st.approval = None /\ st.provided = FALSE
  BY <1>1 DEF StatementOK
<1> HIDE DEF st
<1>7. StatementOK(st) /\ LastOpen(st) /\ ApprovedAsFrozen(st)
  BY <1>1, <1>5, <1>6 DEF StatementOK, LastOpen, ApprovedAsFrozen
<1> QED BY <1>2, <1>6, <1>7, StatementKeepsIInv

LEMMA ApproveKeepsIInv ==
  ASSUME IInv, NEW s \in Statements, Approve(s)
  PROVE  IInv'
<1> DEFINE old == statement[s]
           st == [old EXCEPT !.approval = Total(old.lines)]
<1>1. StatementOK(old) /\ LastOpen(old)
  BY DEF IInv, TypeOK, Orderly
<1>2. Saved(s, st) /\ UNCHANGED <<source, item, page, claims>>
  BY DEF Approve
<1>3. /\ Total(old.lines) \in Int
      /\ old.freeze # None /\ old.freeze.total = Total(old.lines)
  BY MaxCentsNat DEF Approve, Payable, FreezeCurrent
<1>4. /\ DOMAIN st = DOMAIN old /\ st.created = old.created
      /\ st.lines = old.lines /\ st.transfers = old.transfers
      /\ st.freeze = old.freeze /\ st.approval = Total(old.lines) /\ st.provided = old.provided
  BY <1>1 DEF StatementOK
<1> HIDE DEF st
<1>5. StatementOK(st) /\ LastOpen(st) /\ ApprovedAsFrozen(st)
  BY <1>1, <1>3, <1>4 DEF StatementOK, LastOpen, ApprovedAsFrozen
<1> QED BY <1>2, <1>4, <1>5, StatementKeepsIInv

LEMMA ProvideKeepsIInv ==
  ASSUME IInv, NEW s \in Statements, ProvideStatement(s)
  PROVE  IInv'
<1> DEFINE old == statement[s]
           st == [old EXCEPT !.provided = TRUE]
<1>1. StatementOK(old) /\ LastOpen(old) /\ ApprovedAsFrozen(old)
  BY DEF IInv, TypeOK, Orderly
<1>2. Saved(s, st) /\ UNCHANGED <<source, item, page, claims>>
  BY DEF ProvideStatement
<1>3. /\ DOMAIN st = DOMAIN old /\ st.created = old.created
      /\ st.lines = old.lines /\ st.transfers = old.transfers
      /\ st.freeze = old.freeze /\ st.approval = old.approval /\ st.provided = TRUE
  BY <1>1 DEF StatementOK
<1> HIDE DEF st
<1>4. StatementOK(st) /\ LastOpen(st) /\ ApprovedAsFrozen(st)
  BY <1>1, <1>3 DEF StatementOK, LastOpen, ApprovedAsFrozen
<1> QED BY <1>2, <1>3, <1>4, StatementKeepsIInv

LEMMA SubmitKeepsIInv ==
  ASSUME IInv, NEW s \in Statements, Submit(s)
  PROVE  IInv'
<1> DEFINE old == statement[s]
           amount == Total(old.lines) - Credited(old)
           sent == [amount |-> amount, cleared |-> 0, outcome |-> "submitted", uncertain |-> TRUE,
                    remaining |-> RemainingLines(old), allocations |-> <<>>]
           st == [old EXCEPT !.provided = FALSE, !.transfers = Append(@, sent)]
<1>1. StatementOK(old) /\ LastOpen(old) /\ ApprovedAsFrozen(old)
  BY DEF IInv, TypeOK, Orderly
<1>2. Saved(s, st) /\ UNCHANGED <<source, item, page, claims>>
  BY DEF Submit
<1>3. amount \in Int /\ NothingUncertain(old)
  BY MaxCentsNat DEF Submit, MaySubmit
<1> HIDE DEF amount
<1>4. TransferOK(sent)
  BY <1>3 DEF TransferOK, Outcomes
<1> HIDE DEF sent
<1>5. /\ DOMAIN st = DOMAIN old /\ st.created = old.created /\ st.lines = old.lines
      /\ st.transfers = Append(old.transfers, sent)
      /\ st.freeze = old.freeze /\ st.approval = old.approval /\ st.provided = FALSE
  BY <1>1 DEF StatementOK
<1> HIDE DEF st
<1>6. /\ Len(st.transfers) = Len(old.transfers) + 1
      /\ DOMAIN st.transfers = 1..Len(st.transfers)
      /\ \A k \in DOMAIN old.transfers : st.transfers[k] = old.transfers[k]
      /\ st.transfers[Len(st.transfers)] = sent
      /\ \A k \in DOMAIN st.transfers : k \in DOMAIN old.transfers \/ k = Len(st.transfers)
  BY <1>1, <1>5 DEF StatementOK
<1>7. StatementOK(st)
  <2>1. Len(st.transfers) \in Nat
    BY <1>1, <1>6 DEF StatementOK
  <2>2. \A k \in DOMAIN st.transfers : TransferOK(st.transfers[k])
    BY <1>1, <1>4, <1>6 DEF StatementOK
  <2>3. /\ DOMAIN st = {"created", "lines", "transfers", "freeze", "approval", "provided"}
        /\ st.created \in BOOLEAN /\ st.provided \in BOOLEAN
        /\ st.lines \in Seq(Line)
        /\ st.freeze \in Freezes \cup {None}
        /\ st.approval \in Int \cup {None}
    BY <1>1, <1>5 DEF StatementOK
  <2> QED BY <1>6, <2>1, <2>2, <2>3 DEF StatementOK
<1>8. LastOpen(st)
  BY <1>3, <1>6 DEF LastOpen, NothingUncertain
<1>9. ApprovedAsFrozen(st)
  BY <1>1, <1>5 DEF ApprovedAsFrozen
<1> QED BY <1>2, <1>5, <1>7, <1>8, <1>9, StatementKeepsIInv

LEMMA ReconcileKeepsIInv ==
  ASSUME IInv, NEW s \in Statements, NEW k \in Nat,
         NEW outcome \in Outcomes \ {"submitted"}, NEW failed \in BOOLEAN,
         Reconcile(s, k, outcome, failed)
  PROVE  IInv'
<1> DEFINE old == statement[s]
           t == old.transfers[k]
<1>1. StatementOK(old) /\ LastOpen(old) /\ ApprovedAsFrozen(old)
  BY DEF IInv, TypeOK, Orderly
<1>2. k \in DOMAIN old.transfers /\ t.uncertain /\ UNCHANGED <<source, item, page, claims>>
  BY DEF Reconcile
<1>3. PICK cleared, allocations, uncertain :
        /\ cleared \in t.cleared..t.amount /\ uncertain \in BOOLEAN
        /\ Saved(s, Reconciled(old, k,
             [t EXCEPT !.cleared = cleared, !.allocations = allocations,
                       !.outcome = outcome, !.uncertain = uncertain]))
  <2>1. StaysUncertain(outcome, failed) \in BOOLEAN
    BY DEF StaysUncertain
  <2> QED BY <2>1 DEF Reconcile, Consistent
<1> DEFINE new == [t EXCEPT !.cleared = cleared, !.allocations = allocations,
                            !.outcome = outcome, !.uncertain = uncertain]
           st == Reconciled(old, k, new)
<1>4. TransferOK(t)
  BY <1>1, <1>2 DEF StatementOK
<1>5. TransferOK(new)
  BY <1>3, <1>4 DEF TransferOK
<1> HIDE DEF new
<1>6. /\ DOMAIN st = DOMAIN old /\ st.created = old.created /\ st.lines = old.lines
      /\ st.transfers = [old.transfers EXCEPT ![k] = new]
      /\ st.freeze = old.freeze /\ st.approval = old.approval /\ st.provided = FALSE
  BY <1>1 DEF StatementOK, Reconciled
<1>7. Saved(s, st)
  BY <1>3 DEF new
<1> HIDE DEF st
<1>8. /\ DOMAIN st.transfers = DOMAIN old.transfers
      /\ Len(st.transfers) = Len(old.transfers)
      /\ st.transfers[k] = new
      /\ \A j \in DOMAIN old.transfers \ {k} : st.transfers[j] = old.transfers[j]
  <2>1. DOMAIN st.transfers = DOMAIN old.transfers
    BY <1>6
  <2>2. Len(st.transfers) = Len(old.transfers)
    BY <1>1, <1>6, <2>1 DEF StatementOK
  <2> QED BY <1>2, <1>6, <2>1, <2>2
<1>9. StatementOK(st)
  BY <1>1, <1>5, <1>6, <1>8 DEF StatementOK
<1>10. LastOpen(st)
  BY <1>1, <1>2, <1>8 DEF LastOpen
<1>11. ApprovedAsFrozen(st)
  BY <1>1, <1>6 DEF ApprovedAsFrozen
<1> QED BY <1>2, <1>6, <1>7, <1>9, <1>10, <1>11, StatementKeepsIInv

-----------------------------------------------------------------------------
(* Steps that add a line *)

LEMMA WithLineKeeps ==
  ASSUME IInv, NEW s \in Statements, NEW line \in Line,
         OpenForLines(statement[s]), line.about \notin claims,
         Saved(s, WithLine(statement[s], line)), claims' = claims \cup {line.about}
  PROVE  /\ DOMAIN statement' = Statements
         /\ \A r \in Statements :
              StatementOK(statement'[r]) /\ LastOpen(statement'[r]) /\ ApprovedAsFrozen(statement'[r])
         /\ \A r \in Statements : \A n \in DOMAIN statement'[r].lines :
              \/ n \in DOMAIN statement[r].lines /\ statement'[r].lines[n] = statement[r].lines[n]
              \/ statement'[r].lines[n] = line
         /\ LinesClaimed'
<1> DEFINE old == statement[s]
           st == WithLine(old, line)
<1>1. StatementOK(old) /\ LastOpen(old)
  BY DEF IInv, TypeOK, Orderly
<1>2. /\ DOMAIN st = DOMAIN old /\ st.created = old.created
      /\ st.lines = Append(old.lines, line) /\ st.transfers = old.transfers
      /\ st.freeze = old.freeze /\ st.approval = None /\ st.provided = FALSE
  BY <1>1 DEF StatementOK, WithLine
<1>3. /\ DOMAIN statement' = Statements
      /\ statement'[s] = st
      /\ \A r \in Statements \ {s} : statement'[r] = statement[r]
  BY DEF Saved, IInv, TypeOK
<1> HIDE DEF st
<1>4. StatementOK(st) /\ LastOpen(st) /\ ApprovedAsFrozen(st)
  <2>1. st.lines \in Seq(Line)
    BY <1>1, <1>2 DEF StatementOK
  <2> QED BY <1>1, <1>2, <2>1 DEF StatementOK, LastOpen, ApprovedAsFrozen
<1>5. \A r \in Statements :
        StatementOK(statement'[r]) /\ LastOpen(statement'[r]) /\ ApprovedAsFrozen(statement'[r])
  BY <1>3, <1>4 DEF IInv, TypeOK, Orderly
<1>6. /\ DOMAIN st.lines = DOMAIN old.lines \cup {Len(old.lines) + 1}
      /\ Len(old.lines) + 1 \notin DOMAIN old.lines
      /\ st.lines[Len(old.lines) + 1] = line
      /\ \A n \in DOMAIN old.lines : st.lines[n] = old.lines[n]
  <2>1. old.lines \in Seq(Line)
    BY <1>1 DEF StatementOK
  <2> QED BY <1>2, <2>1
<1>7. \A r \in Statements : \A n \in DOMAIN statement'[r].lines :
        \/ n \in DOMAIN statement[r].lines /\ statement'[r].lines[n] = statement[r].lines[n]
        \/ r = s /\ n = Len(old.lines) + 1 /\ statement'[r].lines[n] = line
  BY <1>3, <1>6
<1>8. \A r \in Statements : \A n \in DOMAIN statement[r].lines :
        statement[r].lines[n].about # line.about
  BY DEF IInv, LinesClaimed
<1>9. \A r \in Statements : \A n \in DOMAIN statement'[r].lines :
        statement'[r].lines[n].about \in claims'
  BY <1>7 DEF IInv, LinesClaimed
<1>10. \A r, q \in Statements :
         \A n \in DOMAIN statement'[r].lines : \A m \in DOMAIN statement'[q].lines :
           statement'[r].lines[n].about = statement'[q].lines[m].about => r = q /\ n = m
  BY <1>7, <1>8 DEF IInv, LinesClaimed
<1>11. LinesClaimed'
  BY <1>9, <1>10 DEF LinesClaimed
<1> QED BY <1>3, <1>5, <1>7, <1>11

LEMMA AddLineKeepsIInv ==
  ASSUME IInv, NEW s \in Statements, NEW e \in Earnings, NEW collected \in BOOLEAN,
         AddLine(s, e, collected)
  PROVE  IInv'
<1> DEFINE line == [about |-> e, correction |-> FALSE, cents |-> CentsOf[e],
                    collected |-> collected, disputed |-> FALSE]
<1>1. line \in Line /\ line.about = e /\ line.correction = FALSE
  BY MonthlySettlementsAssumption DEF Line
<1>2. /\ OpenForLines(statement[s]) /\ e \notin claims
      /\ Saved(s, WithLine(statement[s], line)) /\ claims' = claims \cup {e}
      /\ UNCHANGED <<source, item, page>>
  BY DEF AddLine, Unclaimed
<1> HIDE DEF line
<1>3. /\ DOMAIN statement' = Statements
      /\ \A r \in Statements :
           StatementOK(statement'[r]) /\ LastOpen(statement'[r]) /\ ApprovedAsFrozen(statement'[r])
      /\ \A r \in Statements : \A n \in DOMAIN statement'[r].lines :
           \/ n \in DOMAIN statement[r].lines /\ statement'[r].lines[n] = statement[r].lines[n]
           \/ statement'[r].lines[n] = line
      /\ LinesClaimed'
  BY <1>1, <1>2, WithLineKeeps
<1>4. AdjustmentInv' /\ AdjustmentTypeOK'
  BY <1>2 DEF IInv, AdjustmentInv, AdjustmentTypeOK, Dated, OnlyLastLives, Exists
<1>5. TypeOK'
  BY <1>2, <1>3, <1>4 DEF IInv, TypeOK
<1>6. LinesMarked'
  BY <1>1, <1>2, <1>3 DEF IInv, LinesMarked
<1>7. LinesKnown'
  BY <1>1, <1>3, MonthlySettlementsAssumption DEF IInv, LinesKnown
<1>8. MarkedApproved' /\ NotSettledTwice'
  BY <1>2 DEF IInv, MarkedApproved, NotSettledTwice
<1> QED BY <1>3, <1>4, <1>5, <1>6, <1>7, <1>8 DEF IInv, Orderly

LEMMA AddCorrectionKeepsIInv ==
  ASSUME IInv, NEW s \in Statements, NEW i \in Items, AddCorrection(s, i)
  PROVE  IInv'
<1> DEFINE line == [about |-> i, correction |-> TRUE, cents |-> item[i].delta,
                    collected |-> TRUE, disputed |-> FALSE]
<1>1. item \in [Items -> Item]
  BY DEF IInv, TypeOK, AdjustmentTypeOK
<1>2. line \in Line /\ line.about = i /\ line.correction = TRUE
  BY <1>1 DEF Line, Item
<1>3. /\ OpenForLines(statement[s]) /\ i \notin claims
      /\ Saved(s, WithLine(statement[s], line)) /\ claims' = claims \cup {i}
      /\ item[i].status = "approved" /\ ~item[i].simulated
      /\ item' = [item EXCEPT ![i].claimed = TRUE]
      /\ UNCHANGED <<source, page>>
  BY DEF AddCorrection, Unclaimed, Claimable
<1> HIDE DEF line
<1>4. /\ DOMAIN statement' = Statements
      /\ \A r \in Statements :
           StatementOK(statement'[r]) /\ LastOpen(statement'[r]) /\ ApprovedAsFrozen(statement'[r])
      /\ \A r \in Statements : \A n \in DOMAIN statement'[r].lines :
           \/ n \in DOMAIN statement[r].lines /\ statement'[r].lines[n] = statement[r].lines[n]
           \/ statement'[r].lines[n] = line
      /\ LinesClaimed'
  BY <1>2, <1>3, WithLineKeeps
<1>5. /\ item' \in [Items -> Item]
      /\ item'[i].claimed /\ item'[i].status = "approved" /\ ~item'[i].simulated
      /\ \A j \in Items \ {i} : item'[j] = item[j]
      /\ \A j \in Items :
           /\ item'[j].status = item[j].status /\ item'[j].occurrence = item[j].occurrence
           /\ item'[j].at = item[j].at
           /\ item[j].claimed => item'[j].claimed
  BY <1>1, <1>3 DEF Item
<1>6. AdjustmentTypeOK'
  BY <1>3, <1>5 DEF IInv, TypeOK, AdjustmentTypeOK
<1>7. AdjustmentInv'
  BY <1>3, <1>5, <1>6 DEF IInv, AdjustmentInv, Dated, OnlyLastLives, Exists
<1>8. TypeOK'
  BY <1>3, <1>4, <1>6 DEF IInv, TypeOK
<1>9. LinesMarked'
  BY <1>2, <1>4, <1>5 DEF IInv, LinesMarked
<1>10. LinesKnown'
  BY <1>2, <1>4 DEF IInv, LinesKnown
<1>11. MarkedApproved' /\ NotSettledTwice'
  BY <1>5 DEF IInv, MarkedApproved, NotSettledTwice
<1> QED BY <1>4, <1>7, <1>8, <1>9, <1>10, <1>11 DEF IInv, Orderly

-----------------------------------------------------------------------------
(* The specification *)

LEMMA NextIInv == IInv /\ [Next]_vars => IInv'
<1> SUFFICES ASSUME IInv, [Next]_vars PROVE IInv'
  OBVIOUS
<1>1. CASE UNCHANGED vars
  <2>1. UNCHANGED <<source, item, page, statement, claims>>
    BY <1>1 DEF vars
  <2> QED BY <2>1 DEF IInv, TypeOK, AdjustmentInv, AdjustmentTypeOK, Dated, OnlyLastLives, Exists,
             StatementOK, TransferOK, LinesMarked, LinesKnown, LinesClaimed, MarkedApproved,
             NotSettledTwice, Orderly, LastOpen, ApprovedAsFrozen
<1>2. CASE AdjustmentNext /\ UNCHANGED statementVars
  BY <1>2, AdjustmentKeepsIInv
<1>3. ASSUME NEW s \in Statements, Prepare(s) PROVE IInv'
  <2>1. ASSUME NEW n \in 1..MaxLines, CollectPool(s, n) \/ Dispute(s, n) \/ Resolve(s, n)
        PROVE  IInv'
    <3>1. n \in Nat
      BY MonthlySettlementsAssumption
    <3> QED BY <2>1, <3>1, MarkKeepsIInv
  <2> QED BY <1>3, <2>1, CreateKeepsIInv, AddLineKeepsIInv, AddCorrectionKeepsIInv DEF Prepare
<1>4. ASSUME NEW s \in Statements, Pay(s) PROVE IInv'
  <2>1. ASSUME NEW k \in 1..MaxTransfers, NEW outcome \in Outcomes \ {"submitted"},
               NEW failed \in BOOLEAN, Reconcile(s, k, outcome, failed)
        PROVE  IInv'
    <3>1. k \in Nat
      BY MonthlySettlementsAssumption
    <3> QED BY <2>1, <3>1, ReconcileKeepsIInv
  <2> QED BY <1>4, <2>1, FreezeKeepsIInv, ApproveKeepsIInv, SubmitKeepsIInv, ProvideKeepsIInv DEF Pay
<1> QED BY <1>1, <1>2, <1>3, <1>4 DEF Next

LEMMA Inductive == Spec => []IInv
<1> QED BY InitIInv, NextIInv, PTL DEF Spec

\* A correction is never both claimed by a statement and settled on its own.
THEOREM NotBothWays == Spec => []NotSettledTwice
<1>1. IInv => NotSettledTwice
  BY DEF IInv
<1> QED BY <1>1, Inductive, PTL

\* Over all statements, what is paid for stands in at most one line.
THEOREM ClaimedOnce == Spec => []LinesClaimed
<1>1. IInv => LinesClaimed
  BY DEF IInv
<1> QED BY <1>1, Inductive, PTL

\* No transfer is sent while an earlier one may still clear.
THEOREM OneOpenTransfer == Spec => [](\A s \in Statements : LastOpen(statement[s]))
<1>1. IInv => \A s \in Statements : LastOpen(statement[s])
  BY DEF IInv, Orderly
<1> QED BY <1>1, Inductive, PTL

\* While an approval stands, the eligible lines add up to what was approved.
THEOREM Approved == Spec => []ApprovalCurrent
<1>1. IInv => ApprovalCurrent
  BY DEF IInv, Orderly, ApprovedAsFrozen, ApprovalCurrent
<1> QED BY <1>1, Inductive, PTL

\* An occurrence is corrected once, also when statements claim the corrections.
THEOREM CorrectedOnceInStatements == Spec => []CorrectedOnce
<1>1. IInv => CorrectedOnce
  BY AdjustmentCorrectedOnce DEF IInv
<1> QED BY <1>1, Inductive, PTL

-----------------------------------------------------------------------------
(* Evidence *)

\* What is saved of a statement has its lines and transfers, or no evidence.
Evident(old, st) == st.provided => st.lines = old.lines /\ st.transfers = old.transfers

LEMMA PrepareEvident ==
  ASSUME IInv, NEW s \in Statements, Prepare(s)
  PROVE  \E st : Saved(s, st) /\ Evident(statement[s], st)
<1> DEFINE old == statement[s]
<1>1. DOMAIN old = {"created", "lines", "transfers", "freeze", "approval", "provided"}
  BY DEF IInv, TypeOK, StatementOK
<1>2. CASE Create(s)
  <2>1. Evident(old, [old EXCEPT !.created = TRUE])
    BY <1>1 DEF Evident
  <2> QED BY <1>2, <2>1 DEF Create
<1>3. \A line : Evident(old, WithLine(old, line))
  BY <1>1 DEF Evident, WithLine
<1>4. ASSUME NEW e \in Earnings, NEW collected \in BOOLEAN, AddLine(s, e, collected)
      PROVE  \E st : Saved(s, st) /\ Evident(old, st)
  BY <1>3, <1>4 DEF AddLine
<1>5. ASSUME NEW i \in Items, AddCorrection(s, i)
      PROVE  \E st : Saved(s, st) /\ Evident(old, st)
  BY <1>3, <1>5 DEF AddCorrection
<1>6. \A lines : Evident(old, Reopened([old EXCEPT !.lines = lines]))
  BY <1>1 DEF Evident, Reopened
<1>7. ASSUME NEW n \in 1..MaxLines, CollectPool(s, n) \/ Dispute(s, n) \/ Resolve(s, n)
      PROVE  \E st : Saved(s, st) /\ Evident(old, st)
  BY <1>6, <1>7 DEF CollectPool, Dispute, Resolve
<1> QED BY <1>2, <1>4, <1>5, <1>7 DEF Prepare

LEMMA PayEvident ==
  ASSUME IInv, NEW s \in Statements, Pay(s)
  PROVE  \E st : Saved(s, st) /\ Evident(statement[s], st)
<1> DEFINE old == statement[s]
<1>1. DOMAIN old = {"created", "lines", "transfers", "freeze", "approval", "provided"}
  BY DEF IInv, TypeOK, StatementOK
<1>2. CASE Freeze(s)
  <2>1. \A freeze : Evident(old, [old EXCEPT !.freeze = freeze, !.approval = None, !.provided = FALSE])
    BY <1>1 DEF Evident
  <2> QED BY <1>2, <2>1 DEF Freeze
<1>3. CASE Approve(s)
  <2>1. \A total : Evident(old, [old EXCEPT !.approval = total])
    BY <1>1 DEF Evident
  <2> QED BY <1>3, <2>1 DEF Approve
<1>4. CASE Submit(s)
  <2>1. \A sent : Evident(old, [old EXCEPT !.provided = FALSE, !.transfers = Append(@, sent)])
    BY <1>1 DEF Evident
  <2> QED BY <1>4, <2>1 DEF Submit
<1>5. CASE ProvideStatement(s)
  <2>1. Evident(old, [old EXCEPT !.provided = TRUE])
    BY <1>1 DEF Evident
  <2> QED BY <1>5, <2>1 DEF ProvideStatement
<1>6. ASSUME NEW k, NEW outcome, NEW failed, Reconcile(s, k, outcome, failed)
      PROVE  \E st : Saved(s, st) /\ Evident(old, st)
  <2>1. \A new : Evident(old, Reconciled(old, k, new))
    BY <1>1 DEF Evident, Reconciled
  <2> QED BY <1>6, <2>1 DEF Reconcile
<1> QED BY <1>2, <1>3, <1>4, <1>5, <1>6 DEF Pay

\* Evidence that the cleaner was given a statement stands only for its figures.
THEOREM Evidence == Spec => EvidenceIsCurrent
<1> DEFINE Kept == \A s \in Statements :
             statement[s].provided /\ statement'[s].provided =>
               /\ statement'[s].lines = statement[s].lines
               /\ statement'[s].transfers = statement[s].transfers
<1>1. IInv /\ [Next]_vars => [Kept]_vars
  <2> SUFFICES ASSUME IInv, Next PROVE Kept
    BY DEF vars
  <2>1. CASE AdjustmentNext /\ UNCHANGED statementVars
    BY <2>1 DEF statementVars
  <2>2. ASSUME NEW s \in Statements, Prepare(s) \/ Pay(s) PROVE Kept
    <3>1. PICK st : Saved(s, st) /\ Evident(statement[s], st)
      BY <2>2, PrepareEvident, PayEvident
    <3>2. statement'[s] = st /\ \A r \in Statements \ {s} : statement'[r] = statement[r]
      BY <3>1 DEF Saved, IInv, TypeOK
    <3> QED BY <3>1, <3>2 DEF Evident
  <2> QED BY <2>1, <2>2 DEF Next
<1> QED BY <1>1, Inductive, PTL DEF Spec, EvidenceIsCurrent

-----------------------------------------------------------------------------
(* Sums over the lines and the transfers of a statement *)

\* The total of a statement is a sum over the lines that are eligible.
CentsAt(lines) == [n \in DOMAIN lines |-> lines[n].cents]

LEMMA TotalIsSum ==
  ASSUME NEW lines
  PROVE  Total(lines) = SumOf(CentsAt(lines), Eligible(lines))
<1> DEFINE T == Eligible(lines)
           f == CentsAt(lines)
           B(g) == [s \in SUBSET T |->
                      IF s = {} THEN 0 ELSE lines[CHOOSE x \in s : TRUE].cents + g[s \ {CHOOSE x \in s : TRUE}]]
           C(g) == [s \in SUBSET T |->
                      IF s = {} THEN 0 ELSE f[CHOOSE x \in s : TRUE] + g[s \ {CHOOSE x \in s : TRUE}]]
<1>1. ASSUME NEW g PROVE B(g) = C(g)
  <2>1. \A s \in SUBSET T : s # {} => f[CHOOSE x \in s : TRUE] = lines[CHOOSE x \in s : TRUE].cents
    BY DEF CentsAt, Eligible
  <2> HIDE DEF f, T
  <2> QED
    BY <2>1
<1>2. Total(lines) = (CHOOSE g : g = B(g))[T]
  BY DEF Total, MapThenSumSet, MapThenFoldSet
<1>3. SumOf(f, T) = (CHOOSE g : g = C(g))[T]
  BY DEF SumOf, MapThenSumSet, MapThenFoldSet
<1> HIDE DEF B, C, f, T
<1>4. \A g : g = B(g) <=> g = C(g)
  BY <1>1
<1>5. (CHOOSE g : g = B(g)) = (CHOOSE g : g = C(g))
  BY <1>4, Zenon
<1> QED
  BY <1>2, <1>3, <1>5 DEF f, T

\* What each transfer has cleared of the line n.
ClearedAt(transfers, n) == [k \in DOMAIN transfers |-> Previously(transfers[k], n)]

\* The transfers that have cleared something of the line n.
Covering(transfers, n) == {k \in DOMAIN transfers : n \in DOMAIN transfers[k].allocations}

\* Transfers whose allocations are numbers.
Allocates(transfers) ==
  /\ Len(transfers) \in Nat /\ DOMAIN transfers = 1..Len(transfers)
  /\ \A k \in DOMAIN transfers : \A n \in DOMAIN transfers[k].allocations :
       transfers[k].allocations[n] \in Int

\* What they have cleared of it can be added up.
LEMMA ClearedSum ==
  ASSUME NEW transfers, Allocates(transfers), NEW n
  PROVE  Summable(ClearedAt(transfers, n), DOMAIN transfers)
<1>1. IsFiniteSet(DOMAIN transfers)
  BY FS_Interval DEF Allocates
<1>2. \A k \in DOMAIN transfers : Previously(transfers[k], n) \in Int
  BY DEF Previously, Allocates
<1> QED
  BY <1>1, <1>2 DEF Summable, ClearedAt

\* What the transfers have cleared of a line, added up over all of them.
LEMMA AllocatedIsSum ==
  ASSUME NEW transfers, Allocates(transfers), NEW n
  PROVE  /\ Allocated(transfers, n) = SumOf(ClearedAt(transfers, n), DOMAIN transfers)
         /\ Allocated(transfers, n) \in Int
<1> DEFINE T == Covering(transfers, n)
           D == DOMAIN transfers
           f == [k \in T |-> transfers[k].allocations[n]]
           h == ClearedAt(transfers, n)
           B(g) == [s \in SUBSET T |->
                      IF s = {} THEN 0
                      ELSE transfers[CHOOSE x \in s : TRUE].allocations[n] + g[s \ {CHOOSE x \in s : TRUE}]]
           C(g) == [s \in SUBSET T |->
                      IF s = {} THEN 0 ELSE f[CHOOSE x \in s : TRUE] + g[s \ {CHOOSE x \in s : TRUE}]]
<1>1. ASSUME NEW g PROVE B(g) = C(g)
  <2>1. \A s \in SUBSET T : s # {} =>
          f[CHOOSE x \in s : TRUE] = transfers[CHOOSE x \in s : TRUE].allocations[n]
    OBVIOUS
  <2> HIDE DEF f, T
  <2> QED
    BY <2>1
<1>2. Allocated(transfers, n) = (CHOOSE g : g = B(g))[T]
  BY DEF Allocated, MapThenSumSet, MapThenFoldSet, Covering
<1>3. SumOf(f, T) = (CHOOSE g : g = C(g))[T]
  BY DEF SumOf, MapThenSumSet, MapThenFoldSet
<1>4. Summable(f, T) /\ D \cap T = T /\ IsFiniteSet(D)
  <2>1. IsFiniteSet(D)
    BY FS_Interval DEF Allocates
  <2>2. T \subseteq D /\ D \cap T = T
    BY DEF Covering
  <2>3. IsFiniteSet(T)
    BY <2>1, <2>2, FS_Subset
  <2>4. \A k \in T : f[k] \in Int
    BY DEF Covering, Allocates
  <2> HIDE DEF f, T, D
  <2> QED
    BY <2>1, <2>2, <2>3, <2>4 DEF Summable
<1>5. CountsIn(h, f, T, D)
  BY DEF CountsIn, ClearedAt, Previously, Covering
<1> HIDE DEF B, C, f, T, D, h
<1>6. \A g : g = B(g) <=> g = C(g)
  BY <1>1
<1>7. (CHOOSE g : g = B(g)) = (CHOOSE g : g = C(g))
  BY <1>6, Zenon
<1>8. Summable(f, D \cap T)
  BY <1>4
<1>9. SumOf(h, D) = SumOf(f, D \cap T)
  BY <1>4, <1>5, <1>8, SumChosen
<1>10. SumOf(f, T) \in Int
  BY <1>4, SumIsInt
<1>11. Allocated(transfers, n) = SumOf(f, T)
  BY <1>2, <1>3, <1>7
<1> QED
  BY <1>4, <1>9, <1>10, <1>11 DEF h, D

\* Without transfers nothing has cleared.
LEMMA NoneAllocated == ASSUME NEW n PROVE Allocated(<< >>, n) = 0
<1>1. Allocates(<< >>)
  BY DEF Allocates
<1>2. DOMAIN << >> = {}
  OBVIOUS
<1>3. SumOf(ClearedAt(<< >>, n), {}) = 0
  BY SumOfNone
<1> QED
  BY <1>1, <1>2, <1>3, AllocatedIsSum

\* A transfer that has cleared nothing yet changes nothing.
LEMMA AllocatedSent ==
  ASSUME NEW transfers, Allocates(transfers), NEW sent, sent.allocations = << >>, NEW n,
         NEW more, DOMAIN more = 1..(Len(transfers) + 1), Len(more) = Len(transfers) + 1,
         more[Len(transfers) + 1] = sent, \A k \in DOMAIN transfers : more[k] = transfers[k]
  PROVE  Allocates(more) /\ Allocated(more, n) = Allocated(transfers, n)
<1> DEFINE N == Len(transfers)
           D == DOMAIN transfers
           f == ClearedAt(transfers, n)
           h == ClearedAt(more, n)
<1>1. N \in Nat /\ D = 1..N /\ DOMAIN more = D \cup {N + 1} /\ N + 1 \notin D
  BY DEF Allocates
<1>2. DOMAIN << >> = {}
  OBVIOUS
<1>3. Allocates(more)
  BY <1>1, <1>2 DEF Allocates
<1>4. h[N + 1] = 0 /\ \A k \in D : h[k] = f[k]
  BY <1>1, <1>2 DEF ClearedAt, Previously
<1> HIDE DEF h, f, N, D
<1>5. Summable(h, D \cup {N + 1}) /\ Summable(f, D)
  BY <1>1, <1>3, ClearedSum DEF h, f, D
<1>6. SumOf(h, D) = SumOf(f, D) /\ SumOf(f, D) \in Int
  <2>1. EachEqual(f, h, D)
    BY <1>4 DEF EachEqual
  <2> QED
    BY <1>5, <2>1, SumSame, SumIsInt
<1>7. AddsOne(h, D \cup {N + 1})
  BY <1>5, SumWith
<1>8. SumOf(h, D \cup {N + 1}) = h[N + 1] + SumOf(h, D)
  BY <1>1, <1>7 DEF AddsOne
<1>9. SumOf(h, DOMAIN more) = SumOf(f, D)
  BY <1>1, <1>4, <1>6, <1>8
<1> QED
  BY <1>3, <1>9, AllocatedIsSum DEF h, f, D

\* Only the transfer k changes.
LEMMA AllocatedChanged ==
  ASSUME NEW transfers, Allocates(transfers), NEW more, Allocates(more), NEW k \in DOMAIN transfers,
         DOMAIN more = DOMAIN transfers, \A j \in DOMAIN transfers \ {k} : more[j] = transfers[j], NEW n
  PROVE  /\ Allocated(more, n) =
              (Allocated(transfers, n) - Previously(transfers[k], n)) + Previously(more[k], n)
         /\ Previously(transfers[k], n) \in Int /\ Previously(more[k], n) \in Int
<1> DEFINE D == DOMAIN transfers
           E == D \ {k}
           f == ClearedAt(transfers, n)
           h == ClearedAt(more, n)
<1>1. f[k] = Previously(transfers[k], n) /\ h[k] = Previously(more[k], n)
      /\ (\A j \in E : h[j] = f[j]) /\ k \in D
  BY DEF ClearedAt
<1> HIDE DEF f, h, D
<1>2. Summable(f, D) /\ Summable(h, D)
  BY ClearedSum DEF f, h, D
<1>3. SumOf(f, D) = f[k] + SumOf(f, E) /\ SumOf(h, D) = h[k] + SumOf(h, E)
  <2> HIDE DEF E
  <2> QED
    BY <1>1, <1>2, SumWithout DEF E
<1>4. Summable(f, E) /\ f[k] \in Int /\ h[k] \in Int
  BY <1>1, <1>2, FS_Subset DEF Summable
<1>5. SumOf(h, E) = SumOf(f, E) /\ SumOf(f, E) \in Int
  <2>1. EachEqual(f, h, E)
    BY <1>1 DEF EachEqual
  <2> HIDE DEF E
  <2> QED
    BY <1>4, <2>1, SumSame, SumIsInt
<1>6. Allocated(transfers, n) = SumOf(f, D) /\ Allocated(more, n) = SumOf(h, D)
  BY AllocatedIsSum DEF f, h, D
<1> HIDE DEF E
<1> QED
  BY <1>1, <1>3, <1>4, <1>5, <1>6

-----------------------------------------------------------------------------
(* The page's own sums *)

\* What a line adds to the total the page shows.
LineWeight == [l \in Line |-> IF ~l.disputed /\ l.collected THEN l.cents ELSE 0]

LineSteps == [l \in Line |-> [v \in Int |-> v + LineWeight[l]]]

\* The fold of ShownTotal, by the lines it has reached.
ShownAlong(list) ==
  CHOOSE g : g = [s \in SUBSET DOMAIN list |->
                    IF s = {} THEN 0
                    ELSE IF ~list[Max(s)].disputed /\ list[Max(s)].collected
                         THEN g[s \ {Max(s)}] + list[Max(s)].cents
                         ELSE g[s \ {Max(s)}]]

\* ShownTotal goes along the lines and adds the weights one by one.
LEMMA ShownSolved ==
  ASSUME NEW st, st.lines \in Seq(Line)
  PROVE  /\ ShownTotal(st) = ShownAlong(st.lines)[DOMAIN st.lines]
         /\ GoesAlong(ShownAlong(st.lines), LineSteps, Int, 0, st.lines)
         /\ AddsWeight(LineSteps, LineWeight, Line)
<1> DEFINE list == st.lines
           D == DOMAIN list
           Next1(v, l) == IF ~l.disputed /\ l.collected THEN v + l.cents ELSE v
           Body(g) == [s \in SUBSET D |-> IF s = {} THEN 0 ELSE Next1(g[s \ {Max(s)}], list[Max(s)])]
           h == ShownAlong(list)
<1>1. /\ LineWeight \in [Line -> Int] /\ LineSteps \in [Line -> [Int -> Int]]
      /\ 0 \in Int /\ list \in Seq(Line)
  <2>1. LineWeight \in [Line -> Int]
    BY DEF LineWeight, Line
  <2>2. \A l \in Line : LineWeight[l] \in Int
    BY <2>1
  <2>3. LineSteps \in [Line -> [Int -> Int]]
    BY <2>2 DEF LineSteps
  <2> QED
    BY <2>1, <2>3
<1>2. PICK g \in [SUBSET D -> Int] : GoesAlong(g, LineSteps, Int, 0, list)
  <2> HIDE DEF list
  <2> QED
    BY <1>1, AlongExists
<1>3. ASSUME NEW f, NEW s \in SUBSET D, s # {}, f[s \ {Max(s)}] \in Int
      PROVE  LineSteps[list[Max(s)]][f[s \ {Max(s)}]] = Next1(f[s \ {Max(s)}], list[Max(s)])
  <2>1. Max(s) \in s
    <3> HIDE DEF list
    <3> QED
      BY <1>1, <1>3, AlongSteps
  <2>2. list[Max(s)] \in Line
    BY <2>1
  <2> DEFINE l == list[Max(s)]
             v == f[s \ {Max(s)}]
  <2>3. LineSteps[l][v] = v + LineWeight[l]
    <3> HIDE DEF l, v
    <3> QED
      BY <1>3, <2>2 DEF LineSteps, l, v
  <2>4. LineWeight[l] = IF ~l.disputed /\ l.collected THEN l.cents ELSE 0
    BY <2>2 DEF LineWeight
  <2> HIDE DEF l, v
  <2> QED
    BY <1>3, <2>3, <2>4 DEF l, v
<1>4. g = Body(g)
  <2>1. ASSUME NEW s \in SUBSET D
        PROVE  g[s] = IF s = {} THEN 0 ELSE Next1(g[s \ {Max(s)}], list[Max(s)])
    <3>1. g[s \ {Max(s)}] \in Int
      BY <1>2
    <3> HIDE DEF Next1
    <3> QED
      BY <1>2, <1>3, <3>1 DEF GoesAlong
  <2> HIDE DEF Next1
  <2> QED
    BY <2>1
<1>5. h = Body(h)
  BY <1>4 DEF ShownAlong
<1>6. GoesAlong(h, LineSteps, Int, 0, list)
  <2> SUFFICES ASSUME NEW s \in SUBSET D
               PROVE  /\ s = {} => h[s] = 0
                      /\ s # {} /\ h[s \ {Max(s)}] \in Int => h[s] = LineSteps[list[Max(s)]][h[s \ {Max(s)}]]
    BY DEF GoesAlong
  <2> HIDE DEF h, Next1
  <2>1. h[s] = IF s = {} THEN 0 ELSE Next1(h[s \ {Max(s)}], list[Max(s)])
    BY <1>5
  <2> QED
    BY <1>3, <2>1
<1>7. ShownTotal(st) = h[D]
  BY DEF ShownTotal, ShownAlong, FoldLeft, MapThenFoldSet
<1>8. AddsWeight(LineSteps, LineWeight, Line)
  BY <1>1 DEF AddsWeight, LineSteps
<1> QED
  BY <1>6, <1>7, <1>8

\* The page and the database come to the same total.
LEMMA ShownTotalIsTotal ==
  ASSUME NEW st, st.lines \in Seq(Line)
  PROVE  /\ Summable(CentsAt(st.lines), Eligible(st.lines))
         /\ ShownTotal(st) = Total(st.lines) /\ Total(st.lines) \in Int
<1> DEFINE list == st.lines
           D == DOMAIN list
           E == Eligible(list)
           h == WeightAlong(LineWeight, list)
           f == CentsAt(list)
           g == ShownAlong(list)
<1>1. /\ ShownTotal(st) = g[D] /\ GoesAlong(g, LineSteps, Int, 0, list)
      /\ AddsWeight(LineSteps, LineWeight, Line) /\ 0 \in Int /\ list \in Seq(Line)
  BY ShownSolved
<1>2. E \subseteq D /\ D \cap E = E /\ IsFiniteSet(D) /\ \A n \in D : list[n] \in Line
  <2>1. D = 1..Len(list) /\ Len(list) \in Nat /\ \A n \in D : list[n] \in Line
    OBVIOUS
  <2>2. IsFiniteSet(D)
    <3> HIDE DEF D
    <3> QED
      BY <2>1, FS_Interval
  <2>3. E \subseteq D
    BY DEF Eligible
  <2> HIDE DEF D, E
  <2> QED
    BY <2>1, <2>2, <2>3
<1>3. Summable(f, E)
  <2>1. IsFiniteSet(E)
    BY <1>2, FS_Subset
  <2>2. \A n \in E : f[n] \in Int
    BY <1>2 DEF CentsAt, Line
  <2> QED
    BY <2>1, <2>2 DEF Summable
<1>4. CountsIn(h, f, E, D)
  BY <1>2 DEF CountsIn, WeightAlong, LineWeight, CentsAt, Eligible, Line
<1>5. Summable(h, D) /\ g[D] = 0 + SumOf(h, D)
  <2> HIDE DEF list, g
  <2>1. GoesAlong(g, LineSteps, Int, 0, list) /\ AddsWeight(LineSteps, LineWeight, Line)
    BY <1>1
  <2>2. list \in Seq(Line) /\ 0 \in Int
    BY <1>1
  <2> QED
    BY <2>1, <2>2, AlongSum
<1> HIDE DEF list, D, E, h, f, g
<1>6. SumOf(h, D) = SumOf(f, E)
  BY <1>2, <1>3, <1>4, SumChosen
<1>7. Total(list) = SumOf(f, E)
  BY TotalIsSum DEF f, E
<1>8. SumOf(f, E) \in Int
  BY <1>3, SumIsInt
<1>9. ShownTotal(st) = Total(list) /\ Total(list) \in Int
  BY <1>1, <1>5, <1>6, <1>7, <1>8
<1> QED
  BY <1>3, <1>9 DEF list, f, E

\* The transfers of a statement, as a sequence.
Listed(transfers) ==
  /\ Allocates(transfers)
  /\ transfers = [k \in DOMAIN transfers |-> transfers[k]]

TransfersOf(transfers) == {transfers[k] : k \in DOMAIN transfers}

\* Such transfers are a sequence.
LEMMA ListedSeq ==
  ASSUME NEW transfers, Listed(transfers)
  PROVE  transfers \in Seq(TransfersOf(transfers))
<1> DEFINE X == TransfersOf(transfers)
           D == DOMAIN transfers
<1>1. transfers = [k \in D |-> transfers[k]] /\ D = 1..Len(transfers) /\ Len(transfers) \in Nat
  BY DEF Listed, Allocates
<1>2. \A k \in D : transfers[k] \in X
  BY DEF TransfersOf
<1> HIDE DEF X, D
<1>3. [k \in D |-> transfers[k]] \in [1..Len(transfers) -> X]
  BY <1>1, <1>2
<1>4. transfers \in [1..Len(transfers) -> X]
  BY <1>1, <1>3
<1>5. PICK n \in Nat : transfers \in [1..n -> X]
  BY <1>1, <1>4
<1>6. transfers \in Seq(X)
  BY <1>5
<1> QED
  BY <1>6 DEF X

\* What one transfer has cleared, by line; of all of them, a table.
PreviousAt(t, lines) == [n \in Eligible(lines) |-> Previously(t, n)]

ClearedByLine(transfers, lines) ==
  [k \in DOMAIN transfers |-> PreviousAt(transfers[k], lines)]

\* What a transfer adds to the credit the page shows.
TransferWeight(transfers, lines) ==
  [t \in TransfersOf(transfers) |-> SumOf(PreviousAt(t, lines), Eligible(lines))]

TransferSteps(transfers, lines) ==
  [t \in TransfersOf(transfers) |-> [v \in Int |-> v + TransferWeight(transfers, lines)[t]]]

\* The fold of ShownCredited, by the transfers it has reached.
CreditAlong(list, T) ==
  CHOOSE g : g = [s \in SUBSET DOMAIN list |->
                    IF s = {} THEN 0
                    ELSE g[s \ {Max(s)}] + MapThenSumSet(LAMBDA n : Previously(list[Max(s)], n), T)]

\* What the page adds up of one transfer.
LEMMA PreviousIsSum ==
  ASSUME NEW t, NEW lines
  PROVE  MapThenSumSet(LAMBDA n : Previously(t, n), Eligible(lines)) =
           SumOf(PreviousAt(t, lines), Eligible(lines))
<1> DEFINE T == Eligible(lines)
           f == PreviousAt(t, lines)
           B(g) == [s \in SUBSET T |->
                      IF s = {} THEN 0 ELSE Previously(t, CHOOSE x \in s : TRUE) + g[s \ {CHOOSE x \in s : TRUE}]]
           C(g) == [s \in SUBSET T |->
                      IF s = {} THEN 0 ELSE f[CHOOSE x \in s : TRUE] + g[s \ {CHOOSE x \in s : TRUE}]]
<1>1. ASSUME NEW g PROVE B(g) = C(g)
  <2>1. \A s \in SUBSET T : s # {} => f[CHOOSE x \in s : TRUE] = Previously(t, CHOOSE x \in s : TRUE)
    BY DEF PreviousAt
  <2> HIDE DEF f, T
  <2> QED
    BY <2>1
<1>2. MapThenSumSet(LAMBDA n : Previously(t, n), T) = (CHOOSE g : g = B(g))[T]
  BY DEF MapThenSumSet, MapThenFoldSet
<1>3. SumOf(f, T) = (CHOOSE g : g = C(g))[T]
  BY DEF SumOf, MapThenSumSet, MapThenFoldSet
<1> HIDE DEF B, C, f, T
<1>4. \A g : g = B(g) <=> g = C(g)
  BY <1>1
<1>5. (CHOOSE g : g = B(g)) = (CHOOSE g : g = C(g))
  BY <1>4, Zenon
<1> QED
  BY <1>2, <1>3, <1>5 DEF f, T

\* What the database adds up: line by line, over all transfers.
ClearedOfLines(st) == [n \in Eligible(st.lines) |-> Allocated(st.transfers, n)]

\* The credit of the database is a sum over the lines.
LEMMA CreditedIsSum ==
  ASSUME NEW st
  PROVE  Credited(st) = SumOf(ClearedOfLines(st), Eligible(st.lines))
<1> DEFINE T == Eligible(st.lines)
           f == ClearedOfLines(st)
           B(g) == [s \in SUBSET T |->
                      IF s = {} THEN 0
                      ELSE Allocated(st.transfers, CHOOSE x \in s : TRUE) + g[s \ {CHOOSE x \in s : TRUE}]]
           C(g) == [s \in SUBSET T |->
                      IF s = {} THEN 0 ELSE f[CHOOSE x \in s : TRUE] + g[s \ {CHOOSE x \in s : TRUE}]]
<1>1. ASSUME NEW g PROVE B(g) = C(g)
  <2>1. \A s \in SUBSET T : s # {} =>
          f[CHOOSE x \in s : TRUE] = Allocated(st.transfers, CHOOSE x \in s : TRUE)
    BY DEF ClearedOfLines
  <2> HIDE DEF f, T
  <2> QED
    BY <2>1
<1>2. Credited(st) = (CHOOSE g : g = B(g))[T]
  BY DEF Credited, MapThenSumSet, MapThenFoldSet
<1>3. SumOf(f, T) = (CHOOSE g : g = C(g))[T]
  BY DEF SumOf, MapThenSumSet, MapThenFoldSet
<1> HIDE DEF B, C, f, T
<1>4. \A g : g = B(g) <=> g = C(g)
  BY <1>1
<1>5. (CHOOSE g : g = B(g)) = (CHOOSE g : g = C(g))
  BY <1>4, Zenon
<1> QED
  BY <1>2, <1>3, <1>5 DEF f, T

\* The cents cleared, by transfer and line, are a table of numbers.
LEMMA ClearedTable ==
  ASSUME NEW transfers, Allocates(transfers), NEW lines, IsFiniteSet(Eligible(lines))
  PROVE  /\ Table(ClearedByLine(transfers, lines), DOMAIN transfers, Eligible(lines))
         /\ TransferWeight(transfers, lines) \in [TransfersOf(transfers) -> Int]
<1> DEFINE T == Eligible(lines)
           D == DOMAIN transfers
           w == TransferWeight(transfers, lines)
<1>1. IsFiniteSet(D)
  <2>1. D = 1..Len(transfers) /\ Len(transfers) \in Nat
    BY DEF Allocates
  <2> HIDE DEF D
  <2> QED
    BY <2>1, FS_Interval
<1>2. \A k \in D : \A n \in T : Previously(transfers[k], n) \in Int
  BY DEF Allocates, Previously
<1>3. \A k \in D : Summable(PreviousAt(transfers[k], lines), T)
  <2> SUFFICES ASSUME NEW k \in D PROVE Summable(PreviousAt(transfers[k], lines), T)
    OBVIOUS
  <2> QED
    BY <1>2 DEF Summable, PreviousAt
<1>4. \A k \in D : PreviousAt(transfers[k], lines) \in [T -> Int]
  BY <1>2 DEF PreviousAt
<1>5. Table(ClearedByLine(transfers, lines), D, T)
  BY <1>1, <1>4 DEF Table, ClearedByLine
<1>6. \A t \in TransfersOf(transfers) : SumOf(PreviousAt(t, lines), T) \in Int
  <2> SUFFICES ASSUME NEW k \in D PROVE SumOf(PreviousAt(transfers[k], lines), T) \in Int
    BY DEF TransfersOf
  <2> HIDE DEF T
  <2> QED
    BY <1>3, SumIsInt
<1>7. w \in [TransfersOf(transfers) -> Int]
  <2> HIDE DEF T
  <2> QED
    BY <1>6 DEF TransferWeight, T
<1> QED
  BY <1>5, <1>7

\* ShownCredited goes along the transfers and adds the weights one by one.
LEMMA CreditSolved ==
  ASSUME NEW st, Listed(st.transfers), IsFiniteSet(Eligible(st.lines))
  PROVE  /\ ShownCredited(st) = CreditAlong(st.transfers, Eligible(st.lines))[DOMAIN st.transfers]
         /\ GoesAlong(CreditAlong(st.transfers, Eligible(st.lines)),
                      TransferSteps(st.transfers, st.lines), Int, 0, st.transfers)
         /\ AddsWeight(TransferSteps(st.transfers, st.lines), TransferWeight(st.transfers, st.lines),
                       TransfersOf(st.transfers))
         /\ st.transfers \in Seq(TransfersOf(st.transfers))
<1> DEFINE list == st.transfers
           T == Eligible(st.lines)
           X == TransfersOf(list)
           W == TransferWeight(list, st.lines)
           S == TransferSteps(list, st.lines)
           D == DOMAIN list
           Paid(t) == MapThenSumSet(LAMBDA n : Previously(t, n), T)
           Body(g) == [s \in SUBSET D |-> IF s = {} THEN 0 ELSE g[s \ {Max(s)}] + Paid(list[Max(s)])]
           h == CreditAlong(list, T)
<1>1. W \in [X -> Int] /\ S \in [X -> [Int -> Int]] /\ 0 \in Int /\ list \in Seq(X)
  <2>1. W \in [X -> Int]
    BY ClearedTable DEF Listed
  <2>2. \A t \in X : W[t] \in Int
    <3> HIDE DEF W, X
    <3> QED
      BY <2>1
  <2>3. S \in [X -> [Int -> Int]]
    <3> HIDE DEF W, X
    <3> QED
      BY <2>2 DEF TransferSteps, W, X
  <2>4. list \in Seq(X)
    BY ListedSeq
  <2> QED
    BY <2>1, <2>3, <2>4
<1>2. PICK g \in [SUBSET D -> Int] : GoesAlong(g, S, Int, 0, list)
  <2> HIDE DEF list, S, X
  <2> QED
    BY <1>1, AlongExists
<1>3. \A k \in D : /\ list[k] \in X
                   /\ Paid(list[k]) = W[list[k]]
                   /\ W[list[k]] \in Int
                   /\ \A v \in Int : S[list[k]][v] = v + W[list[k]]
  <2> SUFFICES ASSUME NEW k \in D
               PROVE  /\ list[k] \in X
                      /\ Paid(list[k]) = W[list[k]]
                      /\ W[list[k]] \in Int
                      /\ \A v \in Int : S[list[k]][v] = v + W[list[k]]
    OBVIOUS
  <2>1. list[k] \in X
    BY DEF TransfersOf
  <2>2. Paid(list[k]) = SumOf(PreviousAt(list[k], st.lines), T)
    BY PreviousIsSum
  <2>3. W[list[k]] = SumOf(PreviousAt(list[k], st.lines), T)
    <3> HIDE DEF T, list
    <3> QED
      BY <2>1 DEF TransferWeight, T
  <2>4. W[list[k]] \in Int
    <3> HIDE DEF W, X
    <3> QED
      BY <1>1, <2>1
  <2>5. \A v \in Int : S[list[k]][v] = v + W[list[k]]
    <3> HIDE DEF W, X, list
    <3> QED
      BY <2>1 DEF TransferSteps, W, X
  <2> HIDE DEF Paid, W, S, X, list
  <2> QED
    BY <2>1, <2>2, <2>3, <2>4, <2>5
<1>4. ASSUME NEW f, NEW s \in SUBSET D, s # {}, f[s \ {Max(s)}] \in Int
      PROVE  S[list[Max(s)]][f[s \ {Max(s)}]] = f[s \ {Max(s)}] + Paid(list[Max(s)])
  <2>1. Max(s) \in s
    <3> HIDE DEF list, S, X
    <3> QED
      BY <1>1, <1>4, AlongSteps
  <2> HIDE DEF list, S, X, W, Paid, D
  <2> QED
    BY <1>3, <1>4, <2>1
<1>5. g = Body(g)
  <2>1. ASSUME NEW s \in SUBSET D
        PROVE  g[s] = IF s = {} THEN 0 ELSE g[s \ {Max(s)}] + Paid(list[Max(s)])
    <3>1. g[s \ {Max(s)}] \in Int
      BY <1>2
    <3> HIDE DEF Paid, S
    <3> QED
      BY <1>2, <1>4, <3>1 DEF GoesAlong
  <2> HIDE DEF Paid
  <2> QED
    BY <2>1
<1>6. h = Body(h)
  <2> HIDE DEF list
  <2> QED
    BY <1>5 DEF CreditAlong
<1>7. GoesAlong(h, S, Int, 0, list)
  <2> SUFFICES ASSUME NEW s \in SUBSET D
               PROVE  /\ s = {} => h[s] = 0
                      /\ s # {} /\ h[s \ {Max(s)}] \in Int => h[s] = S[list[Max(s)]][h[s \ {Max(s)}]]
    BY DEF GoesAlong
  <2> HIDE DEF h, Paid, S
  <2>1. h[s] = IF s = {} THEN 0 ELSE h[s \ {Max(s)}] + Paid(list[Max(s)])
    BY <1>6
  <2> QED
    BY <1>4, <2>1
<1>8. ShownCredited(st) = h[D]
  BY DEF ShownCredited, CreditAlong, FoldLeft, MapThenFoldSet
<1>9. AddsWeight(S, W, X)
  <2> HIDE DEF W, X
  <2>1. \A x \in X : S[x] = [v \in Int |-> v + W[x]]
    BY DEF TransferSteps, W, X
  <2> HIDE DEF S
  <2> QED
    BY <1>1, <2>1 DEF AddsWeight
<1> QED
  BY <1>1, <1>7, <1>8, <1>9

\* The page adds up transfer by transfer, the database line by line: the same table.
LEMMA ShownCreditedIsCredited ==
  ASSUME NEW st, Listed(st.transfers), IsFiniteSet(Eligible(st.lines))
  PROVE  ShownCredited(st) = Credited(st) /\ Credited(st) \in Int
<1> DEFINE list == st.transfers
           T == Eligible(st.lines)
           D == DOMAIN list
           X == TransfersOf(list)
           W == TransferWeight(list, st.lines)
           S == TransferSteps(list, st.lines)
           p == ClearedByLine(list, st.lines)
           g == CreditAlong(list, T)
           c == ClearedOfLines(st)
<1>1. /\ ShownCredited(st) = g[D] /\ GoesAlong(g, S, Int, 0, list)
      /\ AddsWeight(S, W, X) /\ list \in Seq(X) /\ 0 \in Int
  BY CreditSolved
<1>2. Table(p, D, T)
  BY ClearedTable DEF Listed
<1>3. g[D] = 0 + SumOf(WeightAlong(W, list), D)
  <2> HIDE DEF list, g, S, W, X
  <2>1. GoesAlong(g, S, Int, 0, list) /\ AddsWeight(S, W, X)
    BY <1>1
  <2>2. list \in Seq(X) /\ 0 \in Int
    BY <1>1
  <2> QED
    BY <2>1, <2>2, AlongSum
<1>4. WeightAlong(W, list) = RowSums(p, D, T)
  <2>1. \A k \in D : list[k] \in X /\ p[k] = PreviousAt(list[k], st.lines)
    BY DEF TransfersOf, ClearedByLine
  <2>2. \A k \in D : W[list[k]] = SumOf(p[k], T)
    <3> HIDE DEF list, T, p
    <3> QED
      BY <2>1 DEF TransferWeight, T
  <2> HIDE DEF W, p, list, T
  <2> QED
    BY <2>2 DEF WeightAlong, RowSums
<1>5. ColumnSums(p, D, T) = c
  <2>1. \A n \in T : Column(p, D, n) = ClearedAt(list, n)
    <3> SUFFICES ASSUME NEW n \in T PROVE Column(p, D, n) = ClearedAt(list, n)
      OBVIOUS
    <3>1. \A k \in D : p[k][n] = Previously(list[k], n)
      BY DEF ClearedByLine, PreviousAt
    <3> HIDE DEF p, list, T
    <3> QED
      BY <3>1 DEF Column, ClearedAt
  <2>2. \A n \in T : Allocated(list, n) = SumOf(ClearedAt(list, n), D)
    BY AllocatedIsSum DEF Listed
  <2>3. \A n \in T : SumOf(Column(p, D, n), D) = Allocated(list, n)
    <3> HIDE DEF p, list, T
    <3> QED
      BY <2>1, <2>2
  <2> HIDE DEF p, list, T
  <2>4. ColumnSums(p, D, T) = [n \in T |-> Allocated(list, n)]
    BY <2>3 DEF ColumnSums
  <2> QED
    BY <2>4 DEF ClearedOfLines, list, T
<1>6. Credited(st) = SumOf(c, T)
  BY CreditedIsSum
<1> HIDE DEF list, T, D, X, W, S, p, g, c
<1>7. SumOf(RowSums(p, D, T), D) = SumOf(ColumnSums(p, D, T), T) /\ Summable(ColumnSums(p, D, T), T)
  BY <1>2, SumSwap
<1>8. SumOf(WeightAlong(W, list), D) = SumOf(c, T)
  BY <1>4, <1>5, <1>7
<1>9. SumOf(c, T) \in Int
  BY <1>5, <1>7, SumIsInt
<1> QED
  BY <1>1, <1>3, <1>6, <1>8, <1>9

-----------------------------------------------------------------------------
(* What transfers may still pay *)

\* Numbers on the way from a to b.
Toward(a, b) == IF a <= b THEN a..b ELSE b..a

\* A transfer clears lines it was sent for, towards what it was sent for; one that
\* is uncertain would make up exactly what is left of each.
SentFits(st, t) ==
  /\ DOMAIN t.allocations \subseteq DOMAIN t.remaining
  /\ \A n \in DOMAIN t.remaining :
       /\ t.remaining[n] \in Int
       /\ Previously(t, n) \in Toward(0, t.remaining[n])
       /\ t.uncertain =>
            /\ n \in DOMAIN st.lines
            /\ t.remaining[n] - Previously(t, n) = st.lines[n].cents - Allocated(st.transfers, n)

\* What holds of every statement about its transfers and its freeze.
PayOK(st) ==
  /\ Listed(st.transfers)
  /\ \A k \in DOMAIN st.transfers : SentFits(st, st.transfers[k])
  /\ st.freeze # None => st.freeze.total \in 0..MaxCents

\* What a line about o is worth.
WorthOf(it, o) == IF o \in Earnings THEN CentsOf[o] ELSE it[o].delta

\* Lines stay about what they are about, and what has cleared of them moves towards
\* their worth; of new ones nothing has cleared.
Progress(it, old, st) ==
  /\ DOMAIN old.lines \subseteq DOMAIN st.lines
  /\ \A n \in DOMAIN old.lines :
       /\ st.lines[n].about = old.lines[n].about /\ st.lines[n].cents = old.lines[n].cents
       /\ Allocated(old.transfers, n) \in Int
       /\ Allocated(st.transfers, n) \in Toward(Allocated(old.transfers, n), old.lines[n].cents)
  /\ \A n \in DOMAIN st.lines \ DOMAIN old.lines :
       /\ Allocated(st.transfers, n) = 0
       /\ st.lines[n].cents = WorthOf(it, st.lines[n].about)

\* The same lines with other marks.
SameWorth(lines, old) ==
  /\ DOMAIN lines = DOMAIN old
  /\ \A n \in DOMAIN old : lines[n].about = old[n].about /\ lines[n].cents = old[n].cents

\* Nothing is sent or cleared.
LEMMA MarksProgress ==
  ASSUME NEW it, NEW old, StatementOK(old), PayOK(old), NEW st,
         st.transfers = old.transfers, SameWorth(st.lines, old.lines),
         st.freeze \in {None, old.freeze} \/ st.freeze.total \in 0..MaxCents
  PROVE  PayOK(st) /\ Progress(it, old, st)
<1>1. \A n : Allocated(old.transfers, n) \in Int
  BY AllocatedIsSum DEF PayOK, Listed
<1>2. \A n \in DOMAIN old.lines : old.lines[n].cents \in Int
  <2>1. old.lines \in Seq(Line)
    BY DEF StatementOK
  <2>2. \A n \in DOMAIN old.lines : old.lines[n] \in Line
    BY <2>1
  <2> QED
    BY <2>2 DEF Line
<1>3. \A k \in DOMAIN st.transfers : SentFits(st, st.transfers[k])
  BY DEF PayOK, SentFits, SameWorth
<1>4. PayOK(st)
  BY <1>3 DEF PayOK
<1>5. \A a, b \in Int : a \in Toward(a, b)
  BY DEF Toward
<1>6. \A n \in DOMAIN old.lines : Allocated(st.transfers, n) \in Toward(Allocated(old.transfers, n), old.lines[n].cents)
  BY <1>1, <1>2, <1>5
<1> QED
  BY <1>1, <1>4, <1>6 DEF Progress, SameWorth

\* What a transfer is sent for.
LEMMA SentProgress ==
  ASSUME NEW it, NEW old, StatementOK(old), PayOK(old), NothingUncertain(old),
         NEW sent, sent.allocations = << >>, sent.remaining = RemainingLines(old),
         NEW st, st.lines = old.lines, st.freeze = old.freeze,
         st.transfers = Append(old.transfers, sent)
  PROVE  PayOK(st) /\ Progress(it, old, st)
<1> DEFINE N == Len(old.transfers)
           more == st.transfers
<1>1. N \in Nat /\ DOMAIN old.transfers = 1..N /\ Allocates(old.transfers)
  BY DEF PayOK, Listed, Allocates
<1>2. PICK X : old.transfers \in Seq(X)
  BY ListedSeq DEF PayOK
<1>3. /\ DOMAIN more = 1..(N + 1) /\ more[N + 1] = sent /\ Len(more) = N + 1
      /\ \A k \in DOMAIN old.transfers : more[k] = old.transfers[k]
      /\ more = [k \in DOMAIN more |-> more[k]]
  <2> DEFINE Y == X \cup {sent}
  <2>1. old.transfers \in Seq(Y) /\ sent \in Y
    BY <1>2
  <2> HIDE DEF Y
  <2>2. more \in Seq(Y)
    BY <2>1
  <2>3. more = [k \in DOMAIN more |-> more[k]]
    BY <2>2
  <2>4. /\ DOMAIN more = 1..(N + 1) /\ more[N + 1] = sent /\ Len(more) = N + 1
        /\ \A k \in DOMAIN old.transfers : more[k] = old.transfers[k]
    BY <1>1, <2>1
  <2> QED
    BY <2>3, <2>4
<1> HIDE DEF more
<1>4. \A n : Allocates(more) /\ Allocated(more, n) = Allocated(old.transfers, n)
  <2> TAKE n
  <2> QED
    BY <1>1, <1>3, AllocatedSent
<1>5. \A n : Allocated(old.transfers, n) \in Int
  BY <1>1, AllocatedIsSum
<1>6. \A n \in DOMAIN old.lines : old.lines[n].cents \in Int
  <2>1. old.lines \in Seq(Line)
    BY DEF StatementOK
  <2>2. \A n \in DOMAIN old.lines : old.lines[n] \in Line
    BY <2>1
  <2> QED
    BY <2>2 DEF Line
<1>7. SentFits(st, sent)
  <2>1. DOMAIN sent.allocations = {}
    <3>1. DOMAIN << >> = {}
      OBVIOUS
    <3> QED
      BY <3>1
  <2>2. \A n \in DOMAIN sent.remaining :
          n \in DOMAIN old.lines /\ sent.remaining[n] = old.lines[n].cents - Allocated(old.transfers, n)
    BY DEF RemainingLines, Eligible
  <2>3. \A n : Previously(sent, n) = 0
    BY <2>1 DEF Previously
  <2>4. \A a \in Int : 0 \in Toward(0, a)
    BY DEF Toward
  <2>5. \A n \in DOMAIN sent.remaining :
          /\ sent.remaining[n] \in Int /\ n \in DOMAIN st.lines
          /\ Previously(sent, n) \in Toward(0, sent.remaining[n])
          /\ sent.remaining[n] - Previously(sent, n) = st.lines[n].cents - Allocated(st.transfers, n)
    <3> SUFFICES ASSUME NEW n \in DOMAIN sent.remaining
                 PROVE  /\ sent.remaining[n] \in Int /\ n \in DOMAIN st.lines
                        /\ Previously(sent, n) \in Toward(0, sent.remaining[n])
                        /\ sent.remaining[n] - Previously(sent, n) = st.lines[n].cents - Allocated(st.transfers, n)
      OBVIOUS
    <3>1. /\ sent.remaining[n] = old.lines[n].cents - Allocated(old.transfers, n)
          /\ old.lines[n].cents \in Int /\ Allocated(old.transfers, n) \in Int /\ n \in DOMAIN st.lines
      BY <1>5, <1>6, <2>2
    <3>2. sent.remaining[n] \in Int
      BY <3>1
    <3>3. Allocated(st.transfers, n) = Allocated(old.transfers, n)
      BY <1>4 DEF more
    <3> QED
      BY <2>3, <2>4, <3>1, <3>2, <3>3
  <2> QED
    BY <2>1, <2>5 DEF SentFits
<1>8. \A k \in DOMAIN old.transfers : SentFits(st, old.transfers[k])
  BY DEF PayOK, SentFits, NothingUncertain
<1>9. PayOK(st)
  <2>1. \A k \in DOMAIN more : SentFits(st, more[k])
    <3> SUFFICES ASSUME NEW k \in DOMAIN more PROVE SentFits(st, more[k])
      OBVIOUS
    <3>1. k \in DOMAIN old.transfers \/ k = N + 1
      BY <1>1, <1>3
    <3> QED
      BY <1>3, <1>7, <1>8, <3>1
  <2>2. Listed(more)
    BY <1>3, <1>4 DEF Listed
  <2> QED
    BY <2>1, <2>2 DEF PayOK, more
<1>10. \A a, b \in Int : a \in Toward(a, b)
  BY DEF Toward
<1>11. \A n \in DOMAIN old.lines : Allocated(st.transfers, n) \in Toward(Allocated(old.transfers, n), old.lines[n].cents)
  BY <1>4, <1>5, <1>6, <1>10 DEF more
<1> QED
  BY <1>5, <1>9, <1>11 DEF Progress

\* Numbers the office enters between what had cleared of a line and what was sent.
LEMMA MayClearFurther ==
  ASSUME NEW t, NEW n, t.remaining[n] \in Int, Previously(t, n) \in Toward(0, t.remaining[n]),
         NEW c \in MayClear(t, n)
  PROVE  /\ c \in Int /\ Previously(t, n) \in Int
         /\ c \in Toward(0, t.remaining[n])
         /\ \A a, w \in Int :
              t.remaining[n] - Previously(t, n) = w - a => (a - Previously(t, n)) + c \in Toward(a, w)
<1> DEFINE r == t.remaining[n]
           p == Previously(t, n)
<1>1. r \in Int /\ p \in Int /\ (r >= 0 => 0 <= p /\ p <= r) /\ (r < 0 => r <= p /\ p <= 0)
  BY DEF Toward
<1>2. c \in Int /\ (r >= 0 => p <= c /\ c <= r) /\ (r < 0 => r <= c /\ c <= p)
  <2> HIDE DEF p, r
  <2>1. c \in IF r >= 0 THEN p..r ELSE r..p
    BY DEF MayClear, p, r
  <2> QED
    BY <1>1, <2>1
<1> HIDE DEF p, r
<1>3. c \in Toward(0, r)
  BY <1>1, <1>2 DEF Toward
<1>4. ASSUME NEW a \in Int, NEW w \in Int, r - p = w - a PROVE (a - p) + c \in Toward(a, w)
  BY <1>1, <1>2, <1>4 DEF Toward
<1> QED
  BY <1>1, <1>2, <1>3, <1>4 DEF p, r

\* What the bank answered about an uncertain transfer.
LEMMA AnswerProgress ==
  ASSUME NEW it, NEW old, StatementOK(old), PayOK(old), LastOpen(old),
         NEW k \in DOMAIN old.transfers, old.transfers[k].uncertain,
         NEW new, new.remaining = old.transfers[k].remaining, new.allocations \in Allocations(old.transfers[k]),
         NEW st, st.lines = old.lines, st.freeze = old.freeze,
         st.transfers = [old.transfers EXCEPT ![k] = new]
  PROVE  PayOK(st) /\ Progress(it, old, st)
<1> DEFINE N == Len(old.transfers)
           t == old.transfers[k]
           more == st.transfers
<1>1. N \in Nat /\ DOMAIN old.transfers = 1..N /\ Allocates(old.transfers) /\ SentFits(old, t) /\ t.uncertain
  BY DEF PayOK, Listed, Allocates
<1>2. PICK X : old.transfers \in Seq(X)
  BY ListedSeq DEF PayOK
<1>3. /\ DOMAIN more = 1..N /\ Len(more) = N /\ more[k] = new
      /\ \A j \in DOMAIN old.transfers \ {k} : more[j] = old.transfers[j]
      /\ more = [j \in DOMAIN more |-> more[j]]
  <2> DEFINE Y == X \cup {new}
  <2>1. old.transfers \in Seq(Y) /\ new \in Y
    BY <1>2
  <2> HIDE DEF Y
  <2>2. more \in Seq(Y) /\ Len(more) = N
    BY <2>1
  <2>3. more = [j \in DOMAIN more |-> more[j]]
    BY <2>2
  <2>4. /\ DOMAIN more = 1..N /\ more[k] = new
        /\ \A j \in DOMAIN old.transfers \ {k} : more[j] = old.transfers[j]
    BY <1>1
  <2> QED
    BY <2>2, <2>3, <2>4
<1>4. /\ DOMAIN new.allocations = DOMAIN t.remaining
      /\ \A n \in DOMAIN t.remaining : new.allocations[n] \in MayClear(t, n)
  BY DEF Allocations
<1>5. \A n \in DOMAIN t.remaining :
        /\ t.remaining[n] \in Int /\ Previously(t, n) \in Toward(0, t.remaining[n])
        /\ n \in DOMAIN old.lines
        /\ t.remaining[n] - Previously(t, n) = old.lines[n].cents - Allocated(old.transfers, n)
  BY <1>1 DEF SentFits
<1>6. \A n : Previously(new, n) = IF n \in DOMAIN t.remaining THEN new.allocations[n] ELSE 0
  BY <1>4 DEF Previously
<1>7. \A n : n \notin DOMAIN t.remaining => Previously(t, n) = 0
  BY <1>1 DEF SentFits, Previously
<1> HIDE DEF more, t
<1>8. \A n \in DOMAIN t.remaining :
        /\ Previously(new, n) \in Int /\ Previously(t, n) \in Int
        /\ Previously(new, n) \in Toward(0, t.remaining[n])
        /\ \A a, w \in Int : t.remaining[n] - Previously(t, n) = w - a =>
             (a - Previously(t, n)) + Previously(new, n) \in Toward(a, w)
  <2> SUFFICES ASSUME NEW n \in DOMAIN t.remaining
               PROVE  /\ Previously(new, n) \in Int /\ Previously(t, n) \in Int
                      /\ Previously(new, n) \in Toward(0, t.remaining[n])
                      /\ \A a, w \in Int : t.remaining[n] - Previously(t, n) = w - a =>
                           (a - Previously(t, n)) + Previously(new, n) \in Toward(a, w)
    OBVIOUS
  <2>1. t.remaining[n] \in Int /\ Previously(t, n) \in Toward(0, t.remaining[n])
    BY <1>5
  <2>2. Previously(new, n) \in MayClear(t, n)
    BY <1>4, <1>6
  <2> QED
    BY <2>1, <2>2, MayClearFurther
<1>9. Allocates(more)
  <2>1. \A n \in DOMAIN new.allocations : new.allocations[n] \in Int
    BY <1>4, <1>6, <1>8
  <2> QED
    BY <1>1, <1>3, <2>1 DEF Allocates
<1>10. \A n : /\ Allocated(old.transfers, n) \in Int
              /\ Allocated(more, n) = (Allocated(old.transfers, n) - Previously(t, n)) + Previously(new, n)
  <2> TAKE n
  <2>1. Allocated(old.transfers, n) \in Int
    BY <1>1, AllocatedIsSum
  <2>2. Allocated(more, n) =
          (Allocated(old.transfers, n) - Previously(old.transfers[k], n)) + Previously(more[k], n)
    <3>1. /\ Allocates(old.transfers) /\ Allocates(more) /\ DOMAIN more = DOMAIN old.transfers
          /\ \A j \in DOMAIN old.transfers \ {k} : more[j] = old.transfers[j]
      BY <1>1, <1>3, <1>9
    <3> HIDE DEF N
    <3> QED
      BY <3>1, AllocatedChanged
  <2> QED
    BY <1>3, <2>1, <2>2 DEF t
<1>11. \A n \in DOMAIN old.lines : old.lines[n].cents \in Int
  <2>1. old.lines \in Seq(Line)
    BY DEF StatementOK
  <2>2. \A n \in DOMAIN old.lines : old.lines[n] \in Line
    BY <2>1
  <2> QED
    BY <2>2 DEF Line
<1>12. SentFits(st, new)
  <2> SUFFICES ASSUME NEW n \in DOMAIN t.remaining
               PROVE  t.remaining[n] - Previously(new, n) = st.lines[n].cents - Allocated(st.transfers, n)
    <3>1. DOMAIN new.allocations \subseteq DOMAIN new.remaining /\ new.remaining = t.remaining
      BY <1>4 DEF t
    <3> QED
      BY <1>5, <1>8, <3>1 DEF SentFits
  <2> DEFINE a == Allocated(old.transfers, n)
             w == old.lines[n].cents
             r == t.remaining[n]
             p == Previously(t, n)
             q == Previously(new, n)
  <2>1. a \in Int /\ w \in Int /\ r \in Int /\ p \in Int /\ q \in Int /\ r - p = w - a
    BY <1>5, <1>8, <1>10, <1>11
  <2>2. Allocated(st.transfers, n) = (a - p) + q
    BY <1>10 DEF more
  <2>3. st.lines[n].cents = w
    OBVIOUS
  <2>4. r - q = w - ((a - p) + q)
    <3> HIDE DEF a, w, r, p, q
    <3> QED
      BY <2>1
  <2> QED
    BY <2>2, <2>3, <2>4
<1>13. \A j \in DOMAIN old.transfers \ {k} : SentFits(st, old.transfers[j])
  <2>1. \A j \in DOMAIN old.transfers \ {k} : ~old.transfers[j].uncertain
    BY <1>1 DEF LastOpen
  <2> QED
    BY <2>1 DEF PayOK, SentFits
<1>14. PayOK(st)
  <2>1. \A j \in DOMAIN more : SentFits(st, more[j])
    <3> SUFFICES ASSUME NEW j \in DOMAIN more PROVE SentFits(st, more[j])
      OBVIOUS
    <3>1. j = k \/ j \in DOMAIN old.transfers \ {k}
      BY <1>1, <1>3
    <3> QED
      BY <1>3, <1>12, <1>13, <3>1
  <2>2. Listed(more)
    BY <1>3, <1>9 DEF Listed
  <2> QED
    BY <2>1, <2>2 DEF PayOK, more
<1>15. \A n \in DOMAIN old.lines : Allocated(more, n) \in Toward(Allocated(old.transfers, n), old.lines[n].cents)
  <2> SUFFICES ASSUME NEW n \in DOMAIN old.lines
               PROVE  Allocated(more, n) \in Toward(Allocated(old.transfers, n), old.lines[n].cents)
    OBVIOUS
  <2>1. Allocated(old.transfers, n) \in Int /\ old.lines[n].cents \in Int
    BY <1>10, <1>11
  <2>2. CASE n \in DOMAIN t.remaining
    BY <1>5, <1>8, <1>10, <2>1, <2>2
  <2>3. CASE n \notin DOMAIN t.remaining
    <3>1. Allocated(more, n) = Allocated(old.transfers, n)
      BY <1>6, <1>7, <1>10, <2>1, <2>3
    <3>2. \A a, b \in Int : a \in Toward(a, b)
      BY DEF Toward
    <3> QED
      BY <2>1, <3>1, <3>2
  <2> QED
    BY <2>2, <2>3
<1> QED
  BY <1>10, <1>14, <1>15 DEF Progress, more

\* One more line, before anything is sent.
LEMMA LineProgress ==
  ASSUME NEW it, NEW old, StatementOK(old), PayOK(old), old.transfers = << >>,
         NEW line, line.cents = WorthOf(it, line.about), NEW st, st.lines = Append(old.lines, line),
         st.transfers = << >>, st.freeze = None
  PROVE  PayOK(st) /\ Progress(it, old, st)
<1>1. old.lines \in Seq(Line) /\ DOMAIN << >> = {}
  BY DEF StatementOK
<1>2. /\ DOMAIN st.lines = DOMAIN old.lines \cup {Len(old.lines) + 1}
      /\ st.lines[Len(old.lines) + 1] = line
      /\ \A n \in DOMAIN old.lines : st.lines[n] = old.lines[n]
  BY <1>1
<1>3. \A n \in DOMAIN old.lines : old.lines[n].cents \in Int
  <2>1. \A n \in DOMAIN old.lines : old.lines[n] \in Line
    BY <1>1
  <2> QED
    BY <2>1 DEF Line
<1>4. PayOK(st)
  BY <1>1 DEF PayOK
<1>5. \A n : Allocated(old.transfers, n) = 0 /\ Allocated(st.transfers, n) = 0
  BY NoneAllocated
<1>6. \A w \in Int : 0 \in Toward(0, w)
  BY DEF Toward
<1> QED
  BY <1>2, <1>3, <1>4, <1>5, <1>6 DEF Progress

\* A line is worth what it is about; a correction that was settled alone is approved.
LinesWorth ==
  \A s \in Statements : \A n \in DOMAIN statement[s].lines :
    statement[s].lines[n].cents = WorthOf(item, statement[s].lines[n].about)

SettledApproved == \A i \in Items : item[i].simulated => item[i].status = "approved"

\* The inductive invariant of payments.
PayInv ==
  /\ IInv
  /\ \A s \in Statements : PayOK(statement[s])
  /\ LinesWorth /\ SettledApproved

\* Nothing is prepared, nothing paid.
LEMMA InitPay == Init => PayInv
<1> SUFFICES ASSUME Init PROVE PayInv
  OBVIOUS
<1>1. IInv
  BY InitIInv
<1>2. NoStatement.lines = << >> /\ NoStatement.transfers = << >> /\ NoStatement.freeze = None
  BY DEF NoStatement
<1>3. DOMAIN << >> = {} /\ Len(<< >>) = 0
  OBVIOUS
<1>4. \A s \in Statements : statement[s] = NoStatement
  BY DEF Init
<1>5. PayOK(NoStatement)
  <2>1. Listed(<< >>)
    <3>1. << >> = [k \in DOMAIN << >> |-> << >>[k]]
      OBVIOUS
    <3> QED
      BY <1>3, <3>1 DEF Listed, Allocates
  <2> QED
    BY <1>2, <1>3, <2>1 DEF PayOK
<1>6. LinesWorth
  <2>1. \A s \in Statements : DOMAIN statement[s].lines = {}
    BY <1>2, <1>3, <1>4
  <2> QED
    BY <2>1 DEF LinesWorth
<1>7. SettledApproved
  <2>1. \A i \in Items : item[i].simulated = FALSE
    BY DEF Init, AdjustmentInit, NoItem
  <2> QED
    BY <2>1 DEF SettledApproved
<1> QED
  BY <1>1, <1>4, <1>5, <1>6, <1>7 DEF PayInv

-----------------------------------------------------------------------------
(* What a step does to a statement *)

\* Disputes and collections change no amount.
LEMMA MarkedWorth ==
  ASSUME NEW old \in Seq(Line), NEW n \in DOMAIN old, NEW b \in BOOLEAN
  PROVE  /\ SameWorth([old EXCEPT ![n].collected = b], old)
         /\ SameWorth([old EXCEPT ![n].disputed = b], old)
<1>1. old[n] \in Line
  OBVIOUS
<1>2. \A line : line.about = old[n].about /\ line.cents = old[n].cents => SameWorth([old EXCEPT ![n] = line], old)
  BY DEF SameWorth
<1>3. /\ [old[n] EXCEPT !.collected = b].about = old[n].about
      /\ [old[n] EXCEPT !.collected = b].cents = old[n].cents
  BY <1>1 DEF Line
<1>4. /\ [old[n] EXCEPT !.disputed = b].about = old[n].about
      /\ [old[n] EXCEPT !.disputed = b].cents = old[n].cents
  BY <1>1 DEF Line
<1>5. SameWorth([old EXCEPT ![n] = [old[n] EXCEPT !.collected = b]], old)
  BY <1>2, <1>3
<1>6. SameWorth([old EXCEPT ![n] = [old[n] EXCEPT !.disputed = b]], old)
  BY <1>2, <1>4
<1> QED
  BY <1>5, <1>6

\* A step on the statement s that makes such progress.
Progressed(s) == \E st : Saved(s, st) /\ PayOK(st) /\ Progress(item, statement[s], st)

\* Disputes, resolutions and collections.
LEMMA MarkProgressed ==
  ASSUME PayInv, NEW s \in Statements, NEW n \in 1..MaxLines,
         CollectPool(s, n) \/ Dispute(s, n) \/ Resolve(s, n)
  PROVE  Progressed(s)
<1> DEFINE old == statement[s]
<1>1. StatementOK(old) /\ PayOK(old) /\ old.lines \in Seq(Line)
  BY DEF PayInv, IInv, TypeOK, StatementOK
<1>2. n \in DOMAIN old.lines
  BY DEF CollectPool, Dispute, Resolve
<1>3. ASSUME NEW lines, SameWorth(lines, old.lines), Saved(s, Reopened([old EXCEPT !.lines = lines]))
      PROVE  Progressed(s)
  <2> DEFINE st == Reopened([old EXCEPT !.lines = lines])
  <2>1. st.lines = lines /\ st.transfers = old.transfers /\ st.freeze = None
    BY <1>1 DEF StatementOK, Reopened
  <2> HIDE DEF st
  <2>2. PayOK(st) /\ Progress(item, old, st)
    BY <1>1, <1>3, <2>1, MarksProgress
  <2>3. Saved(s, st)
    BY <1>3 DEF st
  <2> QED
    BY <2>2, <2>3 DEF Progressed
<1>4. CASE CollectPool(s, n)
  <2>1. Saved(s, Reopened([old EXCEPT !.lines = [old.lines EXCEPT ![n].collected = TRUE]]))
    BY <1>4 DEF CollectPool
  <2> QED
    BY <1>1, <1>2, <1>3, <2>1, MarkedWorth
<1>5. CASE Dispute(s, n)
  <2>1. Saved(s, Reopened([old EXCEPT !.lines = [old.lines EXCEPT ![n].disputed = TRUE]]))
    BY <1>5 DEF Dispute
  <2> QED
    BY <1>1, <1>2, <1>3, <2>1, MarkedWorth
<1>6. CASE Resolve(s, n)
  <2>1. Saved(s, Reopened([old EXCEPT !.lines = [old.lines EXCEPT ![n].disputed = FALSE]]))
    BY <1>6 DEF Resolve
  <2> QED
    BY <1>1, <1>2, <1>3, <2>1, MarkedWorth
<1> QED
  BY <1>4, <1>5, <1>6

\* Every step that prepares a statement.
LEMMA PrepareProgressed ==
  ASSUME PayInv, NEW s \in Statements, Prepare(s)
  PROVE  Progressed(s)
<1> DEFINE old == statement[s]
<1>1. StatementOK(old) /\ PayOK(old) /\ SameWorth(old.lines, old.lines)
  BY DEF PayInv, IInv, TypeOK, SameWorth
<1>2. CASE Create(s)
  <2> DEFINE st == [old EXCEPT !.created = TRUE]
  <2>1. st.lines = old.lines /\ st.transfers = old.transfers /\ st.freeze = old.freeze
    BY <1>1 DEF StatementOK
  <2>2. Saved(s, st)
    BY <1>2 DEF Create
  <2> HIDE DEF st
  <2>3. PayOK(st) /\ Progress(item, old, st)
    BY <1>1, <2>1, MarksProgress
  <2> QED
    BY <2>2, <2>3 DEF Progressed
<1>3. ASSUME NEW line, line.cents = WorthOf(item, line.about), OpenForLines(old), Saved(s, WithLine(old, line))
      PROVE  Progressed(s)
  <2> DEFINE st == WithLine(old, line)
  <2>1. st.lines = Append(old.lines, line) /\ st.transfers = << >> /\ st.freeze = None /\ old.transfers = << >>
    BY <1>1, <1>3 DEF StatementOK, WithLine, OpenForLines
  <2> HIDE DEF st
  <2>2. PayOK(st) /\ Progress(item, old, st)
    BY <1>1, <1>3, <2>1, LineProgress
  <2>3. Saved(s, st)
    BY <1>3 DEF st
  <2> QED
    BY <2>2, <2>3 DEF Progressed
<1>4. ASSUME NEW e \in Earnings, NEW collected \in BOOLEAN, AddLine(s, e, collected)
      PROVE  Progressed(s)
  <2> DEFINE line == [about |-> e, correction |-> FALSE, cents |-> CentsOf[e],
                      collected |-> collected, disputed |-> FALSE]
  <2>1. line.cents = WorthOf(item, line.about)
    BY DEF WorthOf
  <2>2. OpenForLines(old) /\ Saved(s, WithLine(old, line))
    BY <1>4 DEF AddLine
  <2> HIDE DEF line
  <2> QED
    BY <1>3, <2>1, <2>2
<1>5. ASSUME NEW i \in Items, AddCorrection(s, i)
      PROVE  Progressed(s)
  <2> DEFINE line == [about |-> i, correction |-> TRUE, cents |-> item[i].delta,
                      collected |-> TRUE, disputed |-> FALSE]
  <2>1. line.cents = WorthOf(item, line.about)
    BY MonthlySettlementsAssumption DEF WorthOf
  <2>2. OpenForLines(old) /\ Saved(s, WithLine(old, line))
    BY <1>5 DEF AddCorrection
  <2> HIDE DEF line
  <2> QED
    BY <1>3, <2>1, <2>2
<1> QED
  BY <1>2, <1>4, <1>5, MarkProgressed DEF Prepare

\* Every step that pays one.
LEMMA PayProgressed ==
  ASSUME PayInv, NEW s \in Statements, Pay(s)
  PROVE  Progressed(s)
<1> DEFINE old == statement[s]
<1>1. StatementOK(old) /\ PayOK(old) /\ LastOpen(old) /\ SameWorth(old.lines, old.lines)
  BY DEF PayInv, IInv, TypeOK, Orderly, SameWorth
<1>2. CASE Freeze(s)
  <2> DEFINE frozen == [total |-> Total(old.lines), linked |-> LinkedVersions(old.lines)]
             st == [old EXCEPT !.freeze = frozen, !.approval = None, !.provided = FALSE]
  <2>1. Saved(s, st) /\ frozen.total \in 0..MaxCents
    BY <1>2 DEF Freeze, Payable
  <2> HIDE DEF frozen
  <2>2. st.lines = old.lines /\ st.transfers = old.transfers /\ st.freeze = frozen
    BY <1>1 DEF StatementOK
  <2> HIDE DEF st
  <2>3. PayOK(st) /\ Progress(item, old, st)
    BY <1>1, <2>1, <2>2, MarksProgress
  <2> QED
    BY <2>1, <2>3 DEF Progressed
<1>3. CASE Approve(s)
  <2> DEFINE st == [old EXCEPT !.approval = Total(old.lines)]
  <2>1. st.lines = old.lines /\ st.transfers = old.transfers /\ st.freeze = old.freeze
    BY <1>1 DEF StatementOK
  <2>2. Saved(s, st)
    BY <1>3 DEF Approve
  <2> HIDE DEF st
  <2>3. PayOK(st) /\ Progress(item, old, st)
    BY <1>1, <2>1, MarksProgress
  <2> QED
    BY <2>2, <2>3 DEF Progressed
<1>4. CASE ProvideStatement(s)
  <2> DEFINE st == [old EXCEPT !.provided = TRUE]
  <2>1. st.lines = old.lines /\ st.transfers = old.transfers /\ st.freeze = old.freeze
    BY <1>1 DEF StatementOK
  <2>2. Saved(s, st)
    BY <1>4 DEF ProvideStatement
  <2> HIDE DEF st
  <2>3. PayOK(st) /\ Progress(item, old, st)
    BY <1>1, <2>1, MarksProgress
  <2> QED
    BY <2>2, <2>3 DEF Progressed
<1>5. CASE Submit(s)
  <2> DEFINE amount == Total(old.lines) - Credited(old)
             sent == [amount |-> amount, cleared |-> 0, outcome |-> "submitted", uncertain |-> TRUE,
                      remaining |-> RemainingLines(old), allocations |-> <<>>]
             st == [old EXCEPT !.provided = FALSE, !.transfers = Append(@, sent)]
  <2>1. Saved(s, st) /\ NothingUncertain(old)
    BY <1>5 DEF Submit, MaySubmit
  <2>2. sent.remaining = RemainingLines(old) /\ sent.allocations = << >>
    OBVIOUS
  <2> HIDE DEF sent
  <2>3. st.lines = old.lines /\ st.transfers = Append(old.transfers, sent) /\ st.freeze = old.freeze
    BY <1>1 DEF StatementOK
  <2> HIDE DEF st
  <2>4. PayOK(st) /\ Progress(item, old, st)
    BY <1>1, <2>1, <2>2, <2>3, SentProgress
  <2> QED
    BY <2>1, <2>4 DEF Progressed
<1>6. ASSUME NEW k \in 1..MaxTransfers, NEW outcome \in Outcomes \ {"submitted"}, NEW failed \in BOOLEAN,
             Reconcile(s, k, outcome, failed)
      PROVE  Progressed(s)
  <2> DEFINE t == old.transfers[k]
  <2>1. k \in DOMAIN old.transfers /\ t.uncertain
    BY <1>6 DEF Reconcile
  <2>2. PICK cleared, allocations, uncertain :
          /\ allocations \in Allocations(t)
          /\ Saved(s, Reconciled(old, k,
               [t EXCEPT !.cleared = cleared, !.allocations = allocations,
                         !.outcome = outcome, !.uncertain = uncertain]))
    BY <1>6 DEF Reconcile
  <2> DEFINE new == [t EXCEPT !.cleared = cleared, !.allocations = allocations,
                              !.outcome = outcome, !.uncertain = uncertain]
             st == Reconciled(old, k, new)
  <2>3. TransferOK(t)
    BY <1>1, <2>1 DEF StatementOK
  <2>4. new.remaining = t.remaining /\ new.allocations = allocations
    BY <2>3 DEF TransferOK
  <2> HIDE DEF new
  <2>5. st.lines = old.lines /\ st.transfers = [old.transfers EXCEPT ![k] = new] /\ st.freeze = old.freeze
    BY <1>1 DEF StatementOK, Reconciled
  <2>6. Saved(s, st)
    BY <2>2 DEF new
  <2> HIDE DEF st
  <2>7. PayOK(st) /\ Progress(item, old, st)
    <3>1. new.allocations \in Allocations(t)
      BY <2>2, <2>4
    <3> QED
      BY <1>1, <2>1, <2>4, <2>5, <3>1, AnswerProgress
  <2> QED
    BY <2>6, <2>7 DEF Progressed
<1> QED
  BY <1>2, <1>3, <1>4, <1>5, <1>6 DEF Pay

-----------------------------------------------------------------------------
(* What any step does to statements and corrections *)

\* Every step, of every statement.
LEMMA AllProgress ==
  ASSUME PayInv, [Next]_vars
  PROVE  \A s \in Statements : PayOK(statement'[s]) /\ Progress(item, statement[s], statement'[s])
<1>1. \A s \in Statements : PayOK(statement[s]) /\ Progress(item, statement[s], statement[s])
  <2> SUFFICES ASSUME NEW s \in Statements PROVE PayOK(statement[s]) /\ Progress(item, statement[s], statement[s])
    OBVIOUS
  <2>1. StatementOK(statement[s]) /\ PayOK(statement[s])
    BY DEF PayInv, IInv, TypeOK
  <2>2. SameWorth(statement[s].lines, statement[s].lines)
    BY DEF SameWorth
  <2> QED
    BY <2>1, <2>2, MarksProgress
<1>2. CASE UNCHANGED vars
  BY <1>1, <1>2 DEF vars
<1>3. CASE AdjustmentNext /\ UNCHANGED statementVars
  BY <1>1, <1>3 DEF statementVars
<1>4. ASSUME NEW s \in Statements, Prepare(s) \/ Pay(s)
      PROVE  \A r \in Statements : PayOK(statement'[r]) /\ Progress(item, statement[r], statement'[r])
  <2>1. PICK st : Saved(s, st) /\ PayOK(st) /\ Progress(item, statement[s], st)
    BY <1>4, PrepareProgressed, PayProgressed DEF Progressed
  <2>2. statement'[s] = st /\ \A r \in Statements \ {s} : statement'[r] = statement[r]
    BY <2>1 DEF Saved, PayInv, IInv, TypeOK
  <2> QED
    BY <1>1, <2>1, <2>2
<1> QED
  BY <1>2, <1>3, <1>4 DEF Next

\* A correction keeps its amount once it is approved, also when it is claimed; and
\* one that was settled alone stays so, and approved.
ItemKept(i) ==
  /\ item[i].status = "approved" => item'[i].status = "approved" /\ item'[i].delta = item[i].delta
  /\ item'[i].claimed => item'[i].delta = item[i].delta
  /\ item'[i].simulated => item'[i].status = "approved"
  /\ item[i].simulated => item'[i].simulated

\* Steps on the corrections alone.
LEMMA AdjustmentKeepsItems ==
  ASSUME IInv, SettledApproved, AdjustmentNext
  PROVE  \A i \in Items : ItemKept(i)
<1>1. item \in [Items -> Item]
  BY DEF IInv, TypeOK, AdjustmentTypeOK
<1>2. CASE UNCHANGED item
  BY <1>2 DEF SettledApproved, ItemKept
<1>3. ASSUME NEW i \in Items, NEW c \in Corrections, NEW occurrence \in Occurrences,
             NEW supersedes \in Items \cup {None}, Propose(i, c, occurrence, supersedes)
      PROVE  \A j \in Items : ItemKept(j)
  <2> DEFINE old == IF c.kind = "reimbursement" THEN 0 ELSE Earned
  <2>1. /\ item' = [item EXCEPT ![i] =
             [status |-> "proposed", kind |-> c.kind, delta |-> c.delta,
              occurrence |-> occurrence, old |-> old, new |-> old + c.delta,
              revision |-> source.revision, at |-> source.version + 1, disputed |-> FALSE,
              frozen |-> FALSE, simulated |-> FALSE, claimed |-> FALSE]]
        /\ item[i].status = "none"
    BY <1>3 DEF Propose, Exists
  <2> HIDE DEF old
  <2>2. item'[i].simulated = FALSE /\ item'[i].claimed = FALSE /\ item'[i].status = "proposed"
    BY <1>1, <2>1
  <2>3. \A j \in Items \ {i} : item'[j] = item[j]
    BY <1>1, <2>1
  <2>4. ItemKept(i)
    BY <2>1, <2>2 DEF SettledApproved, ItemKept
  <2> QED
    BY <2>3, <2>4 DEF SettledApproved, ItemKept
<1>4. ASSUME NEW i \in Items, RaiseDispute(i) \/ ResolveDispute(i)
      PROVE  \A j \in Items : ItemKept(j)
  BY <1>1, <1>4 DEF RaiseDispute, ResolveDispute, Item, SettledApproved, ItemKept
<1>5. ASSUME NEW i \in Items, ApproveCorrection(i) \/ Reject(i)
      PROVE  \A j \in Items : ItemKept(j)
  BY <1>1, <1>5 DEF ApproveCorrection, CurrentProposal, Reject, Item, SettledApproved, ItemKept
<1>6. ASSUME NEW i \in Items, FreezeReview(i) \/ Simulate(i)
      PROVE  \A j \in Items : ItemKept(j)
  BY <1>1, <1>6 DEF FreezeReview, Simulate, Item, SettledApproved, ItemKept
<1> QED
  BY <1>2, <1>3, <1>4, <1>5, <1>6 DEF AdjustmentNext, RegisterSource, RepeatedPost, adjustmentVars

\* Every step.
LEMMA ItemsKept ==
  ASSUME PayInv, [Next]_vars
  PROVE  \A i \in Items : ItemKept(i)
<1>1. IInv /\ SettledApproved /\ item \in [Items -> Item]
  BY DEF PayInv, IInv, TypeOK, AdjustmentTypeOK
<1>2. CASE UNCHANGED item
  BY <1>1, <1>2 DEF SettledApproved, ItemKept
<1>3. CASE AdjustmentNext
  BY <1>1, <1>3, AdjustmentKeepsItems
<1>4. ASSUME NEW s \in Statements, NEW i \in Items, AddCorrection(s, i)
      PROVE  \A j \in Items : ItemKept(j)
  BY <1>1, <1>4 DEF AddCorrection, Item, SettledApproved, ItemKept
<1>5. ASSUME NEW s \in Statements, Prepare(s)
      PROVE  UNCHANGED item \/ \E i \in Items : AddCorrection(s, i)
  BY <1>5 DEF Prepare, Create, AddLine, CollectPool, Dispute, Resolve
<1>6. ASSUME NEW s \in Statements, Pay(s)
      PROVE  UNCHANGED item
  BY <1>6 DEF Pay, Freeze, Approve, Submit, ProvideStatement, Reconcile
<1>7. CASE UNCHANGED vars
  BY <1>2, <1>7 DEF vars
<1> QED
  BY <1>2, <1>3, <1>4, <1>5, <1>6, <1>7 DEF Next

\* A line about a correction is about one that is approved, and not settled alone.
LEMMA LineApproved ==
  ASSUME IInv, NEW s \in Statements, NEW n \in DOMAIN statement[s].lines, statement[s].lines[n].about \in Items
  PROVE  LET i == statement[s].lines[n].about IN
         item[i].claimed /\ item[i].status = "approved" /\ ~item[i].simulated
BY DEF IInv, LinesKnown, LinesMarked, MarkedApproved, NotSettledTwice

\* Every step keeps the invariant of payments.
LEMMA NextPay == PayInv /\ [Next]_vars => PayInv'
<1> SUFFICES ASSUME PayInv, [Next]_vars PROVE PayInv'
  OBVIOUS
<1>1. IInv'
  BY NextIInv DEF PayInv
<1>2. \A s \in Statements : PayOK(statement'[s]) /\ Progress(item, statement[s], statement'[s])
  BY AllProgress
<1>3. \A i \in Items : ItemKept(i)
  BY ItemsKept
<1>4. SettledApproved'
  BY <1>3 DEF SettledApproved, ItemKept
<1>5. LinesWorth'
  <2> SUFFICES ASSUME NEW s \in Statements, NEW n \in DOMAIN statement'[s].lines
               PROVE  statement'[s].lines[n].cents = WorthOf(item', statement'[s].lines[n].about)
    BY DEF LinesWorth, WorthOf
  <2> DEFINE l == statement'[s].lines[n]
  <2>1. l.cents = WorthOf(item, l.about)
    <3>1. CASE n \in DOMAIN statement[s].lines
      BY <1>2, <3>1 DEF PayInv, LinesWorth, Progress
    <3>2. CASE n \notin DOMAIN statement[s].lines
      BY <1>2, <3>2 DEF Progress
    <3> QED
      BY <3>1, <3>2
  <2>2. l.about \in Earnings => l.cents = WorthOf(item', l.about)
    BY <2>1 DEF WorthOf
  <2>3. l.about \in Items => l.cents = WorthOf(item', l.about)
    <3>1. l.about \in Items => item'[l.about].claimed
      BY <1>1 DEF IInv, LinesKnown, LinesMarked
    <3> QED
      BY <1>3, <2>1, <3>1 DEF ItemKept, WorthOf
  <2>4. l.about \in Earnings \cup Items
    <3>1. StatementOK(statement[s]')
      BY <1>1 DEF IInv, TypeOK
    <3>2. statement'[s].lines \in Seq(Line)
      BY <3>1 DEF StatementOK
    <3>3. l \in Line
      BY <3>2
    <3> QED
      BY <3>3 DEF Line
  <2> HIDE DEF l
  <2> QED
    BY <2>2, <2>3, <2>4 DEF l
<1> QED
  BY <1>1, <1>2, <1>4, <1>5 DEF PayInv

LEMMA PayInductive == Spec => []PayInv
  BY InitPay, NextPay, PTL DEF Spec

\* The invariant says that offers are accepted.
LEMMA OffersAccepted == PayInv => OfferIsAccepted
<1> SUFFICES ASSUME PayInv, NEW s \in Statements,
                    OffersTransfer(statement[s]), ShownOutstanding(statement[s]) <= MaxCents,
                    LinkedIntact(statement[s].lines),
                    statement[s].freeze # None => statement[s].freeze.linked = LinkedVersions(statement[s].lines)
             PROVE  MaySubmit(statement[s], ShownOutstanding(statement[s]))
  BY DEF OfferIsAccepted
<1> DEFINE st == statement[s]
<1>1. StatementOK(st) /\ PayOK(st) /\ ApprovedAsFrozen(st) /\ st.lines \in Seq(Line)
  BY DEF PayInv, IInv, TypeOK, Orderly, StatementOK
<1>2. IsFiniteSet(Eligible(st.lines)) /\ Total(st.lines) \in Int /\ ShownTotal(st) = Total(st.lines)
  <2>1. Summable(CentsAt(st.lines), Eligible(st.lines))
    BY <1>1, ShownTotalIsTotal
  <2>2. Total(st.lines) \in Int /\ ShownTotal(st) = Total(st.lines)
    BY <1>1, ShownTotalIsTotal
  <2> QED
    BY <2>1, <2>2 DEF Summable
<1>3. ShownCredited(st) = Credited(st) /\ Credited(st) \in Int
  BY <1>1, <1>2, ShownCreditedIsCredited DEF PayOK
<1>4. /\ st.approval = Total(st.lines) /\ st.freeze # None /\ Total(st.lines) \in 0..MaxCents
      /\ st.freeze.linked = LinkedVersions(st.lines) /\ NothingUncertain(st)
  BY <1>1 DEF OffersTransfer, ApprovedAsFrozen, PayOK, NothingUncertain
<1>5. ShownOutstanding(st) = Total(st.lines) - Credited(st)
  BY <1>2, <1>3 DEF ShownOutstanding
<1>6. ShownOutstanding(st) \in 1..MaxCents /\ Total(st.lines) >= Credited(st)
  BY <1>2, <1>3, <1>5, MaxCentsNat DEF OffersTransfer
<1> QED
  BY <1>4, <1>5, <1>6 DEF MaySubmit, Payable

\* A transfer the page offers, with the amount of its own sums, is accepted.
THEOREM OffersAlwaysAccepted == Spec => []OfferIsAccepted
  BY PayInductive, OffersAccepted, PTL

-----------------------------------------------------------------------------
(* The ledger of what is paid *)

\* The lines about o, by statement and number, and what has cleared of them.
LinesOf(stm, o) ==
  UNION {{<<s, n>> : n \in {k \in DOMAIN stm[s].lines : stm[s].lines[k].about = o}} : s \in Statements}

ClearedAll(stm, o) == [l \in LinesOf(stm, o) |-> Allocated(stm[l[1]].transfers, l[2])]

ClearedIn(stm, o) == SumOf(ClearedAll(stm, o), LinesOf(stm, o))

\* What the specification adds up is that.
LEMMA ClearedIsSum ==
  ASSUME NEW stm, NEW o
  PROVE  MapThenSumSet(LAMBDA l : Allocated(stm[l[1]].transfers, l[2]), LinesOf(stm, o)) = ClearedIn(stm, o)
<1> DEFINE T == LinesOf(stm, o)
           f == ClearedAll(stm, o)
           B(g) == [s \in SUBSET T |->
                      IF s = {} THEN 0
                      ELSE Allocated(stm[(CHOOSE x \in s : TRUE)[1]].transfers, (CHOOSE x \in s : TRUE)[2])
                             + g[s \ {CHOOSE x \in s : TRUE}]]
           C(g) == [s \in SUBSET T |->
                      IF s = {} THEN 0 ELSE f[CHOOSE x \in s : TRUE] + g[s \ {CHOOSE x \in s : TRUE}]]
<1>1. ASSUME NEW g PROVE B(g) = C(g)
  <2>1. \A s \in SUBSET T : s # {} =>
          f[CHOOSE x \in s : TRUE] =
            Allocated(stm[(CHOOSE x \in s : TRUE)[1]].transfers, (CHOOSE x \in s : TRUE)[2])
    BY DEF ClearedAll
  <2> HIDE DEF f, T
  <2> QED
    BY <2>1
<1>2. MapThenSumSet(LAMBDA l : Allocated(stm[l[1]].transfers, l[2]), T) = (CHOOSE g : g = B(g))[T]
  BY DEF MapThenSumSet, MapThenFoldSet
<1>3. SumOf(f, T) = (CHOOSE g : g = C(g))[T]
  BY DEF SumOf, MapThenSumSet, MapThenFoldSet
<1> HIDE DEF B, C, f, T
<1>4. \A g : g = B(g) <=> g = C(g)
  BY <1>1
<1>5. (CHOOSE g : g = B(g)) = (CHOOSE g : g = C(g))
  BY <1>4, Zenon
<1> QED
  BY <1>2, <1>3, <1>5 DEF f, T, ClearedIn

\* In this state and in the next one.
LEMMA ClearedNow == \A o : ClearedOf(o) = ClearedIn(statement, o)
<1> TAKE o
<1>1. LinesAbout(o) = LinesOf(statement, o)
  BY DEF LinesAbout, LinesOf
<1> QED
  BY <1>1, ClearedIsSum DEF ClearedOf

LEMMA ClearedNext == \A o : ClearedOf(o)' = ClearedIn(statement', o)
<1>1. (\A o : ClearedOf(o) = ClearedIn(statement, o))'
  BY ClearedNow, PTL
<1> QED
  BY <1>1 DEF ClearedIn, ClearedAll, LinesOf

\* What no line is about has not been cleared.
LEMMA NoLineCleared ==
  ASSUME NEW stm, NEW o, \A s \in Statements : \A n \in DOMAIN stm[s].lines : stm[s].lines[n].about # o
  PROVE  ClearedIn(stm, o) = 0
<1>1. LinesOf(stm, o) = {}
  BY DEF LinesOf
<1> QED
  BY <1>1, SumOfNone DEF ClearedIn

\* What one line is about has cleared as much as that line.
LEMMA OneLineCleared ==
  ASSUME NEW stm, NEW o, NEW s \in Statements, NEW n \in DOMAIN stm[s].lines, stm[s].lines[n].about = o,
         \A r \in Statements : \A m \in DOMAIN stm[r].lines : stm[r].lines[m].about = o => r = s /\ m = n,
         Allocated(stm[s].transfers, n) \in Int
  PROVE  ClearedIn(stm, o) = Allocated(stm[s].transfers, n)
<1> DEFINE x == <<s, n>>
           f == ClearedAll(stm, o)
<1>1. LinesOf(stm, o) = {x}
  BY DEF LinesOf
<1>2. f[x] = Allocated(stm[s].transfers, n)
  BY <1>1 DEF ClearedAll
<1> HIDE DEF x, f
<1>3. IsFiniteSet({x}) /\ Summable(f, {x})
  BY <1>2, FS_Singleton DEF Summable
<1>4. SumOf(f, {x}) = f[x] + SumOf(f, {x} \ {x})
  BY <1>3, SumWithout
<1>5. {x} \ {x} = {}
  OBVIOUS
<1>6. SumOf(f, {}) = 0
  BY SumOfNone
<1>7. ClearedIn(stm, o) = SumOf(f, {x})
  BY <1>1, Zenon DEF ClearedIn, f
<1>8. SumOf(f, {x}) = f[x] + SumOf(f, {})
  BY <1>4, <1>5, Zenon
<1>9. f[x] \in Int
  BY <1>2
<1> QED
  BY <1>2, <1>6, <1>7, <1>8, <1>9

-----------------------------------------------------------------------------
(* The refinement *)

\* What is due and what is paid, for given rows and statements.
DueIn(it, o) ==
  IF o \in Earnings THEN CentsOf[o]
  ELSE IF it[o].status = "approved" THEN it[o].delta ELSE 0

AloneIn(it, o) == IF o \in Items /\ it[o].simulated THEN it[o].delta ELSE 0

PaidIn(stm, it, o) == AloneIn(it, o) + ClearedIn(stm, o)

\* No line about o, or the one.
LEMMA LinesOne ==
  ASSUME IInv, NEW o
  PROVE  \/ \A s \in Statements : \A n \in DOMAIN statement[s].lines : statement[s].lines[n].about # o
         \/ \E s \in Statements : \E n \in DOMAIN statement[s].lines :
              /\ statement[s].lines[n].about = o
              /\ \A r \in Statements : \A m \in DOMAIN statement[r].lines :
                   statement[r].lines[m].about = o => r = s /\ m = n
BY DEF IInv, LinesClaimed

\* What moves of o in one step.
LEMMA LedgerStep ==
  ASSUME PayInv, [Next]_vars, NEW o \in Earnings \cup Items
  PROVE  /\ DueIn(item, o) # 0 => DueIn(item', o) = DueIn(item, o)
         /\ PaidIn(statement', item', o) \in Toward(PaidIn(statement, item, o), DueIn(item', o))
<1>1. IInv /\ IInv' /\ SettledApproved
  BY NextIInv DEF PayInv
<1>2. \A s \in Statements : PayOK(statement'[s]) /\ Progress(item, statement[s], statement'[s])
  BY AllProgress
<1>3. o \in Items => ItemKept(o) /\ item[o].delta \in Int /\ item'[o].delta \in Int
  <2>1. item \in [Items -> Item] /\ item' \in [Items -> Item]
    BY <1>1 DEF IInv, TypeOK, AdjustmentTypeOK
  <2>2. o \in Items => item[o] \in Item /\ item'[o] \in Item
    BY <2>1
  <2> QED
    BY <2>2, ItemsKept DEF Item
<1>4. o \in Earnings => o \notin Items /\ CentsOf[o] \in Int
  BY MonthlySettlementsAssumption
<1>5. DueIn(item', o) \in Int /\ (DueIn(item, o) # 0 => DueIn(item', o) = DueIn(item, o))
  BY <1>3, <1>4 DEF DueIn, ItemKept
<1>6. \A a \in Int : a \in Toward(a, a) /\ a \in Toward(0, a) /\ 0 \in Toward(0, a)
  BY DEF Toward
<1>7. ASSUME o \in Items, item'[o].simulated
      PROVE  PaidIn(statement', item', o) \in Toward(PaidIn(statement, item, o), DueIn(item', o))
  <2>1. \A s \in Statements : \A n \in DOMAIN statement'[s].lines : statement'[s].lines[n].about # o
    BY <1>1, <1>7 DEF IInv, LinesKnown, LinesMarked, NotSettledTwice
  <2>2. \A s \in Statements : \A n \in DOMAIN statement[s].lines : statement[s].lines[n].about # o
    BY <1>2, <2>1 DEF Progress
  <2>3. ClearedIn(statement, o) = 0 /\ ClearedIn(statement', o) = 0
    BY <2>1, <2>2, NoLineCleared
  <2>4. item'[o].status = "approved" /\ o \notin Earnings
    BY <1>3, <1>4, <1>7 DEF ItemKept
  <2>5. DueIn(item', o) = item'[o].delta /\ PaidIn(statement', item', o) = item'[o].delta
    BY <1>3, <1>7, <2>3, <2>4 DEF DueIn, PaidIn, AloneIn
  <2>6. CASE item[o].simulated
    <3>1. item[o].status = "approved" /\ item'[o].delta = item[o].delta
      BY <1>1, <1>3, <1>7, <2>6 DEF SettledApproved, ItemKept
    <3>2. PaidIn(statement, item, o) = item'[o].delta
      BY <1>3, <1>7, <2>3, <2>6, <3>1 DEF PaidIn, AloneIn
    <3> QED
      BY <1>3, <1>6, <1>7, <2>5, <3>2
  <2>7. CASE ~item[o].simulated
    <3>1. PaidIn(statement, item, o) = 0
      BY <2>3, <2>7 DEF PaidIn, AloneIn
    <3> QED
      BY <1>3, <1>6, <1>7, <2>5, <3>1
  <2> QED
    BY <2>6, <2>7
<1>8. ASSUME ~(o \in Items /\ item'[o].simulated)
      PROVE  PaidIn(statement', item', o) \in Toward(PaidIn(statement, item, o), DueIn(item', o))
  <2>1. AloneIn(item, o) = 0 /\ AloneIn(item', o) = 0
    BY <1>3, <1>8 DEF AloneIn, ItemKept
  <2>2. PaidIn(statement, item, o) = 0 + ClearedIn(statement, o)
        /\ PaidIn(statement', item', o) = 0 + ClearedIn(statement', o)
    BY <2>1 DEF PaidIn
  <2>3. CASE \A s \in Statements : \A n \in DOMAIN statement[s].lines : statement[s].lines[n].about # o
    <3>1. ClearedIn(statement, o) = 0
      BY <2>3, NoLineCleared
    <3>2. ClearedIn(statement', o) = 0
      <4>1. CASE \A s \in Statements : \A n \in DOMAIN statement'[s].lines : statement'[s].lines[n].about # o
        BY <4>1, NoLineCleared
      <4>2. ASSUME NEW s \in Statements, NEW n \in DOMAIN statement'[s].lines, statement'[s].lines[n].about = o
            PROVE  ClearedIn(statement', o) = 0
        <5>1. n \notin DOMAIN statement[s].lines
          BY <1>2, <2>3, <4>2 DEF Progress
        <5>2. Allocated(statement'[s].transfers, n) = 0
          BY <1>2, <4>2, <5>1 DEF Progress
        <5>3. \A r \in Statements : \A m \in DOMAIN statement'[r].lines :
                statement'[r].lines[m].about = o => r = s /\ m = n
          BY <1>1, <4>2 DEF IInv, LinesClaimed
        <5>4. ClearedIn(statement', o) = Allocated(statement'[s].transfers, n)
          <6>1. Allocated(statement'[s].transfers, n) \in Int
            BY <5>2
          <6> QED
            BY <4>2, <5>3, <6>1, OneLineCleared
        <5> QED
          BY <5>2, <5>4
      <4> QED
        BY <4>1, <4>2
    <3>3. PaidIn(statement, item, o) = 0 /\ PaidIn(statement', item', o) = 0
      BY <2>2, <3>1, <3>2
    <3> QED
      BY <1>5, <1>6, <3>3
  <2>4. ASSUME NEW s \in Statements, NEW n \in DOMAIN statement[s].lines, statement[s].lines[n].about = o,
               \A r \in Statements : \A m \in DOMAIN statement[r].lines :
                 statement[r].lines[m].about = o => r = s /\ m = n
        PROVE  PaidIn(statement', item', o) \in Toward(PaidIn(statement, item, o), DueIn(item', o))
    <3> DEFINE a == Allocated(statement[s].transfers, n)
               b == Allocated(statement'[s].transfers, n)
               w == statement[s].lines[n].cents
    <3>1. /\ a \in Int /\ b \in Toward(a, w)
          /\ n \in DOMAIN statement'[s].lines /\ statement'[s].lines[n].about = o
      BY <1>2, <2>4 DEF Progress
    <3>2. w = DueIn(item', o)
      <4>1. w = WorthOf(item, o)
        BY <2>4 DEF PayInv, LinesWorth
      <4>2. o \in Items => item[o].status = "approved"
        BY <1>1, <2>4, LineApproved
      <4>3. o \in Items => item'[o].status = "approved" /\ item'[o].delta = item[o].delta
        BY <1>3, <4>2 DEF ItemKept
      <4> QED
        BY <4>1, <4>3 DEF DueIn, WorthOf
    <3>3. b \in Int
      BY <1>5, <3>1, <3>2 DEF Toward
    <3>4. ClearedIn(statement, o) = a
      BY <2>4, <3>1, OneLineCleared
    <3>5. ClearedIn(statement', o) = b
      <4>1. \A r \in Statements : \A m \in DOMAIN statement'[r].lines :
              statement'[r].lines[m].about = o => r = s /\ m = n
        BY <1>1, <3>1 DEF IInv, LinesClaimed
      <4> QED
        BY <3>1, <3>3, <4>1, OneLineCleared
    <3> HIDE DEF a, b, w
    <3>6. PaidIn(statement, item, o) = a /\ PaidIn(statement', item', o) = b
      BY <2>2, <3>1, <3>3, <3>4, <3>5
    <3> QED
      BY <3>1, <3>2, <3>6
  <2> QED
    BY <1>1, <2>3, <2>4, LinesOne
<1> QED
  BY <1>5, <1>7, <1>8

\* The ledger begins empty.
LEMMA LedgerInit == Init => Ledger!Init
<1> SUFFICES ASSUME Init PROVE Ledger!Init
  OBVIOUS
<1>1. \A o \in Earnings \cup Items : DueOf(o) \in Int
  <2>1. \A o \in Earnings : CentsOf[o] \in Int
    BY MonthlySettlementsAssumption
  <2>2. \A i \in Items : item[i].status = "none"
    BY DEF Init, AdjustmentInit, NoItem
  <2> QED
    BY <2>1, <2>2 DEF DueOf
<1>2. \A o \in Earnings \cup Items : SettledAlone(o) = 0
  <2>1. \A i \in Items : item[i].simulated = FALSE
    BY DEF Init, AdjustmentInit, NoItem
  <2> QED
    BY <2>1 DEF SettledAlone
<1>3. \A o : ClearedOf(o) = 0
  <2>1. \A s \in Statements : statement[s].lines = << >>
    BY DEF Init, NoStatement
  <2>2. DOMAIN << >> = {}
    OBVIOUS
  <2>3. \A o : ClearedIn(statement, o) = 0
    <3> TAKE o
    <3>1. \A s \in Statements : \A n \in DOMAIN statement[s].lines : statement[s].lines[n].about # o
      BY <2>1, <2>2
    <3> QED
      BY <3>1, NoLineCleared
  <2> QED
    BY <2>3, ClearedNow
<1>4. [o \in Earnings \cup Items |-> SettledAlone(o) + ClearedOf(o)] = [o \in Earnings \cup Items |-> 0]
  BY <1>2, <1>3
<1> QED
  BY <1>1, <1>4 DEF Ledger!Init

\* Every step is one of the ledger.
LEMMA LedgerNext == PayInv /\ [Next]_vars => Ledger!Next
<1> SUFFICES ASSUME PayInv, [Next]_vars, NEW o \in Earnings \cup Items PROVE Ledger!Step(o)
  BY DEF Ledger!Next
<1>1. DueOf(o) = DueIn(item, o) /\ DueOf(o)' = DueIn(item', o)
  BY DEF DueOf, DueIn
<1>2. SettledAlone(o) = AloneIn(item, o) /\ SettledAlone(o)' = AloneIn(item', o)
  BY DEF SettledAlone, AloneIn
<1>3. ClearedOf(o) = ClearedIn(statement, o) /\ ClearedOf(o)' = ClearedIn(statement', o)
  BY ClearedNow, ClearedNext
<1>4. /\ DueIn(item, o) # 0 => DueIn(item', o) = DueIn(item, o)
      /\ PaidIn(statement', item', o) \in Toward(PaidIn(statement, item, o), DueIn(item', o))
  BY LedgerStep
<1>5. /\ SettledAlone(o) + ClearedOf(o) = PaidIn(statement, item, o)
      /\ SettledAlone(o)' + ClearedOf(o)' = PaidIn(statement', item', o)
  BY <1>2, <1>3 DEF PaidIn
<1>6. \A a, b : Ledger!Span(a, b) = Toward(a, b)
  BY DEF Ledger!Span, Toward
<1>7. DueOf(o) # 0 => DueOf(o)' = DueOf(o)
  BY <1>1, <1>4
<1>8. SettledAlone(o)' + ClearedOf(o)' \in Ledger!Span(SettledAlone(o) + ClearedOf(o), DueOf(o)')
  BY <1>1, <1>4, <1>5, <1>6
<1> QED
  BY <1>7, <1>8 DEF Ledger!Step

\* Nothing is paid twice or too much, for any statements, lines, transfers,
\* answers, disputes and corrections.
THEOREM NothingPaidTwice == Spec => PaysOnce
  BY PayInductive, LedgerInit, LedgerNext, PTL DEF Spec, PaysOnce, Ledger!Spec
=============================================================================
