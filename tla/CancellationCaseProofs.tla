----------------------- MODULE CancellationCaseProofs -----------------------
(***************************************************************************)
(* Cancellation reviews, for all amounts and every number of users, keys,  *)
(* cleaners and requests: an assessment's money is accounted for to the    *)
(* cent, the journal keeps its life cycle and implements the ledger of     *)
(* refunds, the page can read what the database saves, and the two differ  *)
(* only where the model says so.                                           *)
(***************************************************************************)
EXTENDS CancellationCase, CancellationAssessments, FoldFacts, TLAPS

-----------------------------------------------------------------------------
(* Amounts *)

LEMMA AvailableType ==
  ASSUME NEW a, Assessed(a)
  PROVE  SqlAvailable(a) \in Nat
BY DEF Assessed, SqlAvailable, OrZero

\* A pool of cents, a team, and something agreed.
Division(pool, team) == pool \in Nat /\ TeamOfCents(team) /\ AgreedTotal(team) > 0

\* Quotient and remainder.
LEMMA Quotient ==
  ASSUME NEW n \in Nat, NEW d \in Nat, d > 0
  PROVE  /\ n \div d \in Nat /\ n % d \in Nat /\ n % d < d
         /\ n = d * (n \div d) + (n % d)
OBVIOUS

LEMMA TotalOfTeam ==
  ASSUME NEW team, TeamOfCents(team)
  PROVE  Summable(team, DOMAIN team) /\ AgreedTotal(team) \in Nat /\ AgreedTotal(team) = SumOf(team, DOMAIN team)
<1> DEFINE W == DOMAIN team
           none == [w \in W |-> 0]
<1>1. Summable(team, W) /\ Summable(none, W) /\ EachAtMost(none, team, W)
  BY DEF TeamOfCents, Summable, EachAtMost
<1>2. AgreedTotal(team) = SumOf(team, W)
  BY DEF AgreedTotal, SumOver, SumOf
<1>3. IsFiniteSet(W) /\ {} \in SUBSET W /\ Counts(none, {}, W)
  BY DEF TeamOfCents, Counts
<1> HIDE DEF none, W
<1>4. SumOf(none, W) = 0
  BY <1>3, SumCounts, FS_EmptySet
<1>5. SumOf(none, W) <= SumOf(team, W) /\ SumOf(team, W) \in Int
  BY <1>1, SumAtMost, SumIsInt
<1> QED
  BY <1>1, <1>2, <1>4, <1>5 DEF W

LEMMA TeamType == ASSUME NEW a \in Facts PROVE Assessed(a) /\ TeamAssessed(a)
BY RulesAssumption

\* What the business pays is a part of what was agreed, for each and together.
LEMMA CompanyPays ==
  ASSUME NEW a \in Facts
  PROVE  /\ PaidByCompany(a) <= AgreedTotal(a.team) /\ PaidByCompany(a) \in Int
         /\ BusinessTier(a) = 100 => PaidByCompany(a) = AgreedTotal(a.team)
<1> DEFINE W == DOMAIN a.team
           team == a.team
           shares == [w \in W |-> CompanyShare(a, w)]
           tier == BusinessTier(a)
<1>1. Summable(team, W) /\ AgreedTotal(a.team) = SumOf(team, W) /\ TeamOfCents(team)
  BY TeamType, TotalOfTeam DEF TeamAssessed
<1>2. tier \in {0, 50, 100}
  BY DEF BusinessTier
<1>3. \A w \in W : team[w] \in Nat /\ CompanyShare(a, w) = (team[w] * tier + 99) \div 100
  BY <1>1 DEF TeamOfCents, CompanyShare
<1> HIDE DEF tier
<1>4. \A w \in W : /\ CompanyShare(a, w) \in Int /\ CompanyShare(a, w) <= team[w]
                   /\ tier = 100 => CompanyShare(a, w) = team[w]
  <2> SUFFICES ASSUME NEW w \in W
               PROVE  /\ CompanyShare(a, w) \in Int /\ CompanyShare(a, w) <= team[w]
                      /\ tier = 100 => CompanyShare(a, w) = team[w]
    OBVIOUS
  <2> DEFINE n == team[w]
  <2>1. n \in Nat /\ CompanyShare(a, w) = (n * tier + 99) \div 100
    BY <1>3
  <2> HIDE DEF n
  <2>2. tier = 0 => CompanyShare(a, w) = 0
    BY <2>1
  <2>3. tier = 50 => CompanyShare(a, w) \in Int /\ CompanyShare(a, w) <= n
    BY <2>1
  <2>4. tier = 100 => CompanyShare(a, w) = n
    BY <2>1
  <2>5. CompanyShare(a, w) \in Int /\ CompanyShare(a, w) <= n
    <3>1. CASE tier = 0
      BY <2>1, <2>2, <3>1
    <3>2. CASE tier = 50
      BY <2>3, <3>2
    <3>3. CASE tier = 100
      BY <2>1, <2>4, <3>3
    <3> QED
      BY <1>2, <3>1, <3>2, <3>3
  <2> QED
    BY <2>4, <2>5 DEF n
<1>5. Summable(shares, W) /\ EachAtMost(shares, team, W)
  BY <1>1, <1>4 DEF Summable, EachAtMost
<1>6. PaidByCompany(a) = SumOf(shares, W)
  BY DEF PaidByCompany, SumOver, SumOf
<1>7. tier = 100 => \A w \in W : shares[w] = team[w]
  BY <1>4
<1> HIDE DEF shares, W, team
<1>8. SumOf(shares, W) <= SumOf(team, W) /\ SumOf(shares, W) \in Int
  BY <1>1, <1>5, SumAtMost, SumIsInt
<1>9. tier = 100 => SumOf(shares, W) = SumOf(team, W)
  BY <1>5, <1>7, SumOfEqual
<1> QED
  BY <1>1, <1>6, <1>8, <1>9 DEF tier

\* Each cleaner's amount is at most the sum.
LEMMA EachWithinTotal ==
  ASSUME NEW team, TeamOfCents(team), NEW w \in DOMAIN team
  PROVE  team[w] <= AgreedTotal(team)
<1>1. Summable(team, DOMAIN team) /\ AgreedTotal(team) = SumOf(team, DOMAIN team)
  BY TotalOfTeam
<1>2. NoneNegative(team, DOMAIN team)
  BY DEF TeamOfCents, NoneNegative
<1> QED
  BY <1>1, <1>2, EachAtMostSum

\* What the database accepts the page accepts, with the same refundable amount;
\* and the other way round, but for one case.
LEMMA SqlWithinJs ==
  ASSUME NEW a \in Facts
  PROVE  /\ SqlAccepts(a) => JsAccepts(a)
         /\ JsAccepts(a) => SqlAccepts(a) \/ OnlyShareFits(a)
         /\ Refundable(a) = SqlAvailable(a)
<1>1. /\ a.labour \in Nat /\ a.loss \in Nat /\ a.receipts \in Nat /\ a.performed \in Nat
      /\ a.completed \in Nat /\ a.pending \in Nat /\ a.fee \in Nat /\ a.pool \in Nat
      /\ a.price \in Nat /\ a.cause \in {"customer", "business"} /\ a.action \in {"cancel", "reschedule"}
      /\ FeeCap \in Nat /\ MaxAmount \in Nat
  BY TeamType, RulesAssumption DEF Assessed
<1> DEFINE half == a.labour \div 2
<1>2. half \in Nat
  BY <1>1
<1>3. SqlCeiling(a) = FeeCeiling(a) /\ (a.cause = "business" => SqlCeiling(a) = 0)
  <2>1. /\ SqlCeiling(a) = IF a.cause = "customer" /\ ~a.waived /\ a.late
                           THEN Smaller(Smaller(half, FeeCap), a.loss) ELSE 0
        /\ FeeCeiling(a) = IF a.cause = "customer" /\ a.late /\ ~a.waived
                           THEN Smaller(half, Smaller(FeeCap, a.loss)) ELSE 0
    BY DEF SqlCeiling, FeeCeiling
  <2> HIDE DEF half
  <2>2. Smaller(Smaller(half, FeeCap), a.loss) = Smaller(half, Smaller(FeeCap, a.loss))
    BY <1>1, <1>2 DEF Smaller
  <2> QED
    BY <2>1, <2>2
<1>4. SqlPoolCeiling(a) = RetainedFee(a)
  BY DEF SqlPoolCeiling, RetainedFee
<1>5. a.cause = "business" /\ a.fee <= SqlCeiling(a) /\ a.pool <= SqlPoolCeiling(a) => a.pool = 0
  BY <1>1, <1>3 DEF SqlPoolCeiling, Smaller, OrZero
<1>6. a.pool > 0 <=> a.pool # 0
  BY <1>1
<1>7. /\ AgreedTotal(a.team) \in Nat /\ \A w \in DOMAIN a.team : a.team[w] <= AgreedTotal(a.team)
      /\ ExpenseTotal(a) \in Nat /\ \A w \in DOMAIN a.team : a.expenses[w] <= ExpenseTotal(a)
      /\ \A w \in DOMAIN a.team : a.team[w] \in Nat /\ a.expenses[w] \in Nat
  <2>1. TeamOfCents(a.team) /\ TeamOfCents(a.expenses) /\ DOMAIN a.expenses = DOMAIN a.team
    BY TeamType DEF TeamAssessed
  <2>2. ExpenseTotal(a) = AgreedTotal(a.expenses)
    BY DEF ExpenseTotal, AgreedTotal
  <2>3. \A w \in DOMAIN a.team : a.team[w] \in Nat /\ a.expenses[w] \in Nat
    BY <2>1 DEF TeamOfCents
  <2> QED
    BY <2>1, <2>2, <2>3, TotalOfTeam, EachWithinTotal
<1>8. BusinessTier(a) \in {0, 50, 100}
  BY DEF BusinessTier
<1>9. /\ PaidByCompany(a) <= AgreedTotal(a.team) /\ PaidByCompany(a) \in Int
      /\ BusinessTier(a) = 100 => PaidByCompany(a) = AgreedTotal(a.team)
  BY CompanyPays
<1>10. AgreedTotal(a.team) <= MaxAmount /\ ExpenseTotal(a) <= MaxAmount =>
         /\ \A w \in DOMAIN a.team : a.team[w] <= MaxAmount /\ a.expenses[w] <= MaxAmount
         /\ PaidByCompany(a) <= MaxAmount
  BY <1>1, <1>7, <1>9
<1>11. ASSUME SqlAccepts(a) PROVE JsAccepts(a)
  BY <1>1, <1>3, <1>4, <1>5, <1>10, <1>11 DEF SqlAccepts, JsAccepts
<1>12. ASSUME JsAccepts(a) PROVE SqlAccepts(a) \/ OnlyShareFits(a)
  <2>1. /\ AmountsFit(a) /\ a.fee <= SqlCeiling(a) /\ a.pool <= SqlPoolCeiling(a)
        /\ a.completed + a.pending <= a.receipts /\ TeamSizeFits(a) /\ ExpenseTotal(a) <= MaxAmount
    BY <1>3, <1>4, <1>12 DEF JsAccepts
  <2>2. a.pool > 0 => AgreedTotal(a.team) > 0
    BY <1>1, <1>12 DEF JsAccepts
  <2>3. AgreedTotal(a.team) <= MaxAmount \/ OnlyShareFits(a)
    BY <1>1, <1>7, <1>8, <1>9, <1>12 DEF JsAccepts, OnlyShareFits
  <2> QED
    BY <2>1, <2>2, <2>3 DEF SqlAccepts
<1>13. Remaining(a) = OrZero(a.receipts - a.performed - a.fee - a.completed - a.pending)
  BY <1>1 DEF Remaining, RetainedFee, Smaller, OrZero
<1>14. Remaining(a) \in Nat
  BY <1>1, <1>13 DEF OrZero
<1>15. Refundable(a) = SqlAvailable(a)
  BY <1>1, <1>13 DEF Refundable, SqlAvailable
<1> QED
  BY <1>11, <1>12, <1>15

-----------------------------------------------------------------------------
(* Events and journals *)

LEMMA EntryType ==
  ASSUME TypeOK, NEW u \in Users, NEW k \in Keys, NEW e \in Entries(k, u)
  PROVE  e \in Event
<1>1. role[u] \in Roles
  BY DEF TypeOK
<1>2. \A x \in Refunds : x \in Keys
  <2>1. \A i \in DOMAIN journal : journal[i].key \in Keys
    BY DEF TypeOK, Event
  <2>2. \A p \in InFlight : post[p].event.key \in Keys
    BY DEF TypeOK, InFlight, Sent, Idle, Event
  <2>3. QED
    BY <2>1, <2>2 DEF Refunds, Events
<1>3. QED
  BY <1>1, <1>2, CaseAssumption DEF Entries, Entry, Event, EventTypes, Moves, Spellings

\* What is stored of a request.
LEMMA StoredType ==
  ASSUME TypeOK, NEW p \in Posts, post[p].at = "sent"
  PROVE  /\ Stored(p) \in Event
         /\ Stored(p).role = role[post[p].event.by]
<1> DEFINE e == post[p].event
<1>1. e \in Event /\ role[e.by] \in Roles
  BY DEF TypeOK, Sent, Idle, Event
<1> HIDE DEF e
<1> DEFINE c == [e EXCEPT !.spelled = "stored"]
<1>2. c \in Event
  BY <1>1 DEF Event, Spellings
<1> HIDE DEF c
<1> DEFINE r == role[e.by]
<1>3. r \in Roles
  BY <1>1
<1> HIDE DEF r
<1>4. [c EXCEPT !.role = r] \in Event /\ [c EXCEPT !.role = r].role = r
  BY <1>2, <1>3 DEF Event
<1>5. Stored(p) = [c EXCEPT !.role = r]
  BY DEF Stored, Canonical, c, e, r
<1>6. QED
  BY <1>4, <1>5 DEF e, r

LEMMA AppendedJournal ==
  ASSUME NEW j \in Seq(Event), NEW e \in Event, NEW j2, j2 = Append(j, e)
  PROVE  /\ j2 \in Seq(Event)
         /\ Len(j) \in Nat /\ DOMAIN j = 1..Len(j) /\ DOMAIN j2 = 1..Len(j) + 1
         /\ \A i \in 1..Len(j) : j2[i] = j[i] /\ j[i] \in Event
         /\ j2[Len(j) + 1] = e
BY SMT

-----------------------------------------------------------------------------
(* The inductive invariant *)

LEMMA InitIInv == Init => IInv
<1> SUFFICES ASSUME Init PROVE IInv
  OBVIOUS
<1>1. TypeOK
  BY DEF Init, TypeOK
<1>2. DOMAIN journal = {}
  BY DEF Init
<1>3. QED
  BY <1>1, <1>2 DEF IInv, RecordedOnce, PrepareFirst, Lifecycle

\* A step that records nothing.
LEMMA UnrecordedKeepsIInv ==
  ASSUME IInv, TypeOK', UNCHANGED journal
  PROVE  IInv'
BY DEF IInv, RecordedOnce, PrepareFirst, Lifecycle

LEMMA SendKeepsType ==
  ASSUME TypeOK, NEW p \in Posts, NEW e \in Event, NEW g \in BOOLEAN, Send(p, e, g)
  PROVE  TypeOK' /\ UNCHANGED journal
<1>1. Len(journal) \in Nat
  BY DEF TypeOK
<1>2. [at |-> "sent", page |-> g, seen |-> Len(journal), event |-> e] \in Sent
  BY <1>1 DEF Sent
<1>3. QED
  BY <1>2 DEF TypeOK, Send

LEMMA RecordKeepsIInv ==
  ASSUME IInv, NEW p \in Posts, Record(p)
  PROVE  IInv'
<1> DEFINE e == Stored(p)
           n == Len(journal)
<1>1. e \in Event /\ journal' = Append(journal, e) /\ SqlAllows(journal, e) /\ ~Known(journal, e.key)
  BY StoredType DEF IInv, Record
<1> HIDE DEF e
<1>2. /\ journal' \in Seq(Event)
      /\ n \in Nat /\ DOMAIN journal = 1..n /\ DOMAIN journal' = 1..n + 1
      /\ \A i \in 1..n : journal'[i] = journal[i] /\ journal[i] \in Event
      /\ journal'[n + 1] = e
  BY <1>1, AppendedJournal DEF IInv, TypeOK
<1> HIDE DEF n
<1>3. TypeOK'
  BY <1>2 DEF IInv, TypeOK, Record
<1>4. e.type \in EventTypes
  BY <1>1 DEF Event
<1>5. \A i \in 1..n : journal[i].key # e.key
  BY <1>1, <1>2 DEF Known
<1>6. /\ e.type = "prepare" => n = 0
      /\ e.type = "approve" => \A i \in 1..n : journal[i].type # "approve"
      /\ e.type = "acknowledge" => \A i \in 1..n : journal[i].type # "acknowledge"
      /\ e.type # "prepare" => e.role = "owner"
  <2>1. e.type = "prepare" => journal = <<>>
    BY <1>1 DEF SqlAllows
  <2>2. e.type \in {"approve", "acknowledge"} => ~Has(journal, e.type)
    BY <1>1 DEF SqlAllows
  <2>3. e.type # "prepare" => e.role = "owner"
    BY <1>1 DEF SqlAllows, Permitted
  <2>4. journal = <<>> => n = 0
    BY DEF n
  <2>5. QED
    BY <2>1, <2>2, <2>3, <2>4, <1>2 DEF Has
<1>7. e.type = "reserve_refund" => \E m \in 1..n : journal[m].type = "approve"
  BY <1>1, <1>2 DEF SqlAllows, Has
<1>8. e.type \in Moves =>
        \E m \in 1..n : journal[m].type = "reserve_refund" /\ journal[m].key = e.refund
  BY <1>1, <1>2 DEF SqlAllows, Reservation, Moves
<1>9. e.type # "prepare" => n > 0
  <2>1. e.type \in {"approve", "acknowledge"} => Has(journal, "prepare")
    BY <1>1 DEF SqlAllows
  <2>2. QED
    BY <2>1, <1>2, <1>4, <1>7, <1>8 DEF Has, EventTypes
<1>10. RecordedOnce'
  BY <1>2, <1>4, <1>5, <1>6 DEF IInv, RecordedOnce, EventTypes
<1>11. PrepareFirst'
  BY <1>2, <1>6, <1>9 DEF IInv, PrepareFirst
<1>12. e.type \in Moves => \A i \in 1..n :
         journal[i].type \in Moves /\ journal[i].refund = e.refund =>
           e.type = "complete_refund" /\ journal[i].type = "submit_refund"
  <2> SUFFICES ASSUME e.type \in Moves, NEW i \in 1..n,
                      journal[i].type \in Moves, journal[i].refund = e.refund
               PROVE  e.type = "complete_refund" /\ journal[i].type = "submit_refund"
    OBVIOUS
  <2>1. i \in MovesOf(journal, e.refund)
    BY <1>2 DEF MovesOf
  <2>2. e.type = "complete_refund"
    BY <1>1, <2>1 DEF SqlAllows, Unmoved, Moves
  <2>3. LastMove(journal, e.refund, "submit_refund")
    BY <1>1, <2>2 DEF SqlAllows
  <2>4. PICK m \in MovesOf(journal, e.refund) :
          journal[m].type = "submit_refund" /\ \A l \in MovesOf(journal, e.refund) : l <= m
    BY <2>3 DEF LastMove
  <2>5. m \in 1..n /\ journal[m].type \in Moves /\ journal[m].refund = e.refund /\ i <= m
    BY <2>1, <2>4, <1>2 DEF MovesOf
  <2>6. i < m => journal[m].type = "complete_refund"
    BY <2>5, <1>2 DEF IInv, Lifecycle
  <2>7. i = m
    BY <2>4, <2>5, <2>6, <1>2
  <2>8. QED
    BY <2>2, <2>4, <2>7
<1>13. e.type = "complete_refund" =>
         \E m \in 1..n : journal[m].type = "submit_refund" /\ journal[m].refund = e.refund
  BY <1>1, <1>2 DEF SqlAllows, LastMove, MovesOf
<1>14. \A m \in 1..n : journal[m].type = "approve" => journal[m].role = "owner"
  BY <1>2 DEF IInv, PrepareFirst
<1>15. Lifecycle'
  <2> SUFFICES ASSUME NEW i \in 1..n + 1, NEW l \in 1..n + 1
               PROVE  /\ journal'[i].type = "reserve_refund" =>
                           \E m \in 1..i - 1 : journal'[m].type = "approve" /\ journal'[m].role = "owner"
                      /\ journal'[i].type \in Moves =>
                           /\ \E m \in 1..i - 1 : journal'[m].type = "reserve_refund"
                                                  /\ journal'[m].key = journal'[i].refund
                           /\ journal'[i].role = "owner"
                      /\ i < l /\ {journal'[i].type, journal'[l].type} \subseteq Moves
                           /\ journal'[i].refund = journal'[l].refund =>
                           journal'[i].type = "submit_refund" /\ journal'[l].type = "complete_refund"
                      /\ journal'[i].type = "complete_refund" =>
                           \E m \in 1..i - 1 : journal'[m].type = "submit_refund"
                                               /\ journal'[m].refund = journal'[i].refund
    BY <1>2 DEF Lifecycle
  <2>1. CASE i \in 1..n /\ l \in 1..n
    BY <2>1, <1>2 DEF IInv, Lifecycle
  <2>2. CASE i = n + 1
    BY <2>2, <1>2, <1>6, <1>7, <1>8, <1>13, <1>14 DEF Moves
  <2>3. CASE i \in 1..n /\ l = n + 1
    <3>1. i < l /\ {journal'[i].type, journal'[l].type} \subseteq Moves
            /\ journal'[i].refund = journal'[l].refund =>
          journal'[i].type = "submit_refund" /\ journal'[l].type = "complete_refund"
      BY <2>3, <1>2, <1>12
    <3>2. QED
      BY <2>3, <3>1, <1>2 DEF IInv, Lifecycle
  <2>4. QED
    BY <2>1, <2>2, <2>3, <1>2
<1>16. QED
  BY <1>3, <1>10, <1>11, <1>15 DEF IInv

LEMMA StepIInv == IInv /\ [Next]_vars => IInv'
<1> SUFFICES ASSUME IInv, [Next]_vars PROVE IInv'
  OBVIOUS
<1>1. ASSUME NEW p \in Posts, Submit(p) PROVE IInv'
  <2>1. PICK u \in Users, k \in Keys : \E e \in Entries(k, u) : Send(p, e, TRUE)
    BY <1>1 DEF Submit
  <2>2. QED
    BY <2>1, EntryType, SendKeepsType, UnrecordedKeepsIInv DEF IInv
<1>2. ASSUME NEW p \in Posts, Call(p) PROVE IInv'
  <2>1. PICK u \in Users, k \in Keys : \E e \in Entries(k, u) : Send(p, e, FALSE)
    BY <1>2 DEF Call
  <2>2. QED
    BY <2>1, EntryType, SendKeepsType, UnrecordedKeepsIInv DEF IInv
<1>3. ASSUME NEW p \in Posts, Record(p) PROVE IInv'
  BY <1>3, RecordKeepsIInv
<1>4. ASSUME NEW p \in Posts, Drop(p) PROVE IInv'
  BY <1>4, UnrecordedKeepsIInv DEF IInv, TypeOK, Drop
<1>5. ASSUME NEW u \in Users, NEW r \in Roles, ChangeRole(u, r) PROVE IInv'
  BY <1>5, UnrecordedKeepsIInv DEF IInv, TypeOK, ChangeRole
<1>6. ASSUME NEW u \in Users, ApprovePolicy(u) PROVE IInv'
  BY <1>6, UnrecordedKeepsIInv DEF IInv, TypeOK, ApprovePolicy
<1>7. ASSUME NEW b \in Booking, ChangeBooking(b) PROVE IInv'
  BY <1>7, UnrecordedKeepsIInv DEF IInv, TypeOK, ChangeBooking
<1>8. CASE UNCHANGED vars
  BY <1>8, UnrecordedKeepsIInv DEF IInv, TypeOK, vars
<1>9. QED
  BY <1>1, <1>2, <1>3, <1>4, <1>5, <1>6, <1>7, <1>8 DEF Next

(* For every number of users, keys and requests at once, the journal starts  *)
(* with its assessment and holds every key, and the approval, once.          *)
THEOREM JournalInvariant == Spec => []IInv
<1>1. QED
  BY InitIInv, StepIInv, PTL DEF Spec

(* A refund is reserved only after an owner's approval, submitted or         *)
(* released but not both, and completed only after it was submitted.         *)
THEOREM RefundLifecycle == Spec => []Lifecycle
<1>1. IInv => Lifecycle
  BY DEF IInv
<1>2. QED
  BY JournalInvariant, <1>1, PTL

-----------------------------------------------------------------------------
(* The journal implements the ledger *)

\* What the queries over the journal say after one more event.
LEMMA RecordedView ==
  ASSUME IInv, NEW p \in Posts, Record(p), NEW e, e = Stored(p)
  PROVE  /\ e \in Event /\ SqlAllows(journal, e) /\ ~Known(journal, e.key)
         /\ \A t : Has(journal', t) <=> Has(journal, t) \/ e.type = t
         /\ \A k : Reservation(journal', k) = {} <=>
              Reservation(journal, k) = {} /\ ~(e.type = "reserve_refund" /\ e.key = k)
         /\ \A k, t : t \in Moves =>
              (Moved(journal', k, t) <=> Moved(journal, k, t) \/ (e.type = t /\ e.refund = k))
         /\ \A k : AmountOf(journal', k) =
              IF e.type = "reserve_refund" /\ e.key = k THEN e.amount ELSE AmountOf(journal, k)
         /\ journal # <<>> => FactsOf(journal') = FactsOf(journal)
<1> DEFINE n == Len(journal)
<1>1. e \in Event /\ journal' = Append(journal, e) /\ SqlAllows(journal, e) /\ ~Known(journal, e.key)
  BY StoredType DEF IInv, Record
<1>2. /\ n \in Nat /\ DOMAIN journal = 1..n /\ DOMAIN journal' = 1..n + 1
      /\ \A i \in 1..n : journal'[i] = journal[i] /\ journal[i] \in Event
      /\ journal'[n + 1] = e
  BY <1>1, AppendedJournal DEF IInv, TypeOK
<1>3. journal # <<>> => n > 0
  BY DEF IInv, TypeOK, n
<1> HIDE DEF n
<1>4. \A t : Has(journal', t) <=> Has(journal, t) \/ e.type = t
  BY <1>2 DEF Has
<1>5. \A k : Reservation(journal', k) =
        Reservation(journal, k) \cup (IF e.type = "reserve_refund" /\ e.key = k THEN {n + 1} ELSE {})
  BY <1>2 DEF Reservation
<1>6. \A k, t : t \in Moves =>
        (Moved(journal', k, t) <=> Moved(journal, k, t) \/ (e.type = t /\ e.refund = k))
  BY <1>2 DEF Moved, MovesOf
<1>7. e.type = "reserve_refund" => Reservation(journal, e.key) = {}
  BY <1>1 DEF Known, Reservation
<1>8. ASSUME NEW k
      PROVE  AmountOf(journal', k) =
               IF e.type = "reserve_refund" /\ e.key = k THEN e.amount ELSE AmountOf(journal, k)
  <2>1. CASE e.type = "reserve_refund" /\ e.key = k
    <3>1. Reservation(journal', k) = {n + 1}
      BY <2>1, <1>5, <1>7
    <3>2. QED
      BY <2>1, <3>1, <1>2 DEF AmountOf
  <2>2. CASE ~(e.type = "reserve_refund" /\ e.key = k)
    <3>1. Reservation(journal', k) = Reservation(journal, k)
      BY <2>2, <1>5
    <3>2. \A i \in Reservation(journal, k) : journal'[i] = journal[i]
      BY <1>2 DEF Reservation
    <3>3. QED
      BY <2>2, <3>1, <3>2 DEF AmountOf
  <2>3. QED
    BY <2>1, <2>2
<1>9. ASSUME journal # <<>> PROVE FactsOf(journal') = FactsOf(journal)
  <2>1. (CHOOSE i \in DOMAIN journal : journal[i].type = "prepare") = 1
    BY <1>2, <1>3, <1>9 DEF IInv, PrepareFirst
  <2>2. IInv'
    BY RecordKeepsIInv
  <2>3. (CHOOSE i \in DOMAIN journal' : journal'[i].type = "prepare") = 1
    BY <2>2, <1>2 DEF IInv, PrepareFirst
  <2>4. FactsOf(journal) = journal[1].facts
    BY <2>1 DEF FactsOf
  <2>5. FactsOf(journal') = journal'[1].facts
    BY <2>3 DEF FactsOf
  <2>6. QED
    BY <2>4, <2>5, <1>2, <1>3, <1>9
<1>10. QED
  BY <1>1, <1>4, <1>5, <1>6, <1>8, <1>9

LEMMA FactsType ==
  ASSUME IInv, Has(journal, "prepare")
  PROVE  FactsOf(journal) \in Facts
<1>1. PICK i \in DOMAIN journal : journal[i].type = "prepare"
  BY DEF Has
<1>2. \A m \in DOMAIN journal : journal[m] \in Event
  BY DEF IInv, TypeOK
<1>3. QED
  BY <1>1, <1>2 DEF FactsOf, Event

\* A refund that was never reserved was never moved.
LEMMA UnreservedUnmoved ==
  ASSUME IInv, NEW k, Reservation(journal, k) = {}, NEW t
  PROVE  ~Moved(journal, k, t)
<1>1. DOMAIN journal = 1..Len(journal) /\ Len(journal) \in Nat
  BY DEF IInv, TypeOK
<1>2. QED
  BY <1>1 DEF IInv, Lifecycle, Moved, MovesOf, Reservation

LEMMA HeldIsOutstanding == Ledger!Total = Reserved(journal)
<1>1. Ledger!Held = Outstanding(journal)
  BY DEF Ledger!Held, Outstanding, PhaseOf
<1>2. \A f, S : Ledger!SumOver(f, S) = SumOver(f, S)
  BY DEF Ledger!SumOver, SumOver, MapThenSumSet, Ledger!MapThenSumSet,
         MapThenFoldSet, Ledger!MapThenFoldSet
<1>3. QED
  BY <1>1, <1>2 DEF Ledger!Total, Reserved

LEMMA InitRefines == Init => Ledger!Init
<1> SUFFICES ASSUME Init PROVE Ledger!Init
  OBVIOUS
<1>1. DOMAIN journal = {}
  BY DEF Init
<1>2. LimitOf = -1
  BY <1>1 DEF LimitOf, Has
<1>3. \A k : Reservation(journal, k) = {}
  BY <1>1 DEF Reservation
<1>4. QED
  BY <1>2, <1>3 DEF Ledger!Init, PhaseOf, AmountOf

LEMMA RecordRefines ==
  ASSUME IInv, NEW p \in Posts, Record(p)
  PROVE  Ledger!Next \/ UNCHANGED <<LimitOf, [k \in Keys |-> PhaseOf(k)], [k \in Keys |-> AmountOf(journal, k)]>>
<1> DEFINE phase == [k \in Keys |-> PhaseOf(k)]
           amount == [k \in Keys |-> AmountOf(journal, k)]
<1>0. PICK e : e = Stored(p)
  OBVIOUS
<1>1. /\ e \in Event /\ SqlAllows(journal, e) /\ ~Known(journal, e.key)
      /\ \A t : Has(journal', t) <=> Has(journal, t) \/ e.type = t
      /\ \A k : Reservation(journal', k) = {} <=>
           Reservation(journal, k) = {} /\ ~(e.type = "reserve_refund" /\ e.key = k)
      /\ \A k, t : t \in Moves =>
           (Moved(journal', k, t) <=> Moved(journal, k, t) \/ (e.type = t /\ e.refund = k))
      /\ \A k : AmountOf(journal', k) =
           IF e.type = "reserve_refund" /\ e.key = k THEN e.amount ELSE AmountOf(journal, k)
      /\ journal # <<>> => FactsOf(journal') = FactsOf(journal)
  BY <1>0, RecordedView
<1>2. e.type \in EventTypes
  BY <1>1 DEF Event
<1>3. Has(journal, "approve") => journal # <<>>
  BY DEF Has
<1>4. e.type # "approve" => LimitOf' = LimitOf
  BY <1>1, <1>3 DEF LimitOf
<1>5. e.type # "reserve_refund" => amount' = amount
  BY <1>1
<1>6. e.type \in {"prepare", "approve", "acknowledge"} => phase' = phase
  <2>1. e.type \in {"prepare", "approve", "acknowledge"} => e.type # "reserve_refund" /\ e.type \notin Moves
    BY DEF Moves
  <2>2. QED
    BY <2>1, <1>1 DEF PhaseOf, Moves
<1>7. CASE e.type \in {"prepare", "acknowledge"}
  BY <1>4, <1>5, <1>6, <1>7
<1>8. CASE e.type = "approve"
  <2>1. Has(journal, "prepare") /\ ~Has(journal, "approve")
    BY <1>1, <1>8 DEF SqlAllows
  <2>2. journal # <<>>
    BY <2>1 DEF Has
  <2>3. LimitOf = -1 /\ LimitOf' = SqlAvailable(FactsOf(journal))
    BY <2>1, <2>2, <1>1, <1>8 DEF LimitOf
  <2>4. LimitOf' \in Nat
    BY <2>1, <2>3, FactsType, AvailableType, TeamType
  <2>5. QED
    BY <2>3, <2>4, <1>5, <1>6, <1>8 DEF Ledger!Next, Ledger!Approve
<1>9. CASE e.type = "reserve_refund"
  <2>1. Has(journal, "approve") /\ e.amount \in 1..SqlAvailable(FactsOf(journal)) - Reserved(journal)
    BY <1>1, <1>9 DEF SqlAllows
  <2>2. e.key \in Keys /\ Reservation(journal, e.key) = {}
    BY <1>1 DEF Event, Known, Reservation
  <2>3. e.amount \in 1..LimitOf - Ledger!Total
    BY <2>1, HeldIsOutstanding DEF LimitOf
  <2>4. amount' = [amount EXCEPT ![e.key] = e.amount]
    BY <1>1, <1>9
  <2>5. \A k, t : t \in Moves => (Moved(journal', k, t) <=> Moved(journal, k, t))
    BY <1>1, <1>9 DEF Moves
  <2>6. phase[e.key] = "none"
    BY <2>2 DEF PhaseOf
  <2>7. phase' = [phase EXCEPT ![e.key] = "reserved"]
    <3>1. PhaseOf(e.key)' = "reserved"
      BY <2>2, <2>5, <1>1, <1>9, UnreservedUnmoved DEF PhaseOf, Moves
    <3>2. \A k \in Keys : k # e.key => PhaseOf(k)' = PhaseOf(k)
      BY <2>5, <1>1 DEF PhaseOf, Moves
    <3>3. QED
      BY <2>2, <3>1, <3>2
  <2>8. QED
    BY <2>2, <2>3, <2>4, <2>6, <2>7, <1>4, <1>9 DEF Ledger!Next, Ledger!Reserve
<1>10. CASE e.type \in Moves
  <2>1. Reservation(journal, e.refund) # {}
    BY <1>1, <1>10 DEF SqlAllows, Moves
  <2>2. e.refund \in Keys
    <3>1. PICK i \in DOMAIN journal : journal[i].key = e.refund
      BY <2>1 DEF Reservation
    <3>2. QED
      BY <3>1 DEF IInv, TypeOK, Event
  <2>3. e.type # "reserve_refund"
    BY <1>10 DEF Moves
  <2>4. \A k \in Keys : k # e.refund => PhaseOf(k)' = PhaseOf(k)
    BY <2>3, <1>1 DEF PhaseOf, Moves
  <2>5. LimitOf' = LimitOf /\ amount' = amount
    BY <2>3, <1>4, <1>5, <1>10 DEF Moves
  <2>6. CASE e.type \in {"submit_refund", "release_refund"}
    <3>1. \A t : ~Moved(journal, e.refund, t)
      BY <1>1, <2>6 DEF SqlAllows, Unmoved, Moved
    <3>2. PhaseOf(e.refund) = "reserved"
      BY <2>1, <3>1 DEF PhaseOf
    <3>3. PhaseOf(e.refund)' = IF e.type = "submit_refund" THEN "submitted" ELSE "released"
      BY <2>1, <2>3, <2>6, <3>1, <1>1 DEF PhaseOf, Moves
    <3>4. phase' = [phase EXCEPT ![e.refund] = IF e.type = "submit_refund" THEN "submitted" ELSE "released"]
      BY <2>2, <2>4, <3>3
    <3>5. Ledger!Move(e.refund, "reserved", "submitted") \/ Ledger!Move(e.refund, "reserved", "released")
      BY <2>2, <2>5, <2>6, <3>2, <3>4 DEF Ledger!Move
    <3>6. QED
      BY <2>2, <3>5 DEF Ledger!Next
  <2>7. CASE e.type = "complete_refund"
    <3>1. LastMove(journal, e.refund, "submit_refund")
      BY <1>1, <2>7 DEF SqlAllows
    <3>2. PICK i \in MovesOf(journal, e.refund) :
            journal[i].type = "submit_refund" /\ \A m \in MovesOf(journal, e.refund) : m <= i
      BY <3>1 DEF LastMove
    <3>3. DOMAIN journal = 1..Len(journal) /\ Len(journal) \in Nat
      BY DEF IInv, TypeOK
    <3>4. \A m \in MovesOf(journal, e.refund) : m = i
      <4> SUFFICES ASSUME NEW m \in MovesOf(journal, e.refund), m < i PROVE FALSE
        BY <3>2, <3>3 DEF MovesOf
      <4>1. journal[i].type = "complete_refund"
        BY <3>2, <3>3 DEF MovesOf, IInv, Lifecycle
      <4>2. QED
        BY <4>1, <3>2
    <3>5. \A t : Moved(journal, e.refund, t) <=> t = "submit_refund"
      BY <3>2, <3>4 DEF Moved
    <3>6. PhaseOf(e.refund) = "submitted" /\ PhaseOf(e.refund)' = "completed"
      BY <2>1, <2>3, <2>7, <3>5, <1>1 DEF PhaseOf, Moves
    <3>7. phase' = [phase EXCEPT ![e.refund] = "completed"]
      BY <2>2, <2>4, <3>6
    <3>8. Ledger!Move(e.refund, "submitted", "completed")
      BY <2>2, <2>5, <3>6, <3>7 DEF Ledger!Move
    <3>9. QED
      BY <2>2, <3>8 DEF Ledger!Next
  <2>8. QED
    BY <2>6, <2>7, <1>10 DEF Moves
<1>11. QED
  BY <1>2, <1>7, <1>8, <1>9, <1>10 DEF EventTypes

LEMMA StepRefines ==
  IInv /\ [Next]_vars =>
    Ledger!Next \/ UNCHANGED <<LimitOf, [k \in Keys |-> PhaseOf(k)], [k \in Keys |-> AmountOf(journal, k)]>>
<1> SUFFICES ASSUME IInv, [Next]_vars
             PROVE  Ledger!Next \/ UNCHANGED <<LimitOf, [k \in Keys |-> PhaseOf(k)], [k \in Keys |-> AmountOf(journal, k)]>>
  OBVIOUS
<1>1. ASSUME NEW p \in Posts, Record(p)
      PROVE  Ledger!Next \/ UNCHANGED <<LimitOf, [k \in Keys |-> PhaseOf(k)], [k \in Keys |-> AmountOf(journal, k)]>>
  BY <1>1, RecordRefines
<1>2. CASE UNCHANGED journal
  BY <1>2 DEF LimitOf, PhaseOf
<1>3. (\A p \in Posts : ~Record(p)) => UNCHANGED journal
  BY DEF Next, Submit, Call, Send, Drop, ChangeRole, ApprovePolicy, ChangeBooking, vars
<1>4. QED
  BY <1>1, <1>2, <1>3

(* With pages, keys and retries out of sight the journal is the ledger: what *)
(* is set aside stays within the approved amount, and refunds move forward.  *)
THEOREM JournalKeepsLedger == Spec => KeepsLedger
<1>1. QED
  BY InitRefines, StepRefines, JournalInvariant, PTL DEF Spec, KeepsLedger, Ledger!Spec

-----------------------------------------------------------------------------
(* The page reads what the database keeps *)

\* What a replay may find.
Pages ==
  [ok : BOOLEAN, status : {"none", "prepared", "approved"}, facts : Facts \cup {NoFacts},
   acknowledged : BOOLEAN, phase : [Keys -> {"none", "reserved", "submitted", "completed", "released"}],
   amount : [Keys -> Nat]]

ReadSteps == [e \in Event |-> [s \in Pages |-> JsStep(s, e)]]

\* The recursion Read unfolds to.
ReadAlong(j) ==
  CHOOSE iter : iter = [s \in SUBSET DOMAIN j |->
                          IF s = {} THEN Unread ELSE JsStep(iter[s \ {Max(s)}], j[Max(s)])]

LEMMA UnreadType == Unread \in Pages
BY DEF Unread, Pages

LEMMA JsStepType ==
  ASSUME NEW s \in Pages, NEW e \in Event
  PROVE  JsStep(s, e) \in Pages
<1>1. [s EXCEPT !.ok = FALSE] \in Pages
  BY DEF Pages
<1>2. ASSUME JsAllows(s, e) PROVE JsApply(s, e) \in Pages
  <2>1. e.type \in EventTypes /\ e.key \in Keys /\ e.amount \in Nat /\ (e.type = "prepare" => e.facts \in Facts)
    BY DEF Event
  <2>2. CASE e.type \in {"prepare", "approve", "acknowledge"}
    <3>1. /\ [s EXCEPT !.status = "approved"] \in Pages /\ [s EXCEPT !.acknowledged = TRUE] \in Pages
          /\ e.type = "prepare" => [s EXCEPT !.status = "prepared", !.facts = e.facts] \in Pages
      BY <2>1 DEF Pages
    <3> QED
      BY <2>2, <3>1 DEF JsApply, Moves
  <2>3. CASE e.type = "reserve_refund"
    <3>1. [s EXCEPT !.phase[e.key] = "reserved", !.amount[e.key] = e.amount] \in Pages
      BY <2>1 DEF Pages
    <3> QED
      BY <2>3, <3>1 DEF JsApply, Moves
  <2>4. CASE e.type \in Moves
    <3>1. PhaseAfter[e.type] \in {"submitted", "completed", "released"}
      BY <2>4 DEF PhaseAfter, Moves
    <3>2. [s EXCEPT !.phase[e.refund] = PhaseAfter[e.type]] \in Pages
      BY <3>1 DEF Pages
    <3> QED
      BY <2>4, <3>2 DEF JsApply, Moves
  <2> QED
    BY <2>1, <2>2, <2>3, <2>4 DEF EventTypes
<1> QED
  BY <1>1, <1>2 DEF JsStep

LEMMA ReadSolved ==
  ASSUME NEW j \in Seq(Event)
  PROVE  Read(j) = ReadAlong(j)[DOMAIN j] /\ GoesAlong(ReadAlong(j), ReadSteps, Pages, Unread, j)
<1> DEFINE D == DOMAIN j
           Body(g) == [s \in SUBSET D |-> IF s = {} THEN Unread ELSE JsStep(g[s \ {Max(s)}], j[Max(s)])]
           h == ReadAlong(j)
<1>1. ReadSteps \in [Event -> [Pages -> Pages]]
  BY JsStepType DEF ReadSteps
<1>2. PICK g \in [SUBSET D -> Pages] : GoesAlong(g, ReadSteps, Pages, Unread, j)
  BY <1>1, UnreadType, AlongExists
<1>3. ASSUME NEW f, NEW s \in SUBSET D, s # {}, f[s \ {Max(s)}] \in Pages
      PROVE  ReadSteps[j[Max(s)]][f[s \ {Max(s)}]] = JsStep(f[s \ {Max(s)}], j[Max(s)])
  <2>1. Max(s) \in s
    BY <1>1, <1>3, UnreadType, AlongSteps
  <2>2. j[Max(s)] \in Event
    BY <2>1
  <2> QED
    BY <1>3, <2>2 DEF ReadSteps
<1>4. g = Body(g)
  <2>1. ASSUME NEW s \in SUBSET D PROVE g[s] = IF s = {} THEN Unread ELSE JsStep(g[s \ {Max(s)}], j[Max(s)])
    <3>1. g[s \ {Max(s)}] \in Pages
      BY <1>2
    <3> QED
      BY <1>2, <1>3, <3>1 DEF GoesAlong
  <2> QED
    BY <2>1
<1>5. h = Body(h)
  BY <1>4 DEF ReadAlong
<1>6. GoesAlong(h, ReadSteps, Pages, Unread, j)
  <2> SUFFICES ASSUME NEW s \in SUBSET D
               PROVE  /\ s = {} => h[s] = Unread
                      /\ s # {} /\ h[s \ {Max(s)}] \in Pages => h[s] = ReadSteps[j[Max(s)]][h[s \ {Max(s)}]]
    BY DEF GoesAlong
  <2> HIDE DEF h
  <2>1. h[s] = IF s = {} THEN Unread ELSE JsStep(h[s \ {Max(s)}], j[Max(s)])
    BY <1>5
  <2> QED
    BY <1>3, <2>1
<1>7. Read(j) = h[D]
  BY DEF Read, ReadAlong, FoldLeft, MapThenFoldSet
<1> QED
  BY <1>6, <1>7

LEMMA ReadAppend ==
  ASSUME NEW j \in Seq(Event), NEW e \in Event
  PROVE  Read(j) \in Pages /\ Read(Append(j, e)) = JsStep(Read(j), e)
<1>1. ReadSteps \in [Event -> [Pages -> Pages]]
  BY JsStepType DEF ReadSteps
<1>2. Append(j, e) \in Seq(Event)
  OBVIOUS
<1> DEFINE more == Append(j, e)
           g == ReadAlong(j)
           h == ReadAlong(more)
<1>3. GoesAlong(g, ReadSteps, Pages, Unread, j) /\ Read(j) = g[DOMAIN j]
  BY ReadSolved
<1>4. GoesAlong(h, ReadSteps, Pages, Unread, Append(j, e)) /\ Read(more) = h[DOMAIN more]
  BY <1>2, ReadSolved
<1> HIDE DEF g, h
<1>5. g[DOMAIN j] \in Pages /\ h[DOMAIN Append(j, e)] = ReadSteps[e][g[DOMAIN j]]
  BY <1>1, <1>3, <1>4, UnreadType, AlongAppend
<1> QED
  BY <1>3, <1>4, <1>5 DEF ReadSteps

LEMMA ReadNone == Read(<< >>) = Unread
<1>1. << >> \in Seq(Event)
  OBVIOUS
<1>2. GoesAlong(ReadAlong(<< >>), ReadSteps, Pages, Unread, << >>) /\ Read(<< >>) = ReadAlong(<< >>)[DOMAIN << >>]
  BY <1>1, ReadSolved
<1> QED
  BY <1>2, AlongNone

\* What the replay found is what the queries over the journal answer.
ReadFits(s) ==
  /\ s \in Pages /\ s.ok = TRUE
  /\ s.status = IF Has(journal, "approve") THEN "approved" ELSE IF journal # << >> THEN "prepared" ELSE "none"
  /\ journal # << >> => s.facts = FactsOf(journal)
  /\ (s.acknowledged = TRUE) <=> Has(journal, "acknowledge")
  /\ \A k \in Keys : s.phase[k] = PhaseOf(k) /\ s.amount[k] = AmountOf(journal, k)

LEMMA JournalBegins ==
  ASSUME IInv
  PROVE  journal # << >> <=> Has(journal, "prepare")
<1>1. DOMAIN journal = 1..Len(journal) /\ Len(journal) \in Nat /\ (Len(journal) = 0 <=> journal = << >>)
  BY DEF IInv, TypeOK
<1>2. \A i \in DOMAIN journal : journal[i].type = "prepare" <=> i = 1
  BY DEF IInv, PrepareFirst
<1>3. journal # << >> => 1 \in DOMAIN journal
  BY <1>1
<1> QED
  BY <1>1, <1>2, <1>3 DEF Has

LEMMA MoneyFits ==
  ASSUME NEW s, ReadFits(s)
  PROVE  JsReserved(s) = Reserved(journal)
<1>1. s.amount = [k \in Keys |-> AmountOf(journal, k)]
  BY DEF ReadFits, Pages
<1>2. {k \in Keys : s.phase[k] \notin {"none", "released"}} = Outstanding(journal)
  BY DEF ReadFits, PhaseOf, Outstanding
<1> QED
  BY <1>1, <1>2 DEF JsReserved, Reserved

\* Only a refund that waits for the customer's money was last submitted.
LEMMA LastSubmitted ==
  ASSUME IInv, NEW k \in Keys, Reservation(journal, k) # {}
  PROVE  /\ LastMove(journal, k, "submit_refund") <=> PhaseOf(k) = "submitted"
         /\ Unmoved(journal, k) <=> PhaseOf(k) = "reserved"
<1> DEFINE M == MovesOf(journal, k)
<1>1. DOMAIN journal = 1..Len(journal) /\ Len(journal) \in Nat
  BY DEF IInv, TypeOK
<1>2. \A i \in M : i \in Nat /\ i \in DOMAIN journal /\ journal[i].type \in Moves /\ journal[i].refund = k
  BY <1>1 DEF MovesOf
<1>3. \A i, n \in M : i < n => journal[i].type = "submit_refund" /\ journal[n].type = "complete_refund"
  BY <1>2 DEF IInv, Lifecycle
<1>4. \A t : Moved(journal, k, t) <=> \E i \in M : journal[i].type = t
  BY DEF Moved
<1>5. PhaseOf(k) = IF Moved(journal, k, "release_refund") THEN "released"
                   ELSE IF Moved(journal, k, "complete_refund") THEN "completed"
                   ELSE IF Moved(journal, k, "submit_refund") THEN "submitted" ELSE "reserved"
  BY DEF PhaseOf
<1>6. Unmoved(journal, k) <=> M = {}
  BY DEF Unmoved
<1>7. LastMove(journal, k, "submit_refund") <=>
        \E i \in M : journal[i].type = "submit_refund" /\ \A n \in M : n <= i
  BY DEF LastMove
<1> HIDE DEF M
<1>8. LastMove(journal, k, "submit_refund") => PhaseOf(k) = "submitted"
  <2> SUFFICES ASSUME NEW i \in M, journal[i].type = "submit_refund", \A n \in M : n <= i
               PROVE  PhaseOf(k) = "submitted"
    BY <1>7
  <2>1. \A n \in M : n = i
    BY <1>2, <1>3
  <2> QED
    BY <1>4, <1>5, <2>1
<1>9. PhaseOf(k) = "submitted" => LastMove(journal, k, "submit_refund")
  <2> SUFFICES ASSUME PhaseOf(k) = "submitted" PROVE LastMove(journal, k, "submit_refund")
    OBVIOUS
  <2>1. \A i \in M : journal[i].type # "complete_refund"
    BY <1>4, <1>5
  <2>2. PICK i \in M : journal[i].type = "submit_refund"
    BY <1>4, <1>5
  <2>3. \A n \in M : n <= i
    BY <1>2, <1>3, <2>1
  <2> QED
    BY <1>7, <2>2, <2>3
<1>10. Unmoved(journal, k) <=> PhaseOf(k) = "reserved"
  BY <1>2, <1>4, <1>5, <1>6 DEF Moves
<1> QED
  BY <1>8, <1>9, <1>10

\* The page and the database decide alike about an event in its stored form,
\* but for what only the database asks of a new case.
LEMMA AllowedAlike ==
  ASSUME IInv, NEW s, ReadFits(s), NEW e \in Event, e.spelled = "stored",
         e.type \in Moves => e.refund \in Keys
  PROVE  /\ SqlAllows(journal, e) => JsAllows(s, e)
         /\ JsAllows(s, e) =>
              \/ SqlAllows(journal, e)
              \/ e.type = "prepare" /\ (~Reviewable(e.facts) \/ OnlyShareFits(e.facts))
<1>1. e.type \in EventTypes /\ (e.type = "prepare" => e.facts \in Facts)
  BY DEF Event
<1>2. journal # << >> <=> Has(journal, "prepare")
  BY JournalBegins
<1>3. Has(journal, "approve") => journal # << >>
  BY DEF Has
<1>4. CASE e.type = "prepare"
  <2>1. e.facts \in Facts
    BY <1>1, <1>4
  <2>2. /\ SqlAccepts(e.facts) => JsAccepts(e.facts)
        /\ JsAccepts(e.facts) => SqlAccepts(e.facts) \/ OnlyShareFits(e.facts)
    BY <2>1, SqlWithinJs
  <2>3. s.status = "none" <=> journal = << >>
    BY <1>3 DEF ReadFits
  <2> QED
    BY <1>4, <2>2, <2>3 DEF JsAllows, SqlAllows, Moves
<1>5. CASE e.type = "approve"
  BY <1>2, <1>5 DEF JsAllows, SqlAllows, ReadFits
<1>6. CASE e.type = "acknowledge"
  <2>1. s.status \in {"prepared", "approved"} <=> Has(journal, "prepare")
    BY <1>2, <1>3 DEF ReadFits
  <2>2. s.acknowledged \in BOOLEAN /\ ((s.acknowledged = TRUE) <=> Has(journal, "acknowledge"))
    BY DEF ReadFits, Pages
  <2> QED
    BY <1>6, <2>1, <2>2 DEF JsAllows, SqlAllows
<1>7. CASE e.type = "reserve_refund"
  <2>1. s.status = "approved" <=> Has(journal, "approve")
    BY DEF ReadFits
  <2>2. ASSUME Has(journal, "approve")
        PROVE  Refundable(s.facts) - JsReserved(s) = SqlAvailable(FactsOf(journal)) - Reserved(journal)
    <3>1. s.facts = FactsOf(journal) /\ FactsOf(journal) \in Facts
      BY <1>2, <1>3, <2>2, FactsType DEF ReadFits
    <3>2. Refundable(s.facts) = SqlAvailable(FactsOf(journal))
      BY <3>1, SqlWithinJs
    <3> QED
      BY <3>2, MoneyFits
  <2> QED
    BY <1>7, <2>1, <2>2 DEF JsAllows, SqlAllows
<1>8. CASE e.type \in Moves
  <2>1. e.refund \in Keys /\ s.phase[e.refund] = PhaseOf(e.refund)
    BY <1>8 DEF ReadFits
  <2>2. Reservation(journal, e.refund) = {} => PhaseOf(e.refund) = "none"
    BY DEF PhaseOf
  <2>3. Reservation(journal, e.refund) # {} =>
          /\ LastMove(journal, e.refund, "submit_refund") <=> PhaseOf(e.refund) = "submitted"
          /\ Unmoved(journal, e.refund) <=> PhaseOf(e.refund) = "reserved"
    BY <2>1, LastSubmitted
  <2>4. CASE e.type = "complete_refund"
    BY <2>1, <2>2, <2>3, <2>4 DEF JsAllows, SqlAllows
  <2>5. CASE e.type \in {"submit_refund", "release_refund"}
    BY <2>1, <2>2, <2>3, <2>5 DEF JsAllows, SqlAllows
  <2> QED
    BY <1>8, <2>4, <2>5 DEF Moves
<1> QED
  BY <1>1, <1>4, <1>5, <1>6, <1>7, <1>8 DEF EventTypes

\* What an event does to the refunds' phases.
LEMMA RecordedPhases ==
  ASSUME IInv, NEW p \in Posts, Record(p), NEW e, e = Stored(p), NEW k \in Keys
  PROVE  PhaseOf(k)' = IF e.type = "reserve_refund" /\ e.key = k THEN "reserved"
                       ELSE IF e.type \in Moves /\ e.refund = k THEN PhaseAfter[e.type]
                       ELSE PhaseOf(k)
<1>1. /\ e \in Event /\ SqlAllows(journal, e) /\ ~Known(journal, e.key)
      /\ Reservation(journal', k) = {} <=>
           Reservation(journal, k) = {} /\ ~(e.type = "reserve_refund" /\ e.key = k)
      /\ \A t : t \in Moves =>
           (Moved(journal', k, t) <=> Moved(journal, k, t) \/ (e.type = t /\ e.refund = k))
  BY RecordedView
<1>2. CASE e.type = "reserve_refund" /\ e.key = k
  <2>1. Reservation(journal, k) = {}
    BY <1>1, <1>2 DEF Known, Reservation
  <2>2. \A t : t \in Moves => ~Moved(journal', k, t)
    BY <1>1, <1>2, <2>1, UnreservedUnmoved DEF Moves
  <2> QED
    BY <1>1, <1>2, <2>2 DEF PhaseOf, Moves
<1>3. CASE e.type \in Moves /\ e.refund = k
  <2>1. Reservation(journal, k) # {} /\ e.type # "reserve_refund"
    BY <1>1, <1>3 DEF SqlAllows, Moves
  <2>2. CASE e.type \in {"submit_refund", "release_refund"}
    <3>1. \A t : ~Moved(journal, k, t)
      BY <1>1, <1>3, <2>2 DEF SqlAllows, Unmoved, Moved
    <3> QED
      BY <1>1, <1>3, <2>1, <2>2, <3>1 DEF PhaseOf, Moves, PhaseAfter
  <2>3. CASE e.type = "complete_refund"
    <3>1. PhaseOf(k) = "submitted"
      BY <1>1, <1>3, <2>1, <2>3, LastSubmitted DEF SqlAllows
    <3>2. ~Moved(journal, k, "release_refund")
      BY <2>1, <3>1 DEF PhaseOf
    <3> QED
      BY <1>1, <1>3, <2>1, <2>3, <3>2 DEF PhaseOf, Moves, PhaseAfter
  <2> QED
    BY <1>3, <2>2, <2>3 DEF Moves
<1>4. CASE ~(e.type = "reserve_refund" /\ e.key = k) /\ ~(e.type \in Moves /\ e.refund = k)
  <2>1. \A t : t \in Moves => (Moved(journal', k, t) <=> Moved(journal, k, t))
    BY <1>1, <1>4
  <2>2. Reservation(journal', k) = {} <=> Reservation(journal, k) = {}
    BY <1>1, <1>4
  <2> QED
    BY <1>4, <2>1, <2>2 DEF PhaseOf, Moves
<1> QED
  BY <1>2, <1>3, <1>4 DEF Moves

ReadInv == ReadFits(Read(journal))

LEMMA InitRead == Init => ReadInv
<1> SUFFICES ASSUME Init PROVE ReadInv
  OBVIOUS
<1>1. journal = << >> /\ DOMAIN journal = {}
  BY DEF Init
<1>2. Read(journal) = Unread /\ Unread \in Pages
  BY <1>1, ReadNone, UnreadType
<1>3. \A t : ~Has(journal, t)
  BY <1>1 DEF Has
<1>4. \A k : Reservation(journal, k) = {}
  BY <1>1 DEF Reservation
<1>5. /\ Unread.ok = TRUE /\ Unread.status = "none" /\ Unread.acknowledged = FALSE
      /\ \A k \in Keys : Unread.phase[k] = "none" /\ Unread.amount[k] = 0
  BY DEF Unread
<1>6. \A k \in Keys : PhaseOf(k) = "none" /\ AmountOf(journal, k) = 0
  BY <1>4 DEF PhaseOf, AmountOf
<1>7. ReadFits(Unread)
  BY <1>1, <1>2, <1>3, <1>5, <1>6 DEF ReadFits
<1> QED
  BY <1>2, <1>7 DEF ReadInv

LEMMA RecordKeepsRead ==
  ASSUME IInv, ReadInv, NEW p \in Posts, Record(p)
  PROVE  ReadInv'
<1> DEFINE s == Read(journal)
           r == Read(journal')
<1>0. PICK e : e = Stored(p)
  OBVIOUS
<1>1. /\ e \in Event /\ SqlAllows(journal, e) /\ ~Known(journal, e.key)
      /\ \A t : Has(journal', t) <=> Has(journal, t) \/ e.type = t
      /\ \A k : AmountOf(journal', k) =
           IF e.type = "reserve_refund" /\ e.key = k THEN e.amount ELSE AmountOf(journal, k)
      /\ journal # <<>> => FactsOf(journal') = FactsOf(journal)
  BY <1>0, RecordedView
<1>2. \A k \in Keys : PhaseOf(k)' = IF e.type = "reserve_refund" /\ e.key = k THEN "reserved"
                                    ELSE IF e.type \in Moves /\ e.refund = k THEN PhaseAfter[e.type]
                                    ELSE PhaseOf(k)
  BY <1>0, RecordedPhases
<1>3. journal' = Append(journal, e) /\ journal \in Seq(Event)
  BY <1>0 DEF Record, IInv, TypeOK
<1>4. ReadFits(s) /\ s \in Pages
  BY DEF ReadInv, ReadFits
<1>5. r = JsStep(s, e)
  BY <1>1, <1>3, ReadAppend
<1>6. e.spelled = "stored" /\ (e.type \in Moves => e.refund \in Keys)
  <2>1. e.spelled = "stored"
    <3>1. post[p].event \in Event /\ role[post[p].event.by] \in Roles
      BY DEF Record, IInv, TypeOK, Sent, Idle, Event
    <3> QED
      BY <1>0, <3>1 DEF Stored, Canonical, Event
  <2>2. e.type \in Moves => Reservation(journal, e.refund) # {}
    BY <1>1 DEF SqlAllows, Moves
  <2>3. \A k : Reservation(journal, k) # {} => k \in Keys
    BY <1>3 DEF Reservation, Event
  <2> QED
    BY <2>1, <2>2, <2>3
<1>7. JsAllows(s, e)
  BY <1>1, <1>4, <1>6, AllowedAlike
<1> HIDE DEF s, r
<1>8. r = JsApply(s, e) /\ r \in Pages
  <2>1. s.ok = TRUE
    BY <1>4 DEF ReadFits
  <2> QED
    BY <1>1, <1>4, <1>5, <1>7, <2>1, JsStepType DEF JsStep
<1>9. journal' # << >> /\ IInv'
  BY <1>3, RecordKeepsIInv
<1>10. e.type \in EventTypes /\ e.key \in Keys
  BY <1>1 DEF Event
<1>11. \A k \in Keys : /\ s.phase[k] = PhaseOf(k) /\ s.amount[k] = AmountOf(journal, k)
                       /\ s.phase \in [Keys -> {"none", "reserved", "submitted", "completed", "released"}]
                       /\ s.amount \in [Keys -> Nat]
  BY <1>4 DEF ReadFits, Pages
<1>12. \A k \in Keys : r.phase[k] = PhaseOf(k)' /\ r.amount[k] = AmountOf(journal', k)
  <2> SUFFICES ASSUME NEW k \in Keys PROVE r.phase[k] = PhaseOf(k)' /\ r.amount[k] = AmountOf(journal', k)
    OBVIOUS
  <2>1. CASE e.type \in {"prepare", "approve", "acknowledge"}
    <3>1. r.phase = s.phase /\ r.amount = s.amount
      BY <1>4, <1>8, <2>1 DEF JsApply, Pages, Moves
    <3> QED
      BY <1>1, <1>2, <1>11, <2>1, <3>1 DEF Moves
  <2>2. CASE e.type = "reserve_refund"
    <3>1. r = [s EXCEPT !.phase[e.key] = "reserved", !.amount[e.key] = e.amount]
      BY <1>8, <2>2 DEF JsApply, Moves
    <3>2. /\ r.phase = [s.phase EXCEPT ![e.key] = "reserved"]
          /\ r.amount = [s.amount EXCEPT ![e.key] = e.amount]
      BY <1>4, <3>1 DEF Pages
    <3> QED
      BY <1>1, <1>2, <1>10, <1>11, <2>2, <3>2 DEF Moves
  <2>3. CASE e.type \in Moves
    <3>1. r = [s EXCEPT !.phase[e.refund] = PhaseAfter[e.type]]
      BY <1>8, <2>3 DEF JsApply, Moves
    <3>2. r.phase = [s.phase EXCEPT ![e.refund] = PhaseAfter[e.type]] /\ r.amount = s.amount
      BY <1>4, <3>1 DEF Pages
    <3> QED
      BY <1>1, <1>2, <1>6, <1>11, <2>3, <3>2 DEF Moves
  <2> QED
    BY <1>10, <2>1, <2>2, <2>3 DEF EventTypes
<1>13. /\ r.ok = TRUE
       /\ r.status = IF Has(journal', "approve") THEN "approved" ELSE "prepared"
       /\ r.facts = FactsOf(journal')
       /\ (r.acknowledged = TRUE) <=> Has(journal', "acknowledge")
  <2>1. /\ s.ok = TRUE
        /\ s.status = IF Has(journal, "approve") THEN "approved" ELSE IF journal # << >> THEN "prepared" ELSE "none"
        /\ journal # << >> => s.facts = FactsOf(journal)
        /\ (s.acknowledged = TRUE) <=> Has(journal, "acknowledge")
    BY <1>4 DEF ReadFits
  <2>2. CASE e.type = "prepare"
    <3>1. journal = << >>
      BY <1>1, <2>2 DEF SqlAllows
    <3>2. \A t : ~Has(journal, t)
      BY <3>1 DEF Has
    <3>3. r = [s EXCEPT !.status = "prepared", !.facts = e.facts]
      BY <1>8, <2>2 DEF JsApply, Moves
    <3>4. r.ok = s.ok /\ r.status = "prepared" /\ r.facts = e.facts /\ r.acknowledged = s.acknowledged
      BY <1>4, <3>3 DEF Pages
    <3>5. FactsOf(journal') = e.facts
      <4>1. DOMAIN journal' = {1} /\ journal'[1] = e
        BY <1>3, <3>1
      <4>2. (CHOOSE i \in DOMAIN journal' : journal'[i].type = "prepare") = 1
        BY <2>2, <4>1
      <4> QED
        BY <4>1, <4>2 DEF FactsOf
    <3> QED
      BY <1>1, <2>1, <2>2, <3>2, <3>4, <3>5
  <2>3. CASE e.type # "prepare"
    <3>1. journal # << >>
      <4>1. e.type \in {"approve", "acknowledge"} => Has(journal, "prepare")
        BY <1>1 DEF SqlAllows
      <4>2. e.type = "reserve_refund" => Has(journal, "approve")
        BY <1>1 DEF SqlAllows
      <4>3. e.type \in Moves => Reservation(journal, e.refund) # {}
        BY <1>1 DEF SqlAllows, Moves
      <4>4. \A t : Has(journal, t) => journal # << >>
        BY DEF Has
      <4>5. \A k : Reservation(journal, k) # {} => journal # << >>
        BY DEF Reservation
      <4> QED
        BY <1>10, <2>3, <4>1, <4>2, <4>3, <4>4, <4>5 DEF EventTypes
    <3>2. CASE e.type = "approve"
      <4>1. r.ok = s.ok /\ r.status = "approved" /\ r.facts = s.facts /\ r.acknowledged = s.acknowledged
        <5>1. r = [s EXCEPT !.status = "approved"]
          BY <1>8, <3>2 DEF JsApply, Moves
        <5> QED
          BY <1>4, <5>1 DEF Pages
      <4> QED
        BY <1>1, <2>1, <3>1, <3>2, <4>1
    <3>3. CASE e.type = "acknowledge"
      <4>1. r.ok = s.ok /\ r.status = s.status /\ r.facts = s.facts /\ r.acknowledged = TRUE
        <5>1. r = [s EXCEPT !.acknowledged = TRUE]
          BY <1>8, <3>3 DEF JsApply, Moves
        <5> QED
          BY <1>4, <5>1 DEF Pages
      <4> QED
        BY <1>1, <2>1, <3>1, <3>3, <4>1
    <3>4. CASE e.type = "reserve_refund" \/ e.type \in Moves
      <4>1. /\ e.type = "reserve_refund" => r = [s EXCEPT !.phase[e.key] = "reserved", !.amount[e.key] = e.amount]
            /\ e.type \in Moves => r = [s EXCEPT !.phase[e.refund] = PhaseAfter[e.type]]
        BY <1>8 DEF JsApply, Moves
      <4>2. r.ok = s.ok /\ r.status = s.status /\ r.facts = s.facts /\ r.acknowledged = s.acknowledged
        BY <1>4, <3>4, <4>1 DEF Pages
      <4>3. e.type # "approve" /\ e.type # "acknowledge"
        BY <3>4 DEF Moves
      <4> QED
        BY <1>1, <2>1, <3>1, <4>2, <4>3
    <3> QED
      BY <1>10, <2>3, <3>2, <3>3, <3>4 DEF EventTypes
  <2> QED
    BY <2>2, <2>3
<1> QED
  BY <1>8, <1>9, <1>12, <1>13 DEF ReadInv, ReadFits, r

\* What the page has checked still follows from the history it has read.
Checked(p) ==
  LET e == post[p].event
  IN  /\ post[p].seen <= Len(journal)
      /\ e.spelled = "stored" /\ (e.type \in Moves => e.refund \in Keys)
      /\ post[p].seen = Len(journal) /\ ~Known(journal, e.key) => JsAllows(Read(journal), e)

ChecksHold == \A p \in Posts : post[p].at = "sent" /\ post[p].page = TRUE => Checked(p)

PageInv == IInv /\ ReadInv /\ ChecksHold

\* An event stays checked while the journal does not change.
LEMMA StillChecked ==
  ASSUME IInv, UNCHANGED journal, ChecksHold,
         NEW q \in Posts, post'[q] = post[q], post'[q].at = "sent", post'[q].page = TRUE
  PROVE  Checked(q)'
BY DEF ChecksHold, Checked

LEMMA SubmitChecks ==
  ASSUME IInv, ReadInv, ChecksHold, NEW p \in Posts, Submit(p)
  PROVE  ChecksHold'
<1>1. PICK u \in Users, k \in Keys : \E e \in Entries(k, u) :
        /\ FormKey(e) /\ e.spelled = "stored"
        /\ \/ \E i \in DOMAIN journal : SameEvent(journal[i], e)
           \/ ~Known(journal, k) /\ JsAllows(Read(journal), e)
        /\ Send(p, e, TRUE)
  BY DEF Submit
<1>2. PICK e \in Entries(k, u) :
        /\ FormKey(e) /\ e.spelled = "stored"
        /\ \/ \E i \in DOMAIN journal : SameEvent(journal[i], e)
           \/ ~Known(journal, k) /\ JsAllows(Read(journal), e)
        /\ Send(p, e, TRUE)
  BY <1>1
<1>3. e \in Event /\ e.key = k
  <2>1. e \in Event
    BY EntryType DEF IInv
  <2> QED
    BY <2>1 DEF Entries, Entry
<1>4. e.type \in Moves => e.refund \in Keys
  <2>1. \A x \in Refunds : x \in Keys
    <3>1. \A i \in DOMAIN journal : journal[i].key \in Keys
      BY DEF IInv, TypeOK, Event
    <3>2. \A x \in InFlight : post[x].event.key \in Keys
      BY DEF IInv, TypeOK, InFlight, Sent, Idle, Event
    <3> QED
      BY <3>1, <3>2 DEF Refunds, Events
  <2> QED
    BY <2>1 DEF Entries, Entry, Moves
<1>5. /\ post' = [post EXCEPT ![p] = [at |-> "sent", page |-> TRUE, seen |-> Len(journal), event |-> e]]
      /\ UNCHANGED <<role, journal>>
  BY <1>2 DEF Send
<1>6. (\E i \in DOMAIN journal : SameEvent(journal[i], e)) => Known(journal, k)
  <2> SUFFICES ASSUME NEW i \in DOMAIN journal, SameEvent(journal[i], e) PROVE Known(journal, k)
    OBVIOUS
  <2>1. journal[i] \in Event
    BY DEF IInv, TypeOK
  <2>2. [journal[i] EXCEPT !.role = e.role].key = journal[i].key
    BY <2>1 DEF Event
  <2> QED
    BY <1>3, <2>2 DEF SameEvent, Known
<1>7. Len(journal) \in Nat
  BY DEF IInv, TypeOK
<1>8. post'[p].event = e /\ post'[p].seen = Len(journal)
  BY <1>5 DEF IInv, TypeOK
<1>9. Checked(p)'
  BY <1>2, <1>3, <1>4, <1>5, <1>6, <1>7, <1>8 DEF Checked
<1> SUFFICES ASSUME NEW q \in Posts, post'[q].at = "sent", post'[q].page = TRUE PROVE Checked(q)'
  BY DEF ChecksHold
<1>10. CASE q = p
  BY <1>9, <1>10
<1>11. CASE q # p
  <2>1. post'[q] = post[q]
    BY <1>5, <1>11 DEF IInv, TypeOK
  <2> QED
    BY <1>5, <2>1, StillChecked
<1> QED
  BY <1>10, <1>11

LEMMA CallChecks ==
  ASSUME IInv, ChecksHold, NEW p \in Posts, Call(p)
  PROVE  ChecksHold'
<1>1. PICK e : Send(p, e, FALSE)
  BY DEF Call
<1>2. post' = [post EXCEPT ![p] = [at |-> "sent", page |-> FALSE, seen |-> Len(journal), event |-> e]]
      /\ UNCHANGED <<role, journal>>
  BY <1>1 DEF Send
<1> SUFFICES ASSUME NEW q \in Posts, post'[q].at = "sent", post'[q].page = TRUE PROVE Checked(q)'
  BY DEF ChecksHold
<1>3. q # p
  BY <1>2 DEF IInv, TypeOK
<1>4. post'[q] = post[q]
  BY <1>2, <1>3 DEF IInv, TypeOK
<1> QED
  BY <1>2, <1>4, StillChecked

\* A longer journal is one the page has not read.
LEMMA RecordChecks ==
  ASSUME IInv, ChecksHold, NEW p \in Posts, Record(p)
  PROVE  ChecksHold'
<1>1. Len(journal') = Len(journal) + 1 /\ Len(journal) \in Nat
  BY DEF Record, IInv, TypeOK
<1>2. post' = [post EXCEPT ![p] = Idle]
  BY DEF Record
<1> SUFFICES ASSUME NEW q \in Posts, post'[q].at = "sent", post'[q].page = TRUE PROVE Checked(q)'
  BY DEF ChecksHold
<1>3. q # p
  BY <1>2 DEF IInv, TypeOK, Idle
<1>4. post'[q] = post[q]
  BY <1>2, <1>3 DEF IInv, TypeOK
<1>5. /\ post[q].seen <= Len(journal) /\ post[q].event.spelled = "stored"
      /\ post[q].event.type \in Moves => post[q].event.refund \in Keys
  BY <1>4 DEF ChecksHold, Checked
<1>6. post[q].seen \in Nat
  BY <1>4 DEF IInv, TypeOK, Sent, Idle
<1>7. post'[q].seen <= Len(journal') /\ post'[q].seen # Len(journal')
  BY <1>1, <1>4, <1>5, <1>6
<1> QED
  BY <1>4, <1>5, <1>7 DEF Checked

LEMMA NextPageInv == PageInv /\ [Next]_vars => PageInv'
<1> SUFFICES ASSUME PageInv, [Next]_vars PROVE PageInv'
  OBVIOUS
<1>1. IInv /\ ReadInv /\ ChecksHold /\ IInv'
  BY StepIInv DEF PageInv
<1>2. (\A p \in Posts : ~Record(p)) => UNCHANGED journal
  BY DEF Next, Submit, Call, Send, Drop, ChangeRole, ApprovePolicy, ChangeBooking, vars
<1>3. ReadInv'
  <2>1. ASSUME NEW p \in Posts, Record(p) PROVE ReadInv'
    BY <1>1, <2>1, RecordKeepsRead
  <2>2. CASE UNCHANGED journal
    BY <1>1, <2>2 DEF ReadInv, ReadFits, PhaseOf
  <2> QED
    BY <1>2, <2>1, <2>2
<1>4. ChecksHold'
  <2>1. ASSUME NEW p \in Posts, Submit(p) PROVE ChecksHold'
    BY <1>1, <2>1, SubmitChecks
  <2>2. ASSUME NEW p \in Posts, Call(p) PROVE ChecksHold'
    BY <1>1, <2>2, CallChecks
  <2>3. ASSUME NEW p \in Posts, Record(p) PROVE ChecksHold'
    BY <1>1, <2>3, RecordChecks
  <2>4. ASSUME NEW p \in Posts, Drop(p) PROVE ChecksHold'
    <3>1. post' = [post EXCEPT ![p] = Idle] /\ UNCHANGED journal
      BY <2>4 DEF Drop
    <3> SUFFICES ASSUME NEW q \in Posts, post'[q].at = "sent", post'[q].page = TRUE PROVE Checked(q)'
      BY DEF ChecksHold
    <3>2. q # p
      BY <1>1, <3>1 DEF IInv, TypeOK, Idle
    <3>3. post'[q] = post[q]
      BY <1>1, <3>1, <3>2 DEF IInv, TypeOK
    <3> QED
      BY <1>1, <3>1, <3>3, StillChecked
  <2>5. CASE UNCHANGED <<journal, post>>
    <3> SUFFICES ASSUME NEW q \in Posts, post'[q].at = "sent", post'[q].page = TRUE PROVE Checked(q)'
      BY DEF ChecksHold
    <3> QED
      BY <1>1, <2>5, StillChecked
  <2>6. ASSUME NEW u \in Users, NEW r \in Roles, ChangeRole(u, r) PROVE ChecksHold'
    BY <2>5, <2>6 DEF ChangeRole
  <2>7. ASSUME NEW u \in Users, ApprovePolicy(u) PROVE ChecksHold'
    BY <2>5, <2>7 DEF ApprovePolicy
  <2>8. ASSUME NEW b \in Booking, ChangeBooking(b) PROVE ChecksHold'
    BY <2>5, <2>8 DEF ChangeBooking
  <2> QED
    BY <2>1, <2>2, <2>3, <2>4, <2>5, <2>6, <2>7, <2>8 DEF Next, vars
<1> QED
  BY <1>1, <1>3, <1>4 DEF PageInv

LEMMA PageInductive == Spec => []PageInv
<1>1. Init => ChecksHold
  BY DEF Init, ChecksHold, Idle
<1>2. Init => PageInv
  BY <1>1, InitIInv, InitRead DEF PageInv
<1> QED
  BY <1>2, NextPageInv, PTL DEF Spec

(* Whatever the database has accepted, from the page or from clients that    *)
(* pass it by, the page can replay, and it finds the same money free.        *)
THEOREM AlwaysReadable == Spec => []Readable
<1>1. PageInv => Readable
  <2> SUFFICES ASSUME PageInv PROVE Readable
    OBVIOUS
  <2> DEFINE s == Read(journal)
  <2>1. IInv /\ ReadFits(s)
    BY DEF PageInv, ReadInv
  <2> HIDE DEF s
  <2>2. s.ok = TRUE /\ (s.status = "approved" <=> Has(journal, "approve"))
    BY <2>1 DEF ReadFits
  <2>3. ASSUME Has(journal, "approve")
        PROVE  Refundable(s.facts) - JsReserved(s) = SqlAvailable(FactsOf(journal)) - Reserved(journal)
    <3>1. journal # << >>
      BY <2>3 DEF Has
    <3>2. s.facts = FactsOf(journal) /\ FactsOf(journal) \in Facts
      BY <2>1, <3>1, JournalBegins, FactsType DEF ReadFits
    <3>3. Refundable(s.facts) = SqlAvailable(FactsOf(journal))
      BY <3>2, SqlWithinJs
    <3> QED
      BY <2>1, <3>3, MoneyFits
  <2> QED
    BY <2>2, <2>3 DEF Readable, s
<1> QED
  BY <1>1, PageInductive, PTL

(* The database never refuses what the page found valid on the history that  *)
(* is still current, from a user who still may enter it, but for a new case  *)
(* of a booking it does not review, or does no longer, and for the one sum   *)
(* the page does not bound (append_cancellation_review, cancellationEvent).  *)
THEOREM PageAlwaysAgrees == Spec => []PageAgrees
<1>1. PageInv => PageAgrees
  <2> SUFFICES ASSUME PageInv, NEW p \in InFlight, post[p].page, post[p].seen = Len(journal),
                      ~Known(journal, Stored(p).key), Permitted(Stored(p).type, Stored(p).role)
               PROVE  \/ SqlAllows(journal, Stored(p))
                      \/ Stored(p).type = "prepare"
                         /\ (~Reviewable(Stored(p).facts) \/ OnlyShareFits(Stored(p).facts))
    BY DEF PageAgrees
  <2> DEFINE o == post[p].event
             e == Stored(p)
  <2>0. ~Known(journal, e.key) /\ Permitted(e.type, e.role)
    OBVIOUS
  <2>1. p \in Posts /\ post[p].at = "sent"
    BY DEF InFlight
  <2>2. IInv /\ ReadFits(Read(journal)) /\ o \in Event /\ role[o.by] \in Roles /\ post[p].page = TRUE
    BY <2>1 DEF PageInv, ReadInv, IInv, TypeOK, Sent, Idle, Event
  <2>3. o.spelled = "stored" /\ (o.type \in Moves => o.refund \in Keys)
    BY <2>1, <2>2 DEF PageInv, ChecksHold, Checked
  <2>4. e \in Event /\ e.role = role[o.by]
    BY <2>1, <2>2, StoredType DEF IInv
  <2>5. /\ e.type = o.type /\ e.refund = o.refund /\ e.spelled = "stored" /\ e.facts = o.facts
        /\ e.amount = o.amount /\ e.key = o.key
    BY <2>2, <2>3 DEF Stored, Canonical, Event
  <2>6. JsAllows(Read(journal), o)
    BY <2>0, <2>1, <2>2, <2>5 DEF PageInv, ChecksHold, Checked
  <2> HIDE DEF o, e
  <2>7. JsAllows(Read(journal), e)
    BY <2>0, <2>3, <2>5, <2>6 DEF JsAllows
  <2>8. \/ SqlAllows(journal, e)
        \/ e.type = "prepare" /\ (~Reviewable(e.facts) \/ OnlyShareFits(e.facts))
    BY <2>2, <2>3, <2>4, <2>5, <2>7, AllowedAlike
  <2> QED
    BY <2>8 DEF e
<1> QED
  BY <1>1, PageInductive, PTL

-----------------------------------------------------------------------------
(* The division of a pool *)

\* A share is its rounded-down part and a remainder below the total.
Shared(pool, team) ==
  \A w \in DOMAIN team :
    /\ Weight(pool, team, w) \in Nat /\ Floor(pool, team, w) \in Nat
    /\ Remainder(pool, team, w) \in 0 .. AgreedTotal(team) - 1
    /\ Weight(pool, team, w) = AgreedTotal(team) * Floor(pool, team, w) + Remainder(pool, team, w)

LEMMA SharesOfTeam == ASSUME NEW pool, NEW team, Division(pool, team) PROVE Shared(pool, team)
<1> SUFFICES ASSUME NEW w \in DOMAIN team
             PROVE  /\ Weight(pool, team, w) \in Nat /\ Floor(pool, team, w) \in Nat
                    /\ Remainder(pool, team, w) \in 0 .. AgreedTotal(team) - 1
                    /\ Weight(pool, team, w) = AgreedTotal(team) * Floor(pool, team, w) + Remainder(pool, team, w)
  BY DEF Shared
<1> DEFINE n == Weight(pool, team, w)
           d == AgreedTotal(team)
<1>1. n \in Nat /\ d \in Nat /\ d > 0
  <2>1. pool \in Nat /\ team[w] \in Nat
    BY DEF Division, TeamOfCents
  <2>2. pool * team[w] \in Nat
    BY <2>1
  <2> QED
    BY <2>2, TotalOfTeam DEF Division, Weight
<1>2. Floor(pool, team, w) = n \div d /\ Remainder(pool, team, w) = n % d
  BY DEF Floor, Remainder
<1> HIDE DEF n, d
<1>3. n \div d \in Nat /\ n % d \in Nat /\ n % d < d /\ n = d * (n \div d) + (n % d)
  BY <1>1, Quotient
<1>4. n % d \in 0 .. d - 1
  BY <1>1, <1>3
<1> QED
  BY <1>1, <1>2, <1>3, <1>4 DEF n, d

\* The cents left over, times the total, are the remainders together.
LEMMA RemaindersLeft ==
  ASSUME NEW pool, NEW team, Division(pool, team)
  PROVE  LET rem == [w \in DOMAIN team |-> Remainder(pool, team, w)]
             floors == [w \in DOMAIN team |-> Floor(pool, team, w)]
         IN  /\ LeftOver(pool, team) \in Int /\ Summable(rem, DOMAIN team) /\ Summable(floors, DOMAIN team)
             /\ LeftOver(pool, team) = pool - SumOf(floors, DOMAIN team)
             /\ AgreedTotal(team) * LeftOver(pool, team) = SumOf(rem, DOMAIN team)
<1> DEFINE W == DOMAIN team
           d == AgreedTotal(team)
           floors == [w \in W |-> Floor(pool, team, w)]
           rem == [w \in W |-> Remainder(pool, team, w)]
           whole == [w \in W |-> d * Floor(pool, team, w)]
           weights == [w \in W |-> Weight(pool, team, w)]
<1>1. /\ pool \in Nat /\ d \in Nat /\ Summable(team, W) /\ d = SumOf(team, W) /\ IsFiniteSet(W)
  BY TotalOfTeam DEF Division, TeamOfCents
<1>2. \A w \in W : /\ Weight(pool, team, w) \in Nat /\ Floor(pool, team, w) \in Nat /\ Remainder(pool, team, w) \in Int
                   /\ Weight(pool, team, w) = d * Floor(pool, team, w) + Remainder(pool, team, w)
                   /\ Weight(pool, team, w) = pool * team[w]
                   /\ d * Floor(pool, team, w) \in Int
  <2> HIDE DEF d
  <2> QED
    BY <1>1, SharesOfTeam DEF Shared, Weight, d
<1>3. /\ floors \in [W -> Int] /\ rem \in [W -> Int] /\ whole \in [W -> Int] /\ weights \in [W -> Int]
      /\ \A w \in W : /\ floors[w] = Floor(pool, team, w) /\ rem[w] = Remainder(pool, team, w)
                      /\ whole[w] = d * Floor(pool, team, w) /\ weights[w] = Weight(pool, team, w)
  <2> HIDE DEF d, W
  <2> QED
    BY <1>2
<1> HIDE DEF d, W, floors, rem, whole, weights
<1>4. Summable(floors, W) /\ Summable(rem, W) /\ Summable(whole, W) /\ Summable(weights, W)
  BY <1>1, <1>3 DEF Summable
<1>5. EachScaled(whole, d, floors, W) /\ EachScaled(weights, pool, team, W) /\ EachAdds(weights, whole, rem, W)
  BY <1>2, <1>3 DEF EachScaled, EachAdds
<1>6. SumOf(whole, W) = d * SumOf(floors, W) /\ SumOf(weights, W) = pool * d
  <2>1. SumOf(whole, W) = d * SumOf(floors, W)
    BY <1>1, <1>4, <1>5, SumScaled
  <2>2. SumOf(weights, W) = pool * SumOf(team, W)
    BY <1>1, <1>4, <1>5, SumScaled
  <2> QED
    BY <1>1, <2>1, <2>2
<1>7. SumOf(weights, W) = SumOf(whole, W) + SumOf(rem, W)
  BY <1>4, <1>5, SumOfSum
<1>8. LeftOver(pool, team) = pool - SumOf(floors, W)
  BY DEF LeftOver, SumOver, SumOf, floors, W
<1> DEFINE f == SumOf(floors, W)
           r == SumOf(rem, W)
<1>9. f \in Int /\ r \in Int
  BY <1>4, SumIsInt
<1> HIDE DEF f, r
<1>10. pool * d = d * f + r
  BY <1>6, <1>7 DEF f, r
<1>11. d * (pool - f) = r
  <2>1. d * (pool - f) = d * pool - d * f /\ d * pool = pool * d
    BY <1>1, <1>9
  <2> QED
    BY <1>1, <1>9, <1>10, <2>1
<1>12. LeftOver(pool, team) = pool - f /\ pool - f \in Int
  BY <1>1, <1>8, <1>9 DEF f
<1>13. d * LeftOver(pool, team) = r
  BY <1>11, <1>12
<1> QED
  BY <1>4, <1>8, <1>12, <1>13 DEF r, rem, floors, W, d

\* The order in which the cents left over are given out, and who comes before w.
ServedInOrder(pool, team) ==
  {p \in (DOMAIN team) \X (DOMAIN team) : RanksBefore(pool, team, p[1], p[2])}

ServedBefore(pool, team, w) == {v \in DOMAIN team : RanksBefore(pool, team, v, w)}

LEMMA RankIsPlace ==
  ASSUME NEW pool, NEW team, Division(pool, team)
  PROVE  /\ Ordered(ServedInOrder(pool, team), DOMAIN team)
         /\ \A w \in DOMAIN team : Rank(pool, team, w) = Place(ServedInOrder(pool, team), DOMAIN team, w)
<1>1. \A w \in DOMAIN team : w \in Nat /\ Remainder(pool, team, w) \in Int
  <2>1. AgreedTotal(team) \in Nat
    BY TotalOfTeam DEF Division
  <2>2. Shared(pool, team)
    BY SharesOfTeam
  <2>3. \A w \in DOMAIN team : Remainder(pool, team, w) \in 0 .. AgreedTotal(team) - 1
    BY <2>2 DEF Shared
  <2>4. \A w \in DOMAIN team : w \in Nat
    BY DEF Division, TeamOfCents
  <2> QED
    BY <2>1, <2>3, <2>4
<1>2. \A v, w \in DOMAIN team : <<v, w>> \in ServedInOrder(pool, team) <=> RanksBefore(pool, team, v, w)
  BY DEF ServedInOrder
<1>3. Ordered(ServedInOrder(pool, team), DOMAIN team)
  <2>1. /\ \A w \in DOMAIN team : ~RanksBefore(pool, team, w, w)
        /\ \A u, v, w \in DOMAIN team :
             RanksBefore(pool, team, u, v) /\ RanksBefore(pool, team, v, w) => RanksBefore(pool, team, u, w)
        /\ \A v, w \in DOMAIN team : v # w => RanksBefore(pool, team, v, w) \/ RanksBefore(pool, team, w, v)
    BY <1>1 DEF RanksBefore
  <2>2. IsFiniteSet(DOMAIN team)
    BY DEF Division, TeamOfCents
  <2> QED
    BY <1>2, <2>1, <2>2 DEF Ordered
<1>4. ASSUME NEW w \in DOMAIN team
      PROVE  Rank(pool, team, w) = Place(ServedInOrder(pool, team), DOMAIN team, w)
  <2>1. {v \in DOMAIN team : RanksBefore(pool, team, v, w)} = Before(ServedInOrder(pool, team), DOMAIN team, w)
    BY <1>2 DEF Before
  <2> QED
    BY <2>1 DEF Rank, Place
<1> QED
  BY <1>3, <1>4

LEMMA RankGrows ==
  ASSUME NEW pool, NEW team, Division(pool, team)
  PROVE  /\ \A w \in DOMAIN team : Rank(pool, team, w) \in 0 .. Cardinality(DOMAIN team) - 1
         /\ \A v, w \in DOMAIN team :
              RanksBefore(pool, team, v, w) => Rank(pool, team, v) < Rank(pool, team, w)
<1> DEFINE P == ServedInOrder(pool, team)
           W == DOMAIN team
<1>1. Ordered(P, W) /\ \A w \in W : Rank(pool, team, w) = Place(P, W, w)
  BY RankIsPlace
<1>2. \A v, w \in W : RanksBefore(pool, team, v, w) => <<v, w>> \in P
  BY DEF ServedInOrder
<1> HIDE DEF P
<1>3. /\ \A w \in W : Place(P, W, w) \in 0 .. Cardinality(W) - 1
      /\ \A v, w \in W : <<v, w>> \in P => Place(P, W, v) < Place(P, W, w)
  BY <1>1, PlacesGrow
<1> QED
  BY <1>1, <1>2, <1>3

\* As many cleaners rank below k as k says.
LEMMA RankedBelow ==
  ASSUME NEW pool, NEW team, Division(pool, team), NEW k \in 0 .. Cardinality(DOMAIN team)
  PROVE  Cardinality({w \in DOMAIN team : Rank(pool, team, w) < k}) = k
<1> DEFINE P == ServedInOrder(pool, team)
           W == DOMAIN team
<1>1. Ordered(P, W) /\ \A w \in W : Rank(pool, team, w) = Place(P, W, w)
  BY RankIsPlace
<1> HIDE DEF P
<1>2. Cardinality({w \in W : Place(P, W, w) < k}) = k
  BY <1>1, PlacedBelow
<1>3. {w \in W : Place(P, W, w) < k} = {w \in W : Rank(pool, team, w) < k}
  BY <1>1
<1> QED
  BY <1>2, <1>3

\* The cleaners whose exact share is not whole.
Broken(pool, team) == {w \in DOMAIN team : Remainder(pool, team, w) > 0}

LEMMA LeftOverBounds ==
  ASSUME NEW pool, NEW team, Division(pool, team)
  PROVE  LeftOver(pool, team) \in 0 .. Cardinality(Broken(pool, team))
<1> DEFINE W == DOMAIN team
           d == AgreedTotal(team)
           left == LeftOver(pool, team)
           B == Broken(pool, team)
           m == Cardinality(B)
           rem == [w \in W |-> Remainder(pool, team, w)]
           ones == [w \in W |-> IF w \in B THEN 1 ELSE 0]
           caps == [w \in W |-> IF w \in B THEN d - 1 ELSE 0]
           none == [w \in W |-> 0]
<1>1. IsFiniteSet(W) /\ d \in Nat /\ d > 0
  BY TotalOfTeam DEF Division, TeamOfCents
<1>2. B \in SUBSET W /\ IsFiniteSet(B) /\ m \in Nat
  <2>1. B \in SUBSET W
    BY DEF Broken
  <2> HIDE DEF B, W
  <2>2. IsFiniteSet(B)
    BY <1>1, <2>1, FS_Subset
  <2> QED
    BY <2>1, <2>2, FS_CardinalityType
<1>3. left \in Int /\ Summable(rem, W) /\ d * left = SumOf(rem, W)
  BY RemaindersLeft
<1>4. \A w \in W : Remainder(pool, team, w) \in 0 .. d - 1 /\ (w \in B <=> Remainder(pool, team, w) > 0)
  BY SharesOfTeam DEF Shared, Broken
<1> HIDE DEF W, d, left, B, m
<1>5. Summable(ones, W) /\ Summable(caps, W) /\ Summable(none, W)
  BY <1>1 DEF Summable
<1>6. EachAtMost(rem, caps, W) /\ EachAtMost(none, rem, W)
  BY <1>1, <1>4 DEF EachAtMost
<1>7. EachScaled(caps, d - 1, ones, W) /\ Counts(ones, B, W) /\ Counts(none, {}, W) /\ {} \in SUBSET W
  BY <1>1 DEF EachScaled, Counts
<1> HIDE DEF rem, ones, caps, none
<1>8. SumOf(ones, W) = m
  BY <1>1, <1>2, <1>7, SumCounts DEF m
<1>9. SumOf(caps, W) = (d - 1) * m
  BY <1>1, <1>5, <1>7, <1>8, SumScaled
<1>10. SumOf(none, W) = 0
  BY <1>1, <1>7, SumCounts, FS_EmptySet
<1>11. 0 <= d * left /\ d * left <= (d - 1) * m
  BY <1>3, <1>5, <1>6, <1>9, <1>10, SumAtMost
<1>12. (d - 1) * m = d * m - m
  BY <1>1, <1>2
<1>13. ASSUME left <= -1 PROVE FALSE
  <2>1. d * left <= -d
    BY <1>1, <1>3, <1>13
  <2> QED
    BY <1>1, <1>3, <1>11, <2>1
<1>14. ASSUME left >= m + 1 PROVE FALSE
  <2>1. d * left >= d * (m + 1) /\ d * (m + 1) = d * m + d
    BY <1>1, <1>2, <1>3, <1>14
  <2>2. d * m \in Int /\ d * left \in Int
    BY <1>1, <1>2, <1>3
  <2> QED
    BY <1>1, <1>2, <1>11, <1>12, <2>1, <2>2
<1> QED
  BY <1>2, <1>3, <1>13, <1>14 DEF left, m, B

\* A cent left over goes to nobody whose share is whole.
LEMMA ServedIsBroken ==
  ASSUME NEW pool, NEW team, Division(pool, team), NEW w \in DOMAIN team,
         Rank(pool, team, w) < LeftOver(pool, team)
  PROVE  Remainder(pool, team, w) > 0
<1> DEFINE B == Broken(pool, team)
           A == ServedBefore(pool, team, w)
<1>1. /\ LeftOver(pool, team) \in 0 .. Cardinality(B)
      /\ Rank(pool, team, w) \in 0 .. Cardinality(DOMAIN team) - 1
      /\ Remainder(pool, team, w) \in 0 .. AgreedTotal(team) - 1 /\ AgreedTotal(team) \in Nat
  BY LeftOverBounds, RankGrows, SharesOfTeam, TotalOfTeam DEF Shared, Division
<1>2. ASSUME Remainder(pool, team, w) = 0 PROVE FALSE
  <2>1. B \in SUBSET A
    BY <1>2 DEF Broken, ServedBefore, RanksBefore
  <2>2. IsFiniteSet(A)
    <3>1. A \in SUBSET (DOMAIN team) /\ IsFiniteSet(DOMAIN team)
      BY DEF ServedBefore, Division, TeamOfCents
    <3> HIDE DEF A
    <3> QED
      BY <3>1, FS_Subset
  <2>3. Cardinality(A) = Rank(pool, team, w)
    BY DEF ServedBefore, Rank
  <2> HIDE DEF A, B
  <2>4. Cardinality(B) <= Cardinality(A) /\ Cardinality(B) \in Nat /\ Cardinality(A) \in Nat
    BY <2>1, <2>2, FS_Subset, FS_CardinalityType
  <2> QED
    BY <1>1, <2>3, <2>4
<1> QED
  BY <1>1, <1>2

\* The shares of a pool: they add up to it, none is a cent away from the exact
\* one, nothing agreed is nothing received, and more agreed is never less.
LEMMA PoolIsShared ==
  ASSUME NEW pool, NEW team, Division(pool, team)
  PROVE  /\ SumOf([w \in DOMAIN team |-> PoolShare(pool, team, w)], DOMAIN team) = pool
         /\ \A w \in DOMAIN team :
              /\ AgreedTotal(team) * PoolShare(pool, team, w) - Weight(pool, team, w)
                   \in 1 - AgreedTotal(team) .. AgreedTotal(team) - 1
              /\ team[w] = 0 => PoolShare(pool, team, w) = 0
         /\ \A v, w \in DOMAIN team :
              team[v] > team[w] => PoolShare(pool, team, v) >= PoolShare(pool, team, w)
<1> DEFINE W == DOMAIN team
           d == AgreedTotal(team)
           left == LeftOver(pool, team)
           S == {w \in W : Rank(pool, team, w) < left}
           floors == [w \in W |-> Floor(pool, team, w)]
           extra == [w \in W |-> IF w \in S THEN 1 ELSE 0]
           shares == [w \in W |-> PoolShare(pool, team, w)]
<1>1. pool \in Nat /\ IsFiniteSet(W) /\ d \in Nat /\ d > 0 /\ \A w \in W : team[w] \in Nat
  BY TotalOfTeam DEF Division, TeamOfCents
<1>2. \A w \in W : /\ Weight(pool, team, w) \in Nat /\ Floor(pool, team, w) \in Nat
                   /\ Remainder(pool, team, w) \in 0 .. d - 1
                   /\ Weight(pool, team, w) = d * Floor(pool, team, w) + Remainder(pool, team, w)
  BY SharesOfTeam DEF Shared
<1>3. \A w \in W : PoolShare(pool, team, w) = Floor(pool, team, w) + extra[w]
  <2> HIDE DEF W
  <2> QED
    BY <1>1 DEF PoolShare
<1>4. left \in 0 .. Cardinality(W) /\ left = pool - SumOf(floors, W) /\ Summable(floors, W)
  <2>1. Broken(pool, team) \in SUBSET W
    BY DEF Broken
  <2>2. Cardinality(Broken(pool, team)) <= Cardinality(W)
    <3> HIDE DEF W
    <3> QED
      BY <1>1, <2>1, FS_Subset
  <2>3. left \in 0 .. Cardinality(Broken(pool, team))
    BY LeftOverBounds
  <2>4. Cardinality(Broken(pool, team)) \in Nat /\ Cardinality(W) \in Nat
    <3> HIDE DEF W
    <3> QED
      BY <1>1, <2>1, FS_Subset, FS_CardinalityType
  <2>5. left = pool - SumOf(floors, W) /\ Summable(floors, W)
    BY RemaindersLeft
  <2> HIDE DEF left
  <2> QED
    BY <2>2, <2>3, <2>4, <2>5
<1>5. Cardinality(S) = left
  BY <1>4, RankedBelow
<1> HIDE DEF W, d, left
<1>6. SumOf(shares, W) = pool
  <2>1. S \in SUBSET W /\ Counts(extra, S, W)
    BY DEF Counts
  <2> HIDE DEF S, extra
  <2>2. Summable(extra, W) /\ SumOf(extra, W) = left
    BY <1>1, <1>5, <2>1, SumCounts
  <2>3. /\ Summable(shares, W) /\ EachAdds(shares, floors, extra, W)
    BY <1>2, <1>3, <2>2 DEF Summable, EachAdds
  <2> HIDE DEF shares, floors
  <2>4. SumOf(shares, W) = SumOf(floors, W) + SumOf(extra, W)
    BY <1>4, <2>2, <2>3, SumOfSum
  <2>5. SumOf(floors, W) \in Int
    BY <1>4, SumIsInt
  <2> QED
    BY <1>1, <1>4, <2>2, <2>4, <2>5
<1>7. \A w \in W : w \in S => Remainder(pool, team, w) > 0
  BY ServedIsBroken DEF left, W
<1>8. ASSUME NEW w \in W
      PROVE  /\ d * PoolShare(pool, team, w) - Weight(pool, team, w) \in 1 - d .. d - 1
             /\ team[w] = 0 => PoolShare(pool, team, w) = 0
  <2> DEFINE f == Floor(pool, team, w)
             r == Remainder(pool, team, w)
             x == extra[w]
             q == Weight(pool, team, w)
  <2>1. x \in {0, 1} /\ (x = 1 => r > 0)
    BY <1>7
  <2>2. q \in Nat /\ f \in Nat /\ r \in 0 .. d - 1 /\ q = d * f + r
    BY <1>2
  <2>3. PoolShare(pool, team, w) = f + x
    BY <1>3
  <2>4. team[w] = 0 => q = 0
    BY <1>1 DEF Weight
  <2> HIDE DEF f, r, x, q
  <2>5. d * (f + x) - q \in 1 - d .. d - 1
    <3>1. CASE x = 0
      <4>1. d * (f + x) = d * f
        BY <3>1, <2>2
      <4>2. d * f \in Int
        BY <1>1, <2>2
      <4> QED
        BY <1>1, <2>2, <4>1, <4>2
    <3>2. CASE x = 1
      <4>1. d * (f + x) = d * f + d
        BY <1>1, <3>2, <2>2
      <4>2. d * f \in Int
        BY <1>1, <2>2
      <4> QED
        BY <1>1, <2>1, <2>2, <3>2, <4>1, <4>2
    <3> QED
      BY <2>1, <3>1, <3>2
  <2>6. q = 0 => f = 0 /\ r = 0
    <3> SUFFICES ASSUME q = 0 PROVE f = 0 /\ r = 0
      OBVIOUS
    <3>1. f >= 1 => d * f >= d
      BY <1>1, <2>2
    <3>2. d * f \in Int
      BY <1>1, <2>2
    <3> QED
      BY <1>1, <2>2, <3>1, <3>2
  <2>7. team[w] = 0 => f + x = 0
    BY <2>1, <2>2, <2>4, <2>6
  <2> QED
    BY <2>3, <2>5, <2>7 DEF q
<1>9. ASSUME NEW v \in W, NEW w \in W, team[v] > team[w]
      PROVE  PoolShare(pool, team, v) >= PoolShare(pool, team, w)
  <2> DEFINE f(u) == Floor(pool, team, u)
             r(u) == Remainder(pool, team, u)
  <2>1. /\ f(v) \in Nat /\ f(w) \in Nat /\ r(v) \in 0 .. d - 1 /\ r(w) \in 0 .. d - 1
        /\ Weight(pool, team, v) = d * f(v) + r(v) /\ Weight(pool, team, w) = d * f(w) + r(w)
    BY <1>2
  <2>2. pool > 0 => Weight(pool, team, v) > Weight(pool, team, w)
    <3>1. pool > 0 => pool * team[v] > pool * team[w]
      BY <1>1, <1>9
    <3> QED
      BY <3>1 DEF Weight
  <2>3. pool = 0 => Weight(pool, team, v) = Weight(pool, team, w) /\ Weight(pool, team, w) = 0
    BY <1>1 DEF Weight
  <2>4. extra[v] \in {0, 1} /\ extra[w] \in {0, 1}
        /\ PoolShare(pool, team, v) = f(v) + extra[v] /\ PoolShare(pool, team, w) = f(w) + extra[w]
    BY <1>3
  <2>5. extra[w] = 1 => r(w) > 0
    BY <1>7
  <2>6. r(v) > r(w) /\ extra[w] = 1 => extra[v] = 1
    <3> SUFFICES ASSUME r(v) > r(w), extra[w] = 1 PROVE extra[v] = 1
      OBVIOUS
    <3>1. RanksBefore(pool, team, v, w)
      BY DEF RanksBefore
    <3>2. Rank(pool, team, v) < Rank(pool, team, w) /\ Rank(pool, team, v) \in Int /\ Rank(pool, team, w) \in Int
      BY <3>1, RankGrows DEF W
    <3>3. Rank(pool, team, w) < left /\ left \in Int
      BY <1>4
    <3> QED
      BY <3>2, <3>3
  <2> DEFINE fv == f(v)
             fw == f(w)
             rv == r(v)
             rw == r(w)
             xv == extra[v]
             xw == extra[w]
  <2>7. /\ fv \in Nat /\ fw \in Nat /\ rv \in 0 .. d - 1 /\ rw \in 0 .. d - 1 /\ xv \in {0, 1} /\ xw \in {0, 1}
        /\ pool > 0 => d * fv + rv > d * fw + rw
        /\ pool = 0 => d * fw + rw = 0
        /\ xw = 1 => rw > 0
        /\ rv > rw /\ xw = 1 => xv = 1
    BY <2>1, <2>2, <2>3, <2>4, <2>5, <2>6
  <2> HIDE DEF fv, fw, rv, rw, xv, xw
  <2>8. d * fv \in Int /\ d * fw \in Nat
    BY <1>1, <2>7
  <2>9. fw >= fv + 1 => d * fw >= d * fv + d
    <3>1. fw >= fv + 1 => d * fw >= d * (fv + 1)
      BY <1>1, <2>7
    <3>2. d * (fv + 1) = d * fv + d
      BY <1>1, <2>7
    <3> QED
      BY <3>1, <3>2
  <2>10. CASE pool = 0
    <3>1. d * fw = 0 /\ rw = 0
      BY <1>1, <2>7, <2>8, <2>10
    <3>2. fw >= 1 => d * fw >= d
      BY <1>1, <2>7
    <3>3. fw = 0 /\ xw = 0
      BY <1>1, <2>7, <3>1, <3>2
    <3> QED
      BY <2>4, <2>7, <3>3 DEF fv, fw, xv, xw
  <2>11. CASE pool > 0
    <3>1. fw <= fv
      BY <1>1, <2>7, <2>8, <2>9, <2>11
    <3>2. fw = fv => rv > rw
      BY <1>1, <2>7, <2>8, <2>11
    <3>3. fv + xv >= fw + xw
      BY <2>7, <3>1, <3>2
    <3> QED
      BY <2>4, <3>3 DEF fv, fw, xv, xw
  <2> QED
    BY <1>1, <2>10, <2>11
<1> QED
  BY <1>6, <1>8, <1>9 DEF W, d

-----------------------------------------------------------------------------
(* Assessments *)

(* The charge that is kept, earlier and pending refunds and what is left to  *)
(* refund fit into the verified receipts; nobody owes and is owed at once.   *)
THEOREM AssessmentsAddUp ==
  ASSUME NEW a, Assessed(a), SqlAccepts(a)
  PROVE  /\ RetainedFee(a) + a.completed + a.pending + Remaining(a) <= a.receipts
         /\ Refundable(a) = 0 \/ BalanceDue(a) = 0
         /\ Remaining(a) + NewBalance(a) = a.price + OrZero(Remaining(a) - a.price)
<1>1. a.completed + a.pending <= a.receipts
  BY DEF SqlAccepts
<1>2. RetainedFee(a) + a.completed + a.pending + Remaining(a) <= a.receipts
  BY <1>1 DEF Assessed, RetainedFee, Remaining, Smaller, OrZero
<1>3. Remaining(a) = 0 \/ BalanceDue(a) = 0
  BY DEF Assessed, RetainedFee, Remaining, BalanceDue, Smaller, OrZero
<1>4. Refundable(a) = 0 \/ BalanceDue(a) = 0
  BY <1>3 DEF Assessed, Refundable, OrZero
<1>5. Remaining(a) \in Int
  BY DEF Assessed, RetainedFee, Remaining, Smaller, OrZero
<1>6. Remaining(a) + NewBalance(a) = a.price + OrZero(Remaining(a) - a.price)
  BY <1>5 DEF Assessed, NewBalance, OrZero
<1>7. QED
  BY <1>2, <1>4, <1>6

AssessmentInv == facts \in Facts /\ saved \in BOOLEAN /\ (saved = TRUE => SqlAccepts(facts))

LEMMA AssessmentInvariant == AssessmentSpec => []AssessmentInv
<1>1. AssessmentInit => AssessmentInv
  BY DEF AssessmentInit, AssessmentInv
<1>2. AssessmentInv /\ [AssessmentNext]_assessmentVars => AssessmentInv'
  <2> SUFFICES ASSUME AssessmentInv, [AssessmentNext]_assessmentVars PROVE AssessmentInv'
    OBVIOUS
  <2>1. facts' = facts /\ (saved' = saved \/ (saved' = TRUE /\ SqlAccepts(facts)))
    BY DEF AssessmentNext, Prepare, assessmentVars
  <2>2. SqlAccepts(facts)' <=> SqlAccepts(facts)
    BY <2>1
  <2>3. CASE saved' = saved
    BY <2>1, <2>2, <2>3 DEF AssessmentInv
  <2>4. CASE saved' = TRUE /\ SqlAccepts(facts)
    BY <2>1, <2>2, <2>4 DEF AssessmentInv
  <2> QED
    BY <2>1, <2>3, <2>4
<1> QED
  BY <1>1, <1>2, PTL DEF AssessmentSpec

(* The two writers of the same rules differ, for any amounts and any team,   *)
(* only where the sum of what was agreed does not fit a column and the part  *)
(* of it that the business pays does (append_cancellation_review,            *)
(* assessCancellation).                                                      *)
THEOREM WritersAlwaysAgree == AssessmentSpec => []WritersAgree
<1>1. AssessmentInv => WritersAgree
  BY SqlWithinJs DEF AssessmentInv, WritersAgree
<1> QED
  BY <1>1, AssessmentInvariant, PTL

\* Of any facts, a recorded assessment promises no cent that was not verified
\* as received, and never both owes and is owed (assessCancellation).
THEOREM MoneyAlwaysAccounted == AssessmentSpec => []MoneyAccounted
<1>1. AssessmentInv => MoneyAccounted
  <2> SUFFICES ASSUME AssessmentInv, saved PROVE MoneyAccounted
    BY DEF MoneyAccounted
  <2>1. Assessed(facts) /\ SqlAccepts(facts)
    BY RulesAssumption DEF AssessmentInv
  <2>2. facts.pool <= RetainedFee(facts)
    BY <2>1 DEF SqlAccepts, SqlPoolCeiling, RetainedFee
  <2>3. facts.action = "reschedule" => Refundable(facts) = OrZero(Remaining(facts) - facts.price)
    BY DEF Refundable
  <2> QED
    BY <2>1, <2>2, <2>3, AssessmentsAddUp DEF MoneyAccounted
<1> QED
  BY <1>1, AssessmentInvariant, PTL

\* The division of any pool among a team of any size loses no cent, leaves
\* nobody a whole cent from the exact share and never turns the order of the
\* team round (allocateCancellationPool).
THEOREM PoolAlwaysDivided == AssessmentSpec => []PoolDivided
<1>1. AssessmentInv => PoolDivided
  <2> SUFFICES ASSUME AssessmentInv PROVE PoolDivided
    OBVIOUS
  <2> DEFINE team == facts.team
             pool == facts.pool
             total == AgreedTotal(team)
             W == DOMAIN team
  <2>1. pool \in Nat /\ TeamOfCents(team) /\ facts.cause \in {"customer", "business"} /\ total \in Nat
    BY TeamType, TotalOfTeam DEF AssessmentInv, Assessed, TeamAssessed
  <2>2. \A w \in W : team[w] \in Nat
    BY <2>1 DEF TeamOfCents
  <2>3. CASE facts.cause = "business"
    <3>1. BusinessTier(facts) \in {0, 50, 100}
      BY DEF BusinessTier
    <3>2. \A w \in W : Compensation(facts, w) = (team[w] * BusinessTier(facts) + 99) \div 100
      BY <2>3 DEF Compensation, CompanyShare
    <3>3. \A w \in W : team[w] = 0 => Compensation(facts, w) = 0
      BY <3>1, <3>2
    <3>4. \A v, w \in W : team[v] > team[w] => Compensation(facts, v) >= Compensation(facts, w)
      BY <2>2, <3>1, <3>2
    <3> QED
      BY <2>3, <3>3, <3>4 DEF PoolDivided
  <2>4. CASE facts.cause = "customer" /\ total > 0
    <3>1. \A w \in W : Compensation(facts, w) = PoolShare(pool, team, w)
      BY <2>4 DEF Compensation
    <3>2. Division(pool, team)
      BY <2>1, <2>4 DEF Division
    <3> DEFINE paid == [w \in W |-> Compensation(facts, w)]
    <3>3. paid = [w \in W |-> PoolShare(pool, team, w)]
      BY <3>1
    <3>4. SumOver(paid, W) = SumOf(paid, W)
      BY DEF SumOver, SumOf
    <3> HIDE DEF paid, W, team, pool, total
    <3>5. /\ SumOf(paid, W) = pool
          /\ \A w \in W : /\ total * PoolShare(pool, team, w) - Weight(pool, team, w) \in 1 - total .. total - 1
                          /\ team[w] = 0 => PoolShare(pool, team, w) = 0
          /\ \A v, w \in W : team[v] > team[w] => PoolShare(pool, team, v) >= PoolShare(pool, team, w)
      BY <3>2, <3>3, PoolIsShared DEF W, total
    <3>6. SumOver(paid, W) = pool
      BY <3>4, <3>5
    <3>7. \A w \in W : /\ total * Compensation(facts, w) - Weight(pool, team, w) \in 1 - total .. total - 1
                       /\ team[w] = 0 => Compensation(facts, w) = 0
      BY <3>1, <3>5
    <3>8. \A v, w \in W : team[v] > team[w] => Compensation(facts, v) >= Compensation(facts, w)
      BY <3>1, <3>5
    <3> QED
      BY <3>6, <3>7, <3>8 DEF PoolDivided, paid, W, total, team, pool
  <2>5. CASE facts.cause = "customer" /\ total = 0
    <3>1. \A w \in W : Compensation(facts, w) = 0
      BY <2>5 DEF Compensation, PoolShare
    <3> HIDE DEF W, total
    <3> QED
      BY <2>5, <3>1 DEF PoolDivided, W, total
  <2> QED
    BY <2>1, <2>3, <2>4, <2>5
<1> QED
  BY <1>1, AssessmentInvariant, PTL
=============================================================================
