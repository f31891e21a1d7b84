----------------------------- MODULE Allowances -----------------------------
(***************************************************************************)
(* Monthly allowances of supervisors: owners append changes that take      *)
(* effect from a later month, and a page that previews any month reads the *)
(* whole history in pages while changes go on being appended.              *)
(*                                                                         *)
(* Time is counted in halves of a month: the odd ones are the hours when   *)
(* Johannesburg is already in the next month and UTC is not. Each save     *)
(* locks its supervisor's history and is one step; a refused one changes   *)
(* nothing. Roles, reasons and actors are left out.                        *)
(***************************************************************************)
EXTENDS Integers, Sequences, FiniteSetsExt

CONSTANTS
  Supervisors,   \* in the order of their identifiers: 1, 2, ...
  Amounts,       \* what an allowance may be changed to; 0 is off
  Months,        \* 0 .. the last month followed
  MaxChanges,    \* bound on the changes of one supervisor
  PageSize       \* rows a page of the history holds

ASSUME AllowancesAssumption ==
  /\ Supervisors \subseteq Nat /\ IsFiniteSet(Supervisors)
  /\ Amounts \subseteq Nat
  /\ Months \subseteq Nat
  /\ MaxChanges \in Nat /\ PageSize \in Nat \ {0}

VARIABLES
  change,   \* [Supervisors -> rows of supervisor_allowance_changes, by version]
  clock,    \* halves of a month since month 0 began in UTC
  zone,     \* time zone of the business settings
  begun,    \* the latest month that has been the current one, ever
  reader    \* the request that reads the history

allowanceVars == <<change, clock, zone, begun, reader>>

Zones == {"UTC", "Johannesburg"}

Change == [month : Months, amount : Amounts]

\* rows: the <<supervisor, version>> received; began: the histories' lengths
\* when the reading began.
Reader ==
  [at : {"idle", "reading", "done"}, rows : SUBSET (Supervisors \X (1 .. MaxChanges)),
   start : Nat, began : [Supervisors -> 0 .. MaxChanges]]

AllowanceTypeOK ==
  /\ \A s \in Supervisors : Len(change[s]) <= MaxChanges /\ \A v \in DOMAIN change[s] : change[s][v] \in Change
  /\ clock \in Nat /\ zone \in Zones /\ begun \in Months
  /\ reader \in Reader

NotReading ==
  [at |-> "idle", rows |-> {}, start |-> 0, began |-> [s \in Supervisors |-> 0]]

AllowanceInit ==
  /\ change = [s \in Supervisors |-> <<>>]
  /\ clock = 0 /\ zone = "UTC" /\ begun = 0 /\ reader = NotReading

MonthIn(z, time) == IF z = "UTC" THEN time \div 2 ELSE (time + 1) \div 2

CurrentMonth == MonthIn(zone, clock)

\* Mutant: a change may take effect from the month that is running.
MonthAllowedFromNow(month) == month >= CurrentMonth

MonthAllowed(month) == month > CurrentMonth

SaveSupervisorAllowance(s, version, month, amount) ==
  /\ version = Len(change[s]) /\ version < MaxChanges
  /\ MonthAllowed(month)
  /\ change' = [change EXCEPT ![s] = Append(@, [month |-> month, amount |-> amount])]
  /\ UNCHANGED <<clock, zone, begun, reader>>

\* The rows of all supervisors, in the order the pages are cut from.
AllRows == {r \in Supervisors \X (1 .. MaxChanges) : r[2] \in DOMAIN change[r[1]]}

Precedes(r, t) == r[1] < t[1] \/ (r[1] = t[1] /\ r[2] < t[2])

\* Mutant: the end of the range is taken as exclusive.
PageWithoutItsEnd(start) ==
  {r \in AllRows : Cardinality({t \in AllRows : Precedes(t, r)}) \in start .. start + PageSize - 2}

Page(start) ==
  {r \in AllRows : Cardinality({t \in AllRows : Precedes(t, r)}) \in start .. start + PageSize - 1}

BeginReading ==
  /\ reader.at # "reading"
  /\ reader' = [NotReading EXCEPT !.at = "reading", !.began = [s \in Supervisors |-> Len(change[s])]]
  /\ UNCHANGED <<change, clock, zone, begun>>

\* One query, each on the rows there are when it runs. A short page is the last.
ReadPage ==
  /\ reader.at = "reading"
  /\ reader' =
       [reader EXCEPT
          !.rows = @ \cup Page(reader.start),
          !.start = @ + PageSize,
          !.at = IF Cardinality(Page(reader.start)) < PageSize THEN "done" ELSE "reading"]
  /\ UNCHANGED <<change, clock, zone, begun>>

\* The allowance in force in a month, of the versions in seen: the latest
\* month at or before it, then the latest version; none is off.
InForce(history, seen, month) ==
  LET due == {v \in seen : history[v].month <= month}
      latest == {v \in due : \A w \in due : history[w].month <= history[v].month}
  IN  IF due = {} THEN 0 ELSE history[Max(latest)].amount

PreviewMonthlyEarnings(s, month) ==
  InForce(change[s], {v \in 1 .. MaxChanges : <<s, v>> \in reader.rows}, month)

\* Time passes, or the owner saves another zone: UTC is what an unconfigured
\* business has.
MoveOn(z, time) ==
  /\ MonthIn("Johannesburg", time) \in Months
  /\ zone' = z /\ clock' = time
  /\ begun' = Max({begun, MonthIn(z, time)})
  /\ UNCHANGED <<change, reader>>

TimeMovesOn == MoveOn(zone, clock + 1)

ChangeZone == \E z \in Zones \ {zone} : MoveOn(z, clock)

AllowanceNext ==
  \/ \E s \in Supervisors, v \in 0 .. MaxChanges, m \in Months, a \in Amounts :
       SaveSupervisorAllowance(s, v, m, a)
  \/ BeginReading \/ ReadPage
  \/ TimeMovesOn \/ ChangeZone

AllowanceSpec == AllowanceInit /\ [][AllowanceNext]_allowanceVars

-----------------------------------------------------------------------------
(* What the history of allowances must guarantee. *)

AllowanceIn(s, month) == InForce(change[s], DOMAIN change[s], month)

\* What a supervisor was due for a month that is over never changes, whenever
\* the owner saves and however the business moves between time zones.
EndedMonthsKept ==
  [][\A s \in Supervisors, m \in Months :
       m < begun => AllowanceIn(s, m)' = AllowanceIn(s, m)]_allowanceVars

\* docs/supervisor-allowances.md: "Earlier records and past/current periods
\* cannot be rewritten using the toggle." A month that has begun in the zone the
\* business had then keeps its allowance.
BegunMonthsKept ==
  [][\A s \in Supervisors, m \in Months :
       m <= begun => AllowanceIn(s, m)' = AllowanceIn(s, m)]_allowanceVars

\* A preview read in several pages while other owners save never passes over a
\* change there was when the reading began: rows move to later pages, never to
\* those already read. Of a history that grew by at most one change meanwhile it
\* shows what was in force at one moment; of two new changes the pages may hold
\* the later without the earlier.
NoChangePassedOver ==
  reader.at = "done" =>
    \A s \in Supervisors :
      /\ \A v \in 1 .. reader.began[s] : <<s, v>> \in reader.rows
      /\ Len(change[s]) <= reader.began[s] + 1 =>
           \E k \in reader.began[s] .. Len(change[s]) : \A m \in Months :
             PreviewMonthlyEarnings(s, m) = InForce(change[s], 1 .. k, m)
=============================================================================
