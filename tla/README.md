# FaraiOS: TLA+ models, model checks and proofs

FaraiOS is the office system of small cleaning businesses: bookings of cleaners'
time, quotes, recurring visits, invoices checked against an accounting provider,
cancellation reviews, earnings and settlements. Its rules live in PL/pgSQL
functions and triggers (`src/database/*.sql`, `src/supabase/migrations/*.sql`),
called by a thin Node layer (`src/src/*.js`) that parses forms, calls one function
per action and renders pages. Every SQL function is one transaction that locks the
rows it reads, so most operations are atomic; what is hard is what spans several
of them: attempts at an external provider, retries, sessions that overlap, rules
over the rows of many bookings at once, and long sequences of legal edits. Around
it stand a local service that obtains the provider's consent, a credential vault, and
the operator's helpers (`src/scripts/*.mjs`) that back up, restore and set up; there
every await is a place where a process can die or an answer be lost.

## 1. The parts of the system

| Part | State | Operations | What is hard | Modules |
|---|---|---|---|---|
| Bookings and cleaner reservations (`bookings-draft.sql`, `t04_duration_workload.sql`, `bookings.js`) | booking rows, `cleaner_reservations` over all businesses, recorded limits | create, assign, advance, reassign, reschedule, cancel | a pipeline of triggers with early returns; local days across midnight and zones; limits of one business bind work of another | `WorkloadRules`, `CleanerCalendar`, `Bookings` |
| Concurrent sessions on bookings (same code) | row versions, row and cleaner locks | read, versioned UPDATE, lock, check, commit | check and commit are apart; lock order; lost updates | `BookingSessions` |
| Cancellation reviews (`cancellation-review-draft.sql`, `cancellation-review-rpc-event-filter.sql`, `cancellation-cases.js`, `cancellation-review.js`) | event journal per case | prepare, acknowledge, approve; reserve, submit, complete, release a refund; the guard on the booking row | a journal replayed with retries and versions by code that is not the code that saved it; money reserved while its fate is unknown; the frozen slot | `CancellationRules`, `CancellationAssessments`, `RefundLedger`, `CancellationCase`; guard: `Bookings` |
| Invoices and accounting sync (`invoices-draft.sql`, `invoices.js`, `zoho-books.js`) | invoice rows, connection row, remote drafts | prepare, configure, claim, ask the provider, finish | takeover after two minutes, lost answers, crashes, a provider that does not deduplicate | `InvoiceSync` |
| Accounting Stage B (`accounting-stage-b.sql`, `accounting-stage-b.js`) | connection generations, intents, operations with leases | connect, change, register, enqueue, claim, dispatch, finish | leases, fenced attempts, quarantine, generations | `OnceOnlyPosting`, `AccountingStageB` |
| Monthly settlements (`monthly-settlements-draft.sql`, `t04_per_line_settlement_allocations.sql`, `monthly-settlements.js`) | statements with lines and transfers, claims over all statements | add a line, collect, dispute, resolve, freeze, approve, submit, reconcile, provide | money with an uncertain outcome, one earning paid once over many statements, figures that change after approval | `PayLedger`, `MonthlySettlements` |
| Earnings adjustments (`earnings-adjustments-draft.sql`, `earnings-adjustments.js`, `adjustment-reviews.js`) | source, items and event journal per worker and booking | register, propose, dispute, approve, reject, freeze, simulate | corrections approved against figures that have moved, chains of replacements, two implementations of one journal | `AdjustmentReplay`, `EarningsAdjustments` |
| Quotes and VAT settings (`quotes-draft.sql`, `quotes.js`, `vat.js` and its migration) | quote rows, bookings and handoffs made from them, a versioned tax policy | create, issue, accept, decline, cancel, convert, insert directly, configure VAT | a conversion repeated after a lost answer; a booking inserted past the quote's version; prices and taxes that change between the steps | `Quotes` |
| Recurring schedules (`recurring-draft.sql`, `recurring.js`) | one schedule row, its visits, the audit log of its versions | create, change, pause, cancel, generate, insert a visit | repeated generations, boundaries that move with a change of rule, days that pass or are closed | `RecurringSchedules` |
| Supervisor allowances (`20261022070131_supervisor_monthly_allowances.sql`, `supervisor-allowances.js`) | an append-only history per supervisor | save, read in pages, preview a month | months that begin at different instants in different zones; pages read while others save | `Allowances` |
| Sign-in sessions, identity and access (`auth-session.js`, `identity.js`, `access.js`) | a bounded map of sessions | sign in, request, sign out, expire | the limit and the identity are read before awaits and used after them | `SignInSessions` |
| Attended connection (`t19-connection.js`, `t19-provider.js`, `t19-successor.js`, `scripts/t19-connection.mjs`) | one snapshot per business: original connection, archive, successor | import, authorise, callback, verify, disable, every script of the custodian | late callbacks, a grant whose answer was given up, histories a cleanup must still accept | `ConsentConnection` |
| Credential vault (`t19-vault.js`) | a file, a lock file, a queue of updates | open, update, close | a crash between write and rename, openings that race for the lock | `CredentialVault` |
| C1 access tokens (`t19-c1.js`) | an authoritative row, a cache and a shared flight per process | access, claim, dispatch, complete, fail | rotation of the refresh token by a request whose answer is lost; leases that expire under a running flight | `AccessTokens` |
| Backup, restore and setup helpers (`backup-staging.mjs`, `restore-staging.mjs`, `setup-zoho-staging.mjs`) | files of one run, a destination database, a private credential file | capture; restore, preflight, verify, finish, diagnose; consent, exchange, save, revoke | clients that outlive the command that started them, commits whose answer is lost, two runs at a time | `StagingBackup`, `StagingRestore`, `ZohoSetup` |
| Earnings rules, cleaning rules, profiles and assessments | configuration rows and pure calculations | save with a version, compute | rounding and boundaries only | not modelled |
| Customers, catalogue, staff and teams, audit log | master data rows | create, edit, archive | nothing that spans operations | not modelled; what bookings and quotes read of them is state of those modules |
| Pages, dashboard, calendar, local and hosted server, acceptance scripts | none of their own but a window of failed sign-ins | render, route, deploy | text, layout and I/O | not modelled |

How they interact: every write to a booking row runs the cancellation guard, the
lifecycle validation, the workload snapshot and the reservation trigger, in that
order. Quotes and recurring schedules write bookings through the same triggers, in
the transaction that changes the quote or the schedule. A request looks at the map of
sessions, awaits the Auth server and the memberships, then calls a function.
The attended connection keeps its snapshot in the vault; the vault's lock keeps the
service and the scripts apart.
An invoice copies a booking and reads its status under lock at every claim. A
cancellation case reads the booking it freezes. A monthly statement locks and marks
the corrections it claims: one function writes the rows of two components.

## 2. Modules and how they follow the code

A component's module ends with its properties. Theorems are in six modules of proofs:
`BookingsProofs`, `BookingSessionsProofs`, `CancellationCaseProofs` (with assessments),
`MonthlySettlementsProofs` (statements and the corrections they claim), `OfficeProofs`
(quotes, recurring visits, sign-in, invoices, allowances) and
`OperatorProofs` (the Stage B queue, the attended connection, the vault, the tokens and
the helpers). Two modules of lemmas serve them: `FoldFacts` for sums and folds,
`WorkloadFacts` for the work of a cleaner's day. `MC...` modules give the constants
small values.
Some components share no state and are too small for a run each: `MCMoney`
(`InvoiceSync`, `CancellationAssessments`, `EarningsAdjustments`, `Allowances`),
`MCOperator` (`ConsentConnection`, `CredentialVault`, `AccessTokens`, `StagingBackup`,
`StagingRestore`, `ZohoSetup`) and `MCOffice` (`Quotes`, `RecurringSchedules`,
`SignInSessions`) check them side by side. Their next-state relation moves one
component while the others rest in one fixed initial state: the states are the sum of
the components' states, not the product, and each component has all its behaviours.

### WorkloadRules, CleanerCalendar, Bookings

`WorkloadRules` is the arithmetic of `audit.workload_issue` and of the exclusion
constraint: half-open intervals, local days of a zone (an offset; a day has
`DayLength` instants), the policies in reach of a visit, the minutes of each
reservation on each day, and `CanHold`, what the reservation trigger asks of a new
set of reservations. `CleanerCalendar` is the abstract promise: the calendar
changes one booking at a time, a whole team at once, and stays free of double
bookings and within every recorded limit.

`Bookings` has the rows (`row`), the reservation table (`held`), what the triggers
read of `business_settings` (`settings`) and of the memberships (`roster`), and the
reviewed cancellation cases (`cases`). `Write(b, new)` is the trigger pipeline:
`Stamped` and `PlanAllowed` (booking_workload_metadata), `ReviewPermits`
(guard_cancellation_review), `ValidBooking` (validate_booking) and the reservation
trigger with its early return `KeepsHold`. The actions of `updateBooking` build
`new` and call it. A pipeline that raises rolls everything back and is no step.
`Preview` and `ShownFree` are the reader `audit.staff_availability`. Bookings
start local times, durations and plans from small sets; prices, contacts, audit
rows and reasons are left out (the office always enters the reason asked for).

### BookingSessions

Opens the transaction of one change up: `Open` reads the row and its version
outside any transaction; `Submit` sends `UPDATE ... WHERE version = seen`; the row
lock is taken by `Begin`, or found stale by `Conflict`, only when no other
transaction holds it and on the row as it is then (READ COMMITTED re-evaluates the
predicate); `LockCleaner` takes the cleaners of the old and the new team one at a
time in the order of their ids; `Check` runs the checks on what is committed;
`Commit` makes everything visible and frees all locks. `Leave` is any failure.

### InvoiceSync

One business's invoices and connection, and attempts that claim, ask the provider
and finish. Every SQL function and every HTTP exchange is one step, and the process
may die between any two. `TurnsLate` is the two-minute clock. The provider (external) records a
draft per POST, loses answers, and its search may lag (`Search`). `OutcomeOf` is the
catch of `sync`.

### OnceOnlyPosting, AccountingStageB

The Stage B queue of `accounting-stage-b.sql`: connection generations (`account`), registered
intents, operations with a lease and an attempt id, and the worker of
`accounting-stage-b.js` with the provider it talks to. `OnceOnlyPosting` is the
promise without workers and leases; `KeepsPromise` is the refinement.

### CancellationRules, CancellationAssessments, RefundLedger, CancellationCase

`CancellationRules` holds the arithmetic of a review twice, as the page computes it
(`JsAccepts`, `Refundable`, `Remaining`) and as the database checks it (`SqlAccepts`,
`SqlAvailable`), with the bounds each puts on amounts and sums, and the largest-remainder
division of a pool. The two bound different sums: the database what was agreed with the
whole team, whoever pays (`rpc-event-filter.sql:66`); the page each cleaner's amount, and
of the sums only what is paid and, where a customer's pool is divided, what was agreed
(`cancellation-review.js:25`, `:85`). `OnlyShareFits` names the difference.
`CancellationAssessments` prepares one assessment of any set of facts.

`CancellationCase` is the journal of one case, of one booking at its original start.
The two implementations stay two: the page is the fold `Read`, which an event it
refuses makes unreadable; the database is the queries of `SqlAllows`. `Submit` is a
request the page has checked on the journal it read; `Call` a signed-in client that
calls the function itself, with any payload and any spelling of a refund's key;
`Record` the append, one step under the lock of the case; `Drop` every way a request
comes to nothing. In between come `ChangeRole`, a change of membership, `ApprovePolicy`,
the owner's approval without which no case is opened, and `ChangeBooking`, a move or a
reassignment of the booking as far as the guard on its row lets it through: once there is
a case, the team stays and the visit moves only to an approved replacement. A new case is
checked against the booking (`Reviewable`) by the database; the page takes start and
team from the booking it has read (`FitsBooking`) and checks neither the policy nor
whether the visit belongs to a schedule. `RefundLedger` is the promise: money is set aside
only within the approved amount, and money that was sent is never free again. Evidence,
texts (which one program measures in bytes and the other in characters), the clocks,
dates and business days are left out.

### AdjustmentReplay, EarningsAdjustments

Again one journal and two programs. `AdjustmentReplay` is `earningsAdjustmentEvent` of
the page, event by event. `EarningsAdjustments` is the SQL function on the rows
(`source`, `item`), which in the same step gives the event to the replay (`page`).
There is one source of one worker; roles, evidence texts, periods and the checks
that the booking is in scope are left out. The names of this component say what
they belong to (`AdjustmentInit`, `AdjustmentNext`): the next one extends it.

### PayLedger, MonthlySettlements

The statements of one worker, with the corrections they claim: the module extends
`EarningsAdjustments` and its `Next` interleaves both. One SQL function makes every
change and locks the statement, so every event is one step on the saved statement; a
post that is refused, stale or repeated is no step. `claims` is the table whose
primary key spans the statements; `AddCorrection` also marks the correction's row.
A transfer carries what is left of each line (`remaining`) and, once the bank has
answered, what went to each line (`allocations`); the office enters both answers and
allocations, so `Reconcile` takes any that `Consistent` admits. `settlementSummary` of
the page (`ShownOutstanding`, `OffersTransfer`) sums the same transfers in its own
order. What an earning is worth is an outstanding amount the office enters, here a
constant. `PayLedger` is the promise: what has cleared of each thing owed only moves
towards what is due. Roles, evidence, legacy transfers and the dates of months are
left out. The names of events that the components share are told apart
(`ApproveCorrection`, `Approve`).

### Quotes

The rows of quotes, of the bookings that name one, and of the invoice handoffs. A
request carries any version the quote ever had (`SeenVersions`), because a page may be
as old. `ConvertQuote` is the function that locks the quote, books and hands off in
one transaction, with the triggers of the booking's insert (`Bookable`,
`InsertBooking`); `ConvertAgain` is its replay branch, which compares what was asked
with what was made; `InsertDirectly` is the insert policy's way past the function.
The catalogue's rate, the tax policy and the customer's state change between any two
calls; a policy is named by its version, and a quote and its booking freeze it. Left
out: who may act, wording, and a repeated creation, which changes nothing.

### RecurringSchedules

One schedule, its visits and the log of its versions (`events`, the audit log, is
state because the promises speak of earlier versions). A rule stands for frequency,
weekdays, end and time; `DueOn` is what `recurring_due` says of it. `GenerateRecurring`
continues from the boundary, makes the visits that are `Missing` and moves the
boundary, all or nothing; `InsertVisit` is a direct insert, checked by the trigger.
Half days let the hour of a visit be past on the day of the call. `Closures` are days
on which a booking is refused.

### SignInSessions

The map of ids, and browsers in the middle of a login or a request. Each await (the
Auth server, the memberships) ends a step, so a session may expire, be signed out or
lose its role between the look at the map and the act (`StillSignedIn`). `HasRoom`
is looked at before the awaits, the id added after them, as in `login`.

### Allowances

One history per supervisor, a reader that takes it in pages, and a clock in halves of a
month: in the odd ones Johannesburg is already in the next month and UTC is not. These
are the two zones the settings admit (`business-settings-draft.sql:12`).
`SaveSupervisorAllowance` computes the earliest month from the zone the settings hold
at that moment. Pages are offsets into an ordered table that only grows.

### ConsentConnection

The snapshot of one business: the original connection, what is archived of it, and its
one successor, each with its status, credentials, cleanup marker and audit history.
`Start` ... `Disable` are the handlers of the local service, cut at each await outside
its queue; `TakeState`, `Dispatch`, `AnswerGrant`, `Recheck`, `StoreGrant` and
`LateGrant` are one callback. `ImportClient` ... `CleanupSuccessor` are the custodian's
scripts, which run while the service does not (`Script`). The provider (`Decide`,
`ProviderGrants`, `Revoke`) may grant after its answer was given up, and the process
may stop or a write fail at any time. `AuditState` is the automaton over the history
by which `cleanupSuccessor` decides what evidence it takes. Assumed: attestations are
true, and a revocation at the provider also ends a code that was not presented yet.
Manifests are names, not compared field by field.

The repeated disabling of an original connection is not idempotent: its history then
blocks `CleanupRejectedConsent` and `PrepareSuccessor`. Only the successor's disabling is
documented as idempotent (`docs/t19-successor-preparation-20261024.md:29`), and
`EveryEndCanBeCleaned` is about the successor.

### CredentialVault

`openVault`: the exclusive lock file, the queue, the read, the synced temporary file
and the rename, each a step a process may die after. The value of
the store is the set of updates in it. A lock left by a dead process is removed by hand
(`RemoveLock`).

### AccessTokens

Callers in several processes; each process has a cache and one shared flight. The
authoritative row with leases and versions is the coordinator of
`test-support/t19-c1-dummy.mjs`. The provider (external) may rotate the token with each
request it serves, also a request whose sender is gone (`inbox`). `FlightFails` may
come before each step of a flight; `recorded` says whether the failure reached the
row. Flights for two bindings of one process share nothing, and are those of two
processes here.

### StagingBackup, StagingRestore, ZohoSetup

`StagingBackup` is `capture` with its client containers: the manifest, the dumps, the
manifest again, then key, archive and checksum. The daemon may create or start a client
after its command was killed. A source that returns to earlier content between the
manifests can only be noticed by its row counts (`returned`); a container created after
the command was killed stays, but is never started.

`StagingRestore` is every mode of `restoreArchive` against one destination. A client is
one database session; one that is killed leaves a session that may still commit, so
`CommitImport` of a run that has ended is a step. The destination is otherwise unused,
as the operator confirms, and the import is enabled (`config/restore-test.json`).

`ZohoSetup` has the runs of the setup and of both diagnostics over one private file:
consent, exchange, verification, saving by lock and rename, or revocation. A lock is
removed by hand only when its run is gone, and the file is not edited by hand between
the last look at it and the rename.

## 3. Runs

| Run | Instance | Asks |
|---|---|---|
| `bookings_teams` | 2 bookings of one business, one of them under the reviewed terms, 2 cleaners, limit 0 or 3 of a 4-instant day | Do the reservations follow every edit (`HeldMatchesRows`), does every write change the calendar as `CleanerCalendar` promises (`KeepsCalendar`), do reviewed slots stay (`ReviewRespected`)? |
| `bookings_midnight` | 2 businesses in 2 zones, 1 cleaner, visits of 2 instants at both ends of the day | Is each local day within every limit in reach (`LimitsKept`), and does the preview agree with what saving decides (`PreviewAgrees`)? |
| `bookings_zone` | 1 booking, a zone that changes | Violated: the preview does not count days in the zone saved with the booking (section 7) |
| `sessions` | 2 sessions, 2 bookings, 2 cleaners, versions up to 3 | Does every commit keep the calendar's promises (`KeepsCalendar`), is a submitted change decided (`Decided`)? |
| `stage_b` | 2 intents, 2 workers, 2 generations, 2 attempts | Verified means there (`VerifiedIsReal`), review fences the connection (`ReviewKeepsQuarantine`); refinement of `OnceOnlyPosting` (`KeepsPromise`) |
| `cancellation_refunds` | 1 owner, 1 request at a time, 6 events, 2 refunds | Is every accepted journal readable (`Readable`), and does it implement `RefundLedger` (`KeepsLedger`)? |
| `cancellation_office` | 1 user whose role changes, 1 booking with 1 or 2 cleaners, 2 requests at once, 4 events; one assessment that only its bounded share lets pass | Does the database accept what the page has checked, while roles, booking and policy change; and if not, is it one of the new cases named in `PageAgrees`? |
| `monthly_settlements` | 2 statements, a visit, a pool, a reduction that may also be settled alone; 2 lines, 2 transfers, 5 events | Is anything paid twice (`PaysOnce`), is something else paid than was approved (`ApprovalCurrent`), does the page offer what the database refuses (`OfferIsAccepted`)? |
| `money` | 2 invoices, 2 attempts at once, 3 claims; all facts of small cents, 3 cleaners with every split, and amounts and teams on both sides of their bounds (20 cents, 3 cleaners); 3 proposals about 2 occurrences, 9 events; 2 supervisors, 2 changes each, pages of 2 rows | One draft per invoice, never hidden, and a late answer changes nothing (`AtMostOneDraft`, `DraftStaysVisible`, `LatestAttemptDecides`); page and database accept the same assessments, but where only the share the business pays fits, and the money adds up to the cent (`WritersAgree`, `MoneyAccounted`, `PoolDivided`); earnings stay in their range and every history opens (`EarningsStayInRange`, `HistoryReads`); ended months keep their allowance, and a preview that is read in pages passes no change over (`EndedMonthsKept`, `NoChangePassedOver`) |
| `allowances_zone` | 1 supervisor, 2 changes, 2 zones | Violated: a month that has begun is changed (section 7) |
| `operator` | 2 sessions, a consent and its successor, generations up to 3; 2 processes and 3 updates at the vault; 2 callers in 2 services, 2 generations; one capture of 2 dumps; 2 restores; 2 setups with 3 bindings | Is a grant ever forgotten, revived or left where no cleanup is accepted (`GrantRemembered`, `DisabledForGood`, `EveryEndCanBeCleaned`); an acknowledged update lost (`AnswersAreTrue`); a refresh begun with a dead token (`UsableIsCurrent`); a checksum beside a useless backup, a client left at the source (`ChecksumNamesBackup`, `NoClientLeftRunning`); a destination filled twice, a failure called harmless that was not (`RestoredOnce`, `PlainFailureChangedNothing`); a grant or a binding lost (`GrantAccounted`, `BindingsKept`)? |
| `office` | 2 quotes, 2 selections, 2 starts of which 1 is inside the hours; one schedule, 2 rules, 4 days; 2 browsers, 4 ids, a limit of 2 sessions | Is an agreement booked twice or otherwise than accepted (`OneBookingPerAgreement`), a promised visit skipped or a processed day touched (`VisitsFollowSchedule`), the map of sessions outgrown (`SessionsBounded`)? |

Each property has at least one mutant in `PROJECT.json`: a definition of the code
changed the way a bug would change it, under which the run finds the property
violated. The mutated forms stand next to what they replace, marked *Mutant*.

### Bounds, and why they are enough

- A day has 4 instants, and visits last 1 or 2: enough for visits that touch, overlap,
  fill a limit of 3 and straddle midnight, in two zones one instant apart.
- Two bookings and two cleaners: a conflict is a matter of two, and a team of two is
  the smallest that two transactions can lock in opposite orders. The runs do not
  reach three visits of one day; the per-day sum is the same fold over a set.
- `MaxVersion` of sessions is 3: an edit seen, overtaken and retried.
- `MaxAttempts` of an invoice is 3: claim, takeover, takeover of the takeover. Two
  organisations and two connection versions: one repointing.
- Stage B has 2 attempts per operation and 2 generations: a lease that expires and is
  taken over, before and after a reconnect. The bounds stop claims, not the workers.
- A cancellation journal of 6 events holds prepare, approve and four events of two
  refunds; 4 events with two requests on their way hold the races for one balance.
  Event keys are as many as the journal may hold; a form's key is fresh or one that
  was sent before, which are all keys the handlers tell apart.
- A column holds 5 cents in the runs of the journal and 20 in `money`, for 2147483647 in
  the code, and a team 2 and 3 cleaners for 100: every single amount, every sum and the
  size of a team occur at the bound and one beyond it. The limit of a charge (R300 in the
  code) lies below that bound as in the code, and is reached.
- Nine events of corrections let three proposals be made and settled; with a column
  of 4 cents, an original of 3 and changes of -2 and +1, both ends of the range
  are reached.
- A statement has 2 of the 200 lines. Cents are 1 and 2: small, but every partial
  amount occurs, also two lines of which one is reduced by the other. Two transfers
  over all statements: a retry after every outcome, or one of each statement. 5 events
  of the correction: register, propose, approve, freeze, and one that disputes it or
  settles it alone (`MaxJournal` is 5 here, 9 in `money`).
- In `money`, two supervisors with two changes and pages of two rows (500 in the code):
  a page ends inside a history, and one that was read may grow before the next page.
- A consent, its recovery and one successor are all a business can have. Generation 3
  leaves room for two disabled exchanges; two sessions and one late grant hold the races
  between handlers.
- Two processes at the vault and three updates: a change that fails, one that is lost
  with its process and one that is retried. Two callers in two services with three
  claims: a shared flight, a lease that expires under it, and a takeover.
- Three contents of the source, two of them with the same row counts: a change the
  counts reveal, one that they do not, and a return. Two dumps of the code's six: one
  before and one after the source changes. Two restores: one that lost its answer and
  one that follows. Two setups and three bindings: the same alias, the same business,
  and neither in common.
- Two quotes, two rates and one change of the tax policy: accepted under one, converted
  under another. Four days and two days ahead: a boundary that is reached, overtaken by
  the clock and continued; the revisions go up to 4.
- A limit of 2 sessions (100 in the code) and 2 browsers: both pass the check on the last
  free place. Of twelve operations two are asked for, one that needs an owner and one
  that a manager may do.

Symmetry is used only where model values are interchangeable and no liveness
property is checked. Deadlock is not checked where the system may really stop: a
journal at its bound, an assessment that is recorded once, a business in which nothing
more is to be invoiced (`money`), services that are stopped for good and helpers that end
(`operator`), and a clock at its bound (`allowances_zone`).

### Fairness

Only `BookingSessions` has a liveness property, `Decided`: a submitted change commits
or is refused. `FairSpec` assumes strong fairness of taking the row lock and each
cleaner's lock, for a lock may be free again and again and taken by others:
PostgreSQL queues waiters, so a session that can have the lock repeatedly gets it.
It assumes weak fairness of `Check` and `Commit`, which are statements of a running
transaction. Nobody is obliged to `Leave`: a timeout, a lost client or the deadlock
detector may never come, so progress rests on the order of the locks alone.

## 4. What is proved

The theorems hold for every value of the constants that the named assumptions allow:
any numbers of bookings, cleaners, sessions, invoices, workers, users, keys, proposals,
statements, lines, quotes, visits, browsers, processes and runs. The assumptions say that
dummy values differ from real ones, that bounds and cents are naturals, that inputs have
their types, and that what is summed or listed is finite: the staff (`BookingsAssumption`,
`SessionsAssumption`), the proposals of one journal (`AdjustmentReplayAssumption`) and the
supervisors (`AllowancesAssumption`). Each is named in the module that declares the
constants, and TLC evaluates it on the runs.

**FoldFacts** is what lets sums and replays be proved at all. The community modules define
sums and folds by recursion, and an induction theorem that takes a predicate as a
parameter cannot be instantiated by these provers. So each induction is over a *set*:
the parts of a finite set for which the claim holds contain the empty set and are closed
under one more element, hence contain all (`EveryPart`), or there would be a smallest
part for which it fails (`SmallestOf`). From this come what adding or dropping an element
does to a sum, sums over equal and over larger functions, the exchange of two sums
(`SumSwap`), folds along a sequence, and the place of an element in a finite order.

**WorkloadFacts**: the local days of a slot are those it meets; a day's `Work` is such a
sum; releasing a slot keeps every limit (`ReleasedKeepsLimits`); and one that
`workload_issue` lets in keeps every limit of the cleaner, also those of slots that were
there before (`HeldWithinLimits`). The last is the heart of both booking modules: the code
checks only policies within a day of the new visit, and that is enough.

**BookingsProofs**: `HeldAlwaysMatchesRows`, `NeverDoubleBooked`, `LimitStaysRecorded`,
`ReviewAlwaysRespected`. The trigger replaces the reservations of one booking and keeps
them when its early return applies; that this is harmless needs the invariant that they
were exactly what the row calls for, and that rows without a team hold nothing
(`UnassignedRows`). One lemma speaks of `Write`; each action only has to show that the
row it builds has its type. `CalendarInv` adds that the reservations are finite and
within every limit they carry; from it follow `LimitsAlwaysKept`, `PreviewAlwaysAgrees`
(the reader and the trigger decide alike while zones stay) and `ImplementsCalendar`, the
refinement of `CleanerCalendar`.

**BookingSessionsProofs**: `VerdictsStand`, `NeverDoubleBooked`, `NeverLostUpdate`. The
check is made on what is committed, the commit comes later. The invariant says that
locks exclude each other, that a checked session holds the locks of all its team,
and hence that its verdict still stands (`VerdictStands`): another session that
committed work for one of these cleaners would have held that cleaner's lock. The same
argument for the limits (`LimitVerdicts` in `CalendarInv`) gives `LimitsAlwaysKept` and
`ImplementsCalendar`: the transaction in all its steps, with any number of sessions,
implements the same `CleanerCalendar` that `Bookings` implements in one step.

**CancellationCaseProofs**: `JournalInvariant`, `RefundLifecycle` and the refinement
`JournalKeepsLedger` rest on keys being recorded once (`RecordedOnce`) and on a journal
that begins with its assessment (`PrepareFirst`): only then does a query that picks *the*
reservation or *the* assessment mean what the ledger means. `AlwaysReadable` and
`PageAlwaysAgrees` compare the two programs on journals of any length: `ReadInv` says that
the page's fold has come to no refusal and holds of each refund what the database's
queries find, so one more accepted event takes the fold one step further; `PageInv` adds
that an event the page has checked is still acceptable to the page as long as nobody
recorded another. `AllowedAlike` then carries it to the database, all but the new cases
that only the database refuses.

**CancellationCaseProofs**, assessments: `WritersAlwaysAgree`, `MoneyAlwaysAccounted` and
`PoolAlwaysDivided` are the arithmetic of `CancellationRules` for all amounts, any bound
and any team. What the database accepts the page accepts, because each part is at most
its sum and what a business pays of an agreed amount at most that amount; the converse
fails exactly in `OnlyShareFits` (`SqlWithinJs`). The parts add up to the cent, and the
largest-remainder division gives out the whole pool, nobody more than one cent away from
their share. Who gets the odd cents is decided by places in an order; that there are
exactly as many such places as odd cents is the placement lemma of `FoldFacts`.

**MonthlySettlementsProofs**, corrections: `OneCorrection`. A replacement names the
proposal it replaces; that all *other* proposals of the occurrence are rejected too is
known only because proposals are dated and all but the last are rejected
(`OnlyLastLives`). `JournalInv` says that the page's replay has refused nothing and shows
every row as it is, and that approved corrections keep the earnings in their column; it
gives `EarningsAlwaysFit` and `HistoryAlwaysReads`.

**MonthlySettlementsProofs**, statements: `ClaimedOnce`, `NotBothWays`, `OneOpenTransfer`,
`Approved`, `Evidence`, and `CorrectedOnceInStatements`, which carries the result on
corrections over to the composed specification. The invariant ties three tables:
the lines of every statement, the claims and the marks on the corrections
(`LinesClaimed`, `LinesMarked`, `LinesKnown`), and says that a marked correction is
approved for good and was not settled alone. Steps on lines that are there go
through one lemma (`StatementKeepsIInv`), steps that add one through another
(`WithLineKeeps`). On money: `NothingPaidTwice`, the refinement of `PayLedger`, and
`OffersAlwaysAccepted`. `PayInv` says of every transfer that what it carries of a line,
less what it has already cleared, is what is left of that line (`SentFits`), and of every
line that what has cleared lies between nothing and its cents, on its own side of zero.
As only the last transfer can be uncertain, no two can both clear the rest; each step
then moves what has cleared of each thing owed towards what is due (`Progress`), and a
thing has one line. The page adds up the same transfers line by line where the database
adds up line sums; that both agree is the exchange of two sums.

**OfficeProofs**, agreements, visits, sessions: `AgreementBookedOnce`,
`VisitsAlwaysFollow`, `SessionsStayBounded`.
`QuotesInv` says of every booking that its quote is converted, names it and agrees with it
(`BookingsNamed`), of every converted quote that its booking exists (`ConvertedBooked`),
that handoffs belong to such pairs (`HandedOff`), and that the answers given still hold
(`ReceiptsTrue`); the lock of the quote then makes a second conversion a replay.
`RecurringInv` says that the log holds every version in order and ends with the row
(`LogComplete`) and that a visit names a revision of the log (`RevisionsKnown`): only
then can a visit, made long ago, be compared with the boundary its revision had.
`SignInInv` counts sessions and the logins that have found room together (`RoomTaken`):
the sum stays below the limit and the browsers, whatever the order of the awaits.

**OfficeProofs**, invoices: `OneCreator`, `OneDraft`, `MatchReal`, `DraftVisible`,
`SharedConnection`, `LatestDecides`. One draft is not inductive: the reason is that of
all running attempts at most one was told to create, and that while it runs no
draft exists (`SoleCreator`), and that a positive answer is true (the invariant's
`AnswersAreTrue`).

**OfficeProofs**, allowances: `EndedMonthsStay`, and `ReadingPassesNothingOver`: a row
inserted while a reader pages by offset moves later rows, never those already read. With at
most one new change of a supervisor the preview is true of one moment. It is not with
two: the pages may hold the later change without the earlier
(`supervisor-allowances.js:30-34`).

**OperatorProofs**, the Stage B queue: `TypeCorrect`, `OneDraft`, `VerifiedReal`,
`CancelledUnposted`, `OldGeneration`, `Quarantine`, and the refinement `Implements`.
The invariant adds which attempts were issued and who may create, across leases,
fences and generations.

**OperatorProofs**, the consent: `ConsentRemembered`, `DisabledStays`, `EveryEndCleaned`.
`ConsentInv` says that a consent that was presented is that of the present connection and
that something of it is held (`Remembered`), and that every answer under way belongs to
what was asked (`SentForThis`). The third theorem needs `AuditInv`: the automaton that
judges a history, run over any history the service can have written, is in a state that
fits the connection and allows the event it waits for.

**OperatorProofs**, vault and tokens: `VaultAnswers` (a change is computed from the file
as it is, because its writer has the lock: `ChangesReadFile`); `UsableCredential` (of the
newest lease at most one request can still rotate the token, and while a claim is not
sent nothing is under way: `ClaimNotSent`, `OneRotation`).

**OperatorProofs**, the helpers: `ChecksumOfBackup` and `ClientsGone` (which client may
still run after which step; the dumps read lie between two equal manifests: `ReadOfOne`),
`RestoreOnce` and `PlainFailures` (which runs may still change the destination:
`SessionOfClient`, `ChangedByWriter`), `GrantsAccounted` and `EntriesKept` (what each run
knows of its grant and its entry).

## 5. What is only model-checked

- `Decided` of `BookingSessions`: liveness under fairness, with the order of the locks as
  its reason. It needs ENABLED and is out of this prover's reach.
- The bounded parts: that every action and every disjunct is taken, and that each property
  fails under its mutants.
- The two runs that expect a violation (section 7).

Every other property of a run is stated by a theorem. Some theorems state what no run
lists (`NeverDoubleBooked`, `NeverLostUpdate`, `LimitStaysRecorded`, `OneDraft` of Stage B,
`CancelledUnposted`, `OldGeneration`, `RefundLifecycle`, `OneCorrection`, `ClaimedOnce`,
`NotBothWays`, `Evidence` and others): they hold for every value of the constants, and the
runs spend their time on the rest. The inductive invariants that a proof adds to a
module's properties (`CalendarInv`, `JournalInv`, `PayInv` and the others) are stated in
the modules of proofs, beside the lemmas that keep them.

`OfferIsAccepted` has a condition that is a finding of its proof: a reduction may be paid
together with a line that is disputed afterwards, and then more is outstanding than the
statement ever was. When that passes the largest amount a transfer can have
(`monthly-settlements-draft.sql:70`) the page offers what the database refuses. The office
sees an error and nothing is lost; it takes amounts near 2147483647 cents.

`WritersAgree` and `PageAgrees` have such a condition too: a business that cancels early
pays half of what was agreed with the team or nothing, and the page bounds that part
(`cancellation-review.js:85`) where the database bounds the whole
(`cancellation-review-rpc-event-filter.sql:66`). With agreed earnings of more than
2147483647 cents together the page offers the assessment and the database refuses it.
No document says otherwise, so this is no finding of section 7. `PageAgrees` names the
other new cases that are refused after the page has offered them: there is no approved
policy, the visit belongs to a schedule, or the booking was moved or reassigned in the
meantime. Nothing else the page offers on a current history is refused, and no later
event of a case for any of these reasons.

## 6. What is not modelled, and the plan

Left out for good: pages, routing and rendering, the dashboard, the local and the hosted
server, deployment and acceptance scripts (text and I/O); reasons and evidence texts;
the SQL that backups are rewritten into; master data with no rule that spans
operations. The audit log is modelled only where something is promised about earlier
versions (`RecurringSchedules`) or decided by it (`ConsentConnection`). Roles are
modelled where a change of role between two steps can matter (cancellation cases,
Stage B, sign-in sessions, the attended connection). The window of failed sign-ins of
`staging-server.js:409-413`, which is read before an await and written after it, is not
modelled.

What remains, in this order:

1. The composition of `Quotes` and `RecurringSchedules` with the rows of `Bookings`: the
   rows they insert are theirs here, and whether a start is free is a choice.
2. Pure rules, each as the page and as the database computes it, compared over bounded
   inputs: the tax of a document, earnings and cleaning rules, totals of invoices.
3. Abstract specifications, with refinements, for the operator's modules.

## 7. Two divergences between document and code

### The zone of a preview

`docs/cleaning-duration-and-workload.md:36` says that day boundaries use the saved
booking time zone. `audit.staff_availability`
(`20261021152058_t04_duration_workload.sql:204`) takes the zone the settings hold now,
unless a limit was recorded with the booking. `bookings_zone` shows it: a business
changes its zone while a booking is confirmed, and the preview counts the visit on
other days than the assignment will. Saving decides by the booking's zone, so no
limit is broken; the preview may show a cleaner as free, or as busy, wrongly.
`PreviewAgrees` of `bookings_midnight` shows the two agree while zones stay.

### The month of an allowance

`docs/supervisor-allowances.md:13` says: "Earlier records and past/current periods cannot
be rewritten using the toggle." `configure_supervisor_allowance`
(`20261022070131_supervisor_monthly_allowances.sql:78-80`) computes the earliest month from
`now()` in the zone the settings hold at that moment. `allowances_zone` shows it: in the
hours when a month has begun in Johannesburg and not in UTC, a business that moves to
UTC has that month before it again, and its owner may change the allowance of a month
that had been current. Only those hours are concerned: `EndedMonthsKept` shows that a
month that is over never changes, in whatever zones the business has been.
