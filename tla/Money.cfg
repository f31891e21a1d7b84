\* Two invoices share a connection that is reconfigured, two attempts at once;
\* every small assessment of one cleaner and of three, and some on both sides
\* of the bounds; three proposals about two occurrences, on three cents where
\* the column holds four; two supervisors whose history is read two rows at a
\* time.
CONSTANTS
  i1 = i1 i2 = i2 i3 = i3 w1 = w1 w2 = w2 none = none
  shaleanBooks = shaleanBooks bokkieBooks = bokkieBooks p1 = p1 transport = transport hours = hours
  Invoices <- MCInvoices
  Organisations = {shaleanBooks, bokkieBooks}
  Customers = {p1}
  Workers <- MCWorkers
  Unbound = none
  NoInvoice = none
  MaxAttempts = 3
  MaxVersion = 2
  FeeCap = 8
  MaxAmount = 20
  MaxTeam = 3
  Facts <- AllFacts
  Items <- MCItems
  Occurrences = {transport, hours}
  None = none
  Original = 3
  MaxCents = 4
  Corrections <- SomeCorrections
  MaxJournal = 9
  Supervisors = {1, 2}
  Amounts = {0, 1}
  Months <- MCMonths
  MaxChanges = 2
  PageSize = 2
SPECIFICATION MCSpec
INVARIANTS AtMostOneDraft DraftStaysVisible WritersAgree MoneyAccounted PoolDivided EarningsStayInRange HistoryReads NoChangePassedOver
PROPERTIES LatestAttemptDecides EndedMonthsKept
SYMMETRY Symmetry
\* An assessment is recorded once, and a quiet business stops.
CHECK_DEADLOCK FALSE
