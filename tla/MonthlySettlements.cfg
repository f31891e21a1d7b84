\* Two months, a visit of two cents, a pool of one and a reduction of one cent.
CONSTANTS
  s1 = s1 s2 = s2 visit = visit pool = pool hours = hours none = none
  Statements = {s1, s2}
  Earnings = {visit, pool}
  KindOf <- SomeKinds
  CentsOf <- SomeCents
  MaxLines = 2
  MaxTransfers = 2
  Items = {c1}
  Occurrences = {hours}
  None = none
  Original = 2
  MaxCents = 4
  Corrections <- SomeCorrections
  MaxJournal = 5
SPECIFICATION Spec
INVARIANTS ApprovalCurrent OfferIsAccepted
PROPERTY PaysOnce
SYMMETRY Symmetry
