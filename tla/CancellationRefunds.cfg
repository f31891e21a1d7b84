\* One owner, one request at a time, a journal long enough for two refunds.
CONSTANTS
  FeeCap = 3
  MaxAmount = 5
  MaxTeam = 2
  thandi = thandi p1 = p1 p2 = p2 noKey = noKey noFacts = noFacts
  Users = {thandi}
  Keys = {1, 2, 3, 4, 5, 6}
  Facts <- AllFacts
  Teams <- OneCleaner
  Amounts = {1, 2}
  Posts = {p1}
  NoKey = noKey
  NoFacts = noFacts
  MaxEvents = 6
SPECIFICATION Spec
INVARIANT Readable
PROPERTY KeepsLedger
CHECK_DEADLOCK FALSE
