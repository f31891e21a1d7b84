\* One user whose role changes, a booking that changes, two requests at a time.
CONSTANTS
  FeeCap = 3
  MaxAmount = 5
  MaxTeam = 2
  thandi = thandi p1 = p1 p2 = p2 noKey = noKey noFacts = noFacts
  Users = {thandi}
  Keys = {1, 2, 3, 4, 5}
  Facts <- OfficeFacts
  Teams <- UpToTwo
  Amounts = {1}
  Posts = {p1, p2}
  NoKey = noKey
  NoFacts = noFacts
  MaxEvents = 4
SPECIFICATION Spec
INVARIANT PageAgrees
SYMMETRY Symmetry
CHECK_DEADLOCK FALSE
