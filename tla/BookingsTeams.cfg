\* Two bookings compete for two cleaners, one of them under the reviewed terms.
CONSTANTS
  b1 = b1 b2 = b2 shalean = shalean bokkie = bokkie c1 = c1 c2 = c2 nowhere = nowhere
  DayLength = 4
  Bookings = {b1, b2}
  Businesses = {shalean}
  Cleaners = {c1, c2}
  BusinessOf <- MCBusinessOf
  TeamSize <- MCTeamSize
  NewTerms = {b1}
  Starts = {1, 3}
  Durations = {2}
  Plans <- BothPlans
  Limits = {0, 3}
  Zones = {0}
  Nowhere = nowhere
SPECIFICATION Spec
SYMMETRY Symmetry
INVARIANT HeldMatchesRows
PROPERTIES KeepsCalendar ReviewRespected
