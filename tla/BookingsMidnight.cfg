\* Two businesses, one cleaner, two zones: work across midnight counts on both days.
CONSTANTS
  b1 = b1 b2 = b2 shalean = shalean bokkie = bokkie c1 = c1 c2 = c2 nowhere = nowhere
  DayLength = 4
  Bookings = {b1, b2}
  Businesses = {shalean, bokkie}
  Cleaners = {c1}
  BusinessOf <- MCBusinessOf
  TeamSize <- MCTeamSize
  NewTerms = {}
  Starts = {1, 3}
  Durations = {2}
  Plans <- ReviewedPlans
  Limits = {0, 3}
  Zones = {0, 1}
  Nowhere = nowhere
SPECIFICATION Spec
INVARIANTS LimitsKept PreviewAgrees
