\* The business changes its time zone while a booking is open.
CONSTANTS
  b1 = b1 b2 = b2 shalean = shalean bokkie = bokkie c1 = c1 c2 = c2 nowhere = nowhere
  DayLength = 4
  Bookings = {b1}
  Businesses = {shalean}
  Cleaners = {c1}
  BusinessOf <- MCBusinessOf
  TeamSize <- MCTeamSize
  NewTerms = {}
  Starts = {1}
  Durations = {1}
  Plans <- BothPlans
  Limits = {0, 3}
  Zones = {0, 1}
  Nowhere = nowhere
SPECIFICATION Spec
INVARIANT PreviewUsesSavedZone
