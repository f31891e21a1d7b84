\* Two quotes; one schedule over four days; two browsers, two sessions at most.
CONSTANTS
  q1 = q1 q2 = q2 i3 = i3 i4 = i4 none = none
  Quotes <- MCPair
  Selections = {"small", "large"}
  Starts = {1, 2}
  OpenStarts = {1}
  MaxRate = 2
  MaxPolicy = 1
  NoQuote = none
  NoBooking = none
  Days <- MCDays
  Rules <- MCRules
  DueOn <- MCDueOn
  HourOf <- MCHourOf
  EndOf <- MCEndOf
  Closures <- MCClosures
  Ahead = 2
  MaxRevision = 4
  NoSchedule = none
  Ids <- MCIds
  Browsers <- MCPair
  Operations = {"settings", "bookings"}
  SessionLimit = 2
  NoId = none
  NoOperation = none
SPECIFICATION MCSpec
INVARIANTS OneBookingPerAgreement VisitsFollowSchedule SessionsBounded
SYMMETRY Symmetry
