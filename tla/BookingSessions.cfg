\* Two sessions, two bookings, two cleaners: locks and commits under the fairness of the lock queues.
CONSTANTS
  b1 = b1 b2 = b2 s1 = s1 s2 = s2 none = none
  DayLength = 4
  Bookings = {b1, b2}
  Sessions = {s1, s2}
  Cleaners = {1, 2}
  Works <- MCWorks
  Limits = {0, 3}
  ZoneOf <- MCZoneOf
  NoBooking = none
  MaxVersion = 3
SPECIFICATION FairSpec
PROPERTIES KeepsCalendar Decided
