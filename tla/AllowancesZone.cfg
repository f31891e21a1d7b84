\* One supervisor, two changes, and a business that leaves Johannesburg's zone.
CONSTANTS
  Supervisors = {1}
  Amounts = {0, 1}
  Months <- MCMonths
  MaxChanges = 2
  PageSize = 2
SPECIFICATION AllowanceSpec
PROPERTY BegunMonthsKept
CHECK_DEADLOCK FALSE
