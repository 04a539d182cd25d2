CONSTANTS
  MaxOrder = 2
  LastPage = 12
  Skew = {0}
SPECIFICATION BuddySpec
INVARIANTS NoBug
CHECK_DEADLOCK FALSE
