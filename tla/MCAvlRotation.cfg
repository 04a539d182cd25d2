CONSTANTS
  Val = {1, 2, 3, 4, 5, 6}
  Payload = {1, 2}
SPECIFICATION AvlSpec
INVARIANTS RotationFits
CHECK_DEADLOCK FALSE
