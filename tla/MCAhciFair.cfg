SPECIFICATION FairSpec
CONSTANTS
  User = {d1, d2, t1}
  Disk = {d1}
  Async = {t1}
  Io = Io
  Root = Root
  Slots = 2
PROPERTIES Answered
CONSTRAINT Undisturbed
CHECK_DEADLOCK FALSE
