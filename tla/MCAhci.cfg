SPECIFICATION AhciSpec
CONSTANTS
  User = {d1, d2, t1}
  Disk = {d1, d2}
  Async = {t1}
  Io = Io
  Root = Root
  Slots = 2
SYMMETRY DiskSymmetry
INVARIANTS RequestsKept
CONSTRAINT StayIntact
CHECK_DEADLOCK FALSE
