SPECIFICATION Spec
CONSTANTS
  ListHead = {g, h}
  Entry = {a, b, c, d}
  Obj = {parent, child}
  Words = 2
  BITS_PER_LONG = 3
  MaxOrder = 2
  LastPage = 12
  Skew = {0, 1, 2, 3}
  Val = {1, 2, 3, 4, 5, 6}
  Payload = {1, 2}
  HThread = {t1, t2}
  Request = {1, 3}
  PoolLen = 15
  MaxPools = 2
  MemLen = 100
  Counts <- MCCounts
  Text <- MCText
  Directive <- MCDirective
  BufSize = {2, 1000}
  MaxDirectives = 2
  MLens = {0, 1, 2, 8, 9, 33}
  MaxChain = 3
  Pattern <- MCPattern
SYMMETRY Symmetry
CONSTRAINT Clean
INVARIANTS Rings KidInv BlocksKept TreeFinds HeapHolds LibraryRight
PROPERTIES ImplementsLists LowestGiven InsertKeepsBalance
CHECK_DEADLOCK FALSE
