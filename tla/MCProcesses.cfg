SPECIFICATION Spec
CONSTANTS
  First = First
  kid1 = kid1
  kid2 = kid2
  kid3 = kid3
  None = None
  Proc <- MCProc
  AProc = {p1, p2}
  Frames <- MCFrames
  VmMax = 13
  UserPages = 12
  TablePages = 6
  Page = 4
  Segment <- MCSegment
  Incr = {5}
  MaxProcs = 2
  Lib = {"l1", "l2"}
  Programs <- MCPrograms
SYMMETRY Symmetry
CONSTRAINT Sound
INVARIANTS   Linked Balanced
CHECK_DEADLOCK FALSE
