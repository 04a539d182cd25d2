SPECIFICATION Spec
CONSTANTS
  QueueSize = 2
  MsgMax = 2
  MaxInputs = 3
  rows = 2
  cols = 4
  TabStop = 2
  Digit = {0, 1}
  MaxParam = 10
  CbufSize = 4
  EraseWrap = 1
  ReadSize = 2
  MaxKeys = 6
  MaxHeld = 4
  width = 7
  height = 6
  Radius = {0, 1, 2}
  Heights = {1, 255, 256, 257}
  ScrW = 8
  ScrH = 7
  CurW = 2
  Window <- MCWindow
  WinRect <- MCWinRect
  Delta <- MCDelta
  MaxDrags = 4
CONSTRAINT Sound
INVARIANTS   LineKept ModifiersTrue FigureDrawn 
CHECK_DEADLOCK FALSE
