SPECIFICATION Spec
CONSTANTS
  NDirect = 1
  Entries = 2
  Table <- MCTable
  MapData = {101, 102}
  MaxSets = 3
  Words = 16
  DirName = {"f", "ab", "abcde", "wxyz"}
  Old = "f"
  NameLen <- MCNameLen
  MaxDirOps = 5
  ExtProc = {p, q}
  FileName = {a, b}
  Groups = 2
  BlkPerGroup = 3
  InodePerGroup = 2
  FileBlocks = 2
  MaxExtOps = 5
  FProc = {sh, c1}
  Shell = sh
  File = {f1, f2, f3}
  NoFile = NoFile
  Access = {"O_WRONLY"}
  MaxFd = 1
  MaxRef = 2
SYMMETRY Symmetry
CONSTRAINT Sound
INVARIANTS ReadsBack DirWalks  Counted
CHECK_DEADLOCK FALSE
