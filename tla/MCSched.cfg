CONSTANTS
  Thread = {idle, a, b, c}
  Sysidle = idle
  WaitQueue = {w}
  MAX_PRIORITY = 2
  NoThread = none
SPECIFICATION FairSchedSpec
INVARIANTS SchedInv
PROPERTIES HighestRuns TakeTurns
