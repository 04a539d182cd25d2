SPECIFICATION FairSpec
PROPERTIES ImplementsSched TimersLive
CONSTANTS
  User = {u1, u2}
  Sysidle = idle
  TimerThread = timer
  Thread = {u1, u2, idle, timer}
  WaitQueue = {u1, u2}
  Sleeper = {u1}
  NoThread = NoThread
  MAX_PRIORITY = 1
  MaxTimers = 2
  MaxMs = 1
