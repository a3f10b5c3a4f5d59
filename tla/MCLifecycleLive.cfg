SPECIFICATION LifeFairSpec
CONSTANTS
  t1 = t1
  t2 = t2
  t3 = t3
  p1 = p1
  p2 = p2
  Null = null
  Node = {idle, cleaner, t1, t3}
  ListId <- Lists
  Idle = idle
  First = t1
  Cleaner = cleaner
  Process = {p1, p2}
  ProcessOf <- TwoProcesses
  Sleeper = {t1}
  Joiner = {t1}
  ThreadExiter = {t3}
  ProcessExiter = {t3}
  MaxTicks = 2
  TickAt <- OutsideWindows
  TickListed = FALSE
  TickDying = FALSE
PROPERTIES
  SleeperRunsAgain
  EndedIsCleanedUp
  JoinReturns
