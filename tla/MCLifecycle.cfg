SPECIFICATION LifeSpec
CONSTANTS
  t1 = t1
  t2 = t2
  t3 = t3
  p1 = p1
  p2 = p2
  Null = null
  Node = {idle, cleaner, t1, t2, t3}
  ListId <- Lists
  Idle = idle
  First = t1
  Cleaner = cleaner
  Process = {p1, p2}
  ProcessOf <- TwoProcesses
  Sleeper = {t2}
  Joiner = {t1, t3}
  ThreadExiter = {t2}
  ProcessExiter = {t1, t3}
  MaxTicks = 1
  TickAt <- OutsideWindows
  TickListed = FALSE
  TickDying = TRUE
INVARIANTS
  FreedStackNotInUse
  JoinSeesEnd
  LivingThreadOnOneList
PROPERTIES
  DeadIsNotScheduled
  
CHECK_DEADLOCK FALSE
