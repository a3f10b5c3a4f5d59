SPECIFICATION ClientSpec
CONSTANTS
  Node = {idle, t1, t2, t3}
  Idle = idle
  First = t1
  Null = null
  ListId = {"runnable", "sleeping", "mutex"}
  MaxTicks = 0
  TickListed = FALSE
  MaxStrays = 0
  TickAt <- OutsidePopWindow
INVARIANTS
  NoLostWakeup
CHECK_DEADLOCK FALSE
