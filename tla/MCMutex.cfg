SPECIFICATION ClientSpec
CONSTANTS
  Node = {idle, t1, t2, t3}
  Idle = idle
  First = t1
  Null = null
  ListId = {"runnable", "sleeping", "mutex"}
  MaxTicks = 0
  TickListed = FALSE
  MaxStrays = 1
  TickAt <- Everywhere
SYMMETRY Symmetry
INVARIANTS
  MutualExclusion
  LockWord
CHECK_DEADLOCK FALSE
