SPECIFICATION QueueSpec
CONSTANTS
  Node = {idle, t1, t2}
  Idle = idle
  First = t1
  Null = null
  ListId = {"runnable", "sleeping", "mutex", "queue"}
  MaxTicks = 0
  TickAt <- Everywhere
  TickListed = TRUE
  Sender = {t1, t2}
  Receiver = {t1, t2}
  Small = {t2}
  MaxMessages = 2
PROPERTIES
  ImplementsFifo
CHECK_DEADLOCK FALSE
