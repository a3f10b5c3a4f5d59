SPECIFICATION StoppedSpec
CONSTANTS
  Node = {idle, t1, t2, t3}
  Idle = idle
  First = t1
  Null = null
  ListId = {"runnable", "sleeping", "mutex", "queue"}
  MaxTicks = 0
  TickAt <- Everywhere
  TickListed = TRUE
  Sender = {t1}
  Receiver = {t2, t3}
  Small = {t3}
  MaxMessages = 2
INVARIANTS
  NoPanicUnlessRaced
  OneListUnlessRaced
  WakeupUnlessRaced
  MessageUnlessRaced
  
