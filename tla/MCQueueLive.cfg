SPECIFICATION QueueFairSpec
CONSTANTS
  Node = {idle, t1, t2}
  Idle = idle
  First = t2
  Null = null
  ListId = {"runnable", "sleeping", "mutex", "queue"}
  MaxTicks = 0
  TickAt <- OutsideWindows
  TickListed = FALSE
  Sender = {t1}
  Receiver = {t2}
  Small = {}
  MaxMessages = 2
PROPERTIES
  RunnableGetsCpu
  WaiterRunsAgain
  SentIsReceived
