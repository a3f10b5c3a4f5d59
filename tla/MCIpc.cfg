SPECIFICATION MCSpec
CONSTANTS
  p1 = p1
  p2 = p2
  t1 = t1
  t2 = t2
  t3 = t3
  irq = irq
  Process = {p1, p2}
  Thread = {t1, t2, t3}
  ProcessOf <- MCProcessOf
  MaxObj = 4
  MaxCap = 7
  MaxId = 4
  Irq = {irq}
  Data <- MCData
  MaxBytes = 1
  IdLists <- MCIdLists
  Masks <- MCMasks
  Rooms = {0, 2}
  MaxCalls = 3
SYMMETRY Sym
INVARIANTS
  IpcTypeOK
  CapabilityInOnePlace
  UntransmittableStays
  LoneSenderSendsAll
CHECK_DEADLOCK FALSE
