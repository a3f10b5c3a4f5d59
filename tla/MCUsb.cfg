SPECIFICATION Spec
CONSTANTS
  RingSlots = 8
  Prefill = 5
  MaxFailures = 1
  Listener = {L1, L2}
  Typing <- SomeTyping
INVARIANTS EnqueueIsExclusive DescriptorIsThere KeysInOrder
PROPERTY ConfiguredUnlessRaced
CHECK_DEADLOCK FALSE
