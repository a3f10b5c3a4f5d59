SPECIFICATION StoppedSpec
CONSTANTS
  NumPorts = 2
  Slots = 2
  Hardware <- Machines
  Disk <- SmallDisk
  LbaOffset = 4
  SectorsPerBlock = 2
  Direct = 2
  PerBlock = 2
  InodesPerBlock = 2
  DescriptorsPerBlock = 2
  Word = 65536
  Device = 0
  Scripts <- SomeScripts
INVARIANTS SlotsAgreeUnlessRaced AnswersMatchDisk
PROPERTY RequestsAnswered
CHECK_DEADLOCK FALSE
