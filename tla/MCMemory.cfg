SPECIFICATION MemSpec
CONSTANTS
  p1 = p1
  p2 = p2
  MemMap <- Regions
  SlotsPerSlab <- Slots
  Process = {p1, p2}
  Root = p1
  Parent = {p1}
  Program = {p2}
  Thread = {0, 1, 2}
  Fanout = 4
  Levels = 2
  NextMap = 8
  MapLimit = 13
  StackSize = 2
  Aligns = {0}
  Code = {4, 5}
  Sizes = {2}
  Bounds = {4, 6, 8, 10}
  BootPrograms <- Programs
  Menus <- Together
  MaxObjects = 6
INVARIANTS
  PageHasOneOwner
  TranslationsBacked
  MappingsDisjoint
  StackIsFree
PROPERTIES
  FreeKeepsOthers
CHECK_DEADLOCK FALSE
