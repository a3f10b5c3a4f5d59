SPECIFICATION MCSpec
CONSTANTS
  cpp = cpp
  rust = rust
  yellowstone = yellowstone
  denali = denali
  vfs = vfs
  voyageurs = voyageurs
  Process = {cpp, rust, yellowstone, denali, vfs, voyageurs}
  Thread = {cpp, rust, yellowstone, denali, vfs, voyageurs}
  Client = {cpp, rust}
  Server = {yellowstone, denali, vfs, voyageurs}
  ProcessOf <- MCProcessOf
  ServiceOf <- MCServiceOf
  LangOf <- MCLangOf
  EndpointId <- MCEndpointId
  MaxRpc = 2
  MaxObj = 12
  MaxCap = 22
  MaxId = 9
  Irq = {}
  Data <- MCData
  MaxBytes = 4096
  IdLists = {}
  Masks = {}
  Rooms = {}
INVARIANTS
  RepliesSucceed
PROPERTIES
  ImplementsCalls
  CallReturns
CHECK_DEADLOCK FALSE
