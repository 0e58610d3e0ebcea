INIT MCInit
NEXT MCNext
CONSTANTS
  QueueSize = 2
  IndexMod = 4
  s1 = s1
  s2 = s2
  Servers = {s1, s2}
  AddressOf <- MCAddressOf
  SiblingAddressOf <- MCSiblingAddressOf
  Strays = {"foreign"}
  RUNTIME_NETWORK_FRAME_BUDGET = 1
  None = None
  Nil = Nil
  RingMod = 4
  Capacity = 3
  WordMax = 15
  LbaMax = 3
  Contents <- MCContents
  TableOf <- MCTableOf
  TotalOf <- MCTotalOf
  Data = {"d"}
  Disks <- MCDisks
  MaxCount = 2
  MaxTimeouts = 1
  MaxErrors = 1
  MaxCalls = 2
CHECK_DEADLOCK FALSE
INVARIANTS RingsSound LeaseSound CompletionKept HeldAgree Bounded Transferred
