SPECIFICATION MCSpec
CONSTANTS
  NumPages = 15
  Slots = {0, 1}
  VPages = 11
  Spans <- MCSpans
  KernelText = {0}
  KernelData = {1}
  ImagePages = 1
  ImageBase = 2
  StackBase = 4
  MmapBase = 8
  MmapLimit = 10
  MaxRegions = 4
  PageBytes = 2
  Sizes = {0, 1, 3, 15}
  Protections <- MCProtections
  WordMax = 15
  MaxLoads = 2
CHECK_DEADLOCK FALSE
INVARIANTS Isolation MappingsSound CheckedBufferOwned LoopsAgree
PROPERTIES ReadyRuns
