SPECIFICATION Spec
CONSTANTS
  NumPages = 8
  Slots = {0}
  VPages = 11
  Spans <- MCSpans
  KernelText = {0}
  KernelData = {1}
  ImagePages = 1
  ImageBase = 2
  StackBase = 4
  MmapBase = 8
  MmapLimit = 10
  MaxRegions = 4
  PageBytes = 2
  Sizes = {1}
  Protections = {{}}
  WordMax = 15
  MaxLoads = 1
CHECK_DEADLOCK FALSE
INVARIANT ImageAndStackKept
