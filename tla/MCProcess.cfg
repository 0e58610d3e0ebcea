SPECIFICATION Spec
CONSTANTS
  NumPages = 8
  MaxProcesses = 2
  PidModulus = 4
  ImagePages = 1
  MaxRegions = 3
  MmapSizes = {1}
  Calls = {"open", "mmap", "munmap"}
  MaxTables = 4
  MaxAttempts = 2
INVARIANTS PagesExclusive NoPageLost ActiveTablesLive OneRunning CleanRestart
INVARIANTS UniquePids NoGhostHolders
PROPERTIES ZombieKept
