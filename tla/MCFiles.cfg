CONSTANTS
  FatCount = 2
  ClusterCount = 8
  RootCluster = 2
  SectorBytes = 2
  SectorsPerCluster = 2
  DirSlots = 2
  ShortName <- MCShortName
  Pids = {p1, p2}
  VFS_MAX_PATH = 5
  VFS_MAX_NODES = 5
  VFS_MAX_OPEN_FILES = 2
  VFS_MAX_GLOBAL_OPEN_FILES = 3
  FAT32_MAX_VFS_FILES = 4
  TMPFS_MAX_FILE_SIZE = 4
  SYSCALL_VFS_IO_CHUNK = 3
  BootImage <- MCBootImage
  Note <- MCNote
  Disk <- MCDisk
  total_sectors = 26
  Opens <- MCOpens
  Unlinks <- MCUnlinks
  Renames <- MCRenames
  Buffers <- MCBuffers
  Lengths = {5}
  Offsets = {0, 2}
  MaxCalls = 4
  MaxFaults = 1
  FaultAt = {1, 3}
INIT MCInit
NEXT MCNext
SYMMETRY MCSymmetry
INVARIANTS VolumeSound HandlesSound QueriesAgree
PROPERTIES IsFileStore
CHECK_DEADLOCK FALSE
VIEW MCView
