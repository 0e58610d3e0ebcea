INIT MCInit
NEXT MCNext
CONSTANTS
  Pids = {1, 2}
  MaxMessages = 3
  MaxSize = 2
  Bytes = {1}
  MaxSends = 4
  INPUT_EVENT_QUEUE_SIZE = 3
  RUNTIME_INPUT_EVENT_BUDGET = 2
  MaxPushes = 4
  Width = 3
  Height = 2
  GUI_DAMAGE_MAX = 2
  AnyRect <- MCAnyRect
  PageBytes = 2
  WordMax = 14
  MaxPages = 4
  Bases <- MCBases
  Memories <- MCMemories
  MaxReserves = 2
CHECK_DEADLOCK FALSE
INVARIANTS
  NoStaleTail NothingLost HeapSound BitmapSound DamageSound KeysMatchBytes
PROPERTIES IsMailbox IsAllocator IsFifo
