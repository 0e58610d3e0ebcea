SPECIFICATION MCFairSpec
CONSTANTS
  Width = 3
  Height = 1
  GUI_DAMAGE_MAX = 2
  Rects <- MCRects
  RUNTIME_INPUT_EVENT_BUDGET = 1
  RUNTIME_NETWORK_FRAME_BUDGET = 1
  RUNTIME_REDRAW_DAMAGE_BUDGET = 1
  MaxQueued = 2
  MaxFrames = 2
  MaxChanges = 2
  MaxHeld = 2
  QueueSize = 2
  IndexMod = 4
  Servers = {s1}
  None = None
CHECK_DEADLOCK FALSE
INVARIANTS MaskSound PassSound
PROPERTIES ScreenCatchesUp ByteReadWhileUserRuns OfferLeadsToLease
