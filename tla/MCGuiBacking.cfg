SPECIFICATION Spec
CONSTANTS
  Width = 4
  Height = 4
  GUI_DAMAGE_MAX = 2
  Pids = {p1, p2}
  GUI_NO_OWNER = GUI_NO_OWNER
  GUI_MAX_WINDOWS = 2
  GUI_EVENT_QUEUE_SIZE = 2
  GUI_MAX_CURSOR_REGIONS = 1
  GUI_CURSOR_W = 2
  GUI_CURSOR_H = 1
  GUI_CLOSE_BTN_W = 1
  GUI_CLOSE_BTN_PAD = 0
  GUI_CLOSE_BTN_MIN_TITLE_H = 1
  MinButton = 1
  MinWindow = 3
  FONT_GLYPH_HEIGHT = 1
  FONT_LINE_HEIGHT = 1
  TextWidth = 2
  TextLines = {1, 2}
  HeapBuffers = 1
  Bounds <- MCBounds
  Titles = {"app", "panel"}
  TitleHeights = {0, 1, 2}
  Drawn <- MCDrawn
  Region <- MCRegion
  Moves <- MCMoves
  MaxCalls = 4
SYMMETRY MCSymmetry
INVARIANT BackingCoversContent
CHECK_DEADLOCK FALSE
