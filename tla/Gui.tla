-------------------------------- MODULE Gui --------------------------------
(***************************************************************************)
(* The desktop: the pool of windows, their event queues and backing        *)
(* buffers, focus, stacking, dragging and the cursor, and the compositor   *)
(* that paints them (kernel/gui_pool.c, gui_events.c, gui_backing.c,       *)
(* gui_input.c, gui_cursor.c, gui_compositor.c, drivers/fb/fb.c), driven   *)
(* by the window system calls (kernel/syscall_gui.c) and by the mouse and  *)
(* the keyboard.                                                           *)
(*                                                                         *)
(* Each function of the code is an operator from a desktop (gui_desktop_t) *)
(* to the desktop it leaves; an action is one system call or one input     *)
(* event, which the kernel handles with interrupts masked.  A colour says  *)
(* what was painted, for whom, and whether highlighted; glyphs and bitmaps *)
(* are filled rectangles.                                                  *)
(***************************************************************************)
EXTENDS Damage, FiniteSets, SequencesExt

CONSTANTS
  Pids, GUI_NO_OWNER,
  GUI_MAX_WINDOWS, GUI_EVENT_QUEUE_SIZE, GUI_MAX_CURSOR_REGIONS,
  GUI_CURSOR_W, GUI_CURSOR_H,
  GUI_CLOSE_BTN_W, GUI_CLOSE_BTN_PAD, GUI_CLOSE_BTN_MIN_TITLE_H,
  MinButton,            \* 4 in the code: a lower button is not drawn
  MinWindow,            \* 8 in the code: the least side of an owner's window
  FONT_GLYPH_HEIGHT, FONT_LINE_HEIGHT,
  TextWidth, TextLines, \* of a text: its width, the numbers of its lines
  HeapBuffers,          \* the backing buffers that the heap has room for
  Bounds,               \* the rectangles that programs ask for
  Titles, TitleHeights, Drawn, Region,  \* ... titles, heights, drawing, cursor region
  Moves,                \* the relative motions of the mouse
  MaxCalls              \* bound on calls and input events

VARIABLES
  desktop,   \* gui_desktop_t, and `buffers`, the number of buffers in use
  screen,    \* the framebuffer's pixels
  alive,     \* the processes that are not zombies
  calls

vars == <<desktop, screen, alive, calls>>

GUI_NO_WINDOW == -1
Ids == 0 .. GUI_MAX_WINDOWS - 1
Slots == 0 .. GUI_MAX_CURSOR_REGIONS - 1
NoRegion == [used |-> FALSE, x |-> 0, y |-> 0, w |-> 0, h |-> 0, shape |-> "arrow"]

NewWindow(r, pid, z, title) ==
  [used |-> TRUE, x |-> r.x, y |-> r.y, w |-> r.w, h |-> r.h, owner_pid |-> pid, z |-> z,
   flags |-> {}, title |-> title, title_h |-> 0, events |-> <<>>, owner_drawn |-> FALSE,
   minimized |-> FALSE, backing |-> <<>>, regions |-> [s \in Slots |-> NoRegion]]
Unused == [NewWindow([x |-> 0, y |-> 0, w |-> 0, h |-> 0], GUI_NO_OWNER, 0, "")
             EXCEPT !.used = FALSE]

Rect(x, y, w, h) == [x |-> x, y |-> y, w |-> w, h |-> h]
RectOf(w) == Rect(w.x, w.y, w.w, w.h)
Inside(r, x, y) == r.x <= x /\ x < r.x + r.w /\ r.y <= y /\ y < r.y + r.h
Cut(r, w, h) == Rect(Upper(r.x, 0), Upper(r.y, 0), Lower(r.x + r.w, w) - Upper(r.x, 0),
                     Lower(r.y + r.h, h) - Upper(r.y, 0))

AddDamage(d, r) == [d EXCEPT !.damage = gui_damage_add(@, r)]
gui_request_redraw(d) == [d EXCEPT !.damage = Full]

Live(d, id) == id \in Ids /\ d.windows[id].used
Focusable(w) == w.used /\ "NO_FOCUS" \notin w.flags
-----------------------------------------------------------------------------
(* gui_events.c *)

(* A move replaces the move before it; a full queue drops a move, and      *)
(* drops its oldest event for any other.                                   *)
gui_window_push_event(w, type) ==
  LET full == Len(w.events) >= GUI_EVENT_QUEUE_SIZE
  IN CASE ~w.used -> w
       [] w.used /\ type = "move" /\ w.events # <<>> /\ Last(w.events) = "move" -> w
       [] OTHER -> IF full /\ type = "move" THEN w
                   ELSE [w EXCEPT !.events = Append(IF full THEN Tail(@) ELSE @, type)]

Push(d, id, type) == [d EXCEPT !.windows[id] = gui_window_push_event(@, type)]
-----------------------------------------------------------------------------
(* gui_backing.c: an empty backing is a null pointer. *)

Ink(what, pid, high) == [ink |-> what, of |-> pid, high |-> high]
Bg(w) == Ink("bg", w.owner_pid, FALSE)

(* A rectangle of a buffer whose rows are `stride` pixels long. *)
fb_fillrect(buffer, stride, r, ink) ==
  [k \in DOMAIN buffer |->
     IF Inside(r, (k - 1) % stride, (k - 1) \div stride) THEN ink ELSE buffer[k]]

ContentH(w) == IF w.h > w.title_h THEN w.h - w.title_h ELSE 0
gui_window_backing_size(w) == w.w * ContentH(w)

Kept(w) == w.backing # <<>> /\ Len(w.backing) >= gui_window_backing_size(w)

BackingFails(d, id) ==
  LET w == d.windows[id]
  IN gui_window_backing_size(w) = 0 \/ (~Kept(w) /\ d.buffers >= HeapBuffers)

(* The new buffer is allocated before the old one is freed. *)
gui_window_alloc_backing(d, id) ==
  LET w == d.windows[id]
  IN [d EXCEPT !.windows[id].backing = [k \in 1 .. gui_window_backing_size(w) |-> Bg(w)],
               !.buffers = IF w.backing = <<>> THEN @ + 1 ELSE @]

gui_window_ensure_backing(d, id) ==
  IF Kept(d.windows[id]) THEN d ELSE gui_window_alloc_backing(d, id)

gui_window_reset_backing(d, id) ==
  LET w == d.windows[id]
  IN IF ~Kept(w) THEN gui_window_alloc_backing(d, id)
     ELSE [d EXCEPT !.windows[id].backing =
             fb_fillrect(@, w.w, Rect(0, 0, w.w, ContentH(w)), Bg(w))]

(* Fault: only the buffer of a window that was drawn into is freed. *)
gui_window_free_backing_IfDrawn(d, id) ==
  [d EXCEPT !.windows[id].backing = <<>>, !.windows[id].owner_drawn = FALSE,
            !.buffers = IF d.windows[id].owner_drawn THEN @ - 1 ELSE @]

gui_window_free_backing(d, id) ==
  IF d.windows[id].backing = <<>> THEN d
  ELSE [d EXCEPT !.windows[id].backing = <<>>, !.windows[id].owner_drawn = FALSE,
                 !.buffers = @ - 1]
-----------------------------------------------------------------------------
(* gui_input.c: what is under the cursor. *)

gui_window_contains(w, x, y) == w.used /\ Inside(RectOf(w), x, y)

gui_hit_test(d, x, y) ==
  LET Hit == {i \in Ids : ~d.windows[i].minimized /\ gui_window_contains(d.windows[i], x, y)}
  IN IF Hit = {} THEN GUI_NO_WINDOW
     ELSE CHOOSE i \in Hit :
            \A j \in Hit : \/ d.windows[j].z < d.windows[i].z
                           \/ d.windows[j].z = d.windows[i].z /\ j <= i

(* The side of a button, 0 if there is none. *)
ButtonHeight(w) ==
  LET bh == w.title_h - 2 * GUI_CLOSE_BTN_PAD
  IN IF w.title # "" /\ w.title_h >= GUI_CLOSE_BTN_MIN_TITLE_H /\ bh >= MinButton
     THEN bh ELSE 0
ButtonWidth(w) == Lower(ButtonHeight(w), GUI_CLOSE_BTN_W)

ButtonRect(w, fromRight) ==
  Rect(w.x + w.w - (fromRight + 1) * (ButtonWidth(w) + GUI_CLOSE_BTN_PAD),
       w.y + GUI_CLOSE_BTN_PAD, ButtonWidth(w), ButtonHeight(w))

gui_close_box_rect(w) ==
  IF ButtonHeight(w) > 0 /\ w.w >= ButtonWidth(w) + 2 * GUI_CLOSE_BTN_PAD
  THEN ButtonRect(w, 0) ELSE Rect(0, 0, 0, 0)

gui_min_max_btn_row(w) ==
  ButtonHeight(w) > 0 /\ w.w >= 3 * ButtonWidth(w) + 4 * GUI_CLOSE_BTN_PAD

gui_minimize_button_rect(w) ==
  IF gui_min_max_btn_row(w) THEN ButtonRect(w, 2) ELSE Rect(0, 0, 0, 0)
gui_maximize_button_rect(w) ==
  IF gui_min_max_btn_row(w) THEN ButtonRect(w, 1) ELSE Rect(0, 0, 0, 0)

gui_hit_test_decoration(w, x, y) ==
  CASE Inside(gui_minimize_button_rect(w), x, y) -> "minimize"
    [] ~Inside(gui_minimize_button_rect(w), x, y)
       /\ Inside(gui_maximize_button_rect(w), x, y) -> "maximize"
    [] OTHER -> IF Inside(gui_close_box_rect(w), x, y) THEN "close" ELSE "none"
-----------------------------------------------------------------------------
(* gui_cursor.c *)

gui_cursor_region_contains(w, slot, x, y) ==
  w.regions[slot].used /\ Inside(w.regions[slot], x - w.x, y - (w.y + w.title_h))

(* The shape of the lowest matching region, else a hand over a title bar. *)
gui_refresh_cursor_shape(d) ==
  LET x == d.cursor.x
      y == d.cursor.y
      hit == gui_hit_test(d, x, y)
      w == d.windows[hit]
      Match == {s \in Slots : gui_cursor_region_contains(w, s, x, y)}
  IN [d EXCEPT !.cursor.shape =
        IF hit = GUI_NO_WINDOW THEN "arrow"
        ELSE IF Match # {} THEN w.regions[CHOOSE s \in Match : \A t \in Match : s <= t].shape
        ELSE IF w.title_h > 0 /\ w.title # "" /\ y >= w.y /\ y < w.y + w.title_h THEN "hand"
        ELSE "arrow"]

gui_set_cursor_shape(d, shape) == [d EXCEPT !.cursor.shape = shape]

(* A region is set, or deleted when `region` is NoRegion. *)
gui_register_cursor_region(d, id, slot, region) ==
  LET e == [d EXCEPT !.windows[id].regions[slot] = region]
  IN IF id = d.focused_window_id THEN gui_refresh_cursor_shape(e) ELSE e

gui_set_cursor(d, x, y) ==
  LET to == [x |-> Lower(Upper(x, 0), Width - 1), y |-> Lower(Upper(y, 0), Height - 1)]
      e == gui_refresh_cursor_shape([d EXCEPT !.cursor.x = to.x, !.cursor.y = to.y])
  IN AddDamage(AddDamage(e, Rect(d.cursor.x, d.cursor.y, GUI_CURSOR_W, GUI_CURSOR_H)),
               Rect(to.x, to.y, GUI_CURSOR_W, GUI_CURSOR_H))

gui_cursor_move(d, dx, dy) == gui_set_cursor(d, d.cursor.x + dx, d.cursor.y + dy)

gui_drag_start(d, id, off_x, off_y) ==
  LET w == d.windows[id]
  IN IF "NO_DRAG" \in w.flags \/ (w.title_h > 0 /\ off_y >= w.title_h) THEN d
     ELSE [d EXCEPT !.drag_window_id = id, !.drag_off = <<off_x, off_y>>]

(* Fault: only the place that the window moves to is repainted. *)
gui_drag_update_NewOnly(d) ==
  LET id == d.drag_window_id
      w == d.windows[id]
      x == Upper(d.cursor.x - d.drag_off[1], 0)
      y == Upper(d.cursor.y - d.drag_off[2], 0)
  IN IF ~w.used THEN [d EXCEPT !.drag_window_id = GUI_NO_WINDOW]
     ELSE AddDamage(gui_refresh_cursor_shape([d EXCEPT !.windows[id].x = x,
                                                       !.windows[id].y = y]),
                    Rect(x, y, w.w, w.h))

(* The window keeps its place under the cursor, cut off at the left and    *)
(* the upper edge of the screen only.                                      *)
gui_drag_update(d) ==
  LET id == d.drag_window_id
      w == d.windows[id]
      x == Upper(d.cursor.x - d.drag_off[1], 0)
      y == Upper(d.cursor.y - d.drag_off[2], 0)
  IN IF ~w.used THEN [d EXCEPT !.drag_window_id = GUI_NO_WINDOW]
     ELSE AddDamage(gui_refresh_cursor_shape([d EXCEPT !.windows[id].x = x,
                                                       !.windows[id].y = y]),
                    Join(RectOf(w), Rect(x, y, w.w, w.h)))

gui_drag_end(d) == [d EXCEPT !.drag_window_id = GUI_NO_WINDOW]
-----------------------------------------------------------------------------
(* gui_pool.c *)

gui_rect_fits_framebuffer(r) == r.x + r.w <= Width /\ r.y + r.h <= Height

gui_apply_builtin_policy(w) ==
  IF w.title = "panel"
  THEN [w EXCEPT !.flags = @ \cup {"DOCK", "NO_FOCUS", "NO_DRAG", "SKIP_TASKBAR"}] ELSE w

gui_create_window_for_pid(d, id, pid, r, title) ==
  LET w == gui_apply_builtin_policy(NewWindow(r, pid, d.next_z, title))
      e == [d EXCEPT !.windows[id] = w, !.next_z = @ + 1,
                     !.focused_window_id =
                        IF @ = GUI_NO_WINDOW /\ Focusable(w) THEN id ELSE @]
  IN AddDamage(gui_refresh_cursor_shape(e), r)

gui_focus_window_ensure(d) ==
  LET Able == {i \in Ids : Focusable(d.windows[i])}
  IN IF d.focused_window_id \in Able THEN d
     ELSE [d EXCEPT !.focused_window_id =
             IF Able = {} THEN GUI_NO_WINDOW ELSE CHOOSE i \in Able : \A j \in Able : i <= j]

gui_destroy_window(d, id) ==
  LET w == d.windows[id]
      e == [gui_window_free_backing(d, id) EXCEPT
              !.windows[id] = [Unused EXCEPT !.minimized = w.minimized],
              !.focused_window_id = IF @ = id THEN GUI_NO_WINDOW ELSE @]
      f == IF d.focused_window_id = id THEN gui_focus_window_ensure(e) ELSE e
  IN AddDamage(gui_refresh_cursor_shape(f), RectOf(w))

gui_destroy_windows_for_pid(d, pid) ==
  FoldLeft(LAMBDA e, i : IF e.windows[i].used /\ e.windows[i].owner_pid = pid
                         THEN gui_destroy_window(e, i) ELSE e,
           d, [k \in 1 .. GUI_MAX_WINDOWS |-> GUI_MAX_WINDOWS - k])

gui_window_set_title_internal(d, id, title) ==
  LET e == gui_refresh_cursor_shape(
             [d EXCEPT !.windows[id] = gui_apply_builtin_policy([@ EXCEPT !.title = title])])
      w == e.windows[id]
  IN AddDamage(e, Rect(w.x, w.y, w.w, w.title_h))

gui_window_set_title_bar_internal(d, id, title_h) ==
  AddDamage(gui_refresh_cursor_shape([d EXCEPT !.windows[id].title_h = title_h]),
            RectOf(d.windows[id]))

(* When the backing cannot be replaced the bounds go back, but not the     *)
(* cursor's shape.                                                         *)
gui_resize_window(d, id, r) ==
  LET w == d.windows[id]
      e == gui_refresh_cursor_shape([d EXCEPT !.windows[id] =
             [@ EXCEPT !.x = r.x, !.y = r.y, !.w = r.w, !.h = r.h]])
      damage == Join(RectOf(w), r)
  IN CASE ~gui_rect_fits_framebuffer(r) -> d
       [] gui_rect_fits_framebuffer(r) /\ w.w = r.w /\ w.h = r.h -> AddDamage(e, damage)
       [] OTHER ->
            IF BackingFails(e, id) THEN [e EXCEPT !.windows[id] = w]
            ELSE AddDamage(Push(gui_window_reset_backing(e, id), id, "resize"), damage)

gui_window_minimize(d, id) ==
  IF d.windows[id].minimized THEN d
  ELSE gui_request_redraw(Push([d EXCEPT !.windows[id].minimized = TRUE], id, "minimize"))

(* Fault: the window's place in the stack is not made unique. *)
gui_window_restore_SameZ(d, id) ==
  IF ~d.windows[id].minimized THEN d
  ELSE gui_request_redraw(Push(
         [d EXCEPT !.windows[id].minimized = FALSE, !.windows[id].z = d.next_z,
                   !.focused_window_id = IF Focusable(d.windows[id]) THEN id ELSE @],
         id, "maximize"))

gui_window_restore(d, id) ==
  IF ~d.windows[id].minimized THEN d
  ELSE gui_request_redraw(Push(
         [d EXCEPT !.windows[id].minimized = FALSE, !.windows[id].z = d.next_z,
                   !.next_z = @ + 1,
                   !.focused_window_id = IF Focusable(d.windows[id]) THEN id ELSE @],
         id, "maximize"))

gui_focus_window(d, id) ==
  LET w == d.windows[id]
      prev == d.focused_window_id
      e == gui_refresh_cursor_shape([d EXCEPT !.focused_window_id = id,
                                              !.windows[id].z = d.next_z, !.next_z = @ + 1])
  IN IF ~Focusable(w) THEN AddDamage(d, RectOf(w))
     ELSE AddDamage(IF Live(d, prev) THEN AddDamage(e, RectOf(d.windows[prev])) ELSE e,
                    RectOf(w))

(* The index-th window of the process that a task bar shows. *)
gui_window_for_pid(d, pid, index) ==
  LET Of == {i \in Ids : /\ d.windows[i].used /\ d.windows[i].owner_pid = pid
                         /\ "SKIP_TASKBAR" \notin d.windows[i].flags}
  IN IF \E i \in Of : Cardinality({j \in Of : j < i}) = index
     THEN CHOOSE i \in Of : Cardinality({j \in Of : j < i}) = index ELSE GUI_NO_WINDOW
-----------------------------------------------------------------------------
(* gui_compositor.c: drawing into a window's backing. *)

PaintContent(d, id, r) ==
  LET e == [gui_window_ensure_backing(d, id) EXCEPT !.windows[id].owner_drawn = TRUE]
      w == e.windows[id]
      c == Cut(r, w.w, ContentH(w))
  IN CASE BackingFails(d, id) -> d
       [] ~BackingFails(d, id) /\ (c.w <= 0 \/ c.h <= 0) -> e
       [] OTHER ->
            AddDamage([e EXCEPT !.windows[id].backing =
                         fb_fillrect(@, w.w, c, Ink("drawn", w.owner_pid, FALSE))],
                      Rect(w.x + c.x, w.y + w.title_h + c.y, c.w, c.h))

(* font_draw_text below the first line, which begins at (x, y). *)
font_draw_text(w, x, y, lines) ==
  LET Line(buffer, k) ==
        fb_fillrect(buffer, w.w,
                    Cut(Rect(x, y + k * FONT_LINE_HEIGHT, TextWidth, FONT_GLYPH_HEIGHT),
                        w.w, ContentH(w)),
                    Ink("line", w.owner_pid, FALSE))
  IN FoldLeft(Line, w.backing, [k \in 1 .. lines - 1 |-> k])

(* The damage is that of one line, as wide as the widest.  The lines after *)
(* the first have an ink of their own.                                     *)
gui_window_draw_text(d, id, x0, y0, lines) ==
  LET x == Upper(x0, 0)
      y == Upper(y0, 0)
      e == PaintContent(d, id, Rect(x, y, TextWidth, FONT_GLYPH_HEIGHT))
      w == e.windows[id]
  IN IF BackingFails(d, id) \/ x >= w.w \/ y >= ContentH(w) THEN e
     ELSE [e EXCEPT !.windows[id].backing = font_draw_text(w, x, y, lines)]

gui_window_draw_rect(d, id, r) == IF r.w = 0 \/ r.h = 0 THEN d ELSE PaintContent(d, id, r)

(* The next window to draw, GUI_MAX_WINDOWS if none is left. *)
gui_next_window_above_z(d, min_z) ==
  LET Above == {i \in Ids : /\ d.windows[i].used /\ ~d.windows[i].minimized
                            /\ d.windows[i].z > min_z}
  IN IF Above = {} THEN GUI_MAX_WINDOWS
     ELSE CHOOSE i \in Above :
            \A j \in Above : \/ d.windows[i].z < d.windows[j].z
                             \/ d.windows[i].z = d.windows[j].z /\ i <= j

(* The windows in the order in which a redraw paints them. *)
DrawOrder(d) ==
  FoldLeft(LAMBDA done, k :
             LET i == gui_next_window_above_z(d, IF done = <<>> THEN 0
                                                 ELSE d.windows[Last(done)].z)
             IN IF i = GUI_MAX_WINDOWS THEN done ELSE Append(done, i),
           <<>>, [k \in 1 .. GUI_MAX_WINDOWS |-> k])
-----------------------------------------------------------------------------
(* gui_compositor.c: painting the screen, a pixel at a time.  `under` is   *)
(* what the pixel was before.                                              *)

gui_blend_color(y) == Ink("desktop", y, FALSE)

gui_fillrect_clipped(r, x, y, ink, under) == IF Inside(r, x, y) THEN ink ELSE under

gui_draw_rect_clipped(r, x, y, ink, under) ==
  IF Inside(r, x, y) /\ ~Inside(Rect(r.x + 1, r.y + 1, r.w - 2, r.h - 2), x, y)
  THEN ink ELSE under

(* A row that the buffer does not have is read from what lies behind it.   *)
gui_blit_clipped(r, x, y, src, under) ==
  LET k == 1 + (x - r.x) + (y - r.y) * r.w
  IN IF ~Inside(r, x, y) THEN under
     ELSE IF k \in DOMAIN src THEN src[k] ELSE Ink("heap", GUI_NO_OWNER, FALSE)

(* The title bar: buttons over the line below the bar over the bar. *)
gui_draw_window_title(d, id, x, y, border, under) ==
  LET w == d.windows[id]
      slot == gui_hit_test_decoration(w, x, y)
      bar == gui_fillrect_clipped(Rect(w.x, w.y, w.w, w.title_h), x, y,
                                  [border EXCEPT !.ink = "title"], under)
      line == gui_fillrect_clipped(Rect(w.x, w.y + w.title_h - 1, w.w, 1), x, y, border, bar)
  IN IF w.title_h = 0 \/ w.title = "" THEN under
     ELSE IF slot = "none" THEN line
     ELSE Ink(slot, w.owner_pid, d.focused_window_id = id)

gui_draw_window(d, id, x, y, under) ==
  LET w == d.windows[id]
      border == Ink("border", w.owner_pid, d.focused_window_id = id /\ Focusable(w))
      content == IF w.owner_drawn /\ w.backing # <<>>
                 THEN gui_blit_clipped(Rect(w.x, w.y + w.title_h, w.w, ContentH(w)), x, y,
                                       w.backing, under)
                 ELSE gui_fillrect_clipped(RectOf(w), x, y, Bg(w), under)
  IN gui_draw_window_title(d, id, x, y, border,
       gui_draw_rect_clipped(RectOf(w), x, y, border, content))

gui_draw_cursor(d, x, y, under) ==
  IF Inside(Rect(d.cursor.x, d.cursor.y, GUI_CURSOR_W, GUI_CURSOR_H), x, y)
  THEN Ink("cursor", d.cursor.shape, FALSE) ELSE under

Windows(d, x, y, under) ==
  FoldLeft(LAMBDA seen, id : gui_draw_window(d, id, x, y, seen), under, DrawOrder(d))

(* The full redraw leaves out the background from a window's left edge to  *)
(* its right one.                                                          *)
gui_next_window_at_or_after(d, row, x) ==
  LET Right == {i \in Ids : LET w == d.windows[i]
                            IN /\ w.used /\ ~w.minimized /\ w.x >= x
                               /\ w.y <= row /\ row < w.y + w.h}
  IN IF Right = {} THEN GUI_MAX_WINDOWS
     ELSE CHOOSE i \in Right : \A j \in Right : \/ d.windows[i].x < d.windows[j].x
                                                \/ d.windows[i].x = d.windows[j].x /\ i <= j

Background(d, row) ==
  LET Span(done, k) ==
        LET i == gui_next_window_at_or_after(d, row, done.x)
        IN IF done.x >= Width THEN done
           ELSE IF i = GUI_MAX_WINDOWS
                THEN [x |-> Width, painted |-> done.painted \cup (done.x .. Width - 1)]
           ELSE [x |-> d.windows[i].x + d.windows[i].w,
                 painted |-> done.painted \cup (done.x .. d.windows[i].x - 1)]
  IN FoldLeft(Span, [x |-> 0, painted |-> {}],
              [k \in 1 .. GUI_MAX_WINDOWS + 1 |-> k]).painted

(* The pixels that the partial redraw paints the cursor over: all of the   *)
(* cursor when it overlaps a damaged rectangle.                            *)
CursorDrawn(d) ==
  \E i \in DOMAIN d.damage.rects :
    LET r == d.damage.rects[i]
    IN /\ d.cursor.x + GUI_CURSOR_W > r.x /\ d.cursor.x < r.x + r.w
       /\ d.cursor.y + GUI_CURSOR_H > r.y /\ d.cursor.y < r.y + r.h

gui_draw(d, fb) ==
  [p \in Pixels |->
     IF d.damage.full
     THEN gui_draw_cursor(d, p[1], p[2],
            Windows(d, p[1], p[2],
                    IF p[1] \in Background(d, p[2]) THEN gui_blend_color(p[2]) ELSE fb[p]))
     ELSE LET painted == IF p \in Covered(d.damage)
                         THEN Windows(d, p[1], p[2], gui_blend_color(p[2])) ELSE fb[p]
          IN IF CursorDrawn(d) THEN gui_draw_cursor(d, p[1], p[2], painted) ELSE painted]
-----------------------------------------------------------------------------
(* gui_input.c: the events of the mouse and the keyboard. *)

gui_dispatch_input(d) ==
  LET hit == gui_hit_test(d, d.cursor.x, d.cursor.y)
  IN IF hit = GUI_NO_WINDOW THEN d ELSE Push(d, hit, "move")

gui_cursor_button(d) ==
  LET hit == gui_hit_test(d, d.cursor.x, d.cursor.y)
  IN IF hit # GUI_NO_WINDOW THEN gui_focus_window(d, hit)
     ELSE [d EXCEPT !.focused_window_id = GUI_NO_WINDOW]

gui_window_owner_dead(w) == w.owner_pid # GUI_NO_OWNER /\ w.owner_pid \notin alive

(* The left button goes down. *)
PressButton(d) ==
  LET e == gui_cursor_button(d)
      hit == gui_hit_test(e, e.cursor.x, e.cursor.y)
      w == e.windows[hit]
      slot == gui_hit_test_decoration(w, e.cursor.x, e.cursor.y)
  IN IF hit = GUI_NO_WINDOW THEN e
     ELSE CASE slot = "close" -> IF gui_window_owner_dead(w) THEN gui_destroy_window(e, hit)
                                 ELSE Push(e, hit, "close")
            [] slot = "minimize" -> gui_window_minimize(e, hit)
            [] slot = "maximize" -> Push(e, hit, "maximize")
            [] slot = "none" ->
                 Push(gui_drag_start(e, hit, e.cursor.x - w.x, e.cursor.y - w.y), hit, "click")

gui_handle_desktop_input(d, event) ==
  LET ensured == gui_focus_window_ensure(d)
  IN CASE event.type = "move" ->
            LET e == gui_cursor_move(d, event.dx, event.dy)
            IN gui_dispatch_input(IF e.drag_window_id = GUI_NO_WINDOW THEN e
                                  ELSE gui_drag_update(e))
       [] event.type = "press" -> PressButton(d)
       [] event.type = "release" -> gui_drag_end(d)
       [] event.type = "key" ->
            IF ensured.focused_window_id = GUI_NO_WINDOW THEN ensured
            ELSE Push(ensured, ensured.focused_window_id, "key")
       [] event.type = "keyup" ->
            IF d.focused_window_id = GUI_NO_WINDOW THEN d
            ELSE Push(d, d.focused_window_id, "keyup")

Motions == {[type |-> "move", dx |-> m[1], dy |-> m[2]] : m \in Moves}
InputEvents == Motions \cup [type : {"press", "release", "key", "keyup"}]

Call(d) ==
  /\ calls < MaxCalls /\ calls' = calls + 1
  /\ desktop' = d
  /\ UNCHANGED screen

gui_handle_input ==
  /\ \E event \in InputEvents : Call(gui_handle_desktop_input(desktop, event))
  /\ UNCHANGED alive
-----------------------------------------------------------------------------
(* syscall_gui.c *)

Owns(pid, id) == pid \in alive /\ Live(desktop, id) /\ desktop.windows[id].owner_pid = pid

sys_window_create(pid, r, title) ==
  LET Free == {i \in Ids : ~desktop.windows[i].used}
      id == CHOOSE i \in Free : \A j \in Free : i <= j
  IN /\ pid \in alive /\ r.w >= MinWindow /\ r.h >= MinWindow
     /\ gui_rect_fits_framebuffer(r) /\ Free # {}
     /\ Call(gui_request_redraw(gui_create_window_for_pid(desktop, id, pid, r, title)))
     /\ UNCHANGED alive

sys_window_destroy(pid, id) ==
  /\ Owns(pid, id)
  /\ Call(gui_request_redraw(gui_destroy_window(desktop, id)))
  /\ UNCHANGED alive

sys_window_draw_text(pid, id) ==
  /\ Owns(pid, id)
  /\ \E r \in Drawn, lines \in TextLines :
       Call(gui_window_draw_text(desktop, id, r.x, r.y, lines))
  /\ UNCHANGED alive

sys_window_draw_rect(pid, id) ==
  /\ Owns(pid, id)
  /\ \E r \in Drawn : Call(gui_window_draw_rect(desktop, id, r))
  /\ UNCHANGED alive

(* The bar keeps its height when none is given. *)
sys_window_set_title(pid, id, title, title_h) ==
  /\ Owns(pid, id) /\ (title_h > 0 => title_h < desktop.windows[id].h)
  /\ LET d == gui_request_redraw(gui_window_set_title_internal(desktop, id, title))
     IN Call(IF title_h = 0 THEN d ELSE gui_window_set_title_bar_internal(d, id, title_h))
  /\ UNCHANGED alive

sys_window_redraw(pid, id) ==
  /\ Owns(pid, id)
  /\ Call(gui_request_redraw(desktop))
  /\ UNCHANGED alive

(* Any process may focus or restore any window. *)
sys_window_focus(id) ==
  /\ alive # {} /\ Live(desktop, id)
  /\ Call(gui_request_redraw(gui_focus_window(desktop, id)))
  /\ UNCHANGED alive

sys_window_restore(id) ==
  /\ alive # {} /\ Live(desktop, id)
  /\ Call(gui_window_restore(desktop, id))
  /\ UNCHANGED alive

sys_window_minimize(pid, id) ==
  /\ Owns(pid, id)
  /\ Call(gui_window_minimize(desktop, id))
  /\ UNCHANGED alive

sys_window_set_bounds(pid, id) ==
  /\ Owns(pid, id)
  /\ \E r \in Bounds : Call(gui_resize_window(desktop, id, r))
  /\ UNCHANGED alive

sys_window_flush(pid, id) ==
  LET w == desktop.windows[id]
  IN /\ Owns(pid, id)
     /\ \E r \in Drawn :
          LET c == Cut(r, w.w, ContentH(w))
          IN Call(AddDamage(desktop, Rect(w.x + c.x, w.y + w.title_h + c.y, c.w, c.h)))
     /\ UNCHANGED alive

(* The events are popped after the destination was checked. *)
sys_window_event(pid, id) ==
  /\ Owns(pid, id) /\ desktop.windows[id].events # <<>>
  /\ \E n \in 1 .. Len(desktop.windows[id].events) :
       Call([desktop EXCEPT !.windows[id].events = SubSeq(@, n + 1, Len(@))])
  /\ UNCHANGED alive

sys_cursor_set_shape ==
  /\ alive # {}
  /\ \E shape \in {"arrow", "hand"} :
       Call(gui_request_redraw(gui_set_cursor_shape(desktop, shape)))
  /\ UNCHANGED alive

sys_cursor_register_region(pid, id, slot) ==
  /\ Owns(pid, id)
  /\ \E region \in {Region, NoRegion} :
       Call(gui_request_redraw(gui_register_cursor_region(desktop, id, slot, region)))
  /\ UNCHANGED alive

(* process_exit, for the desktop *)
process_exit(pid) ==
  /\ pid \in alive
  /\ alive' = alive \ {pid}
  /\ Call(gui_destroy_windows_for_pid(desktop, pid))
-----------------------------------------------------------------------------
(* The runtime service renders what is damaged; a submission that fails    *)
(* keeps the damage.                                                       *)
gui_render ==
  /\ desktop.damage # Clean
  /\ screen' = gui_draw(desktop, screen)
  /\ desktop' \in {desktop, [desktop EXCEPT !.damage = Clean]}
  /\ UNCHANGED <<alive, calls>>

gui_init ==
  [windows |-> [i \in Ids |-> Unused], focused_window_id |-> GUI_NO_WINDOW, next_z |-> 1,
   drag_window_id |-> GUI_NO_WINDOW, drag_off |-> <<0, 0>>,
   cursor |-> [x |-> Width \div 2, y |-> Height \div 2, shape |-> "arrow"],
   damage |-> Full, buffers |-> 0]

(* gui_init_for_framebuffer paints the empty desktop. *)
Init ==
  /\ desktop = [gui_init EXCEPT !.damage = Clean]
  /\ screen = gui_draw(gui_init, [p \in Pixels |-> Ink("memory", 0, FALSE)])
  /\ alive = Pids
  /\ calls = 0

OwnerCall(pid, id) ==
  \/ sys_window_destroy(pid, id) \/ sys_window_draw_text(pid, id)
  \/ sys_window_draw_rect(pid, id) \/ sys_window_redraw(pid, id)
  \/ sys_window_minimize(pid, id) \/ sys_window_set_bounds(pid, id)
  \/ sys_window_flush(pid, id) \/ sys_window_event(pid, id)
  \/ \E title \in Titles, h \in TitleHeights : sys_window_set_title(pid, id, title, h)
  \/ \E slot \in Slots : sys_cursor_register_region(pid, id, slot)

Next ==
  \/ \E pid \in Pids, r \in Bounds, title \in Titles : sys_window_create(pid, r, title)
  \/ \E pid \in Pids, id \in Ids : OwnerCall(pid, id)
  \/ \E id \in Ids : sys_window_focus(id) \/ sys_window_restore(id)
  \/ sys_cursor_set_shape
  \/ \E pid \in Pids : process_exit(pid)
  \/ gui_handle_input
  \/ gui_render

Spec == Init /\ [][Next]_vars
-----------------------------------------------------------------------------
(* What the screen should show. *)
Shown(d) == [p \in Pixels |->
  gui_draw_cursor(d, p[1], p[2], Windows(d, p[1], p[2], gui_blend_color(p[2])))]

(* Apart from the highlight of the focused window and the cursor's shape. *)
Alike(a, b) == a.ink = b.ink /\ (a.ink = "cursor" \/ a.of = b.of)

(* Whatever the calls and the input did to overlapping, moved, resized,    *)
(* minimized, dragged, drawn or destroyed windows since the last redraw,   *)
(* a pixel that does not show what it should is in the damage list, so     *)
(* that the partial redraw leaves the picture that the full one paints;    *)
(* with one exception: a pixel that should show a second or later line of  *)
(* a text.  gui_window_draw_text draws those lines and damages only the    *)
(* first, so that they may stay unseen until something else damages them.  *)
ScreenCurrent ==
  \A p \in Pixels \ Covered(desktop.damage) :
    LET due == Shown(desktop)[p] IN due.ink = "line" \/ Alike(screen[p], due)

(* A click goes to the window that is seen: gui_hit_test, which looks for  *)
(* the greatest z, finds the window that the redraw, which walks z upwards *)
(* and skips a z it has passed, paints last over the pixel.                *)
HitIsShown ==
  \A p \in Pixels :
    LET Over == SelectSeq(DrawOrder(desktop),
                          LAMBDA i : gui_window_contains(desktop.windows[i], p[1], p[2]))
    IN gui_hit_test(desktop, p[1], p[2]) = IF Over = <<>> THEN GUI_NO_WINDOW ELSE Last(Over)

(* No buffer is lost and none is freed twice: as many are allocated as     *)
(* used windows have one; focus is on a window that exists, no window      *)
(* outlives its owner, and the task bar's scan by index finds each window  *)
(* of a process that is not a dock.                                        *)
PoolSound ==
  /\ desktop.buffers = Cardinality({i \in Ids : desktop.windows[i].backing # <<>>})
  /\ desktop.buffers <= HeapBuffers
  /\ desktop.focused_window_id # GUI_NO_WINDOW => Live(desktop, desktop.focused_window_id)
  /\ \A i \in Ids : IF desktop.windows[i].used THEN desktop.windows[i].owner_pid \in alive
                    ELSE desktop.windows[i].backing = <<>>
  /\ \A i \in Ids : LET w == desktop.windows[i]
                    IN w.used /\ "DOCK" \notin w.flags =>
                         \E n \in Ids : gui_window_for_pid(desktop, w.owner_pid, n) = i

(* gui.h on the backing buffer: it "covers only the content area";         *)
(* "Width = window->w, height = window->h - title_h".  The compositor      *)
(* reads that many rows from it.                                           *)
BackingCoversContent ==
  \A i \in Ids : LET w == desktop.windows[i]
                 IN w.owner_drawn => Len(w.backing) >= gui_window_backing_size(w)
=============================================================================
