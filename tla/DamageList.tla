----------------------------- MODULE DamageList -----------------------------
(***************************************************************************)
(* The damage list of a desktop through any calls of gui_damage_add and    *)
(* gui_damage_clear (kernel/gui_damage.c).                                 *)
(***************************************************************************)
EXTENDS Damage

CONSTANT AnyRect     \* the rectangles that callers pass

ASSUME DamageListAssumption == AnyRect \subseteq [x : Int, y : Int, w : Int, h : Int]

VARIABLES
  list,
  changed            \* history: pixels damaged since the list was cleared

listvars == <<list, changed>>

Add(r) ==
  /\ list' = gui_damage_add(list, r)
  /\ changed' = changed \cup PixelsOf(r)

(* gui_damage_clear *)
Clear == list' = Clean /\ changed' = {}

ListInit == list = Clean /\ changed = {}
ListNext == (\E r \in AnyRect : Add(r)) \/ Clear
ListSpec == ListInit /\ [][ListNext]_listvars
-----------------------------------------------------------------------------
(* Cutting off, merging in one pass over the list, and giving up in favour *)
(* of a full redraw never lose a pixel that gui_damage_add was told of;    *)
(* and gui_draw, which paints the rectangles as they are, finds each on    *)
(* the screen and not empty, in a list that fits its array.                *)
DamageSound ==
  /\ changed \subseteq Covered(list)
  /\ Len(list.rects) <= GUI_DAMAGE_MAX
  /\ \A n \in DOMAIN list.rects :
       LET r == list.rects[n]
       IN /\ r.x >= 0 /\ r.y >= 0 /\ r.w > 0 /\ r.h > 0
          /\ r.x + r.w <= Width /\ r.y + r.h <= Height
=============================================================================
