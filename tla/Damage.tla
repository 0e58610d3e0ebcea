------------------------------- MODULE Damage -------------------------------
(***************************************************************************)
(* The list of rectangles to redraw (kernel/gui_damage.c), as operators on *)
(* a record [full, rects].  Coordinates are int32 in the code; the         *)
(* callers' rectangles are far from its limits.                            *)
(***************************************************************************)
EXTENDS Integers, Sequences

CONSTANTS
  Width, Height,       \* of the framebuffer
  GUI_DAMAGE_MAX

ASSUME DamageAssumption ==
  Width \in Nat \ {0} /\ Height \in Nat \ {0} /\ GUI_DAMAGE_MAX \in Nat \ {0}

Clean == [full |-> FALSE, rects |-> <<>>]
Full == [full |-> TRUE, rects |-> <<>>]

Lower(a, b) == IF a < b THEN a ELSE b
Upper(a, b) == IF a > b THEN a ELSE b

(* The part of the rectangle that is on the screen; w or h <= 0 if none.   *)
Clip(r) ==
  LET x == Upper(r.x, 0)
      y == Upper(r.y, 0)
  IN [x |-> x, y |-> y,
      w |-> Lower(r.x + r.w, Width) - x, h |-> Lower(r.y + r.h, Height) - y]

Touch(a, b) ==
  /\ a.x <= b.x + b.w /\ a.x + a.w >= b.x
  /\ a.y <= b.y + b.h /\ a.y + a.h >= b.y

(* Fault: the union keeps the size of the larger one. *)
Join_Larger(a, b) ==
  [x |-> Lower(a.x, b.x), y |-> Lower(a.y, b.y),
   w |-> Upper(a.w, b.w), h |-> Upper(a.h, b.h)]

Join(a, b) ==
  LET x == Lower(a.x, b.x)
      y == Lower(a.y, b.y)
  IN [x |-> x, y |-> y,
      w |-> Upper(a.x + a.w, b.x + b.w) - x,
      h |-> Upper(a.y + a.h, b.y + b.h) - y]

(* `w` has the rectangle so far and those it has not touched; `r` is next. *)
MergeOne(w, r) ==
  IF Touch(w.r, r) THEN [w EXCEPT !.r = Join(@, r)]
  ELSE [w EXCEPT !.kept = Append(@, r)]

(* One pass over the list: `r` grows by every rectangle it touches, which  *)
(* leaves the list.                                                        *)
Merge(r, rects) ==
  LET Walk[i \in 0 .. Len(rects)] ==
        IF i = 0 THEN [r |-> r, kept |-> <<>>] ELSE MergeOne(Walk[i - 1], rects[i])
  IN Walk[Len(rects)]

gui_damage_add(d, rect) ==
  LET r == Clip(rect)
      m == Merge(r, d.rects)
  IN CASE d.full \/ r.w <= 0 \/ r.h <= 0 -> d
       [] OTHER ->
            IF r = [x |-> 0, y |-> 0, w |-> Width, h |-> Height] THEN Full
            ELSE IF Len(m.kept) >= GUI_DAMAGE_MAX THEN Full
            ELSE [d EXCEPT !.rects = Append(m.kept, m.r)]

Pixels == (0 .. Width - 1) \X (0 .. Height - 1)
PixelsOf(r) == {p \in Pixels : /\ r.x <= p[1] /\ p[1] < r.x + r.w
                               /\ r.y <= p[2] /\ p[2] < r.y + r.h}
PixelsOfAll(rects) == UNION {PixelsOf(rects[i]) : i \in DOMAIN rects}
Covered(d) == IF d.full THEN Pixels ELSE PixelsOfAll(d.rects)
=============================================================================
