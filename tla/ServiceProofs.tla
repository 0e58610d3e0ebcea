--------------------------- MODULE ServiceProofs ----------------------------
(***************************************************************************)
(* What the services behind an interrupt must not lose.  The damage list,  *)
(* for any rectangles (DamageList), and the pass over the classes of work, *)
(* for any budgets (RuntimeService).                                       *)
(***************************************************************************)
EXTENDS RuntimeService, DamageList, WellFoundedInduction, TLAPS

(* Induction over the numbers up to a bound.  The library's induction      *)
(* theorems take a predicate; these take a set.                            *)

(* A set of numbers that is not empty has a least one. *)
LEMMA Least ==
  ASSUME NEW T \in SUBSET Nat, T # {}
  PROVE  \E x \in T : \A y \in T : x <= y
<1>1. PICK R : R = OpToRel(<, Nat)
  OBVIOUS
<1>2. IsWellFoundedOn(R, Nat)
  BY <1>1, NatLessThanWellFounded
<1>3. PICK x \in T : \A y \in T : ~ (<<y, x>> \in R)
  BY <1>2, WFMin
<1>4. \A y \in Nat : y < x => <<y, x>> \in R
  BY <1>1 DEF OpToRel
<1>5. \A y \in T : ~(y < x)
  BY <1>3, <1>4
<1>6. \A y \in T : x <= y
  BY <1>5
<1> QED
  BY <1>6

(* Induction up to n, over a set. *)
LEMMA UpTo ==
  ASSUME NEW n \in Nat, NEW S, 0 \in S, \A i \in 0 .. n - 1 : i \in S => i + 1 \in S
  PROVE  0 .. n \subseteq S
<1> DEFINE T == {i \in 0 .. n : i \notin S}
<1> SUFFICES ASSUME T # {} PROVE FALSE
  OBVIOUS
<1>1. PICK x \in T : \A y \in T : x <= y
  <2>1. T \in SUBSET Nat
    OBVIOUS
  <2> QED
    BY <2>1, Least
<1>2. x \in 1 .. n /\ x - 1 \in 0 .. n - 1 /\ x - 1 \notin T
  BY <1>1
<1>3. x - 1 \in S /\ (x - 1) + 1 = x
  BY <1>2
<1> QED
  BY <1>1, <1>2, <1>3

(* g takes m steps from `base`. *)
Steps(g, V, base, step, m) ==
  /\ g \in [0 .. m -> V] /\ g[0] = base
  /\ \A i \in 1 .. m : g[i] = step[<<g[i - 1], i>>]

(* From any value, any number of steps can be taken. *)
LEMMA Iteration ==
  ASSUME NEW V, NEW base \in V, NEW n \in Nat, NEW step \in [V \X (1 .. n) -> V]
  PROVE  \E g : Steps(g, V, base, step, n)
<1> DEFINE Upto(m, g) == Steps(g, V, base, step, m)
           S == {m \in 0 .. n : \E g : Upto(m, g)}
<1>1. 0 \in S
  <2>1. Upto(0, [i \in 0 .. 0 |-> base])
    BY DEF Steps
  <2>2. 0 \in 0 .. n
    OBVIOUS
  <2> QED
    BY <2>1, <2>2
<1>2. ASSUME NEW m \in 0 .. n - 1, m \in S PROVE m + 1 \in S
  <2>1. PICK g : Upto(m, g)
    BY <1>2
  <2>a. /\ g \in [0 .. m -> V] /\ g[0] = base
        /\ \A i \in 1 .. m : g[i] = step[<<g[i - 1], i>>]
    BY <2>1 DEF Steps
  <2>2. m \in 0 .. m /\ m + 1 \in 1 .. n /\ m \in Nat
    OBVIOUS
  <2> DEFINE v == step[<<g[m], m + 1>>]
             h == [i \in 0 .. m + 1 |-> IF i = m + 1 THEN v ELSE g[i]]
  <2>3. v \in V
    BY <2>a, <2>2
  <2>4. h \in [0 .. m + 1 -> V]
    BY <2>a, <2>2, <2>3
  <2>5. Upto(m + 1, h)
    <3>1. h[0] = base
      BY <2>a, <2>2
    <3>2. \A i \in 1 .. m : h[i] = g[i] /\ h[i - 1] = g[i - 1]
      BY <2>2
    <3>3. h[m + 1] = v /\ h[m] = g[m]
      BY <2>2
    <3>4. ASSUME NEW i \in 1 .. m + 1 PROVE h[i] = step[<<h[i - 1], i>>]
      <4>1. CASE i = m + 1
        <5>1. i - 1 = m
          BY <4>1, <2>2
        <5> QED
          BY <4>1, <3>3, <5>1
      <4>2. CASE i \in 1 .. m
        BY <4>2, <2>a, <3>2
      <4> QED
        BY <4>1, <4>2, <2>2
    <3> QED
      BY <2>4, <3>1, <3>4 DEF Steps
  <2>6. m + 1 \in 0 .. n
    BY <2>2
  <2> HIDE DEF h, Upto
  <2> QED
    BY <2>5, <2>6
<1>3. 0 .. n \subseteq S
  BY <1>1, <1>2, UpTo
<1>4. n \in S
  BY <1>3
<1> QED
  BY <1>4

(* The rectangles callers pass, and in a step of a merge the one so far    *)
(* with those it has not touched.                                          *)
Rect == [x : Int, y : Int, w : Int, h : Int]

(* Rectangles that lie on the screen and are not empty. *)
OnScreen == {r \in Rect : /\ r.x >= 0 /\ r.y >= 0 /\ r.w > 0 /\ r.h > 0
                          /\ r.x + r.w <= Width /\ r.y + r.h <= Height}
Merged == [r : OnScreen, kept : Seq(OnScreen)]

(* The union of two rectangles covers both. *)
LEMMA JoinFacts ==
  ASSUME NEW a \in OnScreen, NEW b \in OnScreen
  PROVE  /\ Join(a, b) \in OnScreen
         /\ PixelsOf(a) \subseteq PixelsOf(Join(a, b))
         /\ PixelsOf(b) \subseteq PixelsOf(Join(a, b))
<1>1. /\ a.x \in Int /\ a.y \in Int /\ a.w \in Int /\ a.h \in Int
      /\ b.x \in Int /\ b.y \in Int /\ b.w \in Int /\ b.h \in Int
      /\ a.x >= 0 /\ a.y >= 0 /\ a.w > 0 /\ a.h > 0 /\ a.x + a.w <= Width /\ a.y + a.h <= Height
      /\ b.x >= 0 /\ b.y >= 0 /\ b.w > 0 /\ b.h > 0 /\ b.x + b.w <= Width /\ b.y + b.h <= Height
  BY DEF OnScreen, Rect
<1>2. Width \in Nat /\ Height \in Nat
  BY DamageAssumption
<1>3. PICK j : j = Join(a, b)
  OBVIOUS
<1>4. /\ j.x = Lower(a.x, b.x) /\ j.y = Lower(a.y, b.y)
      /\ j.w = Upper(a.x + a.w, b.x + b.w) - j.x /\ j.h = Upper(a.y + a.h, b.y + b.h) - j.y
      /\ j = [x |-> j.x, y |-> j.y, w |-> j.w, h |-> j.h]
  BY <1>3 DEF Join
<1>5. /\ j.x \in Int /\ j.x >= 0 /\ j.x <= a.x /\ j.x <= b.x
      /\ j.w \in Int /\ j.w > 0 /\ j.x + j.w <= Width
      /\ j.x + j.w >= a.x + a.w /\ j.x + j.w >= b.x + b.w
  BY <1>1, <1>2, <1>4 DEF Lower, Upper
<1>6. /\ j.y \in Int /\ j.y >= 0 /\ j.y <= a.y /\ j.y <= b.y
      /\ j.h \in Int /\ j.h > 0 /\ j.y + j.h <= Height
      /\ j.y + j.h >= a.y + a.h /\ j.y + j.h >= b.y + b.h
  BY <1>1, <1>2, <1>4 DEF Lower, Upper
<1>7. j \in OnScreen
  BY <1>4, <1>5, <1>6 DEF OnScreen, Rect
<1>8. ASSUME NEW p \in Pixels PROVE p[1] \in Int /\ p[2] \in Int
  BY <1>2 DEF Pixels
<1>9. PixelsOf(a) \subseteq PixelsOf(j) /\ PixelsOf(b) \subseteq PixelsOf(j)
  BY <1>1, <1>5, <1>6, <1>8 DEF PixelsOf
<1> QED
  BY <1>3, <1>7, <1>9

(* A rectangle on the screen has pixels. *)
LEMMA OnScreenShows ==
  ASSUME NEW r \in OnScreen
  PROVE  PixelsOf(r) # {}
<1>1. <<r.x, r.y>> \in Pixels
  BY DamageAssumption DEF OnScreen, Rect, Pixels
<1>2. <<r.x, r.y>> \in PixelsOf(r)
  BY <1>1 DEF PixelsOf, OnScreen, Rect
<1> QED
  BY <1>2

(* The pixels of a list with one more rectangle. *)
LEMMA AllAppend ==
  ASSUME NEW s \in Seq(OnScreen), NEW r \in OnScreen
  PROVE  PixelsOfAll(Append(s, r)) = PixelsOfAll(s) \cup PixelsOf(r)
<1>1. /\ DOMAIN Append(s, r) = 1 .. Len(s) + 1 /\ DOMAIN s = 1 .. Len(s) /\ Len(s) \in Nat
      /\ \A i \in 1 .. Len(s) : Append(s, r)[i] = s[i]
      /\ Append(s, r)[Len(s) + 1] = r
  OBVIOUS
<1>2. \A p : p \in PixelsOfAll(Append(s, r)) <=>
              \E i \in 1 .. Len(s) + 1 : p \in PixelsOf(Append(s, r)[i])
  BY <1>1 DEF PixelsOfAll
<1>3. \A p : p \in PixelsOfAll(s) <=> \E i \in 1 .. Len(s) : p \in PixelsOf(s[i])
  BY <1>1 DEF PixelsOfAll
<1>4. ASSUME NEW p \in PixelsOfAll(Append(s, r)) PROVE p \in PixelsOfAll(s) \cup PixelsOf(r)
  <2>1. PICK i \in 1 .. Len(s) + 1 : p \in PixelsOf(Append(s, r)[i])
    BY <1>2
  <2>2. i \in 1 .. Len(s) \/ i = Len(s) + 1
    BY <1>1
  <2> QED
    BY <1>1, <1>3, <2>1, <2>2
<1>5. ASSUME NEW p \in PixelsOfAll(s) PROVE p \in PixelsOfAll(Append(s, r))
  <2>1. PICK i \in 1 .. Len(s) : p \in PixelsOf(s[i])
    BY <1>3
  <2>2. i \in 1 .. Len(s) + 1 /\ Append(s, r)[i] = s[i]
    BY <1>1
  <2> QED
    BY <1>2, <2>1, <2>2
<1>6. PixelsOf(r) \subseteq PixelsOfAll(Append(s, r))
  BY <1>1, <1>2
<1> QED
  BY <1>4, <1>5, <1>6

(* What is covered while the list is merged. *)
Spread(m) == PixelsOf(m.r) \cup PixelsOfAll(m.kept)

(* One step of the merge loses no pixel. *)
LEMMA MergeOneFacts ==
  ASSUME NEW m \in Merged, NEW r \in OnScreen
  PROVE  /\ MergeOne(m, r) \in Merged
         /\ Spread(m) \subseteq Spread(MergeOne(m, r))
         /\ PixelsOf(r) \subseteq Spread(MergeOne(m, r))
<1>1. m.r \in OnScreen /\ m.kept \in Seq(OnScreen) /\ m = [r |-> m.r, kept |-> m.kept]
  BY DEF Merged
<1>2. CASE Touch(m.r, r)
  <2>1. MergeOne(m, r) = [r |-> Join(m.r, r), kept |-> m.kept]
    BY <1>1, <1>2 DEF MergeOne
  <2>2. Join(m.r, r) \in OnScreen
    BY <1>1, JoinFacts
  <2>3. MergeOne(m, r) \in Merged
    BY <1>1, <2>1, <2>2 DEF Merged
  <2>4. Spread(MergeOne(m, r)) = PixelsOf(Join(m.r, r)) \cup PixelsOfAll(m.kept)
    BY <2>1 DEF Spread
  <2> QED
    BY <1>1, <2>3, <2>4, JoinFacts DEF Spread
<1>3. CASE ~Touch(m.r, r)
  <2>1. MergeOne(m, r) = [r |-> m.r, kept |-> Append(m.kept, r)]
    BY <1>1, <1>3 DEF MergeOne
  <2>2. Append(m.kept, r) \in Seq(OnScreen)
    BY <1>1
  <2>3. MergeOne(m, r) \in Merged
    BY <1>1, <2>1, <2>2 DEF Merged
  <2>4. Spread(MergeOne(m, r)) = PixelsOf(m.r) \cup PixelsOfAll(Append(m.kept, r))
    BY <2>1 DEF Spread
  <2> QED
    BY <1>1, <2>3, <2>4, AllAppend DEF Spread
<1> QED
  BY <1>2, <1>3

(* Merge is what a walk along the list leaves. *)
LEMMA MergeWalk ==
  ASSUME NEW r \in OnScreen, NEW rects \in Seq(OnScreen)
  PROVE  \E walk \in [0 .. Len(rects) -> Merged] :
           /\ walk[0] = [r |-> r, kept |-> <<>>]
           /\ \A i \in 1 .. Len(rects) : walk[i] = MergeOne(walk[i - 1], rects[i])
           /\ Merge(r, rects) = walk[Len(rects)]
<1> DEFINE n == Len(rects)
           base == [r |-> r, kept |-> <<>>]
           step == [x \in Merged \X (1 .. n) |-> MergeOne(x[1], rects[x[2]])]
           F(walk) == [i \in 0 .. n |-> IF i = 0 THEN base ELSE MergeOne(walk[i - 1], rects[i])]
           W == CHOOSE walk : walk = F(walk)
<1>1. n \in Nat /\ \A i \in 1 .. n : rects[i] \in OnScreen
  OBVIOUS
<1>2. base \in Merged
  BY DEF Merged
<1>3. step \in [Merged \X (1 .. n) -> Merged]
  BY <1>1, MergeOneFacts
<1>4. PICK g : Steps(g, Merged, base, step, n)
  <2> HIDE DEF n, base, step
  <2> QED
    BY <1>1, <1>2, <1>3, Iteration
<1>5. /\ g \in [0 .. n -> Merged] /\ g[0] = base
      /\ \A i \in 1 .. n : g[i] = MergeOne(g[i - 1], rects[i])
  <2>1. /\ g \in [0 .. n -> Merged] /\ g[0] = base
        /\ \A i \in 1 .. n : g[i] = step[<<g[i - 1], i>>]
    <3> HIDE DEF n, base, step
    <3> QED
      BY <1>4 DEF Steps
  <2>2. ASSUME NEW i \in 1 .. n PROVE g[i] = MergeOne(g[i - 1], rects[i])
    <3>1. i - 1 \in 0 .. n
      BY <1>1
    <3>2. <<g[i - 1], i>> \in Merged \X (1 .. n)
      BY <2>1, <3>1
    <3>3. step[<<g[i - 1], i>>] = MergeOne(g[i - 1], rects[i])
      BY <3>2
    <3> QED
      BY <2>1, <3>3
  <2> QED
    BY <2>1, <2>2
<1>6. g = F(g)
  BY <1>5
<1>7. W = F(W)
  <2> HIDE DEF F
  <2> QED
    BY <1>6
<1>8. Merge(r, rects) = W[n]
  BY DEF Merge
<1> HIDE DEF W
<1>9. /\ W[0] = base /\ \A i \in 1 .. n : W[i] = MergeOne(W[i - 1], rects[i])
  BY <1>1, <1>7
<1>10. 0 .. n \subseteq {i \in 0 .. n : W[i] \in Merged}
  <2> DEFINE S == {i \in 0 .. n : W[i] \in Merged}
  <2>1. 0 \in S
    BY <1>1, <1>2, <1>9
  <2>2. ASSUME NEW i \in 0 .. n - 1, i \in S PROVE i + 1 \in S
    <3>1. i + 1 \in 1 .. n /\ (i + 1) - 1 = i
      BY <1>1
    <3>2. W[i + 1] = MergeOne(W[i], rects[i + 1])
      BY <1>9, <3>1
    <3>3. W[i + 1] \in Merged
      BY <1>1, <2>2, <3>1, <3>2, MergeOneFacts
    <3> QED
      BY <3>1, <3>3
  <2> HIDE DEF S, n
  <2>3. 0 .. n \subseteq S
    BY <1>1, <2>1, <2>2, UpTo
  <2> QED
    BY <2>3 DEF S
<1>11. W \in [0 .. n -> Merged]
  BY <1>7, <1>10
<1> QED
  BY <1>8, <1>9, <1>11

(* The merge loses no pixel, and the list does not grow by it. *)
LEMMA MergeFacts ==
  ASSUME NEW r \in OnScreen, NEW rects \in Seq(OnScreen)
  PROVE  /\ Merge(r, rects) \in Merged
         /\ PixelsOf(r) \cup PixelsOfAll(rects) \subseteq Spread(Merge(r, rects))
<1> DEFINE n == Len(rects)
<1>1. n \in Nat /\ DOMAIN rects = 1 .. n /\ \A i \in 1 .. n : rects[i] \in OnScreen
  OBVIOUS
<1>2. PICK walk \in [0 .. n -> Merged] :
        /\ walk[0] = [r |-> r, kept |-> <<>>]
        /\ \A i \in 1 .. n : walk[i] = MergeOne(walk[i - 1], rects[i])
        /\ Merge(r, rects) = walk[n]
  BY MergeWalk
<1> DEFINE Done(i) == /\ PixelsOf(r) \subseteq Spread(walk[i])
                      /\ \A j \in 1 .. i : PixelsOf(rects[j]) \subseteq Spread(walk[i])
           S == {i \in 0 .. n : Done(i)}
<1>3. 0 \in S
  <2>1. PixelsOf(r) \subseteq Spread(walk[0])
    BY <1>2 DEF Spread
  <2> QED
    BY <1>1, <2>1
<1>4. ASSUME NEW i \in 0 .. n - 1, i \in S PROVE i + 1 \in S
  <2>1. i \in 0 .. n /\ i + 1 \in 1 .. n /\ i + 1 \in 0 .. n /\ (i + 1) - 1 = i
    BY <1>1
  <2>2. walk[i + 1] = MergeOne(walk[i], rects[i + 1]) /\ walk[i] \in Merged
    BY <1>2, <2>1
  <2>3. /\ Spread(walk[i]) \subseteq Spread(walk[i + 1])
        /\ PixelsOf(rects[i + 1]) \subseteq Spread(walk[i + 1])
    BY <1>1, <2>1, <2>2, MergeOneFacts
  <2>4. ASSUME NEW j \in 1 .. i + 1 PROVE PixelsOf(rects[j]) \subseteq Spread(walk[i + 1])
    <3>1. j \in 1 .. i \/ j = i + 1
      BY <2>1
    <3> QED
      BY <1>4, <2>3, <3>1
  <2>5. Done(i + 1)
    BY <1>4, <2>3, <2>4
  <2> QED
    BY <2>1, <2>5
<1>5. 0 .. n \subseteq S
  <2> HIDE DEF S, n
  <2> QED
    BY <1>1, <1>3, <1>4, UpTo
<1>6. n \in 0 .. n
  BY <1>1
<1>7. Done(n) /\ walk[n] \in Merged
  BY <1>2, <1>5, <1>6
<1>8. PixelsOfAll(rects) \subseteq Spread(walk[n])
  BY <1>1, <1>7 DEF PixelsOfAll
<1> QED
  BY <1>2, <1>7, <1>8

(* What lies on the screen of a rectangle is what the clipped one covers.  *)
LEMMA ClipFacts ==
  ASSUME NEW rect \in Rect
  PROVE  /\ PixelsOf(rect) = PixelsOf(Clip(rect))
         /\ Clip(rect).w <= 0 \/ Clip(rect).h <= 0 => PixelsOf(rect) = {}
         /\ ~(Clip(rect).w <= 0 \/ Clip(rect).h <= 0) => Clip(rect) \in OnScreen
<1>1. /\ rect.x \in Int /\ rect.y \in Int /\ rect.w \in Int /\ rect.h \in Int
      /\ Width \in Nat /\ Height \in Nat
  BY DamageAssumption DEF Rect
<1>2. PICK c : c = Clip(rect)
  OBVIOUS
<1>3. /\ c.x = Upper(rect.x, 0) /\ c.y = Upper(rect.y, 0)
      /\ c.w = Lower(rect.x + rect.w, Width) - c.x
      /\ c.h = Lower(rect.y + rect.h, Height) - c.y
      /\ c = [x |-> c.x, y |-> c.y, w |-> c.w, h |-> c.h]
  BY <1>2 DEF Clip
<1>4. /\ c.x \in Int /\ c.w \in Int /\ c.x >= 0 /\ c.x + c.w <= Width
      /\ \A k \in 0 .. Width - 1 :
           rect.x <= k /\ k < rect.x + rect.w <=> c.x <= k /\ k < c.x + c.w
  BY <1>1, <1>3 DEF Lower, Upper
<1>5. /\ c.y \in Int /\ c.h \in Int /\ c.y >= 0 /\ c.y + c.h <= Height
      /\ \A k \in 0 .. Height - 1 :
           rect.y <= k /\ k < rect.y + rect.h <=> c.y <= k /\ k < c.y + c.h
  BY <1>1, <1>3 DEF Lower, Upper
<1>6. \A p \in Pixels : p[1] \in 0 .. Width - 1 /\ p[2] \in 0 .. Height - 1
  BY DEF Pixels
<1>7. PixelsOf(rect) = PixelsOf(c)
  BY <1>4, <1>5, <1>6 DEF PixelsOf
<1>8. c.w <= 0 \/ c.h <= 0 => PixelsOf(c) = {}
  BY <1>1, <1>4, <1>5, <1>6 DEF PixelsOf
<1>9. ~(c.w <= 0 \/ c.h <= 0) => c \in OnScreen
  BY <1>3, <1>4, <1>5 DEF OnScreen, Rect
<1> QED
  BY <1>2, <1>7, <1>8, <1>9

(* What the list of damage is: rectangles on the screen, not too many. *)
DamageType(d) ==
  /\ d \in [full : BOOLEAN, rects : Seq(OnScreen)]
  /\ Len(d.rects) <= GUI_DAMAGE_MAX

(* gui_damage_add keeps the list in shape, and what was damaged before and *)
(* the new rectangle's pixels are damaged after it.                        *)
THEOREM AddCovers ==
  ASSUME NEW d, DamageType(d), NEW rect \in Rect
  PROVE  /\ DamageType(gui_damage_add(d, rect))
         /\ Covered(d) \cup PixelsOf(rect) \subseteq Covered(gui_damage_add(d, rect))
<1>1. /\ d.full \in BOOLEAN /\ d.rects \in Seq(OnScreen)
      /\ d = [full |-> d.full, rects |-> d.rects]
      /\ Len(d.rects) <= GUI_DAMAGE_MAX
  BY DEF DamageType
<1>2. PICK c : c = Clip(rect)
  OBVIOUS
<1>3. PICK m : m = Merge(c, d.rects)
  OBVIOUS
<1>4. PixelsOf(rect) \subseteq Pixels /\ Covered(d) \subseteq Pixels
  BY DEF PixelsOf, Covered, PixelsOfAll
<1>5. CASE d.full \/ c.w <= 0 \/ c.h <= 0
  <2>1. gui_damage_add(d, rect) = d
    BY <1>2, <1>5 DEF gui_damage_add
  <2>2. PixelsOf(rect) \subseteq Covered(d)
    BY <1>2, <1>4, <1>5, ClipFacts DEF Covered
  <2> QED
    BY <2>1, <2>2
<1>6. CASE ~(d.full \/ c.w <= 0 \/ c.h <= 0)
  <2>1. c \in OnScreen /\ PixelsOf(rect) = PixelsOf(c) /\ ~d.full
    BY <1>2, <1>6, ClipFacts
  <2>2. /\ m \in Merged
        /\ PixelsOf(c) \cup PixelsOfAll(d.rects) \subseteq Spread(m)
    BY <1>1, <1>3, <2>1, MergeFacts
  <2>3. m.r \in OnScreen /\ m.kept \in Seq(OnScreen) /\ Len(m.kept) \in Nat
    BY <2>2 DEF Merged
  <2>4. \/ gui_damage_add(d, rect) = Full
        \/ /\ Len(m.kept) < GUI_DAMAGE_MAX
           /\ gui_damage_add(d, rect) = [d EXCEPT !.rects = Append(m.kept, m.r)]
    BY <1>2, <1>3, <1>6, <2>3, DamageAssumption DEF gui_damage_add
  <2>5. CASE gui_damage_add(d, rect) = Full
    <3>1. DamageType(Full) /\ Covered(Full) = Pixels
      BY DamageAssumption DEF Full, DamageType, Covered
    <3> QED
      BY <1>4, <2>5, <3>1
  <2>6. CASE /\ Len(m.kept) < GUI_DAMAGE_MAX
             /\ gui_damage_add(d, rect) = [d EXCEPT !.rects = Append(m.kept, m.r)]
    <3> DEFINE l == Append(m.kept, m.r)
               e == [full |-> FALSE, rects |-> l]
    <3>1. gui_damage_add(d, rect) = e
      BY <1>1, <2>1, <2>6
    <3>2. l \in Seq(OnScreen) /\ Len(l) = Len(m.kept) + 1
      BY <2>3
    <3>3. DamageType(e)
      BY <2>3, <2>6, <3>2, DamageAssumption DEF DamageType
    <3>4. Covered(e) = Spread(m)
      BY <2>3, AllAppend DEF Covered, Spread
    <3>5. Covered(d) = PixelsOfAll(d.rects)
      BY <2>1 DEF Covered
    <3> QED
      BY <2>1, <2>2, <3>1, <3>3, <3>4, <3>5
  <2> QED
    BY <2>4, <2>5, <2>6
<1> QED
  BY <1>5, <1>6

(* Any calls of gui_damage_add and gui_damage_clear keep the list in shape *)
(* and lose no pixel, for any screen, list size and rectangles.            *)
THEOREM DamageListCorrect == ListSpec => []DamageSound
<1> DEFINE Inv == DamageType(list) /\ changed \subseteq Covered(list)
<1>0. DamageType(Clean)
  BY DamageAssumption DEF Clean, DamageType
<1>1. ListInit => Inv
  BY <1>0 DEF ListInit
<1>2. Inv /\ [ListNext]_listvars => Inv'
  <2> SUFFICES ASSUME Inv, [ListNext]_listvars PROVE Inv'
    OBVIOUS
  <2>1. ASSUME NEW r \in AnyRect, Add(r) PROVE Inv'
    <3>1. list' = gui_damage_add(list, r) /\ changed' = changed \cup PixelsOf(r)
      BY <2>1 DEF Add
    <3>2. r \in Rect
      BY DamageListAssumption DEF Rect
    <3>3. DamageType(list') /\ Covered(list) \cup PixelsOf(r) \subseteq Covered(list')
      BY <3>1, <3>2, AddCovers
    <3> QED
      BY <3>1, <3>3
  <2>2. CASE Clear
    BY <1>0, <2>2 DEF Clear
  <2>3. CASE UNCHANGED listvars
    BY <2>3 DEF listvars
  <2> QED
    BY <2>1, <2>2, <2>3 DEF ListNext
<1>3. Inv => DamageSound
  <2> SUFFICES ASSUME Inv PROVE DamageSound
    OBVIOUS
  <2>1. list.rects \in Seq(OnScreen) /\ Len(list.rects) <= GUI_DAMAGE_MAX
    BY DEF DamageType
  <2>2. \A n \in DOMAIN list.rects : list.rects[n] \in OnScreen
    BY <2>1
  <2> QED
    BY <2>1, <2>2 DEF DamageSound, OnScreen
<1> QED
  BY <1>1, <1>2, <1>3, PTL DEF ListSpec
-----------------------------------------------------------------------------
(* The pass *)

(* The damage covers what changed, and there is none while not dirty. *)
ScreenInv ==
  /\ DamageType(damage)
  /\ g_gui_dirty \in BOOLEAN
  /\ damage # Clean => g_gui_dirty
  /\ unshown \subseteq Covered(damage)
  /\ undrawn \subseteq Covered(damage)

(* The redraw a pass has prepared: what was drawn is a prefix of the list, *)
(* and what a successful submission has not shown was not drawn.           *)
RedrawInv ==
  /\ redraw_state \in [batch : Int, full : BOOLEAN, success : BOOLEAN]
  /\ at \notin {"submit", "clear"} => redraw_state = NoRedraw
  /\ redraw_state # NoRedraw =>
       /\ redraw_state.full = damage.full
       /\ redraw_state.batch = IF damage.full THEN 0 ELSE Batch
       /\ undrawn \cap Drawn = {}
  /\ redraw_state.success => unshown \subseteq undrawn

(* Where a pass is, and what it must have kept from there on. *)
Serving == {"sources", "drain"}
Drawing == {"redraw", "submit", "clear"}

InputKept == INPUT \in last_work /\ queued > 0 => INPUT \in pending_work
NetworkKept == NETWORK \in last_work /\ received < waiting => NETWORK \in pending_work

(* The classes of work: a missed deadline has made all of them pending     *)
(* again, input is served before the redraw, and the network last.         *)
WorkInv ==
  /\ pending_work \subseteq RUNTIME_WORK_ALL /\ last_work \subseteq RUNTIME_WORK_ALL
  /\ phase \in (SUBSET RUNTIME_WORK_ALL) \cup {DEADLINE}
  /\ at \in Positions
  /\ consumed \in 0 .. RUNTIME_INPUT_EVENT_BUDGET
  /\ received \in 0 .. RUNTIME_NETWORK_FRAME_BUDGET
  /\ queued \in 0 .. MaxQueued /\ frames \in 0 .. MaxFrames /\ waiting \in 0 .. MaxFrames
  /\ received + frames >= waiting
  /\ phase = DEADLINE => last_work \subseteq pending_work
  /\ at \in Serving \cup Drawing => NETWORK \notin phase
  /\ at \in Serving /\ INPUT \in last_work => INPUT \in phase \/ phase = DEADLINE
  /\ at \notin Serving \cup {"idle"} => InputKept
  /\ at = "net_poll" => NETWORK \in phase \/ phase = DEADLINE
  /\ at = "end" /\ NETWORK \in phase => NetworkKept
  /\ at = "done" => NetworkKept

(* The inductive invariant of the pass. *)
PassInv == ScreenInv /\ RedrawInv /\ WorkInv

(* What runtime_service_deadline leaves: work is only added to what is     *)
(* pending, and all that the pass was to serve when the time is up.        *)
LEMMA DeadlineEffect ==
  ASSUME NEW p \in (SUBSET RUNTIME_WORK_ALL) \cup {DEADLINE},
         NEW pending \in SUBSET RUNTIME_WORK_ALL,
         last_work \subseteq RUNTIME_WORK_ALL, runtime_service_deadline(p, pending),
         p = DEADLINE => last_work \subseteq pending
  PROVE  /\ pending_work' \subseteq RUNTIME_WORK_ALL /\ pending \subseteq pending_work'
         /\ phase' \in (SUBSET RUNTIME_WORK_ALL) \cup {DEADLINE}
         /\ phase' = p \/ phase' = DEADLINE
         /\ phase' = DEADLINE => last_work \subseteq pending_work'
<1>1. CASE phase' = p /\ pending_work' = pending
  <2>1. pending_work' \subseteq RUNTIME_WORK_ALL /\ pending \subseteq pending_work'
    BY <1>1
  <2>2. phase' = DEADLINE => last_work \subseteq pending_work'
    BY <1>1
  <2>3. phase' \in (SUBSET RUNTIME_WORK_ALL) \cup {DEADLINE}
    BY <1>1
  <2> QED
    BY <1>1, <2>1, <2>2, <2>3
<1>2. CASE p # DEADLINE /\ phase' = DEADLINE /\ pending_work' = Republished(pending)
  BY <1>2 DEF Republished
<1> QED
  BY <1>1, <1>2 DEF runtime_service_deadline

(* No class of work is served after the time is up. *)
LEMMA DeadlineServesNone == INPUT \notin DEADLINE /\ NETWORK \notin DEADLINE
  BY DEF DEADLINE, INPUT, NETWORK

(* The classes of work through a whole pass. *)
LEMMA WorkStep == ASSUME WorkInv, [Next]_vars PROVE WorkInv'
<1> USE RuntimeAssumption
<1>0. /\ pending_work \in SUBSET RUNTIME_WORK_ALL /\ last_work \subseteq RUNTIME_WORK_ALL
      /\ phase \in (SUBSET RUNTIME_WORK_ALL) \cup {DEADLINE}
      /\ phase = DEADLINE => last_work \subseteq pending_work
  BY DEF WorkInv
<1>d. ASSUME runtime_service_deadline(phase, pending_work)
      PROVE  /\ pending_work' \subseteq RUNTIME_WORK_ALL /\ pending_work \subseteq pending_work'
             /\ phase' \in (SUBSET RUNTIME_WORK_ALL) \cup {DEADLINE}
             /\ phase' = phase \/ phase' = DEADLINE
             /\ phase' = DEADLINE => last_work \subseteq pending_work'
  BY <1>0, <1>d, DeadlineEffect
<1>1. ASSUME NEW request \in {{}, RUNTIME_WORK_ALL}, irq_handler_frame(request)
      PROVE  WorkInv'
  <2> DEFINE pending == pending_work \cup request
  <2>1. pending \subseteq RUNTIME_WORK_ALL
    BY <1>0
  <2>2. /\ pending_work' = {} /\ last_work' = pending /\ consumed' = 0 /\ received' = 0
        /\ waiting' = frames /\ phase' = pending \cap {PERIODIC, INPUT}
        /\ queued' = queued /\ frames' = frames
        /\ at' = CASE pending = {} -> "idle" [] phase' # {} -> "sources" [] OTHER -> "network"
    BY <1>1 DEF irq_handler_frame, runtime_service_run_pending
  <2> HIDE DEF pending
  <2>3. at' \in {"idle", "sources", "network"} /\ (at' = "network" => phase' = {})
    BY <2>2
  <2>4. NETWORK \notin phase' /\ phase' # DEADLINE
    BY <2>2 DEF NETWORK, PERIODIC, INPUT, DEADLINE
  <2>5. INPUT \in last_work' => INPUT \in phase'
    BY <2>2
  <2>6. phase' \in SUBSET RUNTIME_WORK_ALL
    BY <2>1, <2>2
  <2>7. /\ consumed' \in 0 .. RUNTIME_INPUT_EVENT_BUDGET
        /\ received' \in 0 .. RUNTIME_NETWORK_FRAME_BUDGET
        /\ queued' \in 0 .. MaxQueued /\ frames' \in 0 .. MaxFrames /\ waiting' \in 0 .. MaxFrames
        /\ received' + frames' >= waiting'
    BY <2>2 DEF WorkInv
  <2> QED
    BY <2>1, <2>2, <2>3, <2>4, <2>5, <2>6, <2>7
    DEF WorkInv, Positions, Serving, Drawing, InputKept, NetworkKept
<1>2. CASE Sources
  <2>1. /\ at = "sources" /\ at' = "drain" /\ queued' \in queued .. MaxQueued
        /\ runtime_service_deadline(phase, pending_work)
        /\ UNCHANGED <<last_work, consumed, received, waiting, frames>>
    BY <1>2 DEF Sources, counts
  <2>2. queued' \in 0 .. MaxQueued
    BY <2>1 DEF WorkInv
  <2> QED
    BY <1>0, <1>d, <2>1, <2>2, DeadlineServesNone
    DEF WorkInv, Positions, Serving, Drawing, InputKept, NetworkKept
<1>3. CASE DrainEvent
  <2>1. /\ at = "drain" /\ at' = "drain" /\ queued' = queued - 1 /\ consumed' = consumed + 1
        /\ queued > 0 /\ consumed < RUNTIME_INPUT_EVENT_BUDGET
        /\ runtime_service_deadline(phase, pending_work)
        /\ UNCHANGED <<last_work, received, waiting, frames>>
    BY <1>3 DEF DrainEvent
  <2>2. queued' \in 0 .. MaxQueued /\ consumed' \in 0 .. RUNTIME_INPUT_EVENT_BUDGET
    BY <2>1 DEF WorkInv
  <2> QED
    BY <1>0, <1>d, <2>1, <2>2, DeadlineServesNone
    DEF WorkInv, Positions, Serving, Drawing, InputKept, NetworkKept
<1>4. CASE DrainEnd
  <2>1. /\ at = "drain" /\ at' \in {"redraw", "end"}
        /\ pending_work' = IF INPUT \in phase /\ queued > 0 THEN pending_work \cup {INPUT}
                           ELSE pending_work
        /\ UNCHANGED <<last_work, phase, consumed, received, waiting, queued, frames>>
    BY <1>4 DEF DrainEnd, counts, Requeued
  <2>2. pending_work \subseteq pending_work' /\ pending_work' \subseteq RUNTIME_WORK_ALL
    BY <1>0, <2>1 DEF RUNTIME_WORK_ALL
  <2>3. InputKept'
    BY <1>0, <2>1, <2>2 DEF WorkInv, InputKept, Serving
  <2> QED
    BY <1>0, <2>1, <2>2, <2>3 DEF WorkInv, Positions, Serving, Drawing, NetworkKept
<1>5. CASE RedrawRefused \/ SubmitFailed \/ runtime_service_gui_clear_dirty
  <2>1. /\ \/ at \in Drawing /\ at' = "clear"
           \/ at = "clear" /\ at' = "end"
        /\ UNCHANGED <<pending_work, last_work, phase, consumed, received, waiting, queued, frames>>
    BY <1>5 DEF RedrawRefused, SubmitFailed, runtime_service_gui_clear_dirty, work, counts, Drawing
  <2> QED
    BY <1>0, <2>1 DEF WorkInv, Positions, Serving, Drawing, InputKept, NetworkKept
<1>6. CASE runtime_service_gui_render \/ Submitted
  <2>1. /\ at \in {"redraw", "submit"} /\ at' \in {"submit", "clear"}
        /\ runtime_service_deadline(phase, pending_work)
        /\ UNCHANGED <<last_work, consumed, received, waiting, queued, frames>>
    BY <1>6 DEF runtime_service_gui_render, Submitted, counts
  <2> QED
    BY <1>0, <1>d, <2>1, DeadlineServesNone
    DEF WorkInv, Positions, Serving, Drawing, InputKept, NetworkKept
<1>7. CASE ClassEnd
  <2>1. /\ at = "end" /\ runtime_service_deadline(phase, pending_work)
        /\ at' = IF NETWORK \in last_work /\ NETWORK \notin phase /\ phase' # DEADLINE
                 THEN "network" ELSE "done"
        /\ UNCHANGED <<last_work, consumed, received, waiting, queued, frames>>
    BY <1>7 DEF ClassEnd, counts
  <2>2. at' = "done" => NetworkKept'
    BY <1>0, <1>d, <2>1 DEF WorkInv, NetworkKept
  <2>3. at' \in {"network", "done"}
    BY <2>1
  <2> QED
    BY <1>0, <1>d, <2>1, <2>2, <2>3 DEF WorkInv, Positions, Serving, Drawing, InputKept
<1>8. CASE StartNetwork
  <2>1. /\ at = "network" /\ runtime_service_deadline({NETWORK}, pending_work)
        /\ at' = IF phase' = DEADLINE THEN "done" ELSE "net_poll"
        /\ UNCHANGED <<last_work, consumed, received, waiting, queued, frames>>
    BY <1>8 DEF StartNetwork, counts
  <2>2. {NETWORK} \in SUBSET RUNTIME_WORK_ALL /\ {NETWORK} # DEADLINE
    BY DEF RUNTIME_WORK_ALL, NETWORK, DEADLINE
  <2>3. /\ pending_work' \subseteq RUNTIME_WORK_ALL /\ pending_work \subseteq pending_work'
        /\ phase' \in (SUBSET RUNTIME_WORK_ALL) \cup {DEADLINE}
        /\ phase' = {NETWORK} \/ phase' = DEADLINE
        /\ phase' = DEADLINE => last_work \subseteq pending_work'
    BY <1>0, <2>1, <2>2, DeadlineEffect
  <2> QED
    BY <1>0, <2>1, <2>3 DEF WorkInv, Positions, Serving, Drawing, InputKept, NetworkKept
<1>9. CASE Finish
  <2>1. /\ phase' = {} /\ at' = "idle"
        /\ UNCHANGED <<pending_work, last_work, consumed, received, waiting, queued, frames>>
    BY <1>9 DEF Finish, counts
  <2> QED
    BY <1>0, <2>1 DEF WorkInv, Positions, Serving, Drawing, DEADLINE
<1>10. CASE ReceiveFrame
  <2>1. /\ at = "net_poll" /\ at' = "net_poll" /\ frames' = frames - 1 /\ received' = received + 1
        /\ frames > 0 /\ received < RUNTIME_NETWORK_FRAME_BUDGET
        /\ runtime_service_deadline(phase, pending_work)
        /\ UNCHANGED <<last_work, consumed, waiting, queued>>
    BY <1>10 DEF ReceiveFrame
  <2>2. /\ frames' \in 0 .. MaxFrames /\ received' \in 0 .. RUNTIME_NETWORK_FRAME_BUDGET
        /\ received' + frames' >= waiting'
    BY <2>1 DEF WorkInv
  <2> QED
    BY <1>0, <1>d, <2>1, <2>2 DEF WorkInv, Positions, Serving, Drawing, InputKept
<1>11. CASE ReceiveEnd
  <2>1. /\ at = "net_poll" /\ at' = "end"
        /\ NETWORK \notin phase \/ frames = 0 \/ received = RUNTIME_NETWORK_FRAME_BUDGET
        /\ pending_work' = IF NETWORK \in phase /\ received = RUNTIME_NETWORK_FRAME_BUDGET
                           THEN pending_work \cup {NETWORK} ELSE pending_work
        /\ UNCHANGED <<last_work, phase, consumed, received, waiting, queued, frames>>
    BY <1>11 DEF ReceiveEnd, counts, Requeued
  <2>2. pending_work \subseteq pending_work' /\ pending_work' \subseteq RUNTIME_WORK_ALL
    BY <1>0, <2>1 DEF RUNTIME_WORK_ALL
  <2>3. NetworkKept'
    <3>1. CASE NETWORK \notin phase
      BY <1>0, <2>1, <2>2, <3>1 DEF WorkInv, NetworkKept
    <3>2. CASE NETWORK \in phase /\ received = RUNTIME_NETWORK_FRAME_BUDGET
      BY <2>1, <3>2 DEF NetworkKept
    <3>3. CASE frames = 0
      BY <2>1, <3>3 DEF WorkInv, NetworkKept
    <3> QED
      BY <2>1, <3>1, <3>2, <3>3
  <2> QED
    BY <1>0, <2>1, <2>2, <2>3 DEF WorkInv, Positions, Serving, Drawing, InputKept
<1>12. CASE SystemCall
  <2>1. /\ at = "idle" /\ at' = "idle" /\ queued' \in {0, queued}
        /\ UNCHANGED <<pending_work, last_work, phase, consumed, received, waiting, frames>>
    BY <1>12 DEF SystemCall, work, counts
  <2>2. queued' \in 0 .. MaxQueued
    BY <2>1 DEF WorkInv
  <2> QED
    BY <1>0, <2>1, <2>2 DEF WorkInv, Positions, Serving, Drawing
<1>13. CASE InputArrives
  <2>1. /\ at = "idle" /\ at' = "idle" /\ queued < MaxQueued /\ queued' = queued + 1
        /\ UNCHANGED <<pending_work, last_work, phase, consumed, received, waiting, frames>>
    BY <1>13 DEF InputArrives, work, counts
  <2>2. queued' \in 0 .. MaxQueued
    BY <2>1 DEF WorkInv
  <2> QED
    BY <1>0, <2>1, <2>2 DEF WorkInv, Positions, Serving, Drawing
<1>14. CASE FrameArrives
  <2>1. /\ frames < MaxFrames /\ frames' = frames + 1
        /\ UNCHANGED <<at, pending_work, last_work, phase, consumed, received, waiting, queued>>
    BY <1>14 DEF FrameArrives, work, counts
  <2>2. frames' \in 0 .. MaxFrames /\ received' + frames' >= waiting'
    BY <2>1 DEF WorkInv
  <2> QED
    BY <1>0, <2>1, <2>2 DEF WorkInv, Positions, InputKept, NetworkKept
<1>15. CASE gui_request_redraw \/ UNCHANGED vars
  <2>1. UNCHANGED <<at, pending_work, last_work, phase, consumed, received, waiting, queued, frames>>
    BY <1>15 DEF gui_request_redraw, work, counts, vars
  <2> QED
    BY <1>0, <2>1 DEF WorkInv, InputKept, NetworkKept
<1> QED
  BY <1>1, <1>2, <1>3, <1>4, <1>5, <1>6, <1>7, <1>8, <1>9, <1>10, <1>11, <1>12, <1>13, <1>14, <1>15
  DEF Next, Pass

(* The damage and the redraw *)

(* The damage covers no more than the screen. *)
LEMMA CoveredOnScreen ==
  ASSUME NEW d
  PROVE  Covered(d) \subseteq Pixels
  BY DEF Covered, PixelsOfAll, PixelsOf

(* What programs and events change is damaged. *)
LEMMA ChangeStep ==
  ASSUME ScreenInv, NEW r \in Rects, Change(r)
  PROVE  ScreenInv'
<1>1. /\ damage' = gui_damage_add(damage, r)
      /\ g_gui_dirty' = (g_gui_dirty \/ damage' # damage)
      /\ undrawn' = undrawn \cup PixelsOf(r) /\ unshown' = unshown \cup PixelsOf(r)
  BY DEF Change
<1>2. r \in Rect
  BY RuntimeAssumption DEF Rect
<1>3. DamageType(damage') /\ Covered(damage) \cup PixelsOf(r) \subseteq Covered(damage')
  BY <1>1, <1>2, AddCovers DEF ScreenInv
<1>4. damage' # Clean => g_gui_dirty'
  BY <1>1 DEF ScreenInv
<1>5. g_gui_dirty' \in BOOLEAN
  BY <1>1
<1>6. (unshown \subseteq Covered(damage))' /\ (undrawn \subseteq Covered(damage))'
  BY <1>1, <1>3 DEF ScreenInv
<1> QED
  BY <1>3, <1>4, <1>5, <1>6 DEF ScreenInv

(* A prefix of the damage and the rest of it cover what all of it covers.  *)
LEMMA PrefixAndRest ==
  ASSUME NEW rects \in Seq(OnScreen), NEW n \in Nat, n <= Len(rects)
  PROVE  LET rest == SubSeq(rects, n + 1, Len(rects))
         IN /\ rest \in Seq(OnScreen) /\ Len(rest) = Len(rects) - n
            /\ PixelsOfAll(rects) \subseteq
                 PixelsOfAll(SubSeq(rects, 1, n)) \cup PixelsOfAll(rest)
<1> DEFINE rest == SubSeq(rects, n + 1, Len(rects))
           first == SubSeq(rects, 1, n)
<1>1. Len(rects) \in Nat /\ DOMAIN rects = 1 .. Len(rects)
  OBVIOUS
<1>2. /\ rest \in Seq(OnScreen) /\ Len(rest) = Len(rects) - n
      /\ DOMAIN rest = 1 .. (Len(rects) - n)
      /\ \A i \in 1 .. (Len(rects) - n) : rest[i] = rects[i + n]
  BY <1>1
<1>3. DOMAIN first = 1 .. n /\ \A i \in 1 .. n : first[i] = rects[i]
  BY <1>1
<1> HIDE DEF rest, first
<1>4. ASSUME NEW i \in 1 .. Len(rects)
      PROVE  PixelsOf(rects[i]) \subseteq PixelsOfAll(first) \cup PixelsOfAll(rest)
  <2>1. CASE i <= n
    <3>1. i \in DOMAIN first /\ first[i] = rects[i]
      BY <1>3, <2>1
    <3> QED
      BY <3>1 DEF PixelsOfAll
  <2>2. CASE i > n
    <3>1. i - n \in DOMAIN rest /\ rest[i - n] = rects[i]
      BY <1>1, <1>2, <2>2
    <3> QED
      BY <3>1 DEF PixelsOfAll
  <2> QED
    BY <1>1, <2>1, <2>2
<1>5. PixelsOfAll(rects) \subseteq PixelsOfAll(first) \cup PixelsOfAll(rest)
  BY <1>1, <1>4 DEF PixelsOfAll
<1> QED
  BY <1>2, <1>5 DEF rest, first

(* A list that is drawn from its first rectangle to its last is covered by *)
(* what was drawn.                                                         *)
LEMMA WholeBatch ==
  ASSUME NEW rects \in Seq(OnScreen)
  PROVE  SubSeq(rects, 1, Len(rects)) = rects
  OBVIOUS

(* How far a redraw goes in the list. *)
LEMMA BatchType ==
  ASSUME DamageType(damage)
  PROVE  /\ Batch \in 0 .. RUNTIME_REDRAW_DAMAGE_BUDGET /\ Batch <= Len(damage.rects)
         /\ damage.rects \in Seq(OnScreen) /\ damage.full \in BOOLEAN
         /\ Len(damage.rects) \in Nat
         /\ damage = [full |-> damage.full, rects |-> damage.rects]
<1>1. /\ damage.rects \in Seq(OnScreen) /\ damage.full \in BOOLEAN /\ Len(damage.rects) \in Nat
      /\ damage = [full |-> damage.full, rects |-> damage.rects]
  BY DEF DamageType
<1>2. Batch \in 0 .. RUNTIME_REDRAW_DAMAGE_BUDGET /\ Batch <= Len(damage.rects)
  BY <1>1, RuntimeAssumption DEF Batch, Lower
<1> QED
  BY <1>1, <1>2

(* What a submission in time takes off the list was drawn and shown.       *)
LEMMA ClearStep ==
  ASSUME ScreenInv, RedrawInv, runtime_service_gui_clear_dirty
  PROVE  ScreenInv' /\ RedrawInv'
<1>0. /\ DamageType(damage) /\ Batch \in 0 .. RUNTIME_REDRAW_DAMAGE_BUDGET
      /\ Batch <= Len(damage.rects)
      /\ damage.rects \in Seq(OnScreen) /\ damage.full \in BOOLEAN /\ Len(damage.rects) \in Nat
      /\ damage = [full |-> damage.full, rects |-> damage.rects]
  BY BatchType DEF ScreenInv
<1>1. /\ at' = "end" /\ redraw_state' = NoRedraw /\ undrawn' = undrawn /\ unshown' = unshown
      /\ CASE ~Consumes -> UNCHANGED <<g_gui_dirty, damage>>
           [] Consumes ->
                IF redraw_state.full \/ Len(damage.rects) <= redraw_state.batch
                THEN g_gui_dirty' = FALSE /\ damage' = Clean
                ELSE damage' = Left /\ UNCHANGED g_gui_dirty
  BY DEF runtime_service_gui_clear_dirty
<1>2. RedrawInv'
  BY <1>1 DEF RedrawInv, NoRedraw
<1>3. CASE ~Consumes
  <2>1. UNCHANGED <<g_gui_dirty, damage>>
    BY <1>1, <1>3
  <2> QED
    BY <1>1, <1>2, <2>1 DEF ScreenInv
<1>4. CASE Consumes
  <2>1. /\ redraw_state # NoRedraw /\ redraw_state.full = damage.full
        /\ redraw_state.batch = IF damage.full THEN 0 ELSE Batch
        /\ undrawn \cap Drawn = {} /\ unshown \subseteq undrawn
    BY <1>4 DEF RedrawInv, Consumes, NoRedraw
  <2>2. CASE damage.full \/ Len(damage.rects) <= redraw_state.batch
    <3>1. g_gui_dirty' = FALSE /\ damage' = Clean
      BY <1>1, <1>4, <2>1, <2>2
    <3>2. Drawn = Covered(damage)
      <4>1. CASE damage.full
        BY <4>1 DEF Drawn, Covered
      <4>2. CASE ~damage.full
        <5>1. Batch = Len(damage.rects)
          BY <1>0, <2>1, <2>2, <4>2
        <5> QED
          BY <1>0, <4>2, <5>1, WholeBatch DEF Drawn, Covered
      <4> QED
        BY <4>1, <4>2
    <3>3. undrawn = {} /\ unshown = {}
      BY <2>1, <3>2 DEF ScreenInv
    <3>4. DamageType(Clean)
      BY DamageAssumption DEF Clean, DamageType
    <3> QED
      BY <1>1, <1>2, <3>1, <3>3, <3>4 DEF ScreenInv
  <2>3. CASE ~damage.full /\ ~(Len(damage.rects) <= redraw_state.batch)
    <3> DEFINE rest == SubSeq(damage.rects, Batch + 1, Len(damage.rects))
    <3>1. /\ rest \in Seq(OnScreen) /\ Len(rest) = Len(damage.rects) - Batch
          /\ PixelsOfAll(damage.rects) \subseteq
               PixelsOfAll(SubSeq(damage.rects, 1, Batch)) \cup PixelsOfAll(rest)
      BY <1>0, PrefixAndRest
    <3>2. damage' = Left /\ UNCHANGED g_gui_dirty
      BY <1>1, <1>4, <2>1, <2>3
    <3> HIDE DEF rest
    <3>3. Left = [full |-> FALSE, rects |-> rest]
      <4>1. redraw_state.batch = Batch
        BY <2>1, <2>3
      <4>2. Left = [damage EXCEPT !.rects = rest]
        BY <4>1 DEF Left, rest
      <4>3. damage.full = FALSE
        BY <1>0, <2>3
      <4>4. [damage EXCEPT !.rects = rest] = [full |-> damage.full, rects |-> rest]
        BY <1>0
      <4> QED
        BY <4>2, <4>3, <4>4
    <3>4. DamageType(Left)
      BY <1>0, <3>1, <3>3, DamageAssumption DEF DamageType
    <3>5. Covered(damage) \subseteq Drawn \cup Covered(Left)
      BY <2>3, <3>1, <3>3 DEF Covered, Drawn
    <3>6. undrawn \subseteq Covered(Left) /\ unshown \subseteq Covered(Left)
      BY <2>1, <3>5 DEF ScreenInv
    <3>7. damage # Clean
      BY <1>0, <2>1, <2>3 DEF Clean
    <3> QED
      BY <1>1, <1>2, <3>2, <3>4, <3>6, <3>7 DEF ScreenInv
  <2> QED
    BY <1>0, <2>2, <2>3
<1> QED
  BY <1>3, <1>4

(* The screen and the redraw through a whole pass and between passes. *)
LEMMA ScreenStep ==
  ASSUME ScreenInv, RedrawInv, [Next]_vars
  PROVE  ScreenInv' /\ RedrawInv'
<1>0. NoRedraw \in [batch : Int, full : BOOLEAN, success : BOOLEAN] /\ ~NoRedraw.success
  BY DEF NoRedraw
<1>1. ASSUME UNCHANGED screen, redraw_state' = NoRedraw
      PROVE  ScreenInv' /\ RedrawInv'
  BY <1>0, <1>1 DEF ScreenInv, RedrawInv, screen
<1>2. ASSUME at \notin {"submit", "clear"}, UNCHANGED screen, UNCHANGED redraw_state
      PROVE  ScreenInv' /\ RedrawInv'
  BY <1>1, <1>2 DEF RedrawInv
<1>3. ASSUME UNCHANGED screen \/ \E r \in Rects : Change(r), at \notin {"submit", "clear"},
             UNCHANGED redraw_state
      PROVE  ScreenInv' /\ RedrawInv'
  <2>1. CASE UNCHANGED screen
    BY <1>2, <1>3, <2>1
  <2>2. ASSUME NEW r \in Rects, Change(r) PROVE ScreenInv' /\ RedrawInv'
    <3>1. redraw_state' = NoRedraw
      BY <1>3 DEF RedrawInv
    <3> QED
      BY <1>0, <2>2, <3>1, ChangeStep DEF RedrawInv
  <2> QED
    BY <1>3, <2>1, <2>2
<1>4. ASSUME NEW request \in {{}, RUNTIME_WORK_ALL}, irq_handler_frame(request)
      PROVE  ScreenInv' /\ RedrawInv'
  BY <1>1, <1>4 DEF irq_handler_frame, runtime_service_run_pending
<1>5. CASE Sources \/ DrainEnd \/ ClassEnd \/ StartNetwork \/ Finish \/ ReceiveFrame \/ ReceiveEnd
  <2>1. at \notin {"submit", "clear"} /\ UNCHANGED screen /\ UNCHANGED redraw_state
    BY <1>5 DEF Sources, DrainEnd, ClassEnd, StartNetwork, Finish, ReceiveFrame, ReceiveEnd
  <2> QED
    BY <1>2, <2>1
<1>6. CASE RedrawRefused \/ InputArrives
  <2>1. at \notin {"submit", "clear"} /\ UNCHANGED screen /\ UNCHANGED redraw_state
    BY <1>6 DEF RedrawRefused, InputArrives
  <2> QED
    BY <1>2, <2>1
<1>7. CASE DrainEvent \/ SystemCall
  <2>1. /\ at \notin {"submit", "clear"} /\ UNCHANGED redraw_state
        /\ UNCHANGED screen \/ \E r \in Rects : Change(r)
    BY <1>7 DEF DrainEvent, SystemCall
  <2> QED
    BY <1>3, <2>1
<1>8. CASE runtime_service_gui_render
  <2>1. /\ at = "redraw" /\ at' = "submit"
        /\ \/ UNCHANGED <<redraw_state, undrawn>>
           \/ /\ redraw_state' = [batch |-> IF damage.full THEN 0 ELSE Batch,
                                  full |-> damage.full, success |-> FALSE]
              /\ undrawn' = undrawn \ Drawn
        /\ UNCHANGED <<g_gui_dirty, damage, unshown>>
    BY <1>8 DEF runtime_service_gui_render
  <2>2. redraw_state = NoRedraw
    BY <2>1 DEF RedrawInv
  <2>3. ScreenInv'
    BY <2>1 DEF ScreenInv
  <2>4. Batch \in Nat /\ damage.full \in BOOLEAN /\ Batch' = Batch /\ Drawn' = Drawn
    BY <2>1, BatchType, RuntimeAssumption DEF ScreenInv, Batch, Drawn
  <2>5. RedrawInv'
    <3>1. CASE UNCHANGED redraw_state
      BY <1>0, <2>2, <3>1 DEF RedrawInv
    <3>2. CASE /\ redraw_state' = [batch |-> IF damage.full THEN 0 ELSE Batch,
                                   full |-> damage.full, success |-> FALSE]
               /\ undrawn' = undrawn \ Drawn
      <4>1. /\ redraw_state' \in [batch : Int, full : BOOLEAN, success : BOOLEAN]
            /\ ~redraw_state'.success /\ redraw_state'.full = damage.full
            /\ redraw_state'.batch = IF damage.full THEN 0 ELSE Batch
        BY <2>4, <3>2
      <4>2. undrawn' \cap Drawn = {}
        BY <3>2
      <4> QED
        BY <2>1, <2>4, <4>1, <4>2 DEF RedrawInv
    <3> QED
      BY <2>1, <3>1, <3>2
  <2> QED
    BY <2>3, <2>5
<1>9. CASE Submitted
  <2>1. /\ at = "submit" /\ at' = "clear" /\ unshown' = undrawn
        /\ redraw_state' = IF redraw_state = NoRedraw THEN NoRedraw
                           ELSE [redraw_state EXCEPT !.success = TRUE]
        /\ UNCHANGED <<g_gui_dirty, damage, undrawn>>
    BY <1>9 DEF Submitted
  <2>2. ScreenInv'
    BY <2>1 DEF ScreenInv
  <2>3. Batch' = Batch /\ Drawn' = Drawn
    BY <2>1 DEF Batch, Drawn
  <2>4. RedrawInv'
    <3>1. CASE redraw_state = NoRedraw
      BY <1>0, <2>1, <3>1 DEF RedrawInv
    <3>2. CASE redraw_state # NoRedraw
      <4>1. /\ redraw_state' \in [batch : Int, full : BOOLEAN, success : BOOLEAN]
            /\ redraw_state'.full = redraw_state.full /\ redraw_state'.batch = redraw_state.batch
        BY <2>1, <3>2 DEF RedrawInv
      <4> QED
        BY <2>1, <2>3, <3>2, <4>1 DEF RedrawInv
    <3> QED
      BY <3>1, <3>2
  <2> QED
    BY <2>2, <2>4
<1>10. CASE SubmitFailed
  <2>1. /\ at = "submit" /\ at' = "clear" /\ unshown' \in {unshown, undrawn}
        /\ UNCHANGED <<redraw_state, g_gui_dirty, damage, undrawn>>
    BY <1>10 DEF SubmitFailed
  <2>2. Batch' = Batch /\ Drawn' = Drawn
    BY <2>1 DEF Batch, Drawn
  <2> QED
    BY <2>1, <2>2 DEF ScreenInv, RedrawInv
<1>11. CASE runtime_service_gui_clear_dirty
  BY <1>11, ClearStep
<1>12. CASE gui_request_redraw
  <2>1. /\ at = "idle" /\ at' = "idle" /\ damage' = Full /\ g_gui_dirty' = TRUE
        /\ undrawn' = Pixels /\ unshown' = Pixels /\ UNCHANGED redraw_state
    BY <1>12 DEF gui_request_redraw
  <2>2. DamageType(Full) /\ Covered(Full) = Pixels
    BY DamageAssumption DEF Full, DamageType, Covered
  <2>3. ScreenInv'
    BY <2>1, <2>2 DEF ScreenInv
  <2>4. RedrawInv'
    BY <1>0, <2>1 DEF RedrawInv
  <2> QED
    BY <2>3, <2>4
<1>13. CASE FrameArrives \/ UNCHANGED vars
  <2>1. UNCHANGED <<at, redraw_state, g_gui_dirty, damage, undrawn, unshown>>
    BY <1>13 DEF FrameArrives, vars, screen
  <2>2. Batch' = Batch /\ Drawn' = Drawn
    BY <2>1 DEF Batch, Drawn
  <2> QED
    BY <2>1, <2>2 DEF ScreenInv, RedrawInv
<1> QED
  BY <1>4, <1>5, <1>6, <1>7, <1>8, <1>9, <1>10, <1>11, <1>12, <1>13 DEF Next, Pass

(* The invariant implies what the run checks. *)
LEMMA PassInvImplies == PassInv => PassSound
<1> SUFFICES ASSUME PassInv PROVE PassSound
  OBVIOUS
<1>0. ScreenInv /\ RedrawInv /\ WorkInv
  BY DEF PassInv
<1>1. /\ Batch \in 0 .. RUNTIME_REDRAW_DAMAGE_BUDGET
      /\ damage.rects \in Seq(OnScreen) /\ damage.full \in BOOLEAN
      /\ Len(damage.rects) <= GUI_DAMAGE_MAX
  BY <1>0, BatchType DEF ScreenInv, DamageType
<1>2. redraw_state \in [batch : -1 .. RUNTIME_REDRAW_DAMAGE_BUDGET,
                        full : BOOLEAN, success : BOOLEAN]
  BY <1>0, <1>1, RuntimeAssumption DEF RedrawInv, NoRedraw
<1>3. \A i \in DOMAIN damage.rects : PixelsOf(damage.rects[i]) # {}
  BY <1>1, OnScreenShows
<1>4. undrawn \subseteq Pixels /\ unshown \subseteq Pixels
  BY <1>0, CoveredOnScreen DEF ScreenInv
<1>5. TypeOK
  BY <1>0, <1>1, <1>2, <1>3, <1>4 DEF TypeOK, WorkInv, ScreenInv
<1>6. Covered(Clean) = {}
  BY DEF Covered, Clean, PixelsOfAll
<1>7. DamageCovers
  BY <1>0, <1>6 DEF DamageCovers, ScreenInv
<1>8. WorkKept
  BY <1>0 DEF WorkKept, WorkInv, InputKept, NetworkKept, Serving
<1> QED
  BY <1>5, <1>7, <1>8 DEF PassSound

(* Nothing is damaged and nothing pending when the kernel starts. *)
LEMMA PassInvInit == Init => PassInv
<1> SUFFICES ASSUME Init PROVE PassInv
  OBVIOUS
<1>1. ScreenInv
  <2>1. DamageType(Clean)
    BY DamageAssumption DEF Clean, DamageType
  <2> QED
    BY <2>1 DEF Init, ScreenInv
<1>2. RedrawInv
  BY DEF Init, RedrawInv, NoRedraw
<1>3. WorkInv
  BY RuntimeAssumption DEF Init, WorkInv, Positions, Serving, Drawing, DEADLINE
<1> QED
  BY <1>1, <1>2, <1>3 DEF PassInv

(* runtime_service_run_pending: a pass that misses its deadline at any     *)
(* step, or meets a display that refuses or fails, forgets no change to    *)
(* the screen and no class of work; for any budgets, sizes and rectangles. *)
THEOREM PassCorrect == Spec => []PassSound
<1>1. Init => PassInv
  BY PassInvInit
<1>2. PassInv /\ [Next]_vars => PassInv'
  BY ScreenStep, WorkStep DEF PassInv
<1>3. PassInv => PassSound
  BY PassInvImplies
<1> QED
  BY <1>1, <1>2, <1>3, PTL DEF Spec
=============================================================================
