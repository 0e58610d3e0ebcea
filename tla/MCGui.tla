-------------------------------- MODULE MCGui -------------------------------
(* Two windows on a screen of 4 x 4 pixels. *)
EXTENDS Gui

MCBounds == {Rect(0, 0, 3, 4), Rect(1, 1, 3, 3)}
MCDrawn == {Rect(0, 1, 2, 5)}
MCRegion == [used |-> TRUE, x |-> 1, y |-> 0, w |-> 1, h |-> 1, shape |-> "hand"]
MCMoves == {<<-1, -2>>, <<1, 1>>}
MCSymmetry == Permutations(Pids)
=============================================================================
