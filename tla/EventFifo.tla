----------------------------- MODULE EventFifo -----------------------------
(***************************************************************************)
(* What drivers/input/input.h promises of the queue all input goes         *)
(* through: accepted events come out once each, in order; an event that    *)
(* finds the queue full is counted and leaves it as it is.                 *)
(***************************************************************************)
EXTENDS Integers, Sequences

CONSTANTS Events, Size

VARIABLES q, overflow, high_water

Init == q = <<>> /\ overflow = 0 /\ high_water = 0

Push(e) ==
  /\ Len(q) < Size
  /\ q' = Append(q, e)
  /\ high_water' = IF Len(q') > high_water THEN Len(q') ELSE high_water
  /\ UNCHANGED overflow

Overflow ==
  /\ Len(q) = Size
  /\ overflow' = overflow + 1
  /\ UNCHANGED <<q, high_water>>

Pop == q # <<>> /\ q' = Tail(q) /\ UNCHANGED <<overflow, high_water>>

Next == (\E e \in Events : Push(e)) \/ Overflow \/ Pop

Spec == Init /\ [][Next]_<<q, overflow, high_water>>
=============================================================================
