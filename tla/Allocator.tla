----------------------------- MODULE Allocator -----------------------------
(***************************************************************************)
(* What a caller of the kernel heap may rely on (kernel/mm/kheap.h): an    *)
(* allocation is aligned, has the length that was asked for, shares no     *)
(* byte with another one, and stays as it is until it is freed.            *)
(***************************************************************************)
EXTENDS Integers

CONSTANTS
  Address,      \* bytes of memory
  Alignment     \* allocations start at multiples of it

VARIABLE live   \* the allocations: their first byte and their length

BytesOf(a) == a.ptr .. (a.ptr + a.size - 1)

Init == live = {}

Allocate(a) ==
  /\ a.size > 0
  /\ a.ptr % Alignment = 0
  /\ BytesOf(a) \subseteq Address
  /\ \A b \in live : BytesOf(a) \cap BytesOf(b) = {}
  /\ live' = live \cup {a}

Release(a) == a \in live /\ live' = live \ {a}

Next == \/ \E a \in live' \ live : Allocate(a)
        \/ \E a \in live : Release(a)

Spec == Init /\ [][Next]_live
=============================================================================
