----------------------------- MODULE MCServices -----------------------------
(***************************************************************************)
(* Services of the kernel that share no state with each other: messages    *)
(* (Ipc), the kernel heap, the input queue, the page bitmap, the damage    *)
(* list and the escape decoder.  A behaviour exercises the one that        *)
(* `subject` names and leaves the others alone.                            *)
(***************************************************************************)
EXTENDS Ipc, Input, DamageList, PmmBitmap

VARIABLES
  subject,
  pmm, block, g_heap_head, g_heap_tail, g_heap_total_bytes, g_next_arena_id, others, live,
  decoder, bytes, keys        \* a decoder; history: bytes fed, keys pushed

heapvars == <<pmm, block, g_heap_head, g_heap_tail, g_heap_total_bytes, g_next_arena_id,
              others, live>>
escapevars == <<decoder, bytes, keys>>
-----------------------------------------------------------------------------
(* Heap: three pages of twelve bytes, shared with other users; requests of *)
(* one block, of two pages, and ones that overflow.                        *)
HeapRequests == {0, 1, 5, 13, 997, 1000}
Heap == INSTANCE Kheap WITH NumPages <- 3, PageBytes <- 12, Align <- 2, BlockBytes <- 1,
                            MinSplit <- 2, WordMax <- 1000, Requests <- HeapRequests

(* Pages of two bytes; memories that end within a page, and one that has   *)
(* more pages than the bitmap.                                             *)
MCBases == {0, 4}
MCMemories == {3, 6, 9}

(* Every rectangle in and around the screen. *)
MCAnyRect == [x : -1 .. Width, y : -1 .. Height, w : 0 .. Width + 1, h : 0 .. Height + 1]

MaxBytes == 5
-----------------------------------------------------------------------------
Feed(c) ==
  /\ Len(bytes) < MaxBytes
  /\ bytes' = Append(bytes, c)
  /\ decoder' = input_inject_byte(decoder, c).esc
  /\ keys' = keys \o input_inject_byte(decoder, c).keys

Subjects == {"ipc", "heap", "input", "bitmap", "damage", "escape"}

MCInit ==
  /\ subject \in Subjects
  /\ Init /\ Heap!Init /\ InputInit /\ (subject = "input" \/ running = "el0") /\ BitmapInit
  /\ ListInit
  /\ decoder = Idle /\ bytes = <<>> /\ keys = <<>>

(* All but the subject stand still. *)
Others ==
  /\ subject # "ipc" => UNCHANGED vars
  /\ subject # "heap" => UNCHANGED heapvars
  /\ subject # "input" => UNCHANGED inputvars
  /\ subject # "bitmap" => UNCHANGED bitmapvars
  /\ subject # "damage" => UNCHANGED listvars
  /\ subject # "escape" => UNCHANGED escapevars
  /\ UNCHANGED subject

MCNext ==
  /\ \/ subject = "ipc" /\ Next
     \/ subject = "heap" /\ Heap!Next
     \/ subject = "input" /\ InputNext
     \/ subject = "bitmap" /\ BitmapNext
     \/ subject = "damage" /\ ListNext
     \/ subject = "escape" /\ \E c \in Byte : Feed(c)
  /\ Others
-----------------------------------------------------------------------------
(* Kheap: the list is sound, the blocks tile the arenas, and free blocks   *)
(* next to each other are joined.                                          *)
HeapSound == subject = "heap" => Heap!TypeOK /\ Heap!ListTiles /\ Heap!Coalesced

(* Kheap: the heap implements the allocator kheap.h promises. *)
IsAllocator == Heap!IsAllocator

(* The keys of a whole line: ESC [ letter and ESC [ digit ~ are one key or *)
(* none, any other ESC is a key of its own, and a sequence that is not     *)
(* complete yields nothing yet.                                            *)
RECURSIVE KeysOf(_)
KeysOf(s) ==
  LET From(n) == SubSeq(s, n, Len(s))
      At(n) == IF n <= Len(s) THEN s[n] ELSE "end"
  IN CASE s = <<>> -> <<>>
       [] At(1) \notin {"esc", "end"} -> <<s[1]>> \o KeysOf(From(2))
       [] At(1) = "esc" /\ At(2) = "end" -> <<>>
       [] At(1) = "esc" /\ At(2) \notin {"[", "end"} -> <<"esc">> \o KeysOf(From(2))
       [] At(1) = "esc" /\ At(2) = "[" /\ At(3) = "end" -> <<>>
       [] At(1) = "esc" /\ At(2) = "[" /\ At(3) \in Digits ->
            (IF At(3) = "3" /\ At(4) = "~" THEN <<"delete">> ELSE <<>>) \o KeysOf(From(5))
       [] At(1) = "esc" /\ At(2) = "[" /\ At(3) \notin Digits \cup {"end"} ->
            (IF At(3) = "A" THEN <<"up">> ELSE <<>>) \o KeysOf(From(4))

(* Fed one byte at a time, in whatever interrupts, input_inject_byte has   *)
(* pushed the keys of the bytes so far.                                    *)
KeysMatchBytes == keys = KeysOf(bytes)
=============================================================================
