----------------------------- MODULE PmmBitmap -----------------------------
(***************************************************************************)
(* The bitmap of kernel/mm/pmm.c in byte addresses: how pmm_init and       *)
(* pmm_reserve_range lay it out at boot, with their rounding and           *)
(* saturation, the scans of pmm_alloc_page and pmm_alloc_pages, and the    *)
(* count of free pages.  The other modules use the set form of the scans   *)
(* in module Pmm; this module relates the two.                             *)
(***************************************************************************)
EXTENDS Integers, FiniteSets

CONSTANTS
  PageBytes,    \* PAGE_SIZE
  WordMax,      \* UINT64_MAX
  MaxPages,     \* PMM_MAX_PAGES
  Bases,        \* where memory may start, at multiples of PageBytes
  Memories,     \* its sizes in bytes
  MaxReserves   \* ranges that kernel_main reserves

(* The last page of the address space is not memory. *)
ASSUME BitmapAssumption ==
  /\ PageBytes \in Nat \ {0} /\ WordMax \in Nat /\ MaxPages \in Nat /\ MaxReserves \in Nat
  /\ Bases \subseteq Nat /\ Memories \subseteq Nat
  /\ \A base \in Bases : base % PageBytes = 0
  /\ \A base \in Bases, size \in Memories : base + size + PageBytes - 1 <= WordMax

VARIABLES
  g_mem_base,
  g_total_pages,
  g_free_pages,
  g_bitmap,     \* the pages whose bit is set
  reserves,     \* history: the number of ranges kernel_main has reserved,
  reserved,     \*   and the bytes in them
  given         \* history: pages handed out and not yet freed

bitmapvars == <<g_mem_base, g_total_pages, g_free_pages, g_bitmap, reserves,
                reserved, given>>

Index == 0 .. (MaxPages - 1)
Word == 0 .. WordMax
Address(page) == g_mem_base + page * PageBytes
-----------------------------------------------------------------------------
align_down(value) == value - (value % PageBytes)
align_up(value) == align_down(value + PageBytes - 1)
add_saturated(a, b) == IF a > WordMax - b THEN WordMax ELSE a + b

align_up_saturated(value) ==
  IF value % PageBytes = 0 THEN value
  ELSE IF value > WordMax - (PageBytes - 1) THEN WordMax
  ELSE align_up(value)

managed_end == add_saturated(g_mem_base, g_total_pages * PageBytes)

SetUsed(pages) ==
  /\ g_bitmap' = g_bitmap \cup pages
  /\ g_free_pages' = g_free_pages - Cardinality(pages \ g_bitmap)

SetFree(pages) ==
  /\ g_bitmap' = g_bitmap \ pages
  /\ g_free_pages' = g_free_pages + Cardinality(pages \cap g_bitmap)
-----------------------------------------------------------------------------
Sentinel(base, total) == {i \in 0 .. 0 : base = 0 /\ total > 0}

pmm_init(base, size) ==
  LET pages == size \div PageBytes
      total == IF pages > MaxPages THEN MaxPages ELSE pages
      sentinel == Sentinel(base, total)
  IN /\ g_total_pages = 0
     /\ g_mem_base' = base
     /\ g_total_pages' = total
     /\ g_bitmap' = (Index \ 0 .. (total - 1)) \cup sentinel
     /\ g_free_pages' = total - Cardinality(sentinel)
     /\ UNCHANGED <<reserves, reserved, given>>

(* Fault: the page a range ends in is left out. *)
ReservedPages_RoundsDown(start, size) ==
  LET end == add_saturated(start, size)
      first == IF start < g_mem_base THEN 0
               ELSE (align_down(start) - g_mem_base) \div PageBytes
      last == IF end >= managed_end THEN g_total_pages
              ELSE (align_down(end) - g_mem_base) \div PageBytes
  IN IF size = 0 \/ end <= g_mem_base \/ start >= managed_end THEN {}
     ELSE first .. (last - 1)

(* The pages pmm_reserve_range sets. *)
ReservedPages(start, size) ==
  LET end == add_saturated(start, size)
      first == IF start < g_mem_base THEN 0
               ELSE (align_down(start) - g_mem_base) \div PageBytes
      after == (align_up_saturated(end) - g_mem_base) \div PageBytes
      last == IF end >= managed_end \/ after > g_total_pages THEN g_total_pages
              ELSE after
  IN IF size = 0 \/ end <= g_mem_base \/ start >= managed_end THEN {}
     ELSE first .. (last - 1)

(* pmm_reserve_range, which kernel_main calls for the kernel image and for *)
(* the device tree before anything is allocated.                           *)
pmm_reserve_range(start, size) ==
  /\ g_total_pages # 0
  /\ given = {} /\ reserves < MaxReserves
  /\ SetUsed(ReservedPages(start, size))
  /\ reserves' = reserves + 1
  /\ reserved' = reserved \cup (Word \cap start .. (start + size - 1))
  /\ UNCHANGED <<g_mem_base, g_total_pages, given>>

(* A turn of the loop of pmm_alloc_pages: `page` ends the run, starts one, *)
(* or makes it longer; `found` has the start of the run it settles for.    *)
ScanPage(scan, page, count) ==
  LET start == IF scan.run_count = 0 THEN page ELSE scan.run_start
      n == scan.run_count + 1
  IN CASE scan.found # {} -> scan
       [] scan.found = {} /\ page \in g_bitmap -> [scan EXCEPT !.run_count = 0]
       [] OTHER -> [run_start |-> start, run_count |-> n,
                    found |-> IF n = count THEN {start} ELSE {}]

(* The loop: the start of the run it settles for, if any. *)
Scan(count) ==
  LET After[page \in 0 .. g_total_pages] ==
        IF page = 0 THEN [run_start |-> 0, run_count |-> 0, found |-> {}]
        ELSE ScanPage(After[page - 1], page - 1, count)
  IN After[g_total_pages].found

(* pmm_alloc_pages, and pmm_alloc_page for a count of 1.  With no run it   *)
(* returns 0 and changes nothing.                                          *)
pmm_alloc_pages(count) ==
  /\ count # 0 /\ count <= g_total_pages
  /\ \E b \in Scan(count) :
       /\ SetUsed(b .. (b + count - 1))
       /\ given' = given \cup (b .. (b + count - 1))
       /\ UNCHANGED <<g_mem_base, g_total_pages, reserves, reserved>>

(* pmm_free_page, of a page that was handed out. *)
pmm_free_page(paddr) ==
  LET page == (paddr - g_mem_base) \div PageBytes IN
  /\ paddr >= g_mem_base /\ paddr % PageBytes = 0 /\ page < g_total_pages
  /\ page \in given
  /\ SetFree({page})
  /\ given' = given \ {page}
  /\ UNCHANGED <<g_mem_base, g_total_pages, reserves, reserved>>
-----------------------------------------------------------------------------
BitmapInit ==
  /\ g_mem_base = 0 /\ g_total_pages = 0 /\ g_free_pages = 0
  /\ g_bitmap = Index
  /\ reserves = 0 /\ reserved = {} /\ given = {}

BitmapNext ==
  \/ \E base \in Bases, size \in Memories : pmm_init(base, size)
  \/ \E start, size \in Word : pmm_reserve_range(start, size)
  \/ \E count \in 0 .. MaxPages : pmm_alloc_pages(count)
  \/ \E paddr \in Word : pmm_free_page(paddr)

BitmapSpec == BitmapInit /\ [][BitmapNext]_bitmapvars
-----------------------------------------------------------------------------
(* No page handed out holds a byte of a reserved range, wherever the range *)
(* starts and ends and however its end overflows (kernel/mm/pmm.c:96), is  *)
(* page 0, which callers take for a failure, or lies beyond memory.        *)
GivenUsable ==
  \A page \in given :
    /\ reserved \cap Address(page) .. (Address(page) + PageBytes - 1) = {}
    /\ Address(page) # 0 /\ page < g_total_pages /\ page \in g_bitmap

(* The scan finds what module Pmm says: the lowest run that is long        *)
(* enough, and none only if there is none.  Pages are numbered from 1      *)
(* there.                                                                  *)
P == INSTANCE Pmm WITH NumPages <- g_total_pages
ScanIsFirstFit ==
  \A count \in 1 .. MaxPages :
    LET used == {i + 1 : i \in g_bitmap} IN
    {b + 1 : b \in Scan(count)}
      = {b \in P!Page : P!pmm_alloc_pages(used, count, b)}

(* pmm_free_count counts the clear bits, whatever ranges overlap. *)
FreeCounted == g_free_pages = Cardinality((0 .. (g_total_pages - 1)) \ g_bitmap)

(* The bitmap hands out only usable pages, the right ones, and counts.     *)
BitmapSound == GivenUsable /\ ScanIsFirstFit /\ FreeCounted
=============================================================================
