-------------------------------- MODULE Pmm --------------------------------
(***************************************************************************)
(* The physical page allocator of kernel/mm/pmm.c as operators over the    *)
(* set `used` of pages whose bitmap bit is set.  Address 0 is the code's   *)
(* failure value, so pages are numbered from 1 and NoPage stands for 0;    *)
(* a page that pmm_init or pmm_reserve_range marked before the first       *)
(* process started is not in Page.                                         *)
(***************************************************************************)
EXTENDS Integers

CONSTANT
  NumPages      \* pages the allocator can hand out

ASSUME NumPagesAssumption == NumPages \in Nat

Page == 1 .. NumPages
NoPage == 0

(* The n pages that start at page b. *)
Run(b, n) == b .. (b + n - 1)

(* The pages where a run of n clear bits starts. *)
FreeRuns(used, n) ==
  {b \in Page : Run(b, n) \subseteq Page \ used}

(* pmm_alloc_pages(n) may return b: the scan goes from the lowest page up  *)
(* and stops at the first run that is long enough.                         *)
pmm_alloc_pages(used, n, b) ==
  /\ b \in FreeRuns(used, n)
  /\ \A c \in FreeRuns(used, n) : b <= c

(* pmm_alloc_pages(n) returns 0. *)
pmm_exhausted(used, n) == FreeRuns(used, n) = {}

(* pmm_alloc_page is the one-page case of the same scan. *)
pmm_alloc_page(used, b) == pmm_alloc_pages(used, 1, b)

(* pmm_free_page clears the bit of each page; a clear bit stays clear. *)
pmm_free(used, pages) == used \ pages
=============================================================================
