------------------------------- MODULE Kheap -------------------------------
(***************************************************************************)
(* The kernel heap of kernel/mm/kheap.c: arenas of whole pages from the    *)
(* page allocator, and in them a doubly linked list of blocks whose        *)
(* headers lie in front of their payloads.  Addresses and sizes are bytes. *)
(* Its callers run with interrupts masked, so every call is one action.    *)
(***************************************************************************)
EXTENDS Pmm, FiniteSets, FiniteSetsExt

CONSTANTS
  PageBytes,        \* PAGE_SIZE
  Align,            \* KHEAP_ALIGN
  BlockBytes,       \* sizeof(heap_block_t)
  MinSplit,         \* KHEAP_MIN_SPLIT
  WordMax,          \* UINT64_MAX
  Requests          \* sizes callers ask for

VARIABLES
  pmm,              \* pages whose bit is set in the allocator's bitmap
  block,            \* the headers in the list, by their address
  g_heap_head,
  g_heap_tail,
  g_heap_total_bytes,
  g_next_arena_id,
  others,           \* pages the rest of the kernel holds
  live              \* history: what callers hold, as kmalloc promised it

heap == <<block, g_heap_head, g_heap_tail, g_heap_total_bytes, g_next_arena_id>>
vars == <<pmm, heap, others, live>>

NULL == 0
Address == PageBytes .. ((NumPages + 1) * PageBytes - 1)

align_up(value) == ((value + Align - 1) \div Align) * Align
header_size == align_up(BlockBytes)

(* 0: the size overflows. *)
page_count_for_payload(payload) ==
  IF payload > WordMax - header_size
     \/ header_size + payload > WordMax - (PageBytes - 1) THEN 0
  ELSE (header_size + payload + PageBytes - 1) \div PageBytes

block_payload_capacity(pages) == pages * PageBytes - header_size
-----------------------------------------------------------------------------
(* The list, as a record of the variables in `heap`.                       *)

Heap == [block |-> block, head |-> g_heap_head, tail |-> g_heap_tail,
         total |-> g_heap_total_bytes, arena |-> g_next_arena_id]

SetHeap(h) ==
  /\ block' = h.block
  /\ g_heap_head' = h.head /\ g_heap_tail' = h.tail
  /\ g_heap_total_bytes' = h.total /\ g_next_arena_id' = h.arena

With(f, a, x) == [c \in DOMAIN f \cup {a} |-> IF c = a THEN x ELSE f[c]]
Without(f, a) == [c \in DOMAIN f \ {a} |-> f[c]]

EndOf(f, b) == b + header_size + f[b].size

blocks_can_coalesce(f, left, right) ==
  /\ right # NULL
  /\ f[right].free = 1
  /\ f[left].arena_id = f[right].arena_id
  /\ EndOf(f, left) = right

(* append_block, of a new block b with header x. *)
append_block(h, b, x) ==
  LET f == With(h.block, b, [x EXCEPT !.next = NULL, !.prev = h.tail])
  IN IF h.tail # NULL
     THEN [h EXCEPT !.block = [f EXCEPT ![h.tail].next = b], !.tail = b]
     ELSE [h EXCEPT !.block = f, !.head = b, !.tail = b]

(* extend_heap with the n pages at b. *)
extend_heap(h, b, n) ==
  LET size == block_payload_capacity(n)
      x == [size |-> size, free |-> 1, arena_id |-> h.arena,
            next |-> NULL, prev |-> NULL]
  IN [append_block(h, b * PageBytes, x)
        EXCEPT !.total = @ + size, !.arena = @ + 1]

split_block(h, b, size) ==
  LET f == h.block
      next == b + header_size + size
      x == [size |-> f[b].size - size - header_size, free |-> 1,
            arena_id |-> f[b].arena_id, prev |-> b, next |-> f[b].next]
      g == With([f EXCEPT ![b].next = next, ![b].size = size], next, x)
  IN IF f[b].size < size + header_size + MinSplit THEN h
     ELSE IF f[b].next # NULL
     THEN [h EXCEPT !.block = [g EXCEPT ![f[b].next].prev = next]]
     ELSE [h EXCEPT !.block = g, !.tail = next]

(* Fault: the block behind the absorbed one still points at it. *)
coalesce_next_StalePrev(h, b) ==
  LET f == h.block
      next == f[b].next
      g == [f EXCEPT ![b].size = @ + header_size + f[next].size,
                     ![b].next = f[next].next]
  IN IF ~blocks_can_coalesce(f, b, next) THEN h
     ELSE [h EXCEPT !.block = Without(g, next),
                    !.tail = IF f[next].next = NULL THEN b ELSE @]

(* The header of the absorbed block is no longer in the list. *)
coalesce_next(h, b) ==
  LET f == h.block
      next == f[b].next
      g == [f EXCEPT ![b].size = @ + header_size + f[next].size,
                     ![b].next = f[next].next]
  IN IF ~blocks_can_coalesce(f, b, next) THEN h
     ELSE IF f[next].next # NULL
     THEN [h EXCEPT !.block = Without([g EXCEPT ![f[next].next].prev = b], next)]
     ELSE [h EXCEPT !.block = Without(g, next), !.tail = b]

(* The loop of kmalloc: the first block from b on that is large enough. *)
RECURSIVE FirstFit(_, _, _)
FirstFit(f, b, size) ==
  IF b = NULL \/ (f[b].free = 1 /\ f[b].size >= size) THEN b
  ELSE FirstFit(f, f[b].next, size)

(* Fault: the block is not marked. *)
Taken_StillFree(h, b, size) == split_block(h, b, size)

(* Take block b of h for `size` bytes. *)
Taken(h, b, size) ==
  [split_block(h, b, size) EXCEPT !.block[b].free = 0]
-----------------------------------------------------------------------------
(* Operations *)

(* kheap_init, at boot. *)
kheap_init ==
  /\ g_heap_head = NULL
  /\ \E b \in Page :
       LET n == page_count_for_payload(1) IN
       /\ pmm_alloc_pages(pmm, n, b)
       /\ pmm' = pmm \cup Run(b, n)
       /\ SetHeap(extend_heap([Heap EXCEPT !.arena = 1], b, n))
  /\ UNCHANGED <<others, live>>

(* kmalloc; kernel_main has run kheap_init.  When nothing fits and the     *)
(* page allocator has no run of pages either it returns NULL and nothing   *)
(* changes.                                                                *)
kmalloc(request) ==
  LET size == align_up(request)
      b == FirstFit(block, g_heap_head, size)
      n == page_count_for_payload(size)
  IN /\ g_heap_head # NULL
     /\ request # 0 /\ request <= WordMax - (Align - 1)
     /\ \/ /\ b # NULL
           /\ SetHeap(Taken(Heap, b, size))
           /\ live' = live \cup {[ptr |-> b + header_size, size |-> request]}
           /\ UNCHANGED pmm
        \/ /\ b = NULL
           /\ n # 0
           /\ \E page \in Page :
                /\ pmm_alloc_pages(pmm, n, page)
                /\ pmm' = pmm \cup Run(page, n)
                /\ SetHeap(Taken(extend_heap(Heap, page, n),
                                 page * PageBytes, size))
                /\ live' = live \cup {[ptr |-> page * PageBytes + header_size,
                                       size |-> request]}
     /\ UNCHANGED others

(* kfree, of something kmalloc returned. *)
kfree(a) ==
  LET b == a.ptr - header_size
      h == coalesce_next([Heap EXCEPT !.block[b].free = 1], b)
      prev == h.block[b].prev
  IN /\ a \in live
     /\ block[b].free = 0
     /\ SetHeap(IF prev # NULL /\ h.block[prev].free = 1
                THEN coalesce_next(h, prev) ELSE h)
     /\ live' = live \ {a}
     /\ UNCHANGED <<pmm, others>>

(* Processes come and go and take pages between the arenas. *)
TakePage ==
  \E b \in Page :
    /\ pmm_alloc_page(pmm, b)
    /\ pmm' = pmm \cup {b} /\ others' = others \cup {b}
    /\ UNCHANGED <<heap, live>>

GivePage(b) ==
  /\ b \in others
  /\ pmm' = pmm_free(pmm, {b}) /\ others' = others \ {b}
  /\ UNCHANGED <<heap, live>>
-----------------------------------------------------------------------------
Init ==
  /\ pmm = {} /\ others = {} /\ live = {}
  /\ block = [b \in {} |-> NULL]
  /\ g_heap_head = NULL /\ g_heap_tail = NULL
  /\ g_heap_total_bytes = 0 /\ g_next_arena_id = 1

Next ==
  \/ kheap_init
  \/ \E request \in Requests : kmalloc(request)
  \/ \E a \in live : kfree(a)
  \/ TakePage
  \/ \E b \in others : GivePage(b)

Spec == Init /\ [][Next]_vars
-----------------------------------------------------------------------------
(* The variables keep their types. *)
TypeOK ==
  /\ pmm \subseteq Page /\ others \subseteq pmm
  /\ DOMAIN block \subseteq Address
  /\ \A b \in DOMAIN block :
       /\ block[b].size \in Nat /\ block[b].free \in {0, 1}
       /\ {block[b].next, block[b].prev} \subseteq DOMAIN block \cup {NULL}
  /\ {g_heap_head, g_heap_tail} \subseteq DOMAIN block \cup {NULL}

(* Whichever blocks were split and absorbed (kernel/mm/kheap.c:113 and     *)
(* 139), the list is doubly linked, nothing precedes the head and nothing  *)
(* follows the tail; and headers and payloads cover the pages of the       *)
(* arenas without a gap and without an overlap, so that no payload ever    *)
(* reaches into a header.                                                  *)
ListTiles ==
  LET Extent(b) == b .. (EndOf(block, b) - 1)
      BytesOfPage(p) == (p * PageBytes) .. ((p + 1) * PageBytes - 1)
  IN /\ (g_heap_head = NULL) <=> (block = <<>>)
     /\ \A b \in DOMAIN block :
          /\ block[b].next = NULL <=> b = g_heap_tail
          /\ block[b].prev = NULL <=> b = g_heap_head
          /\ block[b].next # NULL => block[block[b].next].prev = b
          /\ block[b].prev # NULL => block[block[b].prev].next = b
     /\ \A b, c \in DOMAIN block : b # c => Extent(b) \cap Extent(c) = {}
     /\ UNION {Extent(b) : b \in DOMAIN block}
          = UNION {BytesOfPage(p) : p \in pmm \ others}

(* Free memory does not splinter: no two free blocks of one arena lie next *)
(* to each other, so an arena whose allocations were all freed is one      *)
(* block again.                                                            *)
Coalesced ==
  \A b, c \in DOMAIN block :
    ~(/\ block[b].arena_id = block[c].arena_id
      /\ EndOf(block, b) = c
      /\ block[b].free = 1 /\ block[c].free = 1)

(* The heap implements the allocator its header promises.                  *)
A == INSTANCE Allocator WITH Alignment <- Align
IsAllocator == A!Spec
=============================================================================
