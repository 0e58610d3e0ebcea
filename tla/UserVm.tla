------------------------------- MODULE UserVm -------------------------------
(***************************************************************************)
(* The address spaces of processes: the user regions of kernel/process.c,  *)
(* SYS_MMAP and SYS_MUNMAP (kernel/user_vm.c), the translation tables      *)
(* (kernel/mm/vmm.c), the mappings the loader makes (kernel/panel_boot.c)  *)
(* and the check every system call makes of a pointer it is given          *)
(* (kernel/syscall_helpers.c).                                             *)
(*                                                                         *)
(* Virtual addresses are page numbers.  Each call runs with interrupts     *)
(* masked and is one action; the loader gives back all it took when it     *)
(* fails (module Process), so only its success is a step here.             *)
(***************************************************************************)
EXTENDS Pmm, FiniteSets

CONSTANTS
  Slots,        \* process slots in use
  VPages,       \* virtual pages are 0 .. VPages - 1
  Spans,        \* virtual pages below one table of level 1, 2 and 3
  KernelText,   \* virtual pages of the identity map: executable,
  KernelData,   \*   and writable
  ImagePages,   \* KERNEL_USER_IMAGE_SLOT_PAGES
  ImageBase,    \* KERNEL_USER_IMAGE_VA_BASE; the stride is ImagePages
  StackBase,    \* KERNEL_USER_STACK_VA_BASE; the stride is two pages
  MmapBase,     \* PROCESS_USER_MMAP_BASE
  MmapLimit,    \* PROCESS_USER_MMAP_LIMIT
  MaxRegions,   \* PROCESS_MAX_USER_REGIONS
  PageBytes,    \* PAGE_SIZE
  Sizes,        \* sizes, in bytes, that programs ask for
  Protections,  \* the flags, as sets, that programs ask for
  WordMax,      \* UINT64_MAX
  MaxLoads      \* bound on `loads`

VARIABLES
  pmm,      \* pages whose bit is set in the allocator's bitmap
  vm,       \* the address space of each slot
  loads     \* history: the number of processes loaded so far

vars == <<pmm, vm, loads>>

VPage == 0 .. (VPages - 1)
KernelPage == KernelText \cup KernelData

(* process_user_region_t; end is exclusive, paddr the first of the pages. *)
Region == [start : VPage, end : 1 .. VPages, paddr : Page,
           kind : {"image", "stack", "mmap"}]
RangeOf(r) == r.start .. (r.end - 1)

(* Fault: one page too many is freed. *)
PagesOf_OneTooMany(r) == Run(r.paddr, r.end - r.start + 1)

(* The pages process_free_resources and free_page_range give back. *)
PagesOf(r) == Run(r.paddr, r.end - r.start)

(* A leaf descriptor: the page it maps, NoPage for a page of the identity  *)
(* map, and its attribute bits; NoLeaf: DESC_VALID is clear.               *)
Bits == {"AP_RO", "AP_USER", "UXN", "PXN"}
Leaf == [page : Page \cup {NoPage}, bits : SUBSET Bits]
NoLeaf == [page |-> NoPage, bits |-> {"INVALID"}]

(* tables: the translation tables below the root, named by their level and *)
(* their place in it; frames: the pages that hold them and the root.       *)
Space == [live : {"yes", "no"}, regions : SUBSET Region,
          leaf : [VPage -> Leaf \cup {NoLeaf}], tables : SUBSET (Nat \X Nat),
          frames : SUBSET Page, next_user_vaddr : MmapBase .. MmapLimit]

NoSpace == [live |-> "no", regions |-> {}, leaf |-> [v \in VPage |-> NoLeaf],
            tables |-> {}, frames |-> {}, next_user_vaddr |-> MmapBase]
-----------------------------------------------------------------------------
(* Protection *)

VmmFlags == {"READ", "WRITE", "EXEC"}

(* The protections flags_to_vmm accepts, *)
FlagsValid(flags) ==
  flags \subseteq VmmFlags /\ ~({"WRITE", "EXEC"} \subseteq flags)

(* and what it makes of them. *)
flags_to_vmm(flags) ==
  {"USER"} \cup (flags \cap {"EXEC"})
    \cup (IF flags = {} \/ "WRITE" \in flags THEN {"READ", "WRITE"}
          ELSE flags \cap {"READ"})

(* page_descriptor, of normal memory. *)
page_descriptor(flags) ==
  {b \in Bits :
     \/ b = "AP_RO" /\ "WRITE" \notin flags
     \/ b = "AP_USER" /\ "USER" \in flags
     \/ b = "UXN" /\ ("EXEC" \notin flags \/ "USER" \notin flags)
     \/ b = "PXN" /\ ("EXEC" \notin flags \/ "USER" \in flags)}
-----------------------------------------------------------------------------
(* Translation tables *)

(* The tables on the way to v, and those missing for the pages a .. a + j. *)
TablesFor(v) == {<<l, v \div Spans[l]>> : l \in 1 .. 3}
Missing(sp, a, j) == (UNION {TablesFor(a + i) : i \in 0 .. j}) \ sp.tables

Free(used) == Page \ used

(* k calls of pmm_alloc_page: the k lowest free pages. *)
LowestFree(used, k) ==
  {b \in Free(used) : Cardinality({c \in Free(used) : c < b}) < k}

(* The pages a + j that vmm_map_page cannot map, for want of a table or    *)
(* because there is a leaf already.  vmm_map_range stops at the first.     *)
MapStops(sp, used, a, n) ==
  {j \in 0 .. (n - 1) :
     \/ Cardinality(Missing(sp, a, j)) > Cardinality(Free(used))
     \/ sp.leaf[a + j] # NoLeaf}

(* The tables vmm_map_range has added when it stops at a + j; they stay.   *)
(* next_table adds them top down.                                          *)
TablesLeft(sp, used, a, j) ==
  LET before == Missing(sp, a, j - 1) IN
  {t \in Missing(sp, a, j) :
     \/ t \in before
     \/ Cardinality(before \cup {u \in Missing(sp, a, j) : u[1] <= t[1]})
          <= Cardinality(Free(used))}

(* The leaves of vmm_map_range once it has succeeded. *)
Mapped(leaf, a, n, b, bits) ==
  [v \in VPage |-> IF v \in a .. (a + n - 1)
                   THEN [page |-> b + (v - a), bits |-> bits] ELSE leaf[v]]

(* Fault: the last page is left mapped. *)
vmm_unmap_range_LeavesLast(leaf, a, n) ==
  [v \in VPage |-> IF v \in a .. (a + n - 2) THEN NoLeaf ELSE leaf[v]]

(* vmm_unmap_range stops at the first page that is not mapped. *)
vmm_unmap_range(leaf, a, n) ==
  [v \in VPage |->
     IF v \in a .. (a + n - 1) /\ \A u \in a .. v : leaf[u] # NoLeaf
     THEN NoLeaf ELSE leaf[v]]
-----------------------------------------------------------------------------
(* Regions *)

(* page_align_up, in pages; 0 is an error to its callers. *)
page_align_up(size) ==
  IF size = 0 \/ size > WordMax - (PageBytes - 1) THEN 0
  ELSE (size + PageBytes - 1) \div PageBytes

(* process_alloc_user_region succeeds: the addresses only go up, and       *)
(* process_add_user_region finds room and no overlap.                      *)
process_alloc_user_region(sp, n) ==
  /\ sp.next_user_vaddr + n <= MmapLimit
  /\ Cardinality(sp.regions) < MaxRegions
  /\ \A r \in sp.regions :
       \/ sp.next_user_vaddr + n <= r.start
       \/ r.end <= sp.next_user_vaddr

(* user_vm_map_anonymous.  A range of addresses, once taken, is never      *)
(* given back, and neither are the tables of a mapping that failed; when   *)
(* vmm_map_range fails it has undone its leaves, and vmm_unmap_range is    *)
(* called on the range all the same.                                       *)
sys_mmap(p, size, flags) ==
  LET n == page_align_up(size)
      sp == vm[p]
      a == sp.next_user_vaddr
      bits == page_descriptor(flags_to_vmm(flags))
  IN /\ sp.live = "yes"
     /\ n # 0 /\ FlagsValid(flags)
     /\ process_alloc_user_region(sp, n)
     /\ \/ \E b \in Page :
             /\ pmm_alloc_pages(pmm, n, b)
             /\ LET used == pmm \cup Run(b, n)
                    stops == MapStops(sp, used, a, n)
                IN \/ /\ stops = {}
                      /\ LET added == Missing(sp, a, n - 1)
                             frames == LowestFree(used, Cardinality(added))
                         IN /\ pmm' = used \cup frames
                            /\ vm' = [vm EXCEPT ![p] = [sp EXCEPT
                                 !.regions = @ \cup {[start |-> a, end |-> a + n,
                                                      paddr |-> b, kind |-> "mmap"]},
                                 !.leaf = Mapped(@, a, n, b, bits),
                                 !.tables = @ \cup added,
                                 !.frames = @ \cup frames,
                                 !.next_user_vaddr = a + n]]
                   \/ \E j \in stops :
                        /\ \A i \in stops : j <= i
                        /\ LET added == TablesLeft(sp, used, a, j)
                               frames == LowestFree(used, Cardinality(added))
                           IN /\ pmm' = pmm \cup frames
                              /\ vm' = [vm EXCEPT ![p] = [sp EXCEPT
                                   !.leaf = vmm_unmap_range(@, a, n),
                                   !.tables = @ \cup added,
                                   !.frames = @ \cup frames,
                                   !.next_user_vaddr = a + n]]
        \/ /\ pmm_exhausted(pmm, n)
           /\ vm' = [vm EXCEPT ![p].next_user_vaddr = a + n]
           /\ UNCHANGED pmm
     /\ UNCHANGED loads

(* user_vm_unmap_anonymous, of a region that matches exactly and owns its  *)
(* pages, as the loader's do too.  When vmm_unmap_range fails the region   *)
(* stays.                                                                  *)
sys_munmap(p, addr, size) ==
  LET n == page_align_up(size)
      sp == vm[p]
  IN /\ sp.live = "yes"
     /\ n # 0
     /\ \E r \in sp.regions :
          /\ r.start = addr /\ r.end = addr + n
          /\ LET gone == {q \in {r} : \A v \in RangeOf(r) : sp.leaf[v] # NoLeaf}
             IN /\ vm' = [vm EXCEPT ![p] = [sp EXCEPT
                            !.regions = @ \ gone,
                            !.leaf = vmm_unmap_range(@, addr, n)]]
                /\ pmm' = pmm_free(pmm, UNION {PagesOf(q) : q \in gone})
     /\ UNCHANGED loads
-----------------------------------------------------------------------------
(* Loading and leaving *)

ImageStart(p) == ImageBase + p * ImagePages
StackStart(p) == StackBase + 2 * p
LoadedRange(p) == (ImageStart(p) .. (ImageStart(p) + ImagePages - 1))
                    \cup {StackStart(p)}

(* The layout: images and stacks have their own places, and SYS_MMAP hands *)
(* out addresses that the identity map leaves alone (layout.h:46).         *)
ASSUME UserVmAssumption ==
  /\ Slots \subseteq Nat /\ VPages \in Nat /\ ImagePages \in Nat \ {0}
  /\ ImageBase \in Nat /\ StackBase \in Nat
  /\ MmapBase \in Nat /\ MmapLimit \in MmapBase .. VPages
  /\ PageBytes \in Nat \ {0} /\ WordMax \in Nat /\ Sizes \subseteq Nat
  /\ Spans \in [1 .. 3 -> Nat \ {0}]
  /\ KernelPage \subseteq VPage \ (MmapBase .. (MmapLimit - 1))
  /\ \A p \in Slots : /\ LoadedRange(p) \subseteq VPage
                      /\ StackStart(p) \notin ImageStart(p) .. (ImageStart(p) + ImagePages - 1)

(* vmm_map_kernel_identity, and the image and the stack on top of it. *)
LoadedLeaf(p, image, stack) ==
  [v \in VPage |->
     IF v \in KernelText THEN [page |-> NoPage, bits |-> page_descriptor({"READ", "EXEC"})]
     ELSE IF v \in KernelData THEN [page |-> NoPage, bits |-> page_descriptor({"READ", "WRITE"})]
     ELSE IF v = StackStart(p)
     THEN [page |-> stack, bits |-> page_descriptor(flags_to_vmm({"READ", "WRITE"}))]
     ELSE IF v \in LoadedRange(p)
     THEN [page |-> image + (v - ImageStart(p)),
           bits |-> page_descriptor(flags_to_vmm({"READ", "EXEC"}))]
     ELSE NoLeaf]

(* load_image and init_panel_process, with create_panel_page_table: the    *)
(* image, the stack, the root and then all other tables are allocated, all *)
(* but the image one page at a time.                                       *)
init_panel_process(p) ==
  LET tables == UNION {TablesFor(v) : v \in KernelPage \cup LoadedRange(p)} IN
  /\ vm[p].live = "no"
  /\ loads < MaxLoads /\ loads' = loads + 1
  /\ LoadedRange(p) \cap KernelPage = {}
  /\ \E image \in Page :
     /\ pmm_alloc_pages(pmm, ImagePages, image)
     /\ LET used == pmm \cup Run(image, ImagePages)
            tail == LowestFree(used, Cardinality(tables) + 2)
        IN /\ Cardinality(tables) + 2 <= Cardinality(Free(used))
           /\ pmm' = used \cup tail
           /\ \E stack \in tail :
                /\ \A b \in tail : stack <= b
                /\ vm' = [vm EXCEPT ![p] =
                     [live |-> "yes",
                      regions |-> {[start |-> ImageStart(p),
                                    end |-> ImageStart(p) + ImagePages,
                                    paddr |-> image, kind |-> "image"],
                                   [start |-> StackStart(p),
                                    end |-> StackStart(p) + 1,
                                    paddr |-> stack, kind |-> "stack"]},
                      leaf |-> LoadedLeaf(p, image, stack),
                      tables |-> tables, frames |-> tail \ {stack},
                      next_user_vaddr |-> MmapBase]]

(* process_release, with process_free_resources and vmm_free_table. *)
process_release(p) ==
  /\ vm[p].live = "yes"
  /\ pmm' = pmm_free(pmm, (UNION {PagesOf(r) : r \in vm[p].regions}) \cup vm[p].frames)
  /\ vm' = [vm EXCEPT ![p] = NoSpace]
  /\ UNCHANGED loads
-----------------------------------------------------------------------------
(* System call arguments *)

(* process_user_range_contains, of the pages u .. v. *)
process_user_range_contains(p, u, v) ==
  \E r \in vm[p].regions : r.start <= u /\ v < r.end

(* Fault: the descriptors are not looked at. *)
user_buf_range_RegionsOnly(p, u, v, write) == process_user_range_contains(p, u, v)

(* user_buf_range accepts a buffer on the pages u .. v. *)
user_buf_range(p, u, v, write) ==
  /\ process_user_range_contains(p, u, v)
  /\ \A w \in u .. v : /\ vm[p].leaf[w] # NoLeaf
                       /\ "AP_USER" \in vm[p].leaf[w].bits
                       /\ write => "AP_RO" \notin vm[p].leaf[w].bits
-----------------------------------------------------------------------------
Init == pmm = {} /\ vm = [p \in Slots |-> NoSpace] /\ loads = 0

Next ==
  \E p \in Slots :
    \/ init_panel_process(p)
    \/ \E size \in Sizes, flags \in Protections :
         sys_mmap(p, size, flags)
    \/ \E addr \in VPage, size \in Sizes : sys_munmap(p, addr, size)
    \/ process_release(p)

Spec == Init /\ [][Next]_vars
-----------------------------------------------------------------------------
(* The variables keep their types. *)
TypeOK ==
  /\ pmm \in SUBSET Page /\ vm \in [Slots -> Space] /\ loads \in Nat

(* The region table and the hardware agree, also after calls that failed   *)
(* halfway: outside the identity map a page is mapped exactly if a region  *)
(* covers it, and it is mapped to the page the region owns there.  The     *)
(* identity map itself stays: ARCHITECTURE.md:158 says a process's root    *)
(* "also contains kernel and RAM identity mappings required by exception   *)
(* handling".                                                              *)
LeavesMatch ==
  \A p \in Slots : \A v \in VPage :
    LET covers == {r \in vm[p].regions : v \in RangeOf(r)} IN
    /\ \A r, s \in covers : r = s
    /\ v \notin KernelPage =>
         (vm[p].leaf[v] # NoLeaf <=> covers # {})
    /\ \A r \in covers : vm[p].leaf[v].page = r.paddr + (v - r.start)
    /\ vm[p].live = "yes" /\ v \in KernelPage => vm[p].leaf[v] # NoLeaf

(* No address space reaches a page that another one reaches, a page that   *)
(* holds a translation table, or a page the allocator may hand out again:  *)
(* munmap, exit and every failure path free a page only once it is         *)
(* unmapped (kernel/user_vm.c:120).                                        *)
Isolation ==
  \A p, q \in Slots : \A v, w \in VPage :
    LET reached == vm[p].leaf[v].page IN
    reached # NoPage =>
      /\ reached \in pmm
      /\ reached \notin vm[q].frames
      /\ reached = vm[q].leaf[w].page => p = q /\ v = w

(* MEMORY_MAP.md: nothing is writable and executable, EL1 executes no user *)
(* page and EL0 reaches nothing of the kernel's.                           *)
WriteXorExecute ==
  \A p \in Slots : \A v \in VPage :
    LET bits == vm[p].leaf[v].bits IN
    vm[p].leaf[v] # NoLeaf =>
      /\ "AP_RO" \notin bits => {"UXN", "PXN"} \subseteq bits
      /\ "AP_USER" \in bits => "PXN" \in bits
      /\ ("AP_USER" \in bits) <=> (vm[p].leaf[v].page # NoPage)

(* What a system call leaves of an address space is sound, also when it    *)
(* failed halfway (kernel/mm/vmm.c:200, kernel/user_vm.c:31).              *)
MappingsSound == TypeOK /\ LeavesMatch /\ WriteXorExecute

(* A buffer that user_buf_range accepts for writing consists of pages that *)
(* the process may itself write, and that are its own.                     *)
CheckedBufferOwned ==
  \A p \in Slots : \A u \in VPage : \A v \in u .. (VPages - 1) :
    user_buf_range(p, u, v, TRUE) =>
      \A w \in u .. v :
        /\ {"AP_USER", "AP_RO"} \cap vm[p].leaf[w].bits = {"AP_USER"}
        /\ \E r \in vm[p].regions : vm[p].leaf[w].page \in PagesOf(r)

(* SYSCALLS.md:105: "process images and stacks cannot be removed through   *)
(* SYS_MUNMAP".                                                            *)
ImageAndStackKept ==
  \A p \in Slots : vm[p].live = "yes" =>
    {"image", "stack"} \subseteq {r.kind : r \in vm[p].regions}
=============================================================================
