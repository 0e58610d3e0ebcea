---------------------------- MODULE UserVmProofs ----------------------------
(***************************************************************************)
(* The address spaces of UserVm, for any number of processes, pages and    *)
(* regions and any layout that UserVmAssumption allows: what the tables    *)
(* map is what the regions own, and nothing is owned twice.                *)
(***************************************************************************)
EXTENDS UserVm, TLAPS

(* The pages a space owns: those of its regions and of its tables. *)
OwnedBy(sp) == sp.frames \cup UNION {PagesOf(r) : r \in sp.regions}

RegionOK(sp, r) ==
  /\ r.start < r.end
  /\ PagesOf(r) \subseteq Page
  /\ PagesOf(r) \cap sp.frames = {}
  /\ RangeOf(r) \cap KernelPage = {}

RegionsApart(sp) ==
  \A r, s \in sp.regions :
    r # s => RangeOf(r) \cap RangeOf(s) = {} /\ PagesOf(r) \cap PagesOf(s) = {}

BitsOK(l) ==
  l # NoLeaf =>
    /\ "AP_RO" \notin l.bits => {"UXN", "PXN"} \subseteq l.bits
    /\ "AP_USER" \in l.bits => "PXN" \in l.bits
    /\ ("AP_USER" \in l.bits) <=> (l.page # NoPage)

LeafOK(sp, v) ==
  /\ v \in KernelPage => /\ sp.leaf[v].page = NoPage
                         /\ sp.live = "yes" => sp.leaf[v] # NoLeaf
  /\ v \notin KernelPage =>
       (sp.leaf[v] # NoLeaf <=> \E r \in sp.regions : v \in RangeOf(r))
  /\ \A r \in sp.regions :
       v \in RangeOf(r) => sp.leaf[v].page = r.paddr + (v - r.start)
  /\ BitsOK(sp.leaf[v])

(* One space is sound. *)
SpaceOK(sp) ==
  /\ sp.live = "no" => sp = NoSpace
  /\ \A r \in sp.regions : RegionOK(sp, r)
  /\ RegionsApart(sp)
  /\ \A v \in VPage : LeafOK(sp, v)

(* The inductive invariant: each space is sound, what it owns is not free, *)
(* and no two own the same page.                                           *)
SpacesInv ==
  /\ TypeOK
  /\ \A p \in Slots : SpaceOK(vm[p]) /\ OwnedBy(vm[p]) \subseteq pmm
  /\ \A p, q \in Slots : p # q => OwnedBy(vm[p]) \cap OwnedBy(vm[q]) = {}
-----------------------------------------------------------------------------
(* Facts about the operators *)

(* A cleared process slot is a sound space that owns nothing. *)
LEMMA NoSpaceOK == NoSpace \in Space /\ SpaceOK(NoSpace) /\ OwnedBy(NoSpace) = {}
<1>1. NoSpace \in Space
  BY UserVmAssumption DEF NoSpace, Space
<1>2. OwnedBy(NoSpace) = {}
  BY DEF OwnedBy, NoSpace
<1>3. \A v \in VPage : LeafOK(NoSpace, v)
  BY DEF LeafOK, BitsOK, NoSpace, NoLeaf, NoPage
<1> QED
  BY <1>1, <1>2, <1>3 DEF SpaceOK, RegionsApart, NoSpace

(* An entry that maps nothing is none of the leaves. *)
LEMMA NoLeafIsNoLeaf == NoLeaf \notin Leaf /\ NoLeaf.page = NoPage
  BY DEF NoLeaf, Leaf, Bits

(* The descriptor vmm_map_page writes for flags that sys_mmap or the       *)
(* loader lets pass: for the user, never executed by the kernel, never     *)
(* written and executed.                                                   *)
LEMMA UserBits ==
  ASSUME NEW flags, FlagsValid(flags), NEW page \in Page
  PROVE  LET l == [page |-> page, bits |-> page_descriptor(flags_to_vmm(flags))]
         IN l \in Leaf /\ l # NoLeaf /\ BitsOK(l)
<1> DEFINE bits == page_descriptor(flags_to_vmm(flags))
           l == [page |-> page, bits |-> bits]
<1>1. bits \subseteq Bits
  BY DEF page_descriptor
<1>2. "AP_USER" \in bits /\ "PXN" \in bits
  BY DEF page_descriptor, flags_to_vmm, Bits
<1>3. "AP_RO" \notin bits => "UXN" \in bits
  <2>1. "AP_RO" \notin bits => "WRITE" \in flags_to_vmm(flags)
    BY DEF page_descriptor, Bits
  <2>2. "WRITE" \in flags_to_vmm(flags) => "EXEC" \notin flags_to_vmm(flags)
    BY DEF flags_to_vmm, FlagsValid
  <2>3. "EXEC" \notin flags_to_vmm(flags) => "UXN" \in bits
    BY DEF page_descriptor, Bits
  <2> QED
    BY <2>1, <2>2, <2>3
<1>4. l \in Leaf
  BY <1>1 DEF Leaf
<1>5. page # NoPage
  BY NumPagesAssumption DEF Page, NoPage
<1>6. l # NoLeaf /\ BitsOK(l)
  <2> HIDE DEF bits
  <2> QED
    BY <1>2, <1>3, <1>4, <1>5, NoLeafIsNoLeaf DEF BitsOK
<1> QED
  BY <1>4, <1>6

(* The descriptor of the kernel's own pages is not for the user. *)
LEMMA KernelBits ==
  ASSUME NEW flags \in {{"READ", "EXEC"}, {"READ", "WRITE"}}
  PROVE  LET l == [page |-> NoPage, bits |-> page_descriptor(flags)]
         IN l \in Leaf /\ l # NoLeaf /\ BitsOK(l)
<1> DEFINE bits == page_descriptor(flags)
           l == [page |-> NoPage, bits |-> bits]
<1>1. bits \subseteq Bits
  BY DEF page_descriptor
<1>2. "AP_USER" \notin bits /\ ("AP_RO" \notin bits => "UXN" \in bits /\ "PXN" \in bits)
  BY DEF page_descriptor, Bits
<1>3. l \in Leaf
  BY <1>1 DEF Leaf
<1>4. l # NoLeaf /\ BitsOK(l)
  <2> HIDE DEF bits
  <2> QED
    BY <1>2, <1>3, NoLeafIsNoLeaf DEF BitsOK
<1> QED
  BY <1>3, <1>4

(* A region lies within the addresses that exist. *)
LEMMA RegionRange == ASSUME NEW r \in Region PROVE RangeOf(r) \subseteq VPage
<1>1. VPages \in Nat
  BY UserVmAssumption
<1>2. r.start \in 0 .. (VPages - 1) /\ r.end \in 1 .. VPages
  BY DEF Region, VPage
<1> QED
  BY <1>1, <1>2 DEF RangeOf, VPage

(* The region that is entered for a mapping of n pages is one. *)
LEMMA NewRegion ==
  ASSUME NEW a \in VPage, NEW n \in Nat \ {0}, a + n <= VPages, NEW b \in Page,
         NEW kind \in {"image", "stack", "mmap"}
  PROVE  LET r == [start |-> a, end |-> a + n, paddr |-> b, kind |-> kind]
         IN /\ r \in Region /\ r.start < r.end
            /\ RangeOf(r) = a .. (a + n - 1) /\ PagesOf(r) = Run(b, n)
<1> DEFINE r == [start |-> a, end |-> a + n, paddr |-> b, kind |-> kind]
<1>1. VPages \in Nat /\ a \in Nat
  BY UserVmAssumption DEF VPage
<1>2. r \in Region
  BY <1>1 DEF Region
<1>3. r.start = a /\ r.end = a + n /\ r.paddr = b
  OBVIOUS
<1>4. RangeOf(r) = a .. (a + n - 1) /\ r.start < r.end
  BY <1>1, <1>3 DEF RangeOf
<1>5. PagesOf(r) = Run(b, n)
  <2>1. r.end - r.start = n
    BY <1>1
  <2> HIDE DEF r
  <2> QED
    BY <1>3, <2>1 DEF PagesOf
<1> QED
  BY <1>2, <1>4, <1>5

(* page_align_up gives a number of pages; 0 where it would wrap. *)
LEMMA AlignType == ASSUME NEW size \in Sizes PROVE page_align_up(size) \in Nat
  BY UserVmAssumption DEF page_align_up

(* The tables that a walk to an address passes. *)
LEMMA TablesType == ASSUME NEW v \in VPage PROVE TablesFor(v) \subseteq Nat \X Nat
<1> SUFFICES ASSUME NEW l \in 1 .. 3 PROVE <<l, v \div Spans[l]>> \in Nat \X Nat
  BY DEF TablesFor
<1>1. Spans[l] \in Nat \ {0} /\ v \in Nat
  BY UserVmAssumption DEF VPage
<1> QED
  BY <1>1

(* pmm_alloc_pages hands out free pages only. *)
LEMMA LowestFreeIsFree ==
  ASSUME NEW used, NEW k PROVE LowestFree(used, k) \subseteq Page \ used
  BY DEF LowestFree, Free

(* A space that owns a page not free, and no page of another, may replace  *)
(* the space of p.                                                         *)
LEMMA SpaceReplaced ==
  ASSUME SpacesInv, NEW p \in Slots, NEW sp \in Space, SpaceOK(sp),
         vm' = [vm EXCEPT ![p] = sp], loads' \in Nat, pmm' \subseteq Page,
         OwnedBy(sp) \subseteq pmm',
         \A q \in Slots : q # p => /\ OwnedBy(vm[q]) \subseteq pmm'
                                   /\ OwnedBy(vm[q]) \cap OwnedBy(sp) = {}
  PROVE  SpacesInv'
<1>1. \A q \in Slots : vm'[q] = IF q = p THEN sp ELSE vm[q]
  BY DEF SpacesInv, TypeOK
<1>2. TypeOK'
  BY DEF SpacesInv, TypeOK
<1>3. ASSUME NEW q \in Slots PROVE SpaceOK(vm'[q]) /\ OwnedBy(vm'[q]) \subseteq pmm'
  BY <1>1 DEF SpacesInv
<1>4. ASSUME NEW q \in Slots, NEW r \in Slots, q # r
      PROVE  OwnedBy(vm'[q]) \cap OwnedBy(vm'[r]) = {}
  BY <1>1, <1>4 DEF SpacesInv
<1> QED
  BY <1>2, <1>3, <1>4 DEF SpacesInv

(* When a space keeps what it owns and takes pages that were free, the     *)
(* others are not touched.                                                 *)
LEMMA SpaceGrown ==
  ASSUME SpacesInv, NEW p \in Slots, NEW sp \in Space, SpaceOK(sp),
         vm' = [vm EXCEPT ![p] = sp], loads' \in Nat,
         NEW more \in SUBSET (Page \ pmm), pmm' = pmm \cup more,
         OwnedBy(sp) \subseteq OwnedBy(vm[p]) \cup more
  PROVE  SpacesInv'
<1>1. pmm' \subseteq Page
  BY DEF SpacesInv, TypeOK
<1>2. OwnedBy(sp) \subseteq pmm'
  BY DEF SpacesInv
<1>3. ASSUME NEW q \in Slots, q # p
      PROVE  OwnedBy(vm[q]) \subseteq pmm' /\ OwnedBy(vm[q]) \cap OwnedBy(sp) = {}
  BY <1>3 DEF SpacesInv
<1> QED
  BY <1>1, <1>2, <1>3, SpaceReplaced

(* When it gives up pages it owned, too. *)
LEMMA SpaceShrunk ==
  ASSUME SpacesInv, NEW p \in Slots, NEW sp \in Space, SpaceOK(sp),
         vm' = [vm EXCEPT ![p] = sp], loads' \in Nat,
         NEW less \in SUBSET OwnedBy(vm[p]), pmm' = pmm \ less,
         OwnedBy(sp) \subseteq OwnedBy(vm[p]) \ less
  PROVE  SpacesInv'
<1>1. pmm' \subseteq Page
  BY DEF SpacesInv, TypeOK
<1>2. OwnedBy(sp) \subseteq pmm'
  BY DEF SpacesInv
<1>3. ASSUME NEW q \in Slots, q # p
      PROVE  OwnedBy(vm[q]) \subseteq pmm' /\ OwnedBy(vm[q]) \cap OwnedBy(sp) = {}
  BY <1>3 DEF SpacesInv
<1> QED
  BY <1>1, <1>2, <1>3, SpaceReplaced
-----------------------------------------------------------------------------
(* The invariant holds initially, and implies the properties *)

(* Before the first process nothing is owned. *)
LEMMA SpacesInit == Init => SpacesInv
<1> SUFFICES ASSUME Init PROVE SpacesInv
  OBVIOUS
<1>1. TypeOK
  BY NoSpaceOK DEF Init, TypeOK
<1>2. \A p \in Slots : vm[p] = NoSpace
  BY DEF Init
<1> QED
  BY <1>1, <1>2, NoSpaceOK DEF SpacesInv

(* What a space reaches it owns, and at one address only. *)
LEMMA ReachedIsOwned ==
  ASSUME NEW sp \in Space, SpaceOK(sp), NEW v \in VPage, sp.leaf[v].page # NoPage
  PROVE  \E r \in sp.regions : /\ v \in RangeOf(r)
                               /\ sp.leaf[v].page = r.paddr + (v - r.start)
                               /\ sp.leaf[v].page \in PagesOf(r)
<1>1. LeafOK(sp, v)
  BY DEF SpaceOK
<1>2. v \notin KernelPage /\ sp.leaf[v] # NoLeaf
  BY <1>1, NoLeafIsNoLeaf DEF LeafOK
<1>3. PICK r \in sp.regions : v \in RangeOf(r)
  BY <1>1, <1>2 DEF LeafOK
<1>4. sp.leaf[v].page = r.paddr + (v - r.start)
  BY <1>1, <1>3 DEF LeafOK
<1>5. r \in Region
  BY DEF Space
<1>6. r.paddr + (v - r.start) \in PagesOf(r)
  BY <1>3, <1>5, UserVmAssumption, NumPagesAssumption DEF PagesOf, RangeOf, Run, Region, VPage, Page
<1> QED
  BY <1>3, <1>4, <1>6

(* The invariant keeps the pages of spaces, their tables and the free      *)
(* pages apart.                                                            *)
LEMMA SpacesIsolation == SpacesInv => Isolation
<1> SUFFICES ASSUME SpacesInv, NEW p \in Slots, NEW q \in Slots,
                    NEW v \in VPage, NEW w \in VPage, vm[p].leaf[v].page # NoPage
             PROVE  /\ vm[p].leaf[v].page \in pmm
                    /\ vm[p].leaf[v].page \notin vm[q].frames
                    /\ vm[p].leaf[v].page = vm[q].leaf[w].page => p = q /\ v = w
  BY DEF Isolation
<1> DEFINE reached == vm[p].leaf[v].page
<1>0. /\ vm[p] \in Space /\ SpaceOK(vm[p]) /\ OwnedBy(vm[p]) \subseteq pmm
      /\ vm[q] \in Space /\ SpaceOK(vm[q])
  BY DEF SpacesInv, TypeOK
<1>1. PICK r \in vm[p].regions : /\ v \in RangeOf(r)
                                 /\ reached = r.paddr + (v - r.start)
                                 /\ reached \in PagesOf(r)
  BY <1>0, ReachedIsOwned
<1>2. reached \in OwnedBy(vm[p])
  BY <1>1 DEF OwnedBy
<1>3. reached \in OwnedBy(vm[q]) => q = p
  BY <1>2 DEF SpacesInv
<1>4. reached \notin vm[q].frames
  <2>1. vm[q].frames \subseteq OwnedBy(vm[q])
    BY DEF OwnedBy
  <2>2. RegionOK(vm[p], r)
    BY <1>0 DEF SpaceOK
  <2> QED
    BY <1>1, <1>3, <2>1, <2>2 DEF RegionOK
<1>5. ASSUME reached = vm[q].leaf[w].page PROVE p = q /\ v = w
  <2>1. PICK s \in vm[q].regions : /\ w \in RangeOf(s)
                                   /\ reached = s.paddr + (w - s.start)
                                   /\ reached \in PagesOf(s)
    BY <1>0, <1>5, ReachedIsOwned
  <2>2. p = q
    BY <1>3, <2>1 DEF OwnedBy
  <2>3. r = s
    BY <1>0, <1>1, <2>1, <2>2 DEF SpaceOK, RegionsApart
  <2>4. r \in Region /\ v \in Int /\ w \in Int
    BY <1>0 DEF Space, VPage
  <2>5. v = w
    BY <1>1, <2>1, <2>3, <2>4 DEF Region, Page, VPage
  <2> QED
    BY <2>2, <2>5
<1> QED
  BY <1>0, <1>2, <1>4, <1>5

(* The invariant keeps the tables to what the regions say. *)
LEMMA SpacesMappings == SpacesInv => MappingsSound
<1> SUFFICES ASSUME SpacesInv PROVE LeavesMatch /\ WriteXorExecute
  BY DEF MappingsSound, SpacesInv
<1>0. ASSUME NEW p \in Slots, NEW v \in VPage
      PROVE  LeafOK(vm[p], v) /\ RegionsApart(vm[p])
             /\ \A r \in vm[p].regions : RegionOK(vm[p], r)
  BY DEF SpacesInv, SpaceOK
<1>1. LeavesMatch
  <2> SUFFICES ASSUME NEW p \in Slots, NEW v \in VPage
               PROVE LET covers == {r \in vm[p].regions : v \in RangeOf(r)} IN
                     /\ \A r, s \in covers : r = s
                     /\ v \notin KernelPage => (vm[p].leaf[v] # NoLeaf <=> covers # {})
                     /\ \A r \in covers : vm[p].leaf[v].page = r.paddr + (v - r.start)
                     /\ vm[p].live = "yes" /\ v \in KernelPage => vm[p].leaf[v] # NoLeaf
    BY DEF LeavesMatch
  <2>1. \A r, s \in vm[p].regions : v \in RangeOf(r) /\ v \in RangeOf(s) => r = s
    BY <1>0 DEF RegionsApart
  <2> QED
    BY <1>0, <2>1 DEF LeafOK
<1>2. WriteXorExecute
  BY <1>0 DEF WriteXorExecute, LeafOK, BitsOK
<1> QED
  BY <1>1, <1>2

(* A range that user_buf_range accepts for writing is on pages of the      *)
(* process's own, which the user may write.                                *)
LEMMA SpacesBuffers == SpacesInv => CheckedBufferOwned
<1> SUFFICES ASSUME SpacesInv, NEW p \in Slots, NEW u \in VPage,
                    NEW v \in u .. (VPages - 1), user_buf_range(p, u, v, TRUE),
                    NEW w \in u .. v
             PROVE  /\ {"AP_USER", "AP_RO"} \cap vm[p].leaf[w].bits = {"AP_USER"}
                    /\ \E r \in vm[p].regions : vm[p].leaf[w].page \in PagesOf(r)
  BY DEF CheckedBufferOwned
<1>1. w \in VPage
  BY UserVmAssumption DEF VPage
<1>2. vm[p] \in Space /\ SpaceOK(vm[p])
  BY DEF SpacesInv, TypeOK
<1>3. /\ vm[p].leaf[w] # NoLeaf
      /\ "AP_USER" \in vm[p].leaf[w].bits /\ "AP_RO" \notin vm[p].leaf[w].bits
  BY DEF user_buf_range
<1>4. vm[p].leaf[w].page # NoPage
  BY <1>1, <1>2, <1>3 DEF SpaceOK, LeafOK, BitsOK
<1> QED
  BY <1>1, <1>2, <1>3, <1>4, ReachedIsOwned
-----------------------------------------------------------------------------
(* The steps *)

(* process_release gives back all that a space owned, and nothing else. *)
LEMMA ReleaseStep ==
  ASSUME SpacesInv, NEW p \in Slots, process_release(p) PROVE SpacesInv'
<1>1. pmm' = pmm \ OwnedBy(vm[p]) /\ vm' = [vm EXCEPT ![p] = NoSpace] /\ loads' \in Nat
  BY DEF process_release, pmm_free, OwnedBy, SpacesInv, TypeOK
<1> QED
  BY <1>1, NoSpaceOK, SpaceShrunk

(* SYS_MMAP never hands out an address that a region covers, or one of the *)
(* identity map.                                                           *)
LEMMA MmapRange ==
  ASSUME SpacesInv, NEW p \in Slots, NEW n \in Nat, n # 0,
         process_alloc_user_region(vm[p], n)
  PROVE  LET a == vm[p].next_user_vaddr IN
         /\ a \in Nat /\ a + n \in MmapBase .. MmapLimit
         /\ a .. (a + n - 1) \subseteq VPage \ KernelPage
         /\ \A r \in vm[p].regions : RangeOf(r) \cap (a .. (a + n - 1)) = {}
         /\ \A v \in a .. (a + n - 1) : vm[p].leaf[v] = NoLeaf
<1> DEFINE a == vm[p].next_user_vaddr
<1>0. vm[p] \in Space /\ SpaceOK(vm[p])
  BY DEF SpacesInv, TypeOK
<1>1. a \in MmapBase .. MmapLimit
  BY <1>0 DEF Space
<1>2. a \in Nat /\ a + n \in MmapBase .. MmapLimit
  BY <1>1, UserVmAssumption DEF process_alloc_user_region
<1>3. a .. (a + n - 1) \subseteq VPage \ KernelPage
  BY <1>1, <1>2, UserVmAssumption DEF VPage
<1>4. ASSUME NEW r \in vm[p].regions PROVE RangeOf(r) \cap (a .. (a + n - 1)) = {}
  <2>1. r.start \in Int /\ r.end \in Int
    BY <1>0 DEF Space, Region, VPage
  <2>2. a + n <= r.start \/ r.end <= a
    BY DEF process_alloc_user_region
  <2> QED
    BY <1>2, <2>1, <2>2 DEF RangeOf
<1>5. ASSUME NEW v \in a .. (a + n - 1) PROVE vm[p].leaf[v] = NoLeaf
  <2>1. v \in VPage /\ v \notin KernelPage /\ LeafOK(vm[p], v)
    BY <1>0, <1>3 DEF SpaceOK
  <2> QED
    BY <1>4, <2>1 DEF LeafOK
<1> QED
  BY <1>2, <1>3, <1>4, <1>5

(* The tables that vmm_map_range has to allocate on its way. *)
LEMMA MissingType ==
  ASSUME NEW sp, NEW a \in Nat, NEW n \in Nat, a .. (a + n - 1) \subseteq VPage,
         NEW j \in 0 .. (n - 1)
  PROVE  Missing(sp, a, j) \subseteq Nat \X Nat
<1>1. \A i \in 0 .. j : a + i \in VPage
  BY DEF VPage
<1> QED
  BY <1>1, TablesType DEF Missing

(* Nothing is mapped in a range that vmm_map_range has failed to map, so   *)
(* vmm_unmap_range finds nothing to undo.                                  *)
LEMMA UnmapNothing ==
  ASSUME NEW leaf \in [VPage -> Leaf \cup {NoLeaf}], NEW a \in Nat, NEW n \in Nat,
         \A v \in a .. (a + n - 1) : leaf[v] = NoLeaf
  PROVE  vmm_unmap_range(leaf, a, n) = leaf
  BY DEF vmm_unmap_range

(* A space takes more tables and moves on: the failures of SYS_MMAP. *)
LEMMA MmapFails ==
  ASSUME SpacesInv, NEW p \in Slots, NEW added \in SUBSET (Nat \X Nat),
         NEW frames \in SUBSET (Page \ pmm), NEW next \in MmapBase .. MmapLimit,
         vm[p].live = "yes", pmm' = pmm \cup frames, loads' \in Nat,
         vm' = [vm EXCEPT ![p] = [vm[p] EXCEPT !.tables = @ \cup added,
                                               !.frames = @ \cup frames,
                                               !.next_user_vaddr = next]]
  PROVE  SpacesInv'
<1> DEFINE sp == vm[p]
           new == [sp EXCEPT !.tables = @ \cup added, !.frames = @ \cup frames,
                             !.next_user_vaddr = next]
<1>0. sp \in Space /\ SpaceOK(sp) /\ OwnedBy(sp) \subseteq pmm
  BY DEF SpacesInv, TypeOK
<1>1. new \in Space
  BY <1>0 DEF Space
<1>2. /\ new.regions = sp.regions /\ new.leaf = sp.leaf /\ new.live = sp.live
      /\ new.frames = sp.frames \cup frames
  BY <1>0 DEF Space
<1> HIDE DEF new
<1>3. ASSUME NEW r \in new.regions PROVE RegionOK(new, r)
  <2>1. RegionOK(sp, r) /\ PagesOf(r) \subseteq pmm
    BY <1>0, <1>2 DEF SpaceOK, OwnedBy
  <2> QED
    BY <1>2, <2>1 DEF RegionOK
<1>4. SpaceOK(new)
  BY <1>0, <1>2, <1>3 DEF SpaceOK, RegionsApart, LeafOK
<1>5. OwnedBy(new) \subseteq OwnedBy(sp) \cup frames
  BY <1>2 DEF OwnedBy
<1>6. vm' = [vm EXCEPT ![p] = new]
  BY DEF new
<1> QED
  BY <1>1, <1>4, <1>5, <1>6, SpaceGrown

(* A region is added, with pages and tables that were free. *)
LEMMA MmapSucceeds ==
  ASSUME SpacesInv, NEW p \in Slots, NEW n \in Nat, n # 0,
         process_alloc_user_region(vm[p], n), vm[p].live = "yes",
         NEW flags, FlagsValid(flags),
         NEW b \in Page, Run(b, n) \subseteq Page \ pmm,
         NEW added \in SUBSET (Nat \X Nat),
         NEW frames \in SUBSET (Page \ (pmm \cup Run(b, n))),
         pmm' = pmm \cup Run(b, n) \cup frames, loads' \in Nat,
         LET a == vm[p].next_user_vaddr
             bits == page_descriptor(flags_to_vmm(flags))
         IN vm' = [vm EXCEPT ![p] = [vm[p] EXCEPT
                     !.regions = @ \cup {[start |-> a, end |-> a + n,
                                          paddr |-> b, kind |-> "mmap"]},
                     !.leaf = Mapped(@, a, n, b, bits),
                     !.tables = @ \cup added,
                     !.frames = @ \cup frames,
                     !.next_user_vaddr = a + n]]
  PROVE  SpacesInv'
<1> DEFINE sp == vm[p]
           a == sp.next_user_vaddr
           bits == page_descriptor(flags_to_vmm(flags))
           region == [start |-> a, end |-> a + n, paddr |-> b, kind |-> "mmap"]
           leaf == Mapped(sp.leaf, a, n, b, bits)
           new == [sp EXCEPT !.regions = @ \cup {region}, !.leaf = leaf,
                             !.tables = @ \cup added, !.frames = @ \cup frames,
                             !.next_user_vaddr = a + n]
<1>0. sp \in Space /\ SpaceOK(sp) /\ OwnedBy(sp) \subseteq pmm
  BY DEF SpacesInv, TypeOK
<1>1. /\ a \in Nat /\ a + n \in MmapBase .. MmapLimit
      /\ a .. (a + n - 1) \subseteq VPage \ KernelPage
      /\ \A r \in sp.regions : RangeOf(r) \cap (a .. (a + n - 1)) = {}
  BY MmapRange
<1>2. \A v \in a .. (a + n - 1) : b + (v - a) \in Run(b, n) /\ b + (v - a) \in Page
  BY <1>1, NumPagesAssumption DEF Run, Page
<1>3. \A v \in VPage : leaf[v] = IF v \in a .. (a + n - 1)
                                 THEN [page |-> b + (v - a), bits |-> bits] ELSE sp.leaf[v]
  BY DEF Mapped
<1>4. ASSUME NEW v \in a .. (a + n - 1)
      PROVE  leaf[v] \in Leaf /\ leaf[v] # NoLeaf /\ BitsOK(leaf[v]) /\ leaf[v].page = b + (v - a)
  <2>1. leaf[v] = [page |-> b + (v - a), bits |-> bits]
    BY <1>1, <1>3
  <2>2. b + (v - a) \in Page
    BY <1>2
  <2> QED
    BY <2>1, <2>2, UserBits
<1>5. leaf \in [VPage -> Leaf \cup {NoLeaf}]
  <2>1. \A v \in VPage : leaf[v] \in Leaf \cup {NoLeaf}
    BY <1>0, <1>3, <1>4 DEF Space
  <2>2. leaf = [v \in VPage |-> leaf[v]]
    BY DEF Mapped
  <2> HIDE DEF leaf
  <2> QED
    BY <2>1, <2>2
<1>6. /\ region \in Region /\ RangeOf(region) = a .. (a + n - 1)
      /\ PagesOf(region) = Run(b, n) /\ region.start < region.end
  <2>1. a \in VPage /\ a + n <= VPages
    BY <1>1, UserVmAssumption DEF VPage
  <2> QED
    BY <2>1, NewRegion
<1> HIDE DEF region, leaf
<1>7. new \in Space
  BY <1>0, <1>1, <1>5, <1>6 DEF Space
<1>8. /\ new.regions = sp.regions \cup {region} /\ new.leaf = leaf /\ new.live = "yes"
      /\ new.frames = sp.frames \cup frames
  BY <1>0 DEF Space
<1>9. vm' = [vm EXCEPT ![p] = new]
  BY DEF leaf, region
<1> HIDE DEF new
<1>10. \A r \in sp.regions : RegionOK(sp, r) /\ PagesOf(r) \subseteq pmm
  BY <1>0 DEF SpaceOK, OwnedBy
<1>11. \A r \in sp.regions : PagesOf(r) \cap PagesOf(region) = {}
  BY <1>6, <1>10
<1>12. ASSUME NEW r \in new.regions PROVE RegionOK(new, r)
  <2>1. CASE r \in sp.regions
    BY <1>8, <1>10, <2>1 DEF RegionOK
  <2>2. CASE r = region
    <3>1. sp.frames \subseteq pmm
      BY <1>0 DEF OwnedBy
    <3> QED
      BY <1>1, <1>6, <1>8, <2>2, <3>1 DEF RegionOK
  <2> QED
    BY <1>8, <2>1, <2>2
<1>13. RegionsApart(new)
  BY <1>0, <1>1, <1>6, <1>8, <1>11 DEF RegionsApart, SpaceOK
<1>14. ASSUME NEW v \in VPage PROVE LeafOK(new, v)
  <2>0. LeafOK(sp, v)
    BY <1>0 DEF SpaceOK
  <2>1. CASE v \in a .. (a + n - 1)
    <3>1. v \notin KernelPage /\ v \in RangeOf(region) /\ region.paddr = b /\ region.start = a
      BY <1>1, <1>6, <2>1 DEF region
    <3>2. \A r \in sp.regions : v \notin RangeOf(r)
      BY <1>1, <2>1
    <3> QED
      BY <1>4, <1>8, <2>1, <3>1, <3>2 DEF LeafOK
  <2>2. CASE v \notin a .. (a + n - 1)
    BY <1>3, <1>6, <1>8, <2>0, <2>2 DEF LeafOK
  <2> QED
    BY <2>1, <2>2
<1>15. SpaceOK(new)
  BY <1>8, <1>12, <1>13, <1>14 DEF SpaceOK
<1>16. OwnedBy(new) \subseteq OwnedBy(sp) \cup (Run(b, n) \cup frames)
  BY <1>6, <1>8 DEF OwnedBy
<1>17. /\ Run(b, n) \cup frames \in SUBSET (Page \ pmm)
       /\ pmm' = pmm \cup (Run(b, n) \cup frames)
  OBVIOUS
<1> QED
  BY <1>7, <1>9, <1>15, <1>16, <1>17, SpaceGrown

(* sys_mmap: the pages and tables it takes were free; where it gives up,   *)
(* the pages are free again and unmapped, and the tables stay the space's. *)
LEMMA MmapStep ==
  ASSUME SpacesInv, NEW p \in Slots, NEW size \in Sizes, NEW flags \in Protections,
         sys_mmap(p, size, flags)
  PROVE  SpacesInv'
<1> DEFINE n == page_align_up(size)
           sp == vm[p]
           a == sp.next_user_vaddr
           bits == page_descriptor(flags_to_vmm(flags))
<1>0. /\ n \in Nat /\ n # 0 /\ sp.live = "yes" /\ FlagsValid(flags)
      /\ process_alloc_user_region(sp, n) /\ loads' \in Nat
      /\ sp \in Space /\ SpaceOK(sp)
  BY AlignType DEF sys_mmap, SpacesInv, TypeOK
<1>1. /\ a \in Nat /\ a + n \in MmapBase .. MmapLimit
      /\ a .. (a + n - 1) \subseteq VPage
      /\ \A v \in a .. (a + n - 1) : sp.leaf[v] = NoLeaf
  BY <1>0, MmapRange
<1>2. CASE pmm_exhausted(pmm, n) /\ UNCHANGED pmm
           /\ vm' = [vm EXCEPT ![p].next_user_vaddr = a + n]
  <2>1. [sp EXCEPT !.tables = @ \cup {}, !.frames = @ \cup {}, !.next_user_vaddr = a + n]
          = [sp EXCEPT !.next_user_vaddr = a + n]
    BY <1>0 DEF Space
  <2>2. pmm' = pmm \cup {} /\ vm' = [vm EXCEPT ![p] =
          [sp EXCEPT !.tables = @ \cup {}, !.frames = @ \cup {}, !.next_user_vaddr = a + n]]
    BY <1>2, <2>1
  <2> HIDE DEF n
  <2> QED
    BY <1>0, <1>1, <2>2, MmapFails
<1>3. ASSUME NEW b \in Page, pmm_alloc_pages(pmm, n, b),
             LET used == pmm \cup Run(b, n)
                 added == Missing(sp, a, n - 1)
                 frames == LowestFree(used, Cardinality(added))
             IN /\ pmm' = used \cup frames
                /\ vm' = [vm EXCEPT ![p] = [sp EXCEPT
                     !.regions = @ \cup {[start |-> a, end |-> a + n,
                                          paddr |-> b, kind |-> "mmap"]},
                     !.leaf = Mapped(@, a, n, b, bits),
                     !.tables = @ \cup added,
                     !.frames = @ \cup frames,
                     !.next_user_vaddr = a + n]]
      PROVE  SpacesInv'
  <2>1. Run(b, n) \subseteq Page \ pmm
    BY <1>3 DEF pmm_alloc_pages, FreeRuns
  <2>2. Missing(sp, a, n - 1) \subseteq Nat \X Nat
    <3> HIDE DEF n
    <3>1. n - 1 \in 0 .. (n - 1)
      BY <1>0
    <3> QED
      BY <1>0, <1>1, <3>1, MissingType
  <2>3. LowestFree(pmm \cup Run(b, n), Cardinality(Missing(sp, a, n - 1)))
          \subseteq Page \ (pmm \cup Run(b, n))
    BY LowestFreeIsFree
  <2> HIDE DEF n
  <2> QED
    BY <1>0, <1>3, <2>1, <2>2, <2>3, MmapSucceeds
<1>4. ASSUME NEW b \in Page, NEW j \in 0 .. (n - 1),
             LET used == pmm \cup Run(b, n)
                 added == TablesLeft(sp, used, a, j)
                 frames == LowestFree(used, Cardinality(added))
             IN /\ pmm' = pmm \cup frames
                /\ vm' = [vm EXCEPT ![p] = [sp EXCEPT
                     !.leaf = vmm_unmap_range(@, a, n),
                     !.tables = @ \cup added,
                     !.frames = @ \cup frames,
                     !.next_user_vaddr = a + n]]
      PROVE  SpacesInv'
  <2> DEFINE used == pmm \cup Run(b, n)
             added == TablesLeft(sp, used, a, j)
             frames == LowestFree(used, Cardinality(added))
  <2>1. Missing(sp, a, j) \subseteq Nat \X Nat
    BY <1>0, <1>1, MissingType
  <2>2. added \in SUBSET (Nat \X Nat)
    BY <2>1 DEF TablesLeft
  <2>3. frames \in SUBSET (Page \ pmm)
    BY LowestFreeIsFree
  <2>4. vmm_unmap_range(sp.leaf, a, n) = sp.leaf
    BY <1>0, <1>1, UnmapNothing DEF Space
  <2> HIDE DEF n, added, frames
  <2>5. [sp EXCEPT !.leaf = vmm_unmap_range(@, a, n), !.tables = @ \cup added,
                   !.frames = @ \cup frames, !.next_user_vaddr = a + n]
          = [sp EXCEPT !.tables = @ \cup added, !.frames = @ \cup frames,
                       !.next_user_vaddr = a + n]
    BY <1>0, <2>4 DEF Space
  <2>6. pmm' = pmm \cup frames /\ vm' = [vm EXCEPT ![p] =
           [sp EXCEPT !.tables = @ \cup added, !.frames = @ \cup frames,
                      !.next_user_vaddr = a + n]]
    BY <1>4, <2>5 DEF added, frames
  <2> QED
    BY <1>0, <1>1, <2>2, <2>3, <2>6, MmapFails
<1> QED
  BY <1>0, <1>2, <1>3, <1>4 DEF sys_mmap, MapStops

(* A region goes with its leaves and its pages. *)
LEMMA RegionRemoved ==
  ASSUME SpacesInv, NEW p \in Slots, vm[p].live = "yes", NEW r \in vm[p].regions,
         NEW n \in Nat, r.end = r.start + n, loads' \in Nat,
         vm' = [vm EXCEPT ![p] = [vm[p] EXCEPT
                  !.regions = @ \ {r}, !.leaf = vmm_unmap_range(@, r.start, n)]],
         pmm' = pmm \ PagesOf(r)
  PROVE  SpacesInv'
<1> DEFINE sp == vm[p]
           leaf == vmm_unmap_range(sp.leaf, r.start, n)
           new == [sp EXCEPT !.regions = @ \ {r}, !.leaf = leaf]
<1>0. sp \in Space /\ SpaceOK(sp) /\ OwnedBy(sp) \subseteq pmm
  BY DEF SpacesInv, TypeOK
<1>1. RangeOf(r) = r.start .. (r.start + n - 1) /\ r.start \in Nat
  BY <1>0 DEF RangeOf, Space, Region, VPage
<1>2. \A u \in RangeOf(r) : u \in VPage /\ u \notin KernelPage /\ sp.leaf[u] # NoLeaf
  <2>1. \A u \in RangeOf(r) : u \in VPage
    BY <1>0, RegionRange DEF Space
  <2>2. RangeOf(r) \cap KernelPage = {}
    BY <1>0 DEF SpaceOK, RegionOK
  <2> QED
    BY <1>0, <2>1, <2>2 DEF SpaceOK, LeafOK
<1>3. ASSUME NEW v \in VPage
      PROVE  leaf[v] = IF v \in RangeOf(r) THEN NoLeaf ELSE sp.leaf[v]
  <2>1. v \in RangeOf(r) => \A u \in r.start .. v : u \in RangeOf(r)
    BY <1>1 DEF VPage
  <2> QED
    BY <1>1, <1>2, <2>1 DEF vmm_unmap_range
<1>4. leaf \in [VPage -> Leaf \cup {NoLeaf}]
  <2>1. \A v \in VPage : leaf[v] \in Leaf \cup {NoLeaf}
    BY <1>0, <1>3 DEF Space
  <2>2. leaf = [v \in VPage |-> leaf[v]]
    BY DEF vmm_unmap_range
  <2> HIDE DEF leaf
  <2> QED
    BY <2>1, <2>2
<1> HIDE DEF leaf
<1>5. new \in Space
  BY <1>0, <1>4 DEF Space
<1>6. /\ new.regions = sp.regions \ {r} /\ new.leaf = leaf /\ new.live = "yes"
      /\ new.frames = sp.frames
  BY <1>0 DEF Space
<1>7. vm' = [vm EXCEPT ![p] = new]
  BY DEF leaf
<1> HIDE DEF new
<1>8. \A s \in new.regions : RegionOK(new, s)
  BY <1>0, <1>6 DEF SpaceOK, RegionOK
<1>9. RegionsApart(new)
  BY <1>0, <1>6 DEF SpaceOK, RegionsApart
<1>10. ASSUME NEW v \in VPage PROVE LeafOK(new, v)
  <2>0. LeafOK(sp, v) /\ \A s \in new.regions : v \in RangeOf(r) => v \notin RangeOf(s)
    BY <1>0, <1>6 DEF SpaceOK, RegionsApart
  <2>1. CASE v \in RangeOf(r)
    BY <1>2, <1>3, <1>6, <2>0, <2>1 DEF LeafOK, BitsOK
  <2>2. CASE v \notin RangeOf(r)
    BY <1>3, <1>6, <2>0, <2>2 DEF LeafOK
  <2> QED
    BY <2>1, <2>2
<1>11. SpaceOK(new)
  BY <1>6, <1>8, <1>9, <1>10 DEF SpaceOK
<1>12. PagesOf(r) \subseteq OwnedBy(sp)
  BY DEF OwnedBy
<1>13. OwnedBy(new) \subseteq OwnedBy(sp) \ PagesOf(r)
  <2>1. PagesOf(r) \cap sp.frames = {}
    BY <1>0 DEF SpaceOK, RegionOK
  <2>2. \A s \in new.regions : PagesOf(s) \cap PagesOf(r) = {}
    BY <1>0, <1>6 DEF SpaceOK, RegionsApart
  <2> QED
    BY <1>6, <2>1, <2>2 DEF OwnedBy
<1> QED
  BY <1>5, <1>7, <1>11, <1>12, <1>13, SpaceShrunk

(* sys_munmap: what it frees is no longer mapped. *)
LEMMA MunmapStep ==
  ASSUME SpacesInv, NEW p \in Slots, NEW addr \in VPage, NEW size \in Sizes,
         sys_munmap(p, addr, size)
  PROVE  SpacesInv'
<1> DEFINE n == page_align_up(size)
           sp == vm[p]
<1>0. sp.live = "yes" /\ n \in Nat /\ loads' \in Nat /\ SpaceOK(sp) /\ sp \in Space
  BY AlignType DEF sys_munmap, SpacesInv, TypeOK
<1>1. PICK r \in sp.regions :
        /\ r.start = addr /\ r.end = addr + n
        /\ LET gone == {q \in {r} : \A v \in RangeOf(r) : sp.leaf[v] # NoLeaf}
           IN /\ vm' = [vm EXCEPT ![p] = [sp EXCEPT
                          !.regions = @ \ gone,
                          !.leaf = vmm_unmap_range(@, addr, n)]]
              /\ pmm' = pmm_free(pmm, UNION {PagesOf(q) : q \in gone})
  BY DEF sys_munmap
<1>2. \A v \in RangeOf(r) : sp.leaf[v] # NoLeaf
  <2>1. \A u \in RangeOf(r) : u \in VPage
    BY <1>0, RegionRange DEF Space
  <2>2. RangeOf(r) \cap KernelPage = {}
    BY <1>0 DEF SpaceOK, RegionOK
  <2> QED
    BY <1>0, <2>1, <2>2 DEF SpaceOK, LeafOK
<1>3. {q \in {r} : \A v \in RangeOf(r) : sp.leaf[v] # NoLeaf} = {r}
  BY <1>2
<1>4. UNION {PagesOf(q) : q \in {r}} = PagesOf(r)
  OBVIOUS
<1>5. pmm' = pmm \ PagesOf(r)
      /\ vm' = [vm EXCEPT ![p] = [sp EXCEPT !.regions = @ \ {r},
                                            !.leaf = vmm_unmap_range(@, r.start, n)]]
  BY <1>1, <1>3, <1>4 DEF pmm_free
<1> HIDE DEF n
<1> QED
  BY <1>0, <1>1, <1>5, RegionRemoved

(* A process is loaded: image, stack and tables were free, and the leaves  *)
(* are those of the identity map, the image and the stack.                 *)
LEMMA LoadedLeafOK ==
  ASSUME NEW p \in Slots, NEW image \in Page, Run(image, ImagePages) \subseteq Page,
         NEW stack \in Page, LoadedRange(p) \cap KernelPage = {}
  PROVE  LET leaf == LoadedLeaf(p, image, stack) IN
         /\ leaf \in [VPage -> Leaf \cup {NoLeaf}]
         /\ \A v \in VPage :
              /\ BitsOK(leaf[v])
              /\ v \in KernelPage => leaf[v] # NoLeaf /\ leaf[v].page = NoPage
              /\ v \in LoadedRange(p) => leaf[v] # NoLeaf
              /\ v \notin KernelPage \cup LoadedRange(p) => leaf[v] = NoLeaf
              /\ v = StackStart(p) => leaf[v].page = stack
              /\ v \in ImageStart(p) .. (ImageStart(p) + ImagePages - 1) =>
                   leaf[v].page = image + (v - ImageStart(p))
<1> DEFINE leaf == LoadedLeaf(p, image, stack)
           imagebits == page_descriptor(flags_to_vmm({"READ", "EXEC"}))
           stackbits == page_descriptor(flags_to_vmm({"READ", "WRITE"}))
           images == ImageStart(p) .. (ImageStart(p) + ImagePages - 1)
<1>0. StackStart(p) \notin images /\ StackStart(p) \in LoadedRange(p)
      /\ images \subseteq LoadedRange(p)
      /\ \A v \in LoadedRange(p) : v # StackStart(p) => v \in images
  BY UserVmAssumption DEF LoadedRange
<1>1. ASSUME NEW v \in KernelText
      PROVE  LET l == [page |-> NoPage, bits |-> page_descriptor({"READ", "EXEC"})]
             IN l \in Leaf /\ l # NoLeaf /\ BitsOK(l) /\ l.page = NoPage
  BY KernelBits
<1>2. LET l == [page |-> NoPage, bits |-> page_descriptor({"READ", "WRITE"})]
      IN l \in Leaf /\ l # NoLeaf /\ BitsOK(l) /\ l.page = NoPage
  BY KernelBits
<1>3. FlagsValid({"READ", "EXEC"}) /\ FlagsValid({"READ", "WRITE"})
  BY DEF FlagsValid, VmmFlags
<1>4. LET l == [page |-> stack, bits |-> stackbits]
      IN l \in Leaf /\ l # NoLeaf /\ BitsOK(l) /\ l.page = stack
  BY <1>3, UserBits
<1>5. ASSUME NEW v \in images
      PROVE  LET l == [page |-> image + (v - ImageStart(p)), bits |-> imagebits]
             IN l \in Leaf /\ l # NoLeaf /\ BitsOK(l)
  <2>1. ImageStart(p) \in Int /\ ImagePages \in Int
    BY UserVmAssumption DEF ImageStart
  <2>2. image + (v - ImageStart(p)) \in Run(image, ImagePages)
    BY <2>1, NumPagesAssumption DEF Run, Page
  <2> QED
    BY <1>3, <2>2, UserBits
<1>6. ASSUME NEW v \in VPage
      PROVE  /\ leaf[v] \in Leaf \cup {NoLeaf} /\ BitsOK(leaf[v])
             /\ v \in KernelPage => leaf[v] # NoLeaf /\ leaf[v].page = NoPage
             /\ v \in LoadedRange(p) => leaf[v] # NoLeaf
             /\ v \notin KernelPage \cup LoadedRange(p) => leaf[v] = NoLeaf
             /\ v = StackStart(p) => leaf[v].page = stack
             /\ v \in images => leaf[v].page = image + (v - ImageStart(p))
  <2>0. leaf[v] = IF v \in KernelText
                  THEN [page |-> NoPage, bits |-> page_descriptor({"READ", "EXEC"})]
                  ELSE IF v \in KernelData
                  THEN [page |-> NoPage, bits |-> page_descriptor({"READ", "WRITE"})]
                  ELSE IF v = StackStart(p) THEN [page |-> stack, bits |-> stackbits]
                  ELSE IF v \in LoadedRange(p)
                  THEN [page |-> image + (v - ImageStart(p)), bits |-> imagebits]
                  ELSE NoLeaf
    BY DEF LoadedLeaf
  <2> HIDE DEF leaf, imagebits, stackbits, images
  <2>1. CASE v \in KernelPage
    BY <1>0, <1>1, <1>2, <2>0, <2>1 DEF KernelPage
  <2>2. CASE v \notin KernelPage /\ v = StackStart(p)
    BY <1>0, <1>4, <2>0, <2>2 DEF KernelPage
  <2>3. CASE v \notin KernelPage /\ v # StackStart(p) /\ v \in LoadedRange(p)
    BY <1>0, <1>5, <2>0, <2>3 DEF KernelPage
  <2>4. CASE v \notin KernelPage /\ v \notin LoadedRange(p)
    BY <1>0, <2>0, <2>4 DEF KernelPage, BitsOK
  <2> QED
    BY <2>1, <2>2, <2>3, <2>4
<1>7. leaf = [v \in VPage |-> leaf[v]]
  BY DEF LoadedLeaf
<1> HIDE DEF leaf, images
<1>8. leaf \in [VPage -> Leaf \cup {NoLeaf}]
  BY <1>6, <1>7
<1> QED
  BY <1>6, <1>8 DEF leaf, images

(* The loader of a process: its tables, image and stack are taken from the *)
(* free pages, and its kernel pages stay the kernel's.                     *)
LEMMA LoadStep ==
  ASSUME SpacesInv, NEW p \in Slots, init_panel_process(p) PROVE SpacesInv'
<1> DEFINE tables == UNION {TablesFor(v) : v \in KernelPage \cup LoadedRange(p)}
<1>0. /\ vm[p].live = "no" /\ loads' \in Nat /\ LoadedRange(p) \cap KernelPage = {}
      /\ SpaceOK(vm[p])
  BY DEF init_panel_process, SpacesInv, TypeOK
<1>1. PICK image \in Page :
        /\ pmm_alloc_pages(pmm, ImagePages, image)
        /\ LET used == pmm \cup Run(image, ImagePages)
               tail == LowestFree(used, Cardinality(tables) + 2)
           IN /\ pmm' = used \cup tail
              /\ \E stack \in tail :
                   vm' = [vm EXCEPT ![p] =
                     [live |-> "yes",
                      regions |-> {[start |-> ImageStart(p),
                                    end |-> ImageStart(p) + ImagePages,
                                    paddr |-> image, kind |-> "image"],
                                   [start |-> StackStart(p),
                                    end |-> StackStart(p) + 1,
                                    paddr |-> stack, kind |-> "stack"]},
                      leaf |-> LoadedLeaf(p, image, stack),
                      tables |-> tables, frames |-> tail \ {stack},
                      next_user_vaddr |-> MmapBase]]
  BY DEF init_panel_process
<1> DEFINE used == pmm \cup Run(image, ImagePages)
           tail == LowestFree(used, Cardinality(tables) + 2)
<1>2. Run(image, ImagePages) \subseteq Page \ pmm
  BY <1>1 DEF pmm_alloc_pages, FreeRuns
<1>3. tail \subseteq Page \ used
  BY LowestFreeIsFree
<1>4. tables \in SUBSET (Nat \X Nat)
  <2>1. KernelPage \cup LoadedRange(p) \subseteq VPage
    BY UserVmAssumption
  <2> QED
    BY <2>1, TablesType
<1> HIDE DEF tail, tables
<1>5. PICK stack \in tail :
        vm' = [vm EXCEPT ![p] =
                 [live |-> "yes",
                  regions |-> {[start |-> ImageStart(p),
                                end |-> ImageStart(p) + ImagePages,
                                paddr |-> image, kind |-> "image"],
                               [start |-> StackStart(p),
                                end |-> StackStart(p) + 1,
                                paddr |-> stack, kind |-> "stack"]},
                  leaf |-> LoadedLeaf(p, image, stack),
                  tables |-> tables, frames |-> tail \ {stack},
                  next_user_vaddr |-> MmapBase]]
  BY <1>1 DEF tail
<1> DEFINE text == [start |-> ImageStart(p), end |-> ImageStart(p) + ImagePages,
                    paddr |-> image, kind |-> "image"]
           data == [start |-> StackStart(p), end |-> StackStart(p) + 1,
                    paddr |-> stack, kind |-> "stack"]
           images == ImageStart(p) .. (ImageStart(p) + ImagePages - 1)
           leaf == LoadedLeaf(p, image, stack)
           new == [live |-> "yes", regions |-> {text, data}, leaf |-> leaf,
                   tables |-> tables, frames |-> tail \ {stack},
                   next_user_vaddr |-> MmapBase]
<1>6. /\ ImageStart(p) \in VPage /\ ImageStart(p) + ImagePages <= VPages
      /\ StackStart(p) \in VPage /\ StackStart(p) + 1 <= VPages
      /\ LoadedRange(p) = images \cup {StackStart(p)} /\ StackStart(p) \notin images
  <2>1. /\ LoadedRange(p) \subseteq VPage /\ LoadedRange(p) = images \cup {StackStart(p)}
        /\ StackStart(p) \notin images
    BY UserVmAssumption DEF LoadedRange
  <2>2. ImageStart(p) \in Int /\ ImagePages \in Nat \ {0} /\ VPages \in Nat
    BY UserVmAssumption DEF ImageStart
  <2>3. ImageStart(p) \in images /\ ImageStart(p) + ImagePages - 1 \in images
    BY <2>2
  <2> HIDE DEF images
  <2> QED
    BY <2>1, <2>2, <2>3 DEF VPage
<1>7. stack \in Page /\ image \in Page
  BY <1>3
<1>8. /\ text \in Region /\ text.start < text.end
      /\ RangeOf(text) = images /\ PagesOf(text) = Run(image, ImagePages)
  BY <1>6, <1>7, UserVmAssumption, NewRegion
<1>9. /\ data \in Region /\ data.start < data.end
      /\ RangeOf(data) = {StackStart(p)} /\ PagesOf(data) = {stack}
  <2>1. 1 \in Nat \ {0}
    OBVIOUS
  <2>2. /\ data \in Region /\ data.start < data.end
        /\ RangeOf(data) = StackStart(p) .. (StackStart(p) + 1 - 1)
        /\ PagesOf(data) = Run(stack, 1)
    BY <1>6, <1>7, <2>1, NewRegion
  <2>3. StackStart(p) .. (StackStart(p) + 1 - 1) = {StackStart(p)} /\ Run(stack, 1) = {stack}
    BY <1>6, <1>7, NumPagesAssumption DEF VPage, Page, Run
  <2> QED
    BY <2>2, <2>3
<1>10. /\ leaf \in [VPage -> Leaf \cup {NoLeaf}]
       /\ \A v \in VPage :
            /\ BitsOK(leaf[v])
            /\ v \in KernelPage => leaf[v] # NoLeaf /\ leaf[v].page = NoPage
            /\ v \in LoadedRange(p) => leaf[v] # NoLeaf
            /\ v \notin KernelPage \cup LoadedRange(p) => leaf[v] = NoLeaf
            /\ v = StackStart(p) => leaf[v].page = stack
            /\ v \in images => leaf[v].page = image + (v - ImageStart(p))
  BY <1>0, <1>2, <1>7, LoadedLeafOK
<1>11. text.paddr = image /\ text.start = ImageStart(p)
       /\ data.paddr = stack /\ data.start = StackStart(p)
  OBVIOUS
<1> HIDE DEF text, data, leaf, images
<1>12. new \in Space
  BY <1>3, <1>4, <1>8, <1>9, <1>10, UserVmAssumption DEF Space
<1>13. vm' = [vm EXCEPT ![p] = new]
  BY <1>5 DEF text, data, leaf
<1>14. /\ new.live = "yes" /\ new.regions = {text, data} /\ new.leaf = leaf
       /\ new.frames = tail \ {stack}
  OBVIOUS
<1> HIDE DEF new
<1>15. PagesOf(text) \cap tail = {}
  BY <1>3, <1>8
<1>16. \A r \in new.regions : RegionOK(new, r)
  BY <1>0, <1>2, <1>6, <1>7, <1>8, <1>9, <1>14, <1>15 DEF RegionOK
<1>17. RegionsApart(new)
  BY <1>6, <1>8, <1>9, <1>14, <1>15 DEF RegionsApart
<1>18. ASSUME NEW v \in VPage PROVE LeafOK(new, v)
  <2>1. CASE v \in KernelPage
    BY <1>0, <1>6, <1>8, <1>9, <1>10, <1>14, <2>1 DEF LeafOK
  <2>2. CASE v \notin KernelPage /\ v = StackStart(p)
    BY <1>6, <1>7, <1>8, <1>9, <1>10, <1>11, <1>14, <2>2 DEF LeafOK, Page, VPage
  <2>3. CASE v \notin KernelPage /\ v \in images
    BY <1>6, <1>8, <1>9, <1>10, <1>11, <1>14, <2>3 DEF LeafOK
  <2>4. CASE v \notin KernelPage \cup LoadedRange(p)
    BY <1>6, <1>8, <1>9, <1>10, <1>14, <2>4 DEF LeafOK
  <2> QED
    BY <1>6, <2>1, <2>2, <2>3, <2>4
<1>19. SpaceOK(new)
  BY <1>14, <1>16, <1>17, <1>18 DEF SpaceOK
<1>20. OwnedBy(new) \subseteq Run(image, ImagePages) \cup tail
  BY <1>8, <1>9, <1>14 DEF OwnedBy
<1>21. /\ Run(image, ImagePages) \cup tail \in SUBSET (Page \ pmm)
       /\ pmm' = pmm \cup (Run(image, ImagePages) \cup tail)
  BY <1>1, <1>2, <1>3 DEF tail
<1> QED
  BY <1>0, <1>12, <1>13, <1>19, <1>20, <1>21, SpaceGrown
-----------------------------------------------------------------------------
(* No call, failed or not, breaks the invariant. *)
LEMMA SpacesStep == SpacesInv /\ [Next]_vars => SpacesInv'
<1> SUFFICES ASSUME SpacesInv, [Next]_vars PROVE SpacesInv'
  OBVIOUS
<1>1. CASE \E p \in Slots : init_panel_process(p)
  BY <1>1, LoadStep
<1>2. CASE \E p \in Slots : \E size \in Sizes, flags \in Protections : sys_mmap(p, size, flags)
  BY <1>2, MmapStep
<1>3. CASE \E p \in Slots : \E addr \in VPage, size \in Sizes : sys_munmap(p, addr, size)
  BY <1>3, MunmapStep
<1>4. CASE \E p \in Slots : process_release(p)
  BY <1>4, ReleaseStep
<1>5. CASE UNCHANGED vars
  <2>1. pmm' = pmm /\ vm' = vm /\ loads' = loads
    BY <1>5 DEF vars
  <2> QED
    BY <2>1 DEF SpacesInv, TypeOK
<1> QED
  BY <1>1, <1>2, <1>3, <1>4, <1>5 DEF Next

(* Whatever order processes are loaded, map, unmap and end in: every space *)
(* stays sound, what it owns is not free, and no two own the same page     *)
(* (vmm.c, user_vm.c, process.c).                                          *)
THEOREM SpacesCorrect == Spec => []SpacesInv
  BY SpacesInit, SpacesStep, PTL DEF Spec

(* No address space ever reaches a page of another one, a page that holds  *)
(* a translation table, or a page that the allocator may hand out again    *)
(* (kernel/user_vm.c:120), with any number of processes, however memory    *)
(* runs out on the way.                                                    *)
THEOREM IsolationCorrect == Spec => []Isolation
  BY SpacesCorrect, SpacesIsolation, PTL

(* Regions, descriptors and their protection agree after every call: the   *)
(* rollback of vmm_map_range and of SYS_MMAP (kernel/mm/vmm.c:200,         *)
(* kernel/user_vm.c:31) leaves no trace in the leaves.                     *)
THEOREM MappingsCorrect == Spec => []MappingsSound
  BY SpacesCorrect, SpacesMappings, PTL

(* What user_buf_range (kernel/syscall_helpers.c:67) lets the kernel write *)
(* is the caller's own and writable by it.                                 *)
THEOREM BuffersCorrect == Spec => []CheckedBufferOwned
  BY SpacesCorrect, SpacesBuffers, PTL
=============================================================================
