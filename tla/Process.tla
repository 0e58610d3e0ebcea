------------------------------ MODULE Process ------------------------------
(***************************************************************************)
(* The life of EL0 processes: the process table (kernel/process.c), the    *)
(* process system calls (kernel/syscall_process.c), the loader and the     *)
(* panel launch path (kernel/panel_boot.c), the retry budget of            *)
(* kernel/panel_boot_recovery.c, the user fault handler                    *)
(* (kernel/exceptions.c) and preemption by the timer (kernel/irq.c).       *)
(*                                                                         *)
(* There is one core and exception handlers run with interrupts masked,    *)
(* so a handler is one action.  The loader is the exception: it allocates  *)
(* in several places and every one of them may fail, so it is a sequence   *)
(* of actions at control points of its own, during which nothing else      *)
(* runs.                                                                   *)
(***************************************************************************)
EXTENDS Pmm, FiniteSets

CONSTANTS
  MaxProcesses,  \* PROCESS_MAX_PROCESSES
  PidModulus,    \* 2^32: pids are uint32_t and the spawn counter wraps
  ImagePages,    \* KERNEL_USER_IMAGE_SLOT_PAGES
  MaxRegions,    \* PROCESS_MAX_USER_REGIONS
  MmapSizes,     \* sizes, in pages, that a process asks of SYS_MMAP
  Calls,         \* the optional system calls the applications make
  MaxTables,     \* bound on the pages of one translation table hierarchy
  MaxAttempts    \* PANEL_BOOT_RECOVERY_MAX_ATTEMPTS

ASSUME ProcessAssumption ==
  /\ MaxProcesses \in Nat \ {0}
  /\ PidModulus \in Nat /\ PidModulus > 2
  /\ ImagePages \in Nat \ {0}
  /\ MmapSizes \subseteq Nat \ {0}
  /\ MaxRegions \in Nat /\ MaxTables \in Nat
  /\ MaxAttempts \in Nat

VARIABLES
  g_processes,       \* the process table
  g_current,         \* slot of g_current_process, or NoSlot
  g_process_count,
  g_next_spawn_pid,
  pmm,               \* pages whose bit is set in the allocator's bitmap
  ttbr0,             \* root of the active address space; NoPage: the kernel's
  holders,           \* pids that own open descriptors or windows
  at,                \* where the kernel is
  load,              \* locals of the loader
  panel,             \* slot of panel_boot_run's local `panel`, or NoSlot
  attempts           \* attempts of panel_boot_recovery_run

vars == <<g_processes, g_current, g_process_count, g_next_spawn_pid, pmm,
          ttbr0, holders, at, load, panel, attempts>>

Slot == 0 .. (MaxProcesses - 1)
NoSlot == MaxProcesses
Pid == 0 .. (PidModulus - 1)
PanelPid == 1

States == {"UNUSED", "READY", "RUNNING", "BLOCKED", "ZOMBIE"}
ExitCodes == {"none", "exit", "fault", "kill"}

ProcessRecord ==
  [pid : Pid, parent_pid : Pid, state : States, exit_code : ExitCodes,
   page_table : Page \cup {NoPage},   \* root of the hierarchy
   tables : SUBSET Page,              \* all pages of the hierarchy
   regions : SUBSET SUBSET Page]      \* pages of each OWNED_PAGES region

(* "boot", "console": in panel_boot_recovery_run, before a launch and      *)
(* after the last one; "el0": g_current runs; "returned": user_enter_el0   *)
(* has returned to panel_boot_run; the others: inside the loader, on       *)
(* behalf of panel_boot_run when g_current is NoSlot and of SYS_SPAWN by   *)
(* g_current when it is not.                                               *)
ControlPoints == {"boot", "el0", "returned", "console",
                  "image", "stack", "table", "identity", "map", "argv"}

(* slot: the slot being loaded; image, stack: panel_user_storage_t; root,  *)
(* pgd: root and pages of a table hierarchy that no process has yet.       *)
Locals == [slot : Slot \cup {NoSlot}, image : SUBSET Page,
           stack : SUBSET Page, root : Page \cup {NoPage}, pgd : SUBSET Page]

(* process_init as process_table_init and process_release call it. *)
EmptySlot ==
  [pid |-> 0, parent_pid |-> 0, state |-> "UNUSED", exit_code |-> "none",
   page_table |-> NoPage, tables |-> {}, regions |-> {}]

NoLoad == [slot |-> NoSlot, image |-> {}, stack |-> {}, root |-> NoPage,
           pgd |-> {}]
-----------------------------------------------------------------------------
(* The process table *)

Used == {s \in Slot : g_processes[s].state # "UNUSED"}
Live == {s \in Slot : g_processes[s].state \notin {"UNUSED", "ZOMBIE"}}

(* process_find: the slots in use with a given pid. *)
process_find(pid) ==
  {s \in Slot : /\ pid # 0
                /\ g_processes[s].state # "UNUSED"
                /\ g_processes[s].pid = pid}

(* Everything process_free_resources returns to the allocator. *)
PagesOf(s) == (UNION g_processes[s].regions) \cup g_processes[s].tables

(* Fault: the pid is not looked up first. *)
process_alloc_NoLookup(procs, pid, s) ==
  /\ pid # 0
  /\ procs[s].state = "UNUSED"
  /\ \A t \in Slot : t < s => procs[t].state # "UNUSED"

(* process_alloc takes the lowest unused slot, and none if the pid is 0    *)
(* or taken, looking at the table `procs`.                                 *)
process_alloc(procs, pid, s) ==
  /\ pid # 0
  /\ \A t \in Slot : procs[t].state = "UNUSED" \/ procs[t].pid # pid
  /\ procs[s].state = "UNUSED"
  /\ \A t \in Slot : t < s => procs[t].state # "UNUSED"

(* Fault: a zombie parent counts as a parent that may still wait. *)
Reclaimable_KeepsNested ==
  {s \in Slot : /\ g_processes[s].state = "ZOMBIE"
                /\ process_find(g_processes[s].parent_pid) = {}}

(* Fault: a zombie goes although its parent may still wait for it. *)
Reclaimable_Awaited == {s \in Slot : g_processes[s].state = "ZOMBIE"}

(* process_reclaim_zombies visits the slots in order, but releasing one    *)
(* zombie never changes the verdict on another: a zombie parent and an     *)
(* absent one both let their child go.                                     *)
Reclaimable ==
  {s \in Slot :
     /\ g_processes[s].state = "ZOMBIE"
     /\ \A p \in process_find(g_processes[s].parent_pid) :
          g_processes[p].state = "ZOMBIE"}

(* The table, bitmap and current process once the slots S are released. *)
Released(S) ==
  [s \in Slot |-> IF s \in S THEN EmptySlot ELSE g_processes[s]]
FreedPages(S) == UNION {PagesOf(s) : s \in S}
CurrentAfter(S) == IF g_current \in S THEN NoSlot ELSE g_current

CountAfter(S) ==
  IF g_process_count > Cardinality(S \cap Used)
  THEN g_process_count - Cardinality(S \cap Used) ELSE 0

(* process_release of every slot of S, and pages the caller frees itself. *)
process_release(S, more) ==
  /\ g_processes' = Released(S)
  /\ pmm' = pmm_free(pmm, FreedPages(S) \cup more)
  /\ g_current' = CurrentAfter(S)
  /\ g_process_count' = CountAfter(S)

(* Fault: the scan always starts at slot 0. *)
Distance_FromZero(after, s) == s

(* Round robin: how far a slot is behind `after`, and the next READY one.  *)
(* The slot `after` itself is not scanned.                                 *)
Distance(after, s) == (s + MaxProcesses - after - 1) % MaxProcesses
ReadySlots(procs, after) ==
  {s \in Slot \ {after} : procs[s].state = "READY"}
process_next_runnable(procs, after, next) ==
  /\ next \in ReadySlots(procs, after)
  /\ \A s \in ReadySlots(procs, after) :
       Distance(after, next) <= Distance(after, s)

(* Fault: the tables of the previous process stay active. *)
Activate_KeepsTables(next) == g_current' = next /\ ttbr0' = ttbr0

(* process_activate_context: the address space of `next` becomes active. *)
Activate(next) ==
  /\ g_current' = next
  /\ ttbr0' = IF g_processes[next].page_table # NoPage
              THEN g_processes[next].page_table ELSE ttbr0

(* process_mark_exited, as the table it leaves. *)
MarkExited(s, code) ==
  [g_processes EXCEPT ![s].state = "ZOMBIE", ![s].exit_code = code]

(* Fault: process_mark_exited leaves descriptors and windows behind. *)
HoldersWithout_KeepsAll(pid) == holders

(* vfs_close_all_for_pid and gui_destroy_windows_for_pid. *)
HoldersWithout(pid) == holders \ {pid}
-----------------------------------------------------------------------------
(* Leaving EL0 *)

(* Fault: the process that is preempted stays RUNNING. *)
Preempted_StaysRunning(procs) == procs

(* The process that is preempted. *)
Preempted(procs) == [procs EXCEPT ![g_current].state = "READY"]

(* process_dispatch_next(current, PREEMPT), for SYS_YIELD and the timer:   *)
(* the running process goes back to READY, only if another one is READY.   *)
Preempt ==
  /\ at = "el0"
  /\ \/ \E next \in Slot :
          /\ process_next_runnable(g_processes, g_current, next)
          /\ g_processes' = [Preempted(g_processes)
                               EXCEPT ![next].state = "RUNNING"]
          /\ Activate(next)
     \/ /\ ReadySlots(g_processes, g_current) = {}
        /\ UNCHANGED <<g_processes, g_current, ttbr0>>
  /\ UNCHANGED <<g_process_count, g_next_spawn_pid, pmm, holders, at, load,
                 panel, attempts>>

sys_yield_process == Preempt

(* irq_handler_frame, for an interrupt that came from EL0. *)
irq_handler_frame == Preempt

(* sys_exit and handle_user_fault: process_mark_exited, then               *)
(* process_dispatch_next(current, EXIT); with nothing READY the frame is   *)
(* redirected to user_enter_el0_return, the zombie's tables still active.  *)
Leave(code) ==
  /\ at = "el0"
  /\ holders' = HoldersWithout(g_processes[g_current].pid)
  /\ \/ \E next \in Slot :
          /\ process_next_runnable(g_processes, g_current, next)
          /\ g_processes' = [MarkExited(g_current, code)
                               EXCEPT ![next].state = "RUNNING"]
          /\ Activate(next)
          /\ UNCHANGED at
     \/ /\ ReadySlots(g_processes, g_current) = {}
        /\ g_processes' = MarkExited(g_current, code)
        /\ at' = "returned"
        /\ UNCHANGED <<g_current, ttbr0>>
  /\ UNCHANGED <<g_process_count, g_next_spawn_pid, pmm, load, panel, attempts>>

sys_exit == Leave("exit")
handle_user_fault == Leave("fault")
-----------------------------------------------------------------------------
(* System calls about other processes *)

(* sys_wait: the caller must be the child's parent and the child a zombie; *)
(* the refusals change nothing.                                            *)
MayReap(child) ==
  /\ g_processes[child].parent_pid = g_processes[g_current].pid
  /\ g_processes[child].state = "ZOMBIE"

sys_wait(pid) ==
  /\ at = "el0"
  /\ \E child \in process_find(pid) \ {g_current} :
       /\ MayReap(child)
       /\ process_release({child}, {})
  /\ UNCHANGED <<g_next_spawn_pid, ttbr0, holders, at, load, panel, attempts>>

(* sys_kill: any process may end any other that is not a zombie yet. *)
sys_kill(pid) ==
  /\ at = "el0"
  /\ \E victim \in process_find(pid) :
       /\ victim # g_current
       /\ g_processes[victim].state # "ZOMBIE"
       /\ g_processes' = MarkExited(victim, "kill")
  /\ holders' = HoldersWithout(pid)
  /\ UNCHANGED <<g_current, g_process_count, g_next_spawn_pid, pmm, ttbr0, at,
                 load, panel, attempts>>

(* The process opens a file or a window. *)
Acquire ==
  /\ at = "el0"
  /\ holders' = holders \cup {g_processes[g_current].pid}
  /\ UNCHANGED <<g_processes, g_current, g_process_count, g_next_spawn_pid, pmm,
                 ttbr0, at, load, panel, attempts>>

(* user_vm_map_anonymous: a first-fit run of n pages, and then perhaps one *)
(* more page for the hierarchy; when mapping fails the run is given back   *)
(* but an intermediate table that was added stays.                         *)
sys_mmap(n) ==
  /\ at = "el0"
  /\ Cardinality(g_processes[g_current].regions) < MaxRegions
  /\ \E b \in Page, t \in Page \cup {NoPage} :
     \E regions \in {{}, {Run(b, n)}} :
       /\ pmm_alloc_pages(pmm, n, b)
       /\ t # NoPage =>
            /\ pmm_alloc_page(pmm \cup Run(b, n), t)
            /\ Cardinality(g_processes[g_current].tables) < MaxTables
       /\ regions = {} =>
            t # NoPage /\ pmm_exhausted(pmm \cup Run(b, n) \cup {t}, 1)
       /\ g_processes' = [g_processes EXCEPT
                            ![g_current].regions = @ \cup regions,
                            ![g_current].tables = @ \cup ({t} \ {NoPage})]
       /\ pmm' = pmm \cup (UNION regions) \cup ({t} \ {NoPage})
  /\ UNCHANGED <<g_current, g_process_count, g_next_spawn_pid, ttbr0, holders,
                 at, load, panel, attempts>>

(* Fault: the region entry outlives its pages. *)
RegionsWithout_KeepsEntry(r) == g_processes[g_current].regions

(* process_remove_user_region. *)
RegionsWithout(r) == g_processes[g_current].regions \ {r}

(* user_vm_unmap_anonymous: any region that owns its pages. *)
sys_munmap(r) ==
  /\ at = "el0"
  /\ r \in g_processes[g_current].regions
  /\ g_processes' = [g_processes EXCEPT
                       ![g_current].regions = RegionsWithout(r)]
  /\ pmm' = pmm_free(pmm, r)
  /\ UNCHANGED <<g_current, g_process_count, g_next_spawn_pid, ttbr0, holders,
                 at, load, panel, attempts>>
-----------------------------------------------------------------------------
(* The loader *)

(* A slot as process_alloc leaves it, with what the caller sets next. *)
NewProcess(pid, parent, state) ==
  [EmptySlot EXCEPT !.pid = pid, !.parent_pid = parent, !.state = state]

(* Give the lowest free slot to `pid` after releasing Reclaimable, and     *)
(* start loading; or fail for want of a slot or of an unused pid.          *)
AllocAfterReclaim(pid, parent, state, whenFull) ==
  LET S == Reclaimable
      procs == Released(S)
  IN /\ pmm' = pmm_free(pmm, FreedPages(S))
     /\ g_current' = CurrentAfter(S)
     /\ \/ \E s \in Slot :
             /\ process_alloc(procs, pid, s)
             /\ g_processes' = [procs EXCEPT
                                  ![s] = NewProcess(pid, parent, state)]
             /\ g_process_count' = CountAfter(S) + 1
             /\ load' = [NoLoad EXCEPT !.slot = s]
             /\ at' = "image"
        \/ /\ \A s \in Slot : ~process_alloc(procs, pid, s)
           /\ g_processes' = procs
           /\ g_process_count' = CountAfter(S)
           /\ at' = whenFull
           /\ UNCHANGED load

(* g_next_spawn_pid++ on a uint32_t. *)
SpawnPidAfter(pid) == (pid + 1) % PidModulus

(* sys_spawn and sys_spawn_argv up to process_alloc.  The counter advances *)
(* whether or not the pid could be used.                                   *)
app_spawn_vfs ==
  /\ at = "el0"
  /\ AllocAfterReclaim(g_next_spawn_pid, g_processes[g_current].pid,
                       "BLOCKED", "el0")
  /\ g_next_spawn_pid' = SpawnPidAfter(g_next_spawn_pid)
  /\ UNCHANGED <<ttbr0, holders, panel, attempts>>

(* panel_boot_run up to process_alloc. *)
panel_boot_run ==
  /\ at = "boot"
  /\ attempts' = attempts + 1
  /\ g_next_spawn_pid' = IF g_next_spawn_pid = 0 THEN PanelPid + 1
                         ELSE g_next_spawn_pid
  /\ AllocAfterReclaim(PanelPid, 0, "READY",
                       IF attempts + 1 >= MaxAttempts THEN "console"
                       ELSE "boot")
  /\ UNCHANGED <<ttbr0, holders, panel>>

(* Where panel_boot_recovery_run goes when a launch is over. *)
Recover == IF attempts >= MaxAttempts THEN "console" ELSE "boot"

(* Fault: the stack page is forgotten. *)
free_user_storage_ImageOnly == load.image

(* free_user_storage, as the pages it gives back. *)
free_user_storage == load.image \cup load.stack

(* An error return: process_release, and the storage no process owns yet;  *)
(* back to the caller of SYS_SPAWN or to the recovery loop.                *)
LoadFails(storage) ==
  /\ process_release({load.slot}, storage)
  /\ load' = NoLoad
  /\ at' = IF g_current = NoSlot THEN Recover ELSE "el0"
  /\ UNCHANGED <<g_next_spawn_pid, ttbr0, holders, panel, attempts>>

(* A step of the loader that took `pages` and goes on. *)
LoadSteps(pages, locals, next) ==
  /\ pmm' = pmm \cup pages
  /\ load' = locals
  /\ at' = next
  /\ UNCHANGED <<g_current, g_process_count, g_next_spawn_pid, ttbr0, holders,
                 panel, attempts>>

(* load_image: it may fail for want of pages or because of the file. *)
load_image ==
  /\ at = "image"
  /\ \/ \E b \in Page :
          /\ pmm_alloc_pages(pmm, ImagePages, b)
          /\ LoadSteps(Run(b, ImagePages),
                       [load EXCEPT !.image = Run(b, ImagePages)], "stack")
          /\ UNCHANGED g_processes
     \/ LoadFails(free_user_storage)

(* init_panel_process: the stack page, *)
init_panel_process ==
  /\ at = "stack"
  /\ \/ \E b \in Page :
          /\ pmm_alloc_page(pmm, b)
          /\ LoadSteps({b}, [load EXCEPT !.stack = {b}], "table")
          /\ UNCHANGED g_processes
     \/ /\ pmm_exhausted(pmm, 1)
        /\ LoadFails(free_user_storage)

(* then the root table, *)
vmm_new_table ==
  /\ at = "table"
  /\ \/ \E b \in Page :
          /\ pmm_alloc_page(pmm, b)
          /\ LoadSteps({b}, [load EXCEPT !.root = b, !.pgd = {b}], "identity")
          /\ UNCHANGED g_processes
     \/ /\ pmm_exhausted(pmm, 1)
        /\ LoadFails(free_user_storage)

(* the kernel's identity map, which adds tables below the root, *)
map_kernel_identity ==
  /\ at = "identity"
  /\ \/ \E b \in Page :
          /\ pmm_alloc_page(pmm, b)
          /\ LoadSteps({b}, [load EXCEPT !.pgd = @ \cup {b}], "map")
          /\ UNCHANGED g_processes
     \/ /\ pmm_exhausted(pmm, 1)
        /\ LoadFails(free_user_storage \cup load.pgd)

(* The process gets the root, and owns the hierarchy with the page `more`  *)
(* added to it, the image and the stack from here on.                      *)
Loaded(more) ==
  [g_processes[load.slot] EXCEPT !.page_table = load.root,
                                 !.tables = load.pgd \cup more,
                                 !.regions = {load.image, load.stack}]

(* process_set_page_table and the two user_vm_map_physical, which add      *)
(* another table; then the regions take the image and the stack.  The      *)
(* storage record keeps the stack, for argv.  When mapping fails           *)
(* process_release frees the hierarchy and free_user_storage the rest.     *)
create_panel_page_table ==
  /\ at = "map"
  /\ \/ \E b \in Page :
          /\ pmm_alloc_page(pmm, b)
          /\ g_processes' = [g_processes EXCEPT ![load.slot] = Loaded({b})]
          /\ LoadSteps({b}, [load EXCEPT !.image = {}, !.root = NoPage,
                                              !.pgd = {}], "argv")
     \/ /\ pmm_exhausted(pmm, 1)
        /\ LoadFails(free_user_storage \cup load.pgd)

(* The end of app_spawn_vfs: place_argv_on_stack, then READY. *)
SpawnDone ==
  /\ at = "argv" /\ g_current # NoSlot
  /\ \/ /\ g_processes' = [g_processes EXCEPT ![load.slot].state = "READY"]
        /\ LoadSteps({}, NoLoad, "el0")
     \/ LoadFails({})

(* The end of the launch in panel_boot_run: user_enter_el0. *)
PanelEnter ==
  /\ at = "argv" /\ g_current = NoSlot
  /\ g_processes' = [g_processes EXCEPT ![load.slot].state = "RUNNING"]
  /\ Activate(load.slot)
  /\ at' = "el0"
  /\ panel' = load.slot
  /\ load' = NoLoad
  /\ UNCHANGED <<g_process_count, g_next_spawn_pid, pmm, holders, attempts>>

(* Back in panel_boot_run: the kernel's tables first, then the zombies,    *)
(* then the panel's slot, whatever is in it by now.                        *)
PanelReturn ==
  /\ at = "returned"
  /\ ttbr0' = NoPage
  /\ process_release(Reclaimable \cup {panel}, {})
  /\ panel' = NoSlot
  /\ at' = Recover
  /\ UNCHANGED <<g_next_spawn_pid, holders, load, attempts>>

(* start_scheduler's console thread takes over; no process runs again. *)
Console == at = "console" /\ UNCHANGED vars
-----------------------------------------------------------------------------
Init ==
  /\ g_processes = [s \in Slot |-> EmptySlot]
  /\ g_current = NoSlot
  /\ g_process_count = 0
  /\ g_next_spawn_pid = 0
  /\ pmm = {}
  /\ ttbr0 = NoPage
  /\ holders = {}
  /\ at = "boot"
  /\ load = NoLoad
  /\ panel = NoSlot
  /\ attempts = 0

Loader ==
  \/ load_image \/ init_panel_process \/ vmm_new_table \/ map_kernel_identity
  \/ create_panel_page_table \/ SpawnDone

Kernel == panel_boot_run \/ Loader \/ PanelEnter \/ PanelReturn

User ==
  \/ sys_yield_process \/ sys_exit \/ handle_user_fault
  \/ \E pid \in Pid : sys_wait(pid) \/ sys_kill(pid)
  \/ "open" \in Calls /\ Acquire
  \/ "mmap" \in Calls /\ \E n \in MmapSizes : sys_mmap(n)
  \/ "munmap" \in Calls
     /\ \E r \in UNION {g_processes[s].regions : s \in Slot} : sys_munmap(r)
  \/ app_spawn_vfs

Next == Kernel \/ User \/ irq_handler_frame \/ Console

Spec == Init /\ [][Next]_vars

(* The kernel does not stop between two of its own steps, and the timer    *)
(* interrupt stays pending while it is masked, so it is taken again and    *)
(* again as long as control keeps returning to EL0.  Nothing is assumed of *)
(* what a process does.                                                    *)
FairSpec == Spec /\ WF_vars(Kernel) /\ SF_vars(irq_handler_frame)
-----------------------------------------------------------------------------
(* Every variable keeps the shape the C declarations give it. *)
TypeOK ==
  /\ g_processes \in [Slot -> ProcessRecord]
  /\ g_current \in Slot \cup {NoSlot}
  /\ g_process_count \in Nat
  /\ g_next_spawn_pid \in Pid
  /\ pmm \in SUBSET Page
  /\ ttbr0 \in Page \cup {NoPage}
  /\ holders \in SUBSET Pid
  /\ at \in ControlPoints
  /\ load \in Locals
  /\ panel \in Slot \cup {NoSlot}
  /\ attempts \in Nat

(* Pages the loader holds in locals and no process owns.  At "argv" the    *)
(* storage record still names the stack, but its region owns it by then.   *)
LocalPages ==
  load.image \cup load.pgd \cup (IF at = "argv" THEN {} ELSE load.stack)

(* No page is owned twice: not by two processes, not by two regions of one *)
(* process, not by a region and a table, not by a process and the loader.  *)
(* This is what makes it safe for process_free_resources to free all it    *)
(* finds (kernel/process.c:89) and for each error path of app_spawn_vfs    *)
(* (kernel/panel_boot.c:253) to call both process_release and              *)
(* free_user_storage.                                                      *)
PagesExclusive ==
  /\ \A s, t \in Slot : s # t => PagesOf(s) \cap PagesOf(t) = {}
  /\ \A s \in Slot :
       /\ PagesOf(s) \cap LocalPages = {}
       /\ (UNION g_processes[s].regions) \cap g_processes[s].tables = {}
       /\ \A r, q \in g_processes[s].regions : r # q => r \cap q = {}
  /\ load.image \cap load.pgd = {}
  /\ at # "argv" => load.stack \cap (load.image \cup load.pgd) = {}

(* The bitmap and the owners agree: a page is marked used exactly while a  *)
(* process or the loader owns it.  No failing spawn, kill, wait or fault   *)
(* leaks a page or frees one that is still mapped.                         *)
NoPageLost ==
  pmm = LocalPages \cup UNION {PagesOf(s) : s \in Slot}

(* The MMU never walks tables that were freed: the active root is the one  *)
(* of the current process, also while that process is a zombie on its way  *)
(* out, and the kernel's whenever there is no current process.             *)
ActiveTablesLive ==
  IF g_current = NoSlot THEN ttbr0 = NoPage
  ELSE /\ g_processes[g_current].state # "UNUSED"
       /\ ttbr0 = g_processes[g_current].page_table
       /\ ttbr0 \in g_processes[g_current].tables

(* While EL0 runs, the current process and no other is RUNNING, and each   *)
(* READY process has an address space to run in: process_alloc hands out   *)
(* READY slots, so app_spawn_vfs must keep them off the scheduler's list   *)
(* until they are loaded.                                                  *)
OneRunning ==
  /\ at = "el0" =>
       \A s \in Slot :
         /\ (g_processes[s].state = "RUNNING") <=> (s = g_current)
         /\ g_processes[s].state \in {"READY", "RUNNING"} =>
              g_processes[s].page_table # NoPage
  /\ (at = "el0") => load = NoLoad

(* process_find has at most one answer, though the pid counter wraps and   *)
(* the panel always takes pid 1 (kernel/panel_boot.c:338).                 *)
UniquePids ==
  \A s, t \in Used : g_processes[s].pid = g_processes[t].pid => s = t

(* Descriptors and windows belong to processes that can still use them: a  *)
(* zombie has none, and a pid that is handed out again starts with none.   *)
NoGhostHolders ==
  \A p \in holders : \E s \in Live : g_processes[s].pid = p

(* When control comes back to panel_boot_recovery_run everything has been  *)
(* given back: no slot in use, no page, no descriptor, kernel tables       *)
(* active.  The next panel starts on an empty system, and                  *)
(* process_release(panel) on a slot another process may have used since    *)
(* (kernel/panel_boot.c:386) does no harm.                                 *)
CleanRestart ==
  at \in {"boot", "console"} =>
    /\ Used = {} /\ pmm = {} /\ holders = {}
    /\ g_current = NoSlot /\ ttbr0 = NoPage

(* What the control point says about the table and the loader's locals:    *)
(* while g_current runs nobody else does and nothing is half loaded; while *)
(* a process is loaded only its own slot is BLOCKED (READY, for the panel, *)
(* which loads with every other slot unused) and each local is set exactly *)
(* from the step that fills it to the step that hands it over; back in     *)
(* panel_boot_run only zombies are left.  With the properties above this   *)
(* is inductive.                                                           *)
LoadPoints == {"image", "stack", "table", "identity", "map", "argv"}

SlotInv(s) ==
  /\ g_processes[s].state = "UNUSED" => g_processes[s] = EmptySlot
  /\ g_processes[s].state # "UNUSED" => g_processes[s].pid # 0
  /\ g_processes[s].state # "UNUSED" /\ s # load.slot =>
       g_processes[s].page_table # NoPage
  /\ g_processes[s].page_table # NoPage =>
       g_processes[s].page_table \in g_processes[s].tables

SlotsInv == \A s \in Slot : SlotInv(s)

ControlInv ==
  /\ at \in {"boot", "console"} =>
       /\ g_current = NoSlot /\ load = NoLoad
       /\ \A s \in Slot : g_processes[s].state = "UNUSED"
  /\ at \in {"el0", "returned"} =>
       g_current \in Slot /\ panel \in Slot /\ load = NoLoad
  /\ at = "el0" =>
       \A s \in Slot : IF s = g_current
                       THEN g_processes[s].state = "RUNNING"
                       ELSE g_processes[s].state \in {"UNUSED", "READY", "ZOMBIE"}
  /\ at = "returned" =>
       /\ g_processes[g_current].state = "ZOMBIE"
       /\ \A s \in Slot : g_processes[s].state \in {"UNUSED", "ZOMBIE"}

LoaderInv ==
  at \in LoadPoints =>
    /\ load.slot \in Slot
    /\ IF g_current = NoSlot
       THEN \A s \in Slot : IF s = load.slot
                            THEN g_processes[s].state = "READY"
                            ELSE g_processes[s].state = "UNUSED"
       ELSE /\ panel \in Slot
            /\ g_current # load.slot
            /\ g_processes[load.slot].state = "BLOCKED"
            /\ g_processes[g_current].state = "RUNNING"
            /\ \A s \in Slot \ {load.slot, g_current} :
                 g_processes[s].state \in {"UNUSED", "READY", "ZOMBIE"}
    /\ IF at = "argv"
       THEN /\ g_processes[load.slot].page_table # NoPage
            /\ load.image = {} /\ load.pgd = {}
       ELSE /\ g_processes[load.slot].page_table = NoPage
            /\ g_processes[load.slot].tables = {}
            /\ g_processes[load.slot].regions = {}
    /\ at = "image" => load.image = {}
    /\ at \in {"image", "stack"} => load.stack = {}
    /\ at \in {"image", "stack", "table"} => load.pgd = {}
    /\ at \in {"identity", "map"} => load.root \in load.pgd

(* g_process_count, which SYS_SYSINFO reports, counts the slots in use. *)
CountMatches == g_process_count = Cardinality(Used)

(* A zombie whose parent is alive. *)
Awaited(s) ==
  /\ g_processes[s].state = "ZOMBIE"
  /\ \E p \in Live : g_processes[p].pid = g_processes[s].parent_pid

ZombieStep ==
  \A s \in Slot :
    Awaited(s) => \/ g_processes'[s] = g_processes[s]
                  \/ /\ at = "el0"
                     /\ g_processes[g_current].pid = g_processes[s].parent_pid
                     /\ g_processes'[s] = EmptySlot

(* A child zombie whose parent is alive stays, with its exit code, until   *)
(* that parent waits for it (ARCHITECTURE.md:207).                         *)
ZombieKept == [][ZombieStep]_vars

(* Round robin starves nobody: a READY process runs or is ended. *)
ReadyRuns ==
  \A s \in Slot :
    (at = "el0" /\ g_processes[s].state = "READY")
      ~> (g_processes[s].state # "READY")
=============================================================================
