------------------------ MODULE ProcessControlProofs ------------------------
(***************************************************************************)
(* The first layer of the inductive invariant of Process, for any number   *)
(* of slots, pages and pids: the shape of the state and the control points *)
(* (CInv) are kept by every action.  First the lemmas that all proofs      *)
(* about Process rest on: the shapes of the data, and the effect of each   *)
(* action on the process table, field by field.                            *)
(***************************************************************************)
EXTENDS Process, FiniteSetTheorems, TLAPS

CInv == TypeOK /\ SlotsInv /\ ControlInv /\ LoaderInv

-----------------------------------------------------------------------------
(* Shapes *)

(* NoSlot is no slot and 0 no page. *)
LEMMA Slots == /\ NoSlot \notin Slot /\ Slot \subseteq Int
               /\ NoPage \notin Page /\ PanelPid \in Pid /\ 0 \in Pid
               /\ PanelPid + 1 \in Pid
BY ProcessAssumption, NumPagesAssumption
   DEF NoSlot, Slot, Page, NoPage, PanelPid, Pid

(* An empty slot and the loader's locals at rest have their types. *)
LEMMA Empties == EmptySlot \in ProcessRecord /\ NoLoad \in Locals
BY Slots DEF EmptySlot, ProcessRecord, NoLoad, Locals, States, ExitCodes

(* A free slot, field by field. *)
LEMMA EmptyFields ==
  /\ EmptySlot.state = "UNUSED" /\ EmptySlot.pid = 0 /\ EmptySlot.page_table = NoPage
  /\ EmptySlot.tables = {} /\ EmptySlot.regions = {}
BY DEF EmptySlot

(* A slot that is freed is as SlotInv wants it. *)
LEMMA EmptySound ==
  ASSUME NEW s, g_processes'[s] = EmptySlot
  PROVE  SlotInv(s)'
<1>1. g_processes'[s].state = "UNUSED" /\ g_processes'[s].page_table = NoPage
  BY EmptyFields
<1> QED
  BY <1>1 DEF SlotInv

(* Releasing slots keeps the type of the table. *)
LEMMA ReleasedType ==
  ASSUME TypeOK, NEW S
  PROVE  Released(S) \in [Slot -> ProcessRecord]
BY Empties DEF TypeOK, Released

(* Slots are finitely many, so counting any of them gives a number. *)
LEMMA SlotCount ==
  ASSUME NEW S, S \subseteq Slot
  PROVE  IsFiniteSet(S) /\ Cardinality(S) \in Nat
<1>1. IsFiniteSet(Slot)
  BY FS_Interval, ProcessAssumption DEF Slot
<1>2. IsFiniteSet(S)
  BY <1>1, FS_Subset
<1> QED
  BY <1>2, FS_CardinalityType

(* So does counting them down. *)
LEMMA CountType == ASSUME TypeOK, NEW S PROVE CountAfter(S) \in Nat
<1>1. Cardinality(S \cap Used) \in Nat
  BY SlotCount DEF Used
<1> QED
  BY <1>1 DEF CountAfter, TypeOK

(* A run that the allocator returns lies in the bitmap. *)
LEMMA AllocRun ==
  ASSUME NEW used, NEW n, NEW b, pmm_alloc_pages(used, n, b)
  PROVE  b \in Page /\ Run(b, n) \subseteq Page /\ Run(b, n) \cap used = {}
BY DEF pmm_alloc_pages, FreeRuns

(* The one-page case. *)
LEMMA AllocPage ==
  ASSUME NEW used, NEW b, pmm_alloc_page(used, b)
  PROVE  b \in Page /\ b \notin used
<1>1. b \in Page /\ Run(b, 1) \cap used = {}
  BY AllocRun DEF pmm_alloc_page
<1>2. b \in Run(b, 1)
  BY <1>1, NumPagesAssumption DEF Run, Page
<1> QED
  BY <1>1, <1>2

(* A zombie or nobody is reclaimed. *)
LEMMA ReclaimedZombies ==
  Reclaimable \subseteq Slot /\ \A s \in Reclaimable : g_processes[s].state = "ZOMBIE"
BY DEF Reclaimable
-----------------------------------------------------------------------------
(* What the actions do to the table, field by field *)

(* Slot s keeps everything but perhaps its state and exit code. *)
SameOwner(s) ==
  /\ g_processes'[s].pid = g_processes[s].pid
  /\ g_processes'[s].parent_pid = g_processes[s].parent_pid
  /\ g_processes'[s].page_table = g_processes[s].page_table
  /\ g_processes'[s].tables = g_processes[s].tables
  /\ g_processes'[s].regions = g_processes[s].regions

(* A switch: `next` becomes the running process. *)
Switch(next) ==
  /\ next \in Slot /\ g_current \in Slot /\ next # g_current
  /\ g_processes[next].state = "READY"
  /\ g_current' = next
  /\ ttbr0' = g_processes[next].page_table
  /\ g_processes'[next].state = "RUNNING"
  /\ \A s \in Slot : /\ SameOwner(s)
                     /\ s \notin {next, g_current} => g_processes'[s] = g_processes[s]

(* Preemption switches and leaves the old process READY, or does nothing. *)
LEMMA PreemptEffect ==
  ASSUME CInv, Preempt, ~UNCHANGED vars
  PROVE  /\ \E next \in Slot : Switch(next)
         /\ g_processes' \in [Slot -> ProcessRecord]
         /\ g_processes'[g_current].state = "READY"
<1>1. PICK next \in Slot : /\ process_next_runnable(g_processes, g_current, next)
                           /\ g_processes' = [Preempted(g_processes)
                                                EXCEPT ![next].state = "RUNNING"]
                           /\ Activate(next)
  BY DEF Preempt, vars
<1>2. /\ g_current \in Slot /\ next # g_current
      /\ g_processes[next].state = "READY" /\ load = NoLoad
  BY <1>1 DEF Preempt, CInv, ControlInv, process_next_runnable, ReadySlots
<1>3. g_processes \in [Slot -> ProcessRecord]
  BY DEF CInv, TypeOK
<1>4. /\ g_processes' \in [Slot -> ProcessRecord]
      /\ \A s \in Slot : g_processes'[s] =
           [g_processes[s] EXCEPT !.state = IF s = next THEN "RUNNING"
                                            ELSE IF s = g_current THEN "READY"
                                            ELSE @]
  BY <1>1, <1>2, <1>3 DEF Preempted, ProcessRecord, States
<1>5. g_processes'[next].state = "RUNNING" /\ g_processes'[g_current].state = "READY"
  BY <1>2, <1>3, <1>4 DEF ProcessRecord
<1>6. \A s \in Slot : /\ SameOwner(s)
                      /\ s \notin {next, g_current} => g_processes'[s] = g_processes[s]
  BY <1>3, <1>4 DEF ProcessRecord, SameOwner
<1>7. g_current' = next /\ ttbr0' = g_processes[next].page_table
  BY <1>1, <1>2, Slots DEF Activate, CInv, SlotsInv, SlotInv, NoLoad
<1> QED
  BY <1>2, <1>4, <1>5, <1>6, <1>7 DEF Switch

(* A slot that an action leaves alone keeps its invariant. *)
LEMMA SlotKept ==
  ASSUME SlotsInv, NEW s \in Slot, g_processes'[s] = g_processes[s],
         load' = load \/ s # load.slot
  PROVE  SlotInv(s)'
<1>1. SlotInv(s)
  BY DEF SlotsInv
<1> QED
  BY <1>1 DEF SlotInv

(* A record stays one when fields of it are set. *)
LEMMA RecordType ==
  ASSUME NEW p \in ProcessRecord, NEW state \in States, NEW code \in ExitCodes
  PROVE  /\ [p EXCEPT !.state = state] \in ProcessRecord
         /\ [p EXCEPT !.state = state, !.exit_code = code] \in ProcessRecord
BY DEF ProcessRecord

(* The same for what it owns. *)
LEMMA OwnerType ==
  ASSUME NEW p \in ProcessRecord,
         NEW regions \in SUBSET SUBSET Page, NEW tables \in SUBSET Page
  PROVE  [p EXCEPT !.regions = regions, !.tables = tables] \in ProcessRecord
BY DEF ProcessRecord

(* And with a page table. *)
LEMMA LoadedType ==
  ASSUME NEW p \in ProcessRecord, NEW root \in Page \cup {NoPage},
         NEW tables \in SUBSET Page, NEW regions \in SUBSET SUBSET Page
  PROVE  [p EXCEPT !.page_table = root, !.tables = tables, !.regions = regions]
           \in ProcessRecord
BY DEF ProcessRecord

(* process_mark_exited, slot by slot. *)
LEMMA MarkExitedType ==
  ASSUME g_processes \in [Slot -> ProcessRecord], NEW t \in Slot,
         NEW code \in ExitCodes
  PROVE  /\ MarkExited(t, code) \in [Slot -> ProcessRecord]
         /\ \A s \in Slot : MarkExited(t, code)[s] =
              IF s = t
              THEN [g_processes[s] EXCEPT !.state = "ZOMBIE", !.exit_code = code]
              ELSE g_processes[s]
<1>1. \A s \in Slot : MarkExited(t, code)[s] =
              IF s = t
              THEN [g_processes[s] EXCEPT !.state = "ZOMBIE", !.exit_code = code]
              ELSE g_processes[s]
  BY DEF MarkExited, ProcessRecord
<1>2. \A s \in Slot : MarkExited(t, code)[s] \in ProcessRecord
  <2> SUFFICES ASSUME NEW s \in Slot PROVE MarkExited(t, code)[s] \in ProcessRecord
    OBVIOUS
  <2>1. g_processes[s] \in ProcessRecord /\ "ZOMBIE" \in States
    BY DEF States
  <2>2. [g_processes[s] EXCEPT !.state = "ZOMBIE", !.exit_code = code] \in ProcessRecord
    BY <2>1, RecordType
  <2> QED
    BY <1>1, <2>1, <2>2
<1>3. MarkExited(t, code) = [s \in Slot |-> MarkExited(t, code)[s]]
  BY DEF MarkExited
<1> QED
  BY <1>1, <1>2, <1>3

(* The end of a process: a switch, or a return when nothing is READY. *)
LEMMA LeaveEffect ==
  ASSUME CInv, NEW code \in ExitCodes, Leave(code)
  PROVE  /\ g_processes' \in [Slot -> ProcessRecord]
         /\ g_current \in Slot
         /\ g_processes'[g_current].state = "ZOMBIE"
         /\ \/ at' = at /\ \E next \in Slot : Switch(next)
            \/ /\ at' = "returned" /\ UNCHANGED <<g_current, ttbr0>>
               /\ \A s \in Slot \ {g_current} :
                    /\ g_processes'[s] = g_processes[s]
                    /\ g_processes[s].state # "READY"
               /\ SameOwner(g_current)
<1>1. /\ g_processes \in [Slot -> ProcessRecord] /\ g_current \in Slot
      /\ load = NoLoad
  BY DEF Leave, CInv, TypeOK, ControlInv
<1>a. CASE /\ ReadySlots(g_processes, g_current) = {}
           /\ g_processes' = MarkExited(g_current, code)
           /\ at' = "returned"
           /\ UNCHANGED <<g_current, ttbr0>>
  BY <1>1, <1>a DEF MarkExited, ReadySlots, SameOwner, ProcessRecord, States
<1>b. ASSUME NEW next \in Slot,
             process_next_runnable(g_processes, g_current, next),
             g_processes' = [MarkExited(g_current, code)
                               EXCEPT ![next].state = "RUNNING"],
             Activate(next), UNCHANGED at
      PROVE  /\ g_processes' \in [Slot -> ProcessRecord]
             /\ g_processes'[g_current].state = "ZOMBIE"
             /\ at' = at /\ Switch(next)
  <2>1. next # g_current /\ g_processes[next].state = "READY"
    BY <1>b DEF process_next_runnable, ReadySlots
  <2>2. /\ g_processes' \in [Slot -> ProcessRecord]
        /\ \A s \in Slot : g_processes'[s] =
             IF s = next THEN [g_processes[s] EXCEPT !.state = "RUNNING"]
             ELSE IF s = g_current
             THEN [g_processes[s] EXCEPT !.state = "ZOMBIE", !.exit_code = code]
             ELSE g_processes[s]
    <3>1. /\ MarkExited(g_current, code) \in [Slot -> ProcessRecord]
          /\ \A s \in Slot : MarkExited(g_current, code)[s] =
               IF s = g_current
               THEN [g_processes[s] EXCEPT !.state = "ZOMBIE", !.exit_code = code]
               ELSE g_processes[s]
      BY <1>1, MarkExitedType
    <3>2. \A s \in Slot : g_processes'[s] =
               IF s = next
               THEN [MarkExited(g_current, code)[s] EXCEPT !.state = "RUNNING"]
               ELSE MarkExited(g_current, code)[s]
      BY <1>b, <3>1
    <3>3. g_processes' \in [Slot -> ProcessRecord]
      BY <1>b, <3>1, RecordType DEF States
    <3> QED
      BY <2>1, <3>1, <3>2, <3>3
  <2>3. g_processes'[next].state = "RUNNING" /\ g_processes'[g_current].state = "ZOMBIE"
    BY <1>1, <2>1, <2>2 DEF ProcessRecord
  <2>4. \A s \in Slot : /\ SameOwner(s)
                        /\ s \notin {next, g_current} => g_processes'[s] = g_processes[s]
    BY ZenonT(60), <1>1, <2>2 DEF ProcessRecord, SameOwner
  <2>5. g_current' = next /\ ttbr0' = g_processes[next].page_table
    BY <1>1, <1>b, <2>1, Slots DEF Activate, CInv, SlotsInv, SlotInv, NoLoad
  <2> QED
    BY <1>1, <1>b, <2>1, <2>2, <2>3, <2>4, <2>5 DEF Switch
<1> QED
  BY <1>1, <1>a, <1>b DEF Leave

(* SYS_KILL makes one READY process a zombie. *)
LEMMA KillEffect ==
  ASSUME CInv, NEW pid \in Pid, sys_kill(pid)
  PROVE  \E victim \in Slot \ {g_current} :
           /\ g_processes[victim].state = "READY"
           /\ g_processes[victim].pid = pid
           /\ g_processes'[victim].state = "ZOMBIE"
           /\ SameOwner(victim)
           /\ g_processes' \in [Slot -> ProcessRecord]
           /\ \A s \in Slot \ {victim} : g_processes'[s] = g_processes[s]
<1>1. g_processes \in [Slot -> ProcessRecord] /\ at = "el0"
  BY DEF sys_kill, CInv, TypeOK
<1>2. PICK victim \in Slot \ {g_current} :
        /\ g_processes[victim].pid = pid
        /\ g_processes[victim].state \notin {"UNUSED", "ZOMBIE"}
        /\ g_processes' = MarkExited(victim, "kill")
  BY DEF sys_kill, process_find
<1>3. g_processes[victim].state = "READY"
  BY <1>1, <1>2 DEF CInv, ControlInv
<1> QED
  BY <1>1, <1>2, <1>3 DEF MarkExited, SameOwner, ProcessRecord, States, ExitCodes

(* SYS_MMAP adds pages that were free to the caller and to nobody else. *)
LEMMA MmapEffect ==
  ASSUME CInv, NEW n \in MmapSizes, sys_mmap(n)
  PROVE  /\ g_current \in Slot
         /\ g_processes' \in [Slot -> ProcessRecord]
         /\ \A s \in Slot \ {g_current} : g_processes'[s] = g_processes[s]
         /\ g_processes'[g_current].pid = g_processes[g_current].pid
         /\ g_processes'[g_current].state = g_processes[g_current].state
         /\ g_processes'[g_current].page_table = g_processes[g_current].page_table
         /\ \E run, table \in SUBSET Page :
              /\ run \cap pmm = {} /\ table \cap pmm = {} /\ run \cap table = {}
              /\ pmm' = pmm \cup run \cup table
              /\ g_processes'[g_current].tables = g_processes[g_current].tables \cup table
              /\ \/ /\ run = {}
                    /\ g_processes'[g_current].regions = g_processes[g_current].regions
                 \/ g_processes'[g_current].regions = g_processes[g_current].regions \cup {run}
<1>1. /\ g_processes \in [Slot -> ProcessRecord] /\ g_current \in Slot
      /\ pmm \in SUBSET Page
  BY DEF sys_mmap, CInv, TypeOK, ControlInv
<1>2. PICK b \in Page, t \in Page \cup {NoPage} :
       \E regions \in {{}, {Run(b, n)}} :
       /\ pmm_alloc_pages(pmm, n, b)
       /\ t # NoPage => pmm_alloc_page(pmm \cup Run(b, n), t)
       /\ g_processes' = [g_processes EXCEPT
                            ![g_current].regions = @ \cup regions,
                            ![g_current].tables = @ \cup ({t} \ {NoPage})]
       /\ pmm' = pmm \cup (UNION regions) \cup ({t} \ {NoPage})
  BY DEF sys_mmap
<1>3. PICK added \in {{}, {Run(b, n)}}, table \in {{t} \ {NoPage}} :
       /\ g_processes' = [g_processes EXCEPT ![g_current].regions = @ \cup added,
                                             ![g_current].tables = @ \cup table]
       /\ pmm' = pmm \cup (UNION added) \cup table
  BY <1>2
<1> DEFINE run == UNION added
<1>4. /\ run \in SUBSET Page /\ run \cap pmm = {} /\ run \subseteq Run(b, n)
      /\ added \in SUBSET SUBSET Page
  BY <1>2, AllocRun
<1>5. t # NoPage => t \in Page /\ t \notin pmm /\ t \notin Run(b, n)
  BY <1>2, AllocPage
<1>6. table \in SUBSET Page /\ table \cap pmm = {} /\ run \cap table = {}
  BY <1>4, <1>5
<1>7. pmm' = pmm \cup run \cup table
  BY <1>3
<1>8. \/ run = {} /\ added = {}
      \/ added = {run}
  <2>1. CASE added = {}
    BY <2>1
  <2>2. CASE added = {Run(b, n)}
    BY <2>2, UNION added = Run(b, n)
  <2> QED
    BY <2>1, <2>2
<1> HIDE DEF run
<1>9. /\ \A s \in Slot \ {g_current} : g_processes'[s] = g_processes[s]
      /\ g_processes'[g_current] =
           [g_processes[g_current] EXCEPT !.regions = @ \cup added, !.tables = @ \cup table]
      /\ g_processes' = [s \in Slot |-> g_processes'[s]]
  BY <1>1, <1>3 DEF ProcessRecord
<1>10. /\ g_processes'[g_current].regions = g_processes[g_current].regions \cup added
       /\ g_processes'[g_current].tables = g_processes[g_current].tables \cup table
       /\ g_processes'[g_current].pid = g_processes[g_current].pid
       /\ g_processes'[g_current].state = g_processes[g_current].state
       /\ g_processes'[g_current].page_table = g_processes[g_current].page_table
  BY <1>1, <1>9 DEF ProcessRecord
<1>11. g_processes' \in [Slot -> ProcessRecord]
  <2> DEFINE regions == g_processes[g_current].regions \cup added
             tables == g_processes[g_current].tables \cup table
  <2>1. /\ g_processes[g_current] \in ProcessRecord
        /\ regions \in SUBSET SUBSET Page /\ tables \in SUBSET Page
    BY <1>1, <1>4, <1>6 DEF ProcessRecord
  <2>2. g_processes'[g_current] =
          [g_processes[g_current] EXCEPT !.regions = regions, !.tables = tables]
    BY <1>9, <2>1
  <2> HIDE DEF regions, tables
  <2>3. [g_processes[g_current] EXCEPT !.regions = regions, !.tables = tables]
          \in ProcessRecord
    BY <2>1, OwnerType
  <2> QED
    BY <1>1, <1>9, <2>2, <2>3
<1>12. \/ /\ run = {}
          /\ g_processes'[g_current].regions = g_processes[g_current].regions
       \/ g_processes'[g_current].regions = g_processes[g_current].regions \cup {run}
  BY <1>8, <1>10
<1> QED
  BY <1>1, <1>4, <1>6, <1>7, <1>9, <1>10, <1>11, <1>12

(* SYS_MUNMAP takes one region from the caller. *)
LEMMA MunmapEffect ==
  ASSUME CInv, NEW r, sys_munmap(r)
  PROVE  /\ g_current \in Slot
         /\ g_processes' \in [Slot -> ProcessRecord]
         /\ \A s \in Slot \ {g_current} : g_processes'[s] = g_processes[s]
         /\ g_processes'[g_current].pid = g_processes[g_current].pid
         /\ g_processes'[g_current].state = g_processes[g_current].state
         /\ g_processes'[g_current].page_table = g_processes[g_current].page_table
         /\ g_processes'[g_current].tables = g_processes[g_current].tables
         /\ r \in g_processes[g_current].regions
         /\ g_processes'[g_current].regions = g_processes[g_current].regions \ {r}
         /\ pmm' = pmm \ r
<1>1. /\ g_processes \in [Slot -> ProcessRecord] /\ g_current \in Slot
  BY DEF sys_munmap, CInv, TypeOK, ControlInv
<1> QED
  BY <1>1 DEF sys_munmap, RegionsWithout, ProcessRecord, pmm_free

(* The loaded process takes over the hierarchy and the storage. *)
LEMMA MapEffect ==
  ASSUME CInv, at = "map", NEW b \in Page,
         g_processes' = [g_processes EXCEPT ![load.slot] = Loaded({b})]
  PROVE  /\ load.slot \in Slot
         /\ g_processes' \in [Slot -> ProcessRecord]
         /\ \A s \in Slot \ {load.slot} : g_processes'[s] = g_processes[s]
         /\ g_processes'[load.slot].pid = g_processes[load.slot].pid
         /\ g_processes'[load.slot].parent_pid = g_processes[load.slot].parent_pid
         /\ g_processes'[load.slot].state = g_processes[load.slot].state
         /\ g_processes'[load.slot].page_table = load.root
         /\ g_processes'[load.slot].tables = load.pgd \cup {b}
         /\ g_processes'[load.slot].regions = {load.image, load.stack}
<1>1. /\ g_processes \in [Slot -> ProcessRecord] /\ load.slot \in Slot
      /\ load.root \in Page \cup {NoPage} /\ load.pgd \in SUBSET Page
      /\ load.image \in SUBSET Page /\ load.stack \in SUBSET Page
  BY DEF CInv, TypeOK, LoaderInv, LoadPoints, Locals
<1>2. Loaded({b}) \in ProcessRecord
  <2>1. /\ load.pgd \cup {b} \in SUBSET Page
        /\ {load.image, load.stack} \in SUBSET SUBSET Page
        /\ g_processes[load.slot] \in ProcessRecord
    BY <1>1
  <2> QED
    BY <1>1, <2>1, LoadedType DEF Loaded
<1>3. /\ Loaded({b}).pid = g_processes[load.slot].pid
      /\ Loaded({b}).parent_pid = g_processes[load.slot].parent_pid
      /\ Loaded({b}).state = g_processes[load.slot].state
      /\ Loaded({b}).page_table = load.root
      /\ Loaded({b}).tables = load.pgd \cup {b}
      /\ Loaded({b}).regions = {load.image, load.stack}
  BY <1>1 DEF Loaded, ProcessRecord
<1> QED
  BY <1>1, <1>2, <1>3
-----------------------------------------------------------------------------
(* The control layer: one lemma per action *)

(* Nothing the control layer looks at changes. *)
LEMMA CSame ==
  ASSUME CInv, UNCHANGED <<g_processes, g_current, pmm, ttbr0, at, load, panel>>,
         g_process_count' \in Nat, g_next_spawn_pid' \in Pid,
         holders' \in SUBSET Pid, attempts' \in Nat
  PROVE  CInv'
BY DEF CInv, TypeOK, SlotsInv, SlotInv, ControlInv, LoaderInv

(* A switch keeps what the slots in use have. *)
LEMMA SwitchSlots ==
  ASSUME CInv, at = "el0", UNCHANGED load, NEW next \in Slot, Switch(next),
         g_processes'[g_current].state # "UNUSED"
  PROVE  SlotsInv'
<1> SUFFICES ASSUME NEW s \in Slot PROVE SlotInv(s)'
  BY DEF SlotsInv
<1>1. g_current \in Slot /\ g_processes[g_current].state = "RUNNING"
  BY DEF CInv, ControlInv
<1>2. CASE s \notin {next, g_current}
  BY <1>2 DEF Switch, CInv, SlotsInv, SlotInv
<1>3. CASE s \in {next, g_current}
  <2>1. g_processes[s].state # "UNUSED" /\ g_processes'[s].state # "UNUSED"
    BY <1>1, <1>3 DEF Switch
  <2>2. SameOwner(s)
    BY DEF Switch
  <2> QED
    BY <2>1, <2>2 DEF SameOwner, CInv, SlotsInv, SlotInv
<1> QED
  BY <1>2, <1>3

(* Preemption by the timer or by SYS_YIELD. *)
LEMMA CPreempt == CInv /\ Preempt => CInv'
<1> SUFFICES ASSUME CInv, Preempt PROVE CInv'
  OBVIOUS
<1>a. CASE UNCHANGED vars
  BY <1>a, CSame DEF vars, CInv, TypeOK
<1>b. CASE ~UNCHANGED vars
  <2>1. PICK next \in Slot : Switch(next)
    BY <1>b, PreemptEffect
  <2>2. /\ g_processes' \in [Slot -> ProcessRecord]
        /\ g_processes'[g_current].state = "READY"
    BY <1>b, PreemptEffect
  <2>3. at = "el0" /\ UNCHANGED <<at, load, panel>> /\ load = NoLoad /\ panel \in Slot
    BY DEF Preempt, CInv, ControlInv
  <2>4. TypeOK'
    BY <2>1, <2>2 DEF Preempt, CInv, TypeOK, Switch, ProcessRecord
  <2>5. SlotsInv'
    BY <2>1, <2>2, <2>3, SwitchSlots
  <2>6. ControlInv'
    BY <2>1, <2>2, <2>3 DEF CInv, ControlInv, Switch
  <2>7. LoaderInv'
    BY <2>3 DEF LoaderInv, LoadPoints
  <2> QED
    BY <2>4, <2>5, <2>6, <2>7 DEF CInv
<1> QED
  BY <1>a, <1>b

(* SYS_EXIT and user faults. *)
LEMMA CLeave == ASSUME NEW code \in ExitCodes PROVE CInv /\ Leave(code) => CInv'
<1> SUFFICES ASSUME CInv, Leave(code) PROVE CInv'
  OBVIOUS
<1>1. /\ g_processes' \in [Slot -> ProcessRecord] /\ g_current \in Slot
      /\ g_processes'[g_current].state = "ZOMBIE"
  BY LeaveEffect
<1>2. at = "el0" /\ UNCHANGED <<load, panel>> /\ load = NoLoad /\ panel \in Slot
  BY DEF Leave, CInv, ControlInv
<1>3. holders' \in SUBSET Pid
  BY DEF Leave, HoldersWithout, CInv, TypeOK
<1>a. CASE at' = at /\ \E next \in Slot : Switch(next)
  <2>1. PICK next \in Slot : Switch(next)
    BY <1>a
  <2>2. TypeOK'
    BY <1>1, <1>3, <1>a, <2>1 DEF Leave, CInv, TypeOK, Switch, ProcessRecord
  <2>3. SlotsInv'
    BY <1>1, <1>2, <2>1, SwitchSlots
  <2>4. ControlInv'
    BY <1>1, <1>2, <1>a, <2>1 DEF CInv, ControlInv, Switch
  <2>5. LoaderInv'
    BY <1>2, <1>a DEF LoaderInv, LoadPoints
  <2> QED
    BY <2>2, <2>3, <2>4, <2>5 DEF CInv
<1>b. CASE /\ at' = "returned" /\ UNCHANGED <<g_current, ttbr0>>
           /\ \A s \in Slot \ {g_current} :
                /\ g_processes'[s] = g_processes[s]
                /\ g_processes[s].state # "READY"
           /\ SameOwner(g_current)
  <2>2. TypeOK'
    BY <1>1, <1>3, <1>b DEF Leave, CInv, TypeOK, ControlPoints
  <2>3. SlotsInv'
    BY <1>1, <1>2, <1>b DEF CInv, SlotsInv, SlotInv, ControlInv, SameOwner, EmptySlot
  <2>4. ControlInv'
    BY <1>1, <1>2, <1>b DEF CInv, ControlInv
  <2>5. LoaderInv'
    BY <1>b DEF LoaderInv, LoadPoints
  <2> QED
    BY <2>2, <2>3, <2>4, <2>5 DEF CInv
<1> QED
  BY <1>a, <1>b, LeaveEffect

(* SYS_KILL. *)
LEMMA CKill == ASSUME NEW pid \in Pid PROVE CInv /\ sys_kill(pid) => CInv'
<1> SUFFICES ASSUME CInv, sys_kill(pid) PROVE CInv'
  OBVIOUS
<1>1. PICK victim \in Slot \ {g_current} :
           /\ g_processes[victim].state = "READY"
           /\ g_processes'[victim].state = "ZOMBIE"
           /\ SameOwner(victim)
           /\ g_processes' \in [Slot -> ProcessRecord]
           /\ \A s \in Slot \ {victim} : g_processes'[s] = g_processes[s]
  BY KillEffect
<1>2. /\ at = "el0" /\ UNCHANGED <<g_current, at, load, panel>>
      /\ load = NoLoad /\ g_current \in Slot
  BY DEF sys_kill, CInv, ControlInv
<1>3. TypeOK'
  BY <1>1 DEF sys_kill, HoldersWithout, CInv, TypeOK
<1>4. SlotsInv'
  <2> SUFFICES ASSUME NEW s \in Slot PROVE SlotInv(s)'
    BY DEF SlotsInv
  <2>1. SlotInv(s)
    BY DEF CInv, SlotsInv
  <2>2. CASE s = victim
    BY <1>1, <1>2, <2>1, <2>2 DEF SlotInv, SameOwner
  <2>3. CASE s # victim
    <3>1. g_processes'[s] = g_processes[s]
      BY <1>1, <2>3
    <3> QED
      BY <1>2, <2>1, <3>1 DEF SlotInv
  <2> QED
    BY <2>2, <2>3
<1>5. ControlInv'
  BY <1>1, <1>2 DEF CInv, ControlInv
<1>6. LoaderInv'
  BY <1>2 DEF LoaderInv, LoadPoints
<1> QED
  BY <1>3, <1>4, <1>5, <1>6 DEF CInv

(* A change of what the current process owns, its root and its first       *)
(* tables apart.                                                           *)
LEMMA COwns ==
  ASSUME CInv, at = "el0",
         UNCHANGED <<g_current, g_process_count, g_next_spawn_pid, ttbr0, holders,
                     at, load, panel, attempts>>,
         pmm' \in SUBSET Page,
         g_processes' \in [Slot -> ProcessRecord],
         \A s \in Slot \ {g_current} : g_processes'[s] = g_processes[s],
         g_processes'[g_current].pid = g_processes[g_current].pid,
         g_processes'[g_current].state = g_processes[g_current].state,
         g_processes'[g_current].page_table = g_processes[g_current].page_table,
         g_processes[g_current].tables \subseteq g_processes'[g_current].tables
  PROVE  CInv'
<1>1. g_current \in Slot /\ g_processes[g_current].state = "RUNNING"
  BY DEF CInv, ControlInv
<1>2. TypeOK'
  BY DEF CInv, TypeOK
<1>3. SlotsInv'
  BY <1>1 DEF CInv, SlotsInv, SlotInv
<1>4. ControlInv'
  BY <1>1 DEF CInv, ControlInv
<1>5. LoaderInv'
  BY DEF LoaderInv, LoadPoints
<1> QED
  BY <1>2, <1>3, <1>4, <1>5 DEF CInv

(* SYS_MMAP. *)
LEMMA CMmap == ASSUME NEW n \in MmapSizes PROVE CInv /\ sys_mmap(n) => CInv'
<1> SUFFICES ASSUME CInv, sys_mmap(n) PROVE CInv'
  OBVIOUS
<1>1. /\ at = "el0"
      /\ UNCHANGED <<g_current, g_process_count, g_next_spawn_pid, ttbr0, holders,
                     at, load, panel, attempts>>
  BY DEF sys_mmap
<1>2. /\ g_processes' \in [Slot -> ProcessRecord]
      /\ \A s \in Slot \ {g_current} : g_processes'[s] = g_processes[s]
      /\ g_processes'[g_current].pid = g_processes[g_current].pid
      /\ g_processes'[g_current].state = g_processes[g_current].state
      /\ g_processes'[g_current].page_table = g_processes[g_current].page_table
  BY MmapEffect
<1>3. PICK run \in SUBSET Page, table \in SUBSET Page :
        /\ pmm' = pmm \cup run \cup table
        /\ g_processes'[g_current].tables = g_processes[g_current].tables \cup table
  BY MmapEffect
<1>4. pmm' \in SUBSET Page
  BY <1>3 DEF CInv, TypeOK
<1> QED
  BY <1>1, <1>2, <1>3, <1>4, COwns

(* SYS_MUNMAP. *)
LEMMA CMunmap == ASSUME NEW r PROVE CInv /\ sys_munmap(r) => CInv'
<1> SUFFICES ASSUME CInv, sys_munmap(r) PROVE CInv'
  OBVIOUS
<1>1. /\ at = "el0"
      /\ UNCHANGED <<g_current, g_process_count, g_next_spawn_pid, ttbr0, holders,
                     at, load, panel, attempts>>
  BY DEF sys_munmap
<1>2. pmm' \in SUBSET Page
  BY MunmapEffect DEF CInv, TypeOK
<1> QED
  BY <1>1, <1>2, MunmapEffect, COwns

(* process_release keeps the types of what it changes. *)
LEMMA ReleaseType ==
  ASSUME TypeOK, NEW S, NEW more, process_release(S, more)
  PROVE  /\ g_processes' \in [Slot -> ProcessRecord]
         /\ pmm' \in SUBSET Page
         /\ g_current' \in Slot \cup {NoSlot}
         /\ g_process_count' \in Nat
<1>1. g_processes' \in [Slot -> ProcessRecord]
  BY ReleasedType DEF process_release
<1>2. pmm' \in SUBSET Page /\ g_current' \in Slot \cup {NoSlot}
  BY DEF process_release, pmm_free, CurrentAfter, TypeOK
<1>4. g_process_count' \in Nat
  BY CountType DEF process_release
<1> QED
  BY <1>1, <1>2, <1>4

(* SYS_WAIT. *)
LEMMA CWait == ASSUME NEW pid \in Pid PROVE CInv /\ sys_wait(pid) => CInv'
<1> SUFFICES ASSUME CInv, sys_wait(pid) PROVE CInv'
  OBVIOUS
<1>1. PICK child \in Slot \ {g_current} :
        /\ g_processes[child].state = "ZOMBIE" /\ process_release({child}, {})
  BY DEF sys_wait, process_find, MayReap
<1>2. /\ at = "el0" /\ UNCHANGED <<at, load, panel>>
      /\ load = NoLoad /\ g_current \in Slot /\ g_current' = g_current
  BY <1>1 DEF sys_wait, CInv, ControlInv, process_release, CurrentAfter
<1>3. /\ g_processes' \in [Slot -> ProcessRecord] /\ g_processes'[child] = EmptySlot
      /\ \A s \in Slot \ {child} : g_processes'[s] = g_processes[s]
  BY <1>1, Empties DEF process_release, Released, CInv, TypeOK
<1>5. TypeOK'
  BY <1>1, ReleaseType DEF sys_wait, CInv, TypeOK
<1>6. SlotsInv'
  <2> SUFFICES ASSUME NEW s \in Slot PROVE SlotInv(s)'
    BY DEF SlotsInv
  <2>1. CASE s = child
    BY <1>3, <2>1, EmptySound
  <2>2. CASE s # child
    BY <1>2, <1>3, <2>2, SlotKept DEF CInv
  <2> QED
    BY <2>1, <2>2
<1>7. ControlInv'
  BY <1>1, <1>2, <1>3 DEF CInv, ControlInv, EmptySlot
<1>8. LoaderInv'
  BY <1>2 DEF LoaderInv, LoadPoints
<1> QED
  BY <1>5, <1>6, <1>7, <1>8 DEF CInv

(* Taking a slot, after the zombies that may go have gone. *)
LEMMA AllocEffect ==
  ASSUME CInv, NEW pid \in Pid, NEW parent \in Pid, NEW state \in States, NEW full,
         AllocAfterReclaim(pid, parent, state, full)
  PROVE  /\ g_processes' \in [Slot -> ProcessRecord]
         /\ pmm' \in SUBSET Page /\ pmm' = pmm \ FreedPages(Reclaimable)
         /\ g_process_count' \in Nat
         /\ g_current \notin Reclaimable => g_current' = g_current
         /\ \/ /\ at' = full /\ load' = load
               /\ g_processes' = Released(Reclaimable)
            \/ /\ at' = "image"
               /\ load'.slot \in Slot /\ load' = [NoLoad EXCEPT !.slot = load'.slot]
               /\ process_alloc(Released(Reclaimable), pid, load'.slot)
               /\ g_processes'[load'.slot] = NewProcess(pid, parent, state)
               /\ \A s \in Slot \ {load'.slot} :
                    g_processes'[s] = Released(Reclaimable)[s]
<1>1. Released(Reclaimable) \in [Slot -> ProcessRecord]
  BY ReleasedType DEF CInv
<1>2. NewProcess(pid, parent, state) \in ProcessRecord
  BY Empties DEF NewProcess, ProcessRecord, EmptySlot
<1>3. CountAfter(Reclaimable) \in Nat
  BY CountType DEF CInv
<1>4. pmm' = pmm \ FreedPages(Reclaimable) /\ pmm' \in SUBSET Page
  BY DEF AllocAfterReclaim, pmm_free, CInv, TypeOK
<1>5. g_current \notin Reclaimable => g_current' = g_current
  BY DEF AllocAfterReclaim, CurrentAfter
<1>a. CASE /\ at' = full /\ load' = load
           /\ g_processes' = Released(Reclaimable)
           /\ g_process_count' = CountAfter(Reclaimable)
  BY <1>1, <1>3, <1>4, <1>5, <1>a
<1>b. ASSUME NEW s \in Slot,
             process_alloc(Released(Reclaimable), pid, s),
             g_processes' = [Released(Reclaimable) EXCEPT
                               ![s] = NewProcess(pid, parent, state)],
             g_process_count' = CountAfter(Reclaimable) + 1,
             load' = [NoLoad EXCEPT !.slot = s],
             at' = "image"
      PROVE  /\ g_processes' \in [Slot -> ProcessRecord]
             /\ g_process_count' \in Nat
             /\ load'.slot = s
             /\ g_processes'[s] = NewProcess(pid, parent, state)
             /\ \A t \in Slot \ {s} : g_processes'[t] = Released(Reclaimable)[t]
  <2>1. load'.slot = s
    BY <1>b DEF NoLoad
  <2> QED
    BY <1>1, <1>2, <1>3, <1>b, <2>1
<1>6. \/ /\ at' = full /\ load' = load
         /\ g_processes' = Released(Reclaimable)
         /\ g_process_count' = CountAfter(Reclaimable)
      \/ \E s \in Slot :
           /\ process_alloc(Released(Reclaimable), pid, s)
           /\ g_processes' = [Released(Reclaimable) EXCEPT
                                ![s] = NewProcess(pid, parent, state)]
           /\ g_process_count' = CountAfter(Reclaimable) + 1
           /\ load' = [NoLoad EXCEPT !.slot = s]
           /\ at' = "image"
  BY DEF AllocAfterReclaim
<1> QED
  BY <1>4, <1>5, <1>6, <1>a, <1>b

(* The slot that was taken, field by field. *)
LEMMA NewProcessFields ==
  ASSUME NEW pid, NEW parent, NEW state
  PROVE  LET p == NewProcess(pid, parent, state) IN
         /\ p.pid = pid /\ p.parent_pid = parent /\ p.state = state
         /\ p.page_table = NoPage /\ p.tables = {} /\ p.regions = {}
BY DEF NewProcess, EmptySlot

(* The locals when loading starts. *)
LEMMA NewLoadFields ==
  ASSUME NEW s \in Slot
  PROVE  LET l == [NoLoad EXCEPT !.slot = s] IN
         /\ l \in Locals /\ l.slot = s /\ l.image = {} /\ l.stack = {}
         /\ l.pgd = {} /\ l.root = NoPage
BY DEF NoLoad, Locals

(* SYS_SPAWN up to the slot. *)
LEMMA CSpawn == CInv /\ app_spawn_vfs => CInv'
<1> SUFFICES ASSUME CInv, app_spawn_vfs PROVE CInv'
  OBVIOUS
<1> DEFINE pid == g_next_spawn_pid
           parent == g_processes[g_current].pid
<1>1. /\ at = "el0" /\ g_current \in Slot /\ load = NoLoad /\ panel \in Slot
      /\ g_processes[g_current].state = "RUNNING"
      /\ UNCHANGED <<ttbr0, holders, panel, attempts>>
      /\ g_processes \in [Slot -> ProcessRecord]
  BY DEF app_spawn_vfs, CInv, ControlInv, TypeOK
<1>2. pid \in Pid /\ parent \in Pid /\ "BLOCKED" \in States
  BY <1>1 DEF CInv, TypeOK, ProcessRecord, States
<1>3. AllocAfterReclaim(pid, parent, "BLOCKED", "el0")
  BY DEF app_spawn_vfs
<1>4. g_next_spawn_pid' \in Pid
  BY <1>2, ProcessAssumption DEF app_spawn_vfs, SpawnPidAfter, Pid
<1>5. g_current \notin Reclaimable
  BY <1>1, ReclaimedZombies
<1> HIDE DEF pid, parent
<1>6. /\ g_processes' \in [Slot -> ProcessRecord] /\ pmm' \in SUBSET Page
      /\ g_process_count' \in Nat /\ g_current' = g_current
  BY <1>2, <1>3, <1>5, AllocEffect
<1>7. \A s \in Slot : Released(Reclaimable)[s] = g_processes[s] \/
                      /\ Released(Reclaimable)[s] = EmptySlot
                      /\ s # g_current
  BY <1>5 DEF Released
<1>a. CASE /\ at' = "el0" /\ load' = load /\ g_processes' = Released(Reclaimable)
  <2>1. TypeOK'
    BY <1>1, <1>4, <1>6, <1>a DEF CInv, TypeOK
  <2>2. SlotsInv'
    <3> SUFFICES ASSUME NEW s \in Slot PROVE SlotInv(s)'
      BY DEF SlotsInv
    <3>1. CASE g_processes'[s] = g_processes[s]
      BY <1>a, <3>1 DEF CInv, SlotsInv, SlotInv
    <3>2. CASE g_processes'[s] = EmptySlot
      BY <3>2, EmptySound
    <3> QED
      BY <1>7, <1>a, <3>1, <3>2
  <2>3. ControlInv'
    BY <1>1, <1>6, <1>7, <1>a DEF CInv, ControlInv, EmptySlot
  <2>4. LoaderInv'
    BY <1>a DEF LoaderInv, LoadPoints
  <2> QED
    BY <2>1, <2>2, <2>3, <2>4 DEF CInv
<1>b. ASSUME NEW s \in Slot, at' = "image", load' = [NoLoad EXCEPT !.slot = s],
             process_alloc(Released(Reclaimable), pid, s),
             g_processes'[s] = NewProcess(pid, parent, "BLOCKED"),
             \A t \in Slot \ {s} : g_processes'[t] = Released(Reclaimable)[t]
      PROVE  CInv'
  <2>1. /\ load' \in Locals /\ load'.slot = s /\ load'.image = {}
        /\ load'.stack = {} /\ load'.pgd = {}
    BY <1>b, NewLoadFields
  <2>2. s # g_current /\ pid # 0
    BY <1>1, <1>5, <1>b DEF process_alloc, Released
  <2>3. /\ g_processes'[s].pid = pid /\ g_processes'[s].state = "BLOCKED"
        /\ g_processes'[s].page_table = NoPage /\ g_processes'[s].tables = {}
        /\ g_processes'[s].regions = {}
    BY <1>b, NewProcessFields
  <2>4. TypeOK'
    BY <1>1, <1>4, <1>6, <1>b, <2>1 DEF CInv, TypeOK, ControlPoints
  <2>5. SlotsInv'
    <3> SUFFICES ASSUME NEW t \in Slot PROVE SlotInv(t)'
      BY DEF SlotsInv
    <3>1. CASE t = s
      BY <2>1, <2>2, <2>3, <3>1 DEF SlotInv
    <3>2. CASE t # s /\ g_processes'[t] = g_processes[t]
      BY <1>1, <2>1, <3>2, Slots DEF CInv, SlotsInv, SlotInv, NoLoad
    <3>3. CASE g_processes'[t] = EmptySlot
      BY <3>3, EmptySound
    <3> QED
      BY <1>7, <1>b, <3>1, <3>2, <3>3
  <2>6. ControlInv'
    BY <1>b DEF ControlInv
  <2>7. LoaderInv'
    <3>1. \A t \in Slot \ {s, g_current} :
            g_processes'[t].state \in {"UNUSED", "READY", "ZOMBIE"}
      BY <1>1, <1>7, <1>b DEF CInv, ControlInv, EmptySlot
    <3>2. g_processes'[g_current].state = "RUNNING" /\ g_current # NoSlot
      BY <1>1, <1>7, <1>b, <2>2, Slots
    <3> QED
      BY <1>1, <1>6, <1>b, <2>1, <2>2, <2>3, <3>1, <3>2 DEF LoaderInv
  <2> QED
    BY <2>4, <2>5, <2>6, <2>7 DEF CInv
<1> QED
  BY <1>2, <1>3, <1>a, <1>b, AllocEffect

(* The launch of the panel up to the slot. *)
LEMMA CPanelBoot == CInv /\ panel_boot_run => CInv'
<1> SUFFICES ASSUME CInv, panel_boot_run PROVE CInv'
  OBVIOUS
<1> DEFINE full == IF attempts + 1 >= MaxAttempts THEN "console" ELSE "boot"
<1>1. /\ at = "boot" /\ g_current = NoSlot /\ load = NoLoad
      /\ \A s \in Slot : g_processes[s].state = "UNUSED"
      /\ UNCHANGED <<ttbr0, holders, panel>>
      /\ g_processes \in [Slot -> ProcessRecord]
  BY DEF panel_boot_run, CInv, ControlInv, TypeOK
<1>2. PanelPid \in Pid /\ 0 \in Pid /\ "READY" \in States /\ PanelPid # 0
  BY Slots DEF States, PanelPid
<1>3. AllocAfterReclaim(PanelPid, 0, "READY", full)
  BY DEF panel_boot_run
<1>4. g_next_spawn_pid' \in Pid /\ attempts' \in Nat
  BY Slots DEF panel_boot_run, CInv, TypeOK
<1>5. Reclaimable = {} /\ full \in {"boot", "console"}
  BY <1>1, ReclaimedZombies
<1> HIDE DEF full
<1>6. /\ g_processes' \in [Slot -> ProcessRecord] /\ pmm' \in SUBSET Page
      /\ g_process_count' \in Nat /\ g_current' = g_current
  BY <1>2, <1>3, <1>5, AllocEffect
<1>7. \A s \in Slot : Released(Reclaimable)[s] = g_processes[s]
  BY <1>5 DEF Released
<1>a. CASE /\ at' = full /\ load' = load /\ g_processes' = Released(Reclaimable)
  <2>1. TypeOK'
    BY <1>1, <1>4, <1>5, <1>6, <1>a DEF CInv, TypeOK, ControlPoints
  <2>2. SlotsInv'
    BY <1>7, <1>a DEF CInv, SlotsInv, SlotInv
  <2>3. ControlInv'
    BY <1>1, <1>5, <1>6, <1>7, <1>a DEF ControlInv
  <2>4. LoaderInv'
    BY <1>5, <1>a DEF LoaderInv, LoadPoints
  <2> QED
    BY <2>1, <2>2, <2>3, <2>4 DEF CInv
<1>b. ASSUME NEW s \in Slot, at' = "image", load' = [NoLoad EXCEPT !.slot = s],
             g_processes'[s] = NewProcess(PanelPid, 0, "READY"),
             \A t \in Slot \ {s} : g_processes'[t] = Released(Reclaimable)[t]
      PROVE  CInv'
  <2>1. /\ load' \in Locals /\ load'.slot = s /\ load'.image = {}
        /\ load'.stack = {} /\ load'.pgd = {}
    BY <1>b, NewLoadFields
  <2>3. /\ g_processes'[s].pid = PanelPid /\ g_processes'[s].state = "READY"
        /\ g_processes'[s].page_table = NoPage /\ g_processes'[s].tables = {}
        /\ g_processes'[s].regions = {}
    BY <1>b, NewProcessFields
  <2>4. TypeOK'
    BY <1>1, <1>4, <1>6, <1>b, <2>1 DEF CInv, TypeOK, ControlPoints
  <2>5. SlotsInv'
    <3> SUFFICES ASSUME NEW t \in Slot PROVE SlotInv(t)'
      BY DEF SlotsInv
    <3>1. CASE t = s
      BY <1>2, <2>1, <2>3, <3>1 DEF SlotInv
    <3>2. CASE t # s
      BY <1>1, <1>7, <1>b, <3>2 DEF CInv, SlotsInv, SlotInv
    <3> QED
      BY <3>1, <3>2
  <2>6. ControlInv'
    BY <1>b DEF ControlInv
  <2>7. LoaderInv'
    BY <1>1, <1>6, <1>7, <1>b, <2>1, <2>3 DEF LoaderInv
  <2> QED
    BY <2>4, <2>5, <2>6, <2>7 DEF CInv
<1> QED
  BY <1>2, <1>3, <1>a, <1>b, AllocEffect

(* Giving up on a launch. *)
LEMMA CLoadFails ==
  ASSUME CInv, at \in LoadPoints, NEW storage, LoadFails(storage)
  PROVE  CInv'
<1>1. /\ load.slot \in Slot /\ g_current # load.slot
      /\ process_release({load.slot}, storage)
      /\ load' = NoLoad /\ UNCHANGED <<g_next_spawn_pid, ttbr0, holders, panel, attempts>>
  BY Slots DEF LoadFails, CInv, LoaderInv
<1>2. /\ g_processes' \in [Slot -> ProcessRecord] /\ g_processes'[load.slot] = EmptySlot
      /\ \A s \in Slot \ {load.slot} : g_processes'[s] = g_processes[s]
      /\ g_current' = g_current
  BY <1>1, Empties DEF process_release, Released, CurrentAfter, CInv, TypeOK
<1>3. TypeOK'
  <2>1. at' \in ControlPoints
    BY DEF LoadFails, ControlPoints, Recover
  <2> QED
    BY <1>1, <2>1, ReleaseType, Empties DEF CInv, TypeOK
<1>4. SlotsInv'
  <2> SUFFICES ASSUME NEW s \in Slot PROVE SlotInv(s)'
    BY DEF SlotsInv
  <2>1. CASE s = load.slot
    BY <1>2, <2>1, EmptySound
  <2>2. CASE s # load.slot
    BY <1>2, <2>2 DEF CInv, SlotsInv, SlotInv
  <2> QED
    BY <2>1, <2>2
<1>5. ControlInv'
  <2>1. CASE g_current = NoSlot
    <3>1. at' \in {"boot", "console"}
      BY <2>1 DEF LoadFails, Recover
    <3>2. \A s \in Slot : g_processes'[s].state = "UNUSED"
      <4>1. g_processes'[load.slot].state = "UNUSED"
        BY <1>2, EmptyFields
      <4>2. \A s \in Slot \ {load.slot} : g_processes[s].state = "UNUSED"
        BY <2>1 DEF CInv, LoaderInv
      <4> QED
        BY <1>2, <4>1, <4>2
    <3> QED
      BY <1>1, <1>2, <2>1, <3>1, <3>2 DEF ControlInv
  <2>2. CASE g_current # NoSlot
    <3>1. at' = "el0" /\ panel' \in Slot /\ g_current' \in Slot
      BY <1>1, <1>2, <2>2 DEF LoadFails, CInv, LoaderInv, TypeOK
    <3>2. \A s \in Slot : IF s = g_current
                          THEN g_processes'[s].state = "RUNNING"
                          ELSE g_processes'[s].state \in {"UNUSED", "READY", "ZOMBIE"}
      <4>1. g_processes'[load.slot].state = "UNUSED"
        BY <1>2, EmptyFields
      <4>2. /\ g_processes[g_current].state = "RUNNING"
            /\ \A s \in Slot \ {load.slot, g_current} :
                 g_processes[s].state \in {"UNUSED", "READY", "ZOMBIE"}
        BY <2>2 DEF CInv, LoaderInv
      <4>3. ASSUME NEW s \in Slot, s # load.slot PROVE g_processes'[s].state = g_processes[s].state
        BY <1>2, <4>3
      <4> QED
        BY <1>1, <4>1, <4>2, <4>3
    <3> QED
      BY <1>1, <1>2, <3>1, <3>2 DEF ControlInv
  <2> QED
    BY <2>1, <2>2
<1>6. LoaderInv'
  BY DEF LoadFails, Recover, LoaderInv, LoadPoints
<1> QED
  BY <1>3, <1>4, <1>5, <1>6 DEF CInv

(* A step of the loader that only fills locals. *)
LEMMA CLoadSteps ==
  ASSUME CInv, at \in LoadPoints \ {"argv"}, UNCHANGED g_processes,
         NEW pages \in SUBSET Page, NEW locals \in Locals,
         NEW next \in LoadPoints \ {"argv"},
         LoadSteps(pages, locals, next),
         locals.slot = load.slot,
         next = "image" => locals.image = {},
         next \in {"image", "stack"} => locals.stack = {},
         next \in {"image", "stack", "table"} => locals.pgd = {},
         next \in {"identity", "map"} => locals.root \in locals.pgd
  PROVE  CInv'
<1>1. /\ load' = locals /\ at' = next /\ pmm' = pmm \cup pages
      /\ UNCHANGED <<g_current, g_process_count, g_next_spawn_pid, ttbr0,
                     holders, panel, attempts>>
  BY DEF LoadSteps
<1>2. TypeOK'
  BY <1>1 DEF CInv, TypeOK, ControlPoints, LoadPoints
<1>3. SlotsInv'
  BY <1>1 DEF CInv, SlotsInv, SlotInv
<1>4. ControlInv'
  BY <1>1 DEF ControlInv, LoadPoints
<1>5. LoaderInv'
  BY <1>1 DEF CInv, LoaderInv
<1> QED
  BY <1>2, <1>3, <1>4, <1>5 DEF CInv

(* The locals with one of them set. *)
LEMMA LocalsFields ==
  ASSUME NEW l \in Locals, NEW P \in SUBSET Page, NEW b \in Page
  PROVE  /\ LET m == [l EXCEPT !.image = P] IN
            /\ m \in Locals /\ m.slot = l.slot /\ m.image = P
            /\ m.stack = l.stack /\ m.root = l.root /\ m.pgd = l.pgd
         /\ LET m == [l EXCEPT !.stack = P] IN
            /\ m \in Locals /\ m.slot = l.slot /\ m.image = l.image
            /\ m.stack = P /\ m.root = l.root /\ m.pgd = l.pgd
         /\ LET m == [l EXCEPT !.root = b, !.pgd = P] IN
            /\ m \in Locals /\ m.slot = l.slot /\ m.image = l.image
            /\ m.stack = l.stack /\ m.root = b /\ m.pgd = P
         /\ LET m == [l EXCEPT !.pgd = P] IN
            /\ m \in Locals /\ m.slot = l.slot /\ m.image = l.image
            /\ m.stack = l.stack /\ m.root = l.root /\ m.pgd = P
         /\ LET m == [l EXCEPT !.image = {}, !.root = NoPage, !.pgd = {}] IN
            /\ m \in Locals /\ m.slot = l.slot /\ m.image = {}
            /\ m.stack = l.stack /\ m.root = NoPage /\ m.pgd = {}
BY DEF Locals

(* load_image, the stack, the root table, the identity map. *)
LEMMA CLoading ==
  ASSUME CInv,
         load_image \/ init_panel_process \/ vmm_new_table \/ map_kernel_identity
  PROVE  CInv'
<1>0. load \in Locals
  BY DEF CInv, TypeOK
<1>1. ASSUME NEW storage, LoadFails(storage), at \in LoadPoints PROVE CInv'
  BY <1>1, CLoadFails
<1>2. CASE load_image
  <2>1. ASSUME NEW b \in Page, pmm_alloc_pages(pmm, ImagePages, b),
               LoadSteps(Run(b, ImagePages),
                         [load EXCEPT !.image = Run(b, ImagePages)], "stack"),
               UNCHANGED g_processes
        PROVE  CInv'
    <3>1. Run(b, ImagePages) \in SUBSET Page
      BY <2>1, AllocRun
    <3>2. at = "image" /\ load.stack = {} /\ load.pgd = {}
      BY <1>2 DEF load_image, CInv, LoaderInv, LoadPoints
    <3> DEFINE m == [load EXCEPT !.image = Run(b, ImagePages)]
    <3>3. m \in Locals /\ m.slot = load.slot /\ m.stack = load.stack /\ m.pgd = load.pgd
      BY <1>0, <3>1, LocalsFields
    <3>4. LoadSteps(Run(b, ImagePages), m, "stack")
      BY <2>1
    <3> HIDE DEF m
    <3> QED
      BY <2>1, <3>1, <3>2, <3>3, <3>4, CLoadSteps DEF LoadPoints
  <2> QED
    BY <1>1, <1>2, <2>1 DEF load_image, LoadPoints
<1>3. CASE init_panel_process
  <2>1. ASSUME NEW b \in Page,
               LoadSteps({b}, [load EXCEPT !.stack = {b}], "table"),
               UNCHANGED g_processes
        PROVE  CInv'
    <3>1. {b} \in SUBSET Page
      OBVIOUS
    <3>2. at = "stack" /\ load.pgd = {}
      BY <1>3 DEF init_panel_process, CInv, LoaderInv, LoadPoints
    <3> QED
      BY ZenonT(60), <1>0, <2>1, <3>1, <3>2, LocalsFields, CLoadSteps DEF LoadPoints
  <2> QED
    BY <1>1, <1>3, <2>1 DEF init_panel_process, LoadPoints
<1>4. CASE vmm_new_table
  <2>1. ASSUME NEW b \in Page,
               LoadSteps({b}, [load EXCEPT !.root = b, !.pgd = {b}], "identity"),
               UNCHANGED g_processes
        PROVE  CInv'
    <3>1. {b} \in SUBSET Page
      OBVIOUS
    <3>2. at = "table"
      BY <1>4 DEF vmm_new_table
    <3> DEFINE m == [load EXCEPT !.root = b, !.pgd = {b}]
    <3>3. m \in Locals /\ m.slot = load.slot /\ m.root \in m.pgd
      BY <1>0, <3>1 DEF Locals
    <3>4. LoadSteps({b}, m, "identity")
      BY <2>1
    <3> HIDE DEF m
    <3> QED
      BY <2>1, <3>1, <3>2, <3>3, <3>4, CLoadSteps DEF LoadPoints
  <2> QED
    BY <1>1, <1>4, <2>1 DEF vmm_new_table, LoadPoints
<1>5. CASE map_kernel_identity
  <2>1. ASSUME NEW b \in Page,
               LoadSteps({b}, [load EXCEPT !.pgd = @ \cup {b}], "map"),
               UNCHANGED g_processes
        PROVE  CInv'
    <3>1. {b} \in SUBSET Page /\ load.pgd \cup {b} \in SUBSET Page
      BY <1>0 DEF Locals
    <3>2. at = "identity" /\ load.root \in load.pgd
      BY <1>5 DEF map_kernel_identity, CInv, LoaderInv, LoadPoints
    <3> DEFINE m == [load EXCEPT !.pgd = load.pgd \cup {b}]
    <3>3. m \in Locals /\ m.slot = load.slot /\ m.root = load.root /\ m.pgd = load.pgd \cup {b}
      BY <1>0, <3>1 DEF Locals
    <3>4. LoadSteps({b}, m, "map")
      BY <2>1
    <3> HIDE DEF m
    <3> QED
      BY <2>1, <3>1, <3>2, <3>3, <3>4, CLoadSteps DEF LoadPoints
  <2> QED
    BY <1>1, <1>5, <2>1 DEF map_kernel_identity, LoadPoints
<1> QED
  BY <1>2, <1>3, <1>4, <1>5

(* The process takes over its pages. *)
LEMMA CMap == CInv /\ create_panel_page_table => CInv'
<1> SUFFICES ASSUME CInv, create_panel_page_table PROVE CInv'
  OBVIOUS
<1>1. /\ at = "map" /\ at \in LoadPoints /\ load \in Locals /\ load.slot \in Slot
      /\ load.root \in load.pgd /\ load.pgd \in SUBSET Page
      /\ g_processes \in [Slot -> ProcessRecord]
  BY DEF create_panel_page_table, LoadPoints, CInv, TypeOK, LoaderInv, Locals
<1>a. ASSUME NEW b \in Page,
             g_processes' = [g_processes EXCEPT ![load.slot] = Loaded({b})],
             LoadSteps({b}, [load EXCEPT !.image = {}, !.root = NoPage, !.pgd = {}],
                       "argv")
      PROVE  CInv'
  <2>1. /\ g_processes' \in [Slot -> ProcessRecord]
        /\ \A s \in Slot \ {load.slot} : g_processes'[s] = g_processes[s]
        /\ g_processes'[load.slot].pid = g_processes[load.slot].pid
        /\ g_processes'[load.slot].state = g_processes[load.slot].state
        /\ g_processes'[load.slot].page_table = load.root
        /\ g_processes'[load.slot].tables = load.pgd \cup {b}
    BY <1>1, <1>a, MapEffect
  <2>2. /\ load' \in Locals /\ load'.slot = load.slot /\ load'.image = {}
        /\ load'.pgd = {} /\ at' = "argv" /\ pmm' = pmm \cup {b}
        /\ UNCHANGED <<g_current, g_process_count, g_next_spawn_pid, ttbr0,
                       holders, panel, attempts>>
    BY <1>1, <1>a DEF LoadSteps, Locals
  <2>3. load.root # NoPage
    BY <1>1, Slots
  <2>4. TypeOK'
    BY <2>1, <2>2 DEF CInv, TypeOK, ControlPoints
  <2>5. SlotsInv'
    <3> SUFFICES ASSUME NEW s \in Slot PROVE SlotInv(s)'
      BY DEF SlotsInv
    <3>1. CASE s = load.slot
      <4>1. g_processes[s].state # "UNUSED"
        BY <1>1, <3>1 DEF CInv, LoaderInv
      <4> QED
        BY <1>1, <2>1, <2>2, <3>1, <4>1 DEF CInv, SlotsInv, SlotInv
    <3>2. CASE s # load.slot
      BY <2>1, <2>2, <3>2 DEF CInv, SlotsInv, SlotInv
    <3> QED
      BY <3>1, <3>2
  <2>6. ControlInv'
    BY <2>2 DEF ControlInv
  <2>7. LoaderInv'
    <3>0. \A s \in Slot : g_processes'[s].state = g_processes[s].state
      BY <2>1
    <3>1. CASE g_current = NoSlot
      <4>1. \A s \in Slot : IF s = load.slot THEN g_processes[s].state = "READY"
                                              ELSE g_processes[s].state = "UNUSED"
        BY <1>1, <3>1 DEF CInv, LoaderInv
      <4> QED
        BY <1>1, <2>1, <2>2, <2>3, <3>0, <3>1, <4>1 DEF LoaderInv
    <3>2. CASE g_current # NoSlot
      <4>1. g_current \in Slot
        BY <3>2 DEF CInv, TypeOK
      <4>2. /\ panel \in Slot /\ g_current # load.slot
            /\ g_processes[load.slot].state = "BLOCKED"
            /\ g_processes[g_current].state = "RUNNING"
            /\ \A s \in Slot \ {load.slot, g_current} :
                 g_processes[s].state \in {"UNUSED", "READY", "ZOMBIE"}
        BY <1>1, <3>2 DEF CInv, LoaderInv
      <4> QED
        BY <1>1, <2>1, <2>2, <2>3, <3>0, <3>2, <4>1, <4>2 DEF LoaderInv
    <3> QED
      BY <3>1, <3>2
  <2> QED
    BY <2>4, <2>5, <2>6, <2>7 DEF CInv
<1>b. ASSUME NEW storage, LoadFails(storage) PROVE CInv'
  BY <1>1, <1>b, CLoadFails
<1> QED
  BY <1>a, <1>b DEF create_panel_page_table

(* The end of a spawn, and the entry of the panel: the loaded slot gets    *)
(* its final state.                                                        *)
LEMMA CSpawnDone == CInv /\ SpawnDone => CInv'
<1> SUFFICES ASSUME CInv, SpawnDone PROVE CInv'
  OBVIOUS
<1>1. /\ at = "argv" /\ at \in LoadPoints /\ load.slot \in Slot
      /\ g_current \in Slot /\ g_current # load.slot /\ panel \in Slot
      /\ g_processes \in [Slot -> ProcessRecord]
      /\ g_processes[load.slot].state = "BLOCKED"
      /\ g_processes[load.slot].page_table # NoPage
  BY DEF SpawnDone, LoadPoints, CInv, TypeOK, LoaderInv
<1>a. CASE /\ g_processes' = [g_processes EXCEPT ![load.slot].state = "READY"]
           /\ LoadSteps({}, NoLoad, "el0")
  <2>1. /\ g_processes' \in [Slot -> ProcessRecord]
        /\ g_processes'[load.slot].state = "READY" /\ SameOwner(load.slot)
        /\ \A s \in Slot \ {load.slot} : g_processes'[s] = g_processes[s]
    BY <1>1, <1>a DEF ProcessRecord, States, SameOwner
  <2>2. /\ load' = NoLoad /\ at' = "el0" /\ pmm' = pmm
        /\ UNCHANGED <<g_current, g_process_count, g_next_spawn_pid, ttbr0,
                       holders, panel, attempts>>
    BY <1>a DEF LoadSteps
  <2>3. TypeOK'
    BY <2>1, <2>2, Empties DEF CInv, TypeOK, ControlPoints
  <2>4. SlotsInv'
    <3> SUFFICES ASSUME NEW s \in Slot PROVE SlotInv(s)'
      BY DEF SlotsInv
    <3>1. SlotInv(s)
      BY DEF CInv, SlotsInv
    <3>2. CASE s = load.slot
      BY <1>1, <2>1, <3>1, <3>2 DEF SlotInv, SameOwner
    <3>3. CASE s # load.slot
      <4>1. g_processes'[s] = g_processes[s]
        BY <2>1, <3>3
      <4> QED
        BY <3>1, <3>3, <4>1 DEF SlotInv
    <3> QED
      BY <3>2, <3>3
  <2>5. ControlInv'
    BY <1>1, <2>1, <2>2, Slots DEF CInv, LoaderInv, ControlInv
  <2>6. LoaderInv'
    BY <2>2 DEF LoaderInv, LoadPoints
  <2> QED
    BY <2>3, <2>4, <2>5, <2>6 DEF CInv
<1>b. CASE LoadFails({})
  BY <1>1, <1>b, CLoadFails
<1> QED
  BY <1>a, <1>b DEF SpawnDone

(* The panel enters EL0. *)
LEMMA CPanelEnter == CInv /\ PanelEnter => CInv'
<1> SUFFICES ASSUME CInv, PanelEnter PROVE CInv'
  OBVIOUS
<1>1. /\ at = "argv" /\ load.slot \in Slot /\ g_current = NoSlot
      /\ g_processes \in [Slot -> ProcessRecord]
      /\ g_processes[load.slot].state = "READY"
      /\ g_processes[load.slot].page_table # NoPage
      /\ \A s \in Slot \ {load.slot} : g_processes[s].state = "UNUSED"
  BY DEF PanelEnter, LoadPoints, CInv, TypeOK, LoaderInv
<1>2. /\ g_processes' \in [Slot -> ProcessRecord]
      /\ g_processes'[load.slot].state = "RUNNING" /\ SameOwner(load.slot)
      /\ \A s \in Slot \ {load.slot} : g_processes'[s] = g_processes[s]
  BY <1>1 DEF PanelEnter, ProcessRecord, States, SameOwner
<1>3. /\ load' = NoLoad /\ at' = "el0" /\ panel' = load.slot
      /\ g_current' = load.slot /\ ttbr0' = g_processes[load.slot].page_table
      /\ UNCHANGED <<g_process_count, g_next_spawn_pid, pmm, holders, attempts>>
  BY <1>1 DEF PanelEnter, Activate
<1>4. TypeOK'
  BY <1>1, <1>2, <1>3, Empties DEF CInv, TypeOK, ControlPoints, ProcessRecord
<1>5. SlotsInv'
  <2> SUFFICES ASSUME NEW s \in Slot PROVE SlotInv(s)'
    BY DEF SlotsInv
  <2>1. CASE s = load.slot
    <3>1. SlotInv(s)
      BY DEF CInv, SlotsInv
    <3> QED
      BY <1>1, <1>2, <2>1, <3>1 DEF SlotInv, SameOwner
  <2>2. CASE s # load.slot
    BY <1>2, <2>2, SlotKept DEF CInv
  <2> QED
    BY <2>1, <2>2
<1>6. ControlInv'
  BY <1>1, <1>2, <1>3 DEF ControlInv
<1>7. LoaderInv'
  BY <1>3 DEF LoaderInv, LoadPoints
<1> QED
  BY <1>4, <1>5, <1>6, <1>7 DEF CInv

(* Only zombies are left when panel_boot_run goes on, and all of them go.  *)
LEMMA AllReclaimed ==
  ASSUME CInv, at = "returned"
  PROVE  \A s \in Slot : s \in Reclaimable \/ g_processes[s] = EmptySlot
BY DEF CInv, ControlInv, SlotsInv, SlotInv, Reclaimable, process_find

(* Back in panel_boot_run. *)
LEMMA CPanelReturn == CInv /\ PanelReturn => CInv'
<1> SUFFICES ASSUME CInv, PanelReturn PROVE CInv'
  OBVIOUS
<1>1. /\ at = "returned" /\ load = NoLoad /\ g_current \in Slot /\ panel \in Slot
      /\ process_release(Reclaimable \cup {panel}, {})
      /\ ttbr0' = NoPage /\ panel' = NoSlot
      /\ UNCHANGED <<g_next_spawn_pid, holders, load, attempts>>
      /\ at' \in {"boot", "console"}
  BY DEF PanelReturn, Recover, CInv, ControlInv
<1>2. \A s \in Slot : g_processes'[s] = EmptySlot
  BY <1>1, AllReclaimed DEF process_release, Released
<1>3. g_current' = NoSlot
  <2>1. g_processes[g_current].state # "UNUSED"
    BY <1>1 DEF CInv, ControlInv
  <2> QED
    <3>1. g_processes[g_current] # EmptySlot
      BY <2>1, EmptyFields
    <3>2. g_current \in Reclaimable
      BY <1>1, <3>1, AllReclaimed
    <3> QED
      BY <1>1, <3>2 DEF process_release, CurrentAfter
<1>4. TypeOK'
  BY <1>1, ReleaseType DEF CInv, TypeOK, ControlPoints
<1>5. SlotsInv'
  BY <1>2, EmptySound DEF SlotsInv
<1>6. ControlInv'
  <2>1. ASSUME NEW s \in Slot PROVE g_processes'[s].state = "UNUSED"
    BY <1>2, EmptyFields
  <2>2. load' = NoLoad
    BY <1>1
  <2> QED
    BY <1>1, <1>3, <2>1, <2>2 DEF ControlInv
<1>7. LoaderInv'
  BY <1>1 DEF LoaderInv, LoadPoints
<1> QED
  BY <1>4, <1>5, <1>6, <1>7 DEF CInv

(* Every step keeps the control layer. *)
LEMMA CStep == CInv /\ [Next]_vars => CInv'
<1> SUFFICES ASSUME CInv, [Next]_vars PROVE CInv'
  OBVIOUS
<1>1. CASE Kernel
  BY <1>1, CPanelBoot, CLoading, CMap, CSpawnDone, CPanelEnter, CPanelReturn
     DEF Kernel, Loader
<1>2. CASE User
  <2>1. CASE sys_yield_process \/ sys_exit \/ handle_user_fault
    BY <2>1, CPreempt, CLeave DEF sys_yield_process, sys_exit, handle_user_fault, ExitCodes
  <2>2. CASE \E pid \in Pid : sys_wait(pid) \/ sys_kill(pid)
    BY <2>2, CWait, CKill
  <2>3. CASE Acquire
    <3>1. holders' \in SUBSET Pid
      BY <2>3 DEF Acquire, CInv, TypeOK, ControlInv, ProcessRecord
    <3> QED
      BY <2>3, <3>1, CSame DEF Acquire, CInv, TypeOK
  <2>4. CASE \E n \in MmapSizes : sys_mmap(n)
    BY <2>4, CMmap
  <2>5. CASE \E r \in UNION {g_processes[s].regions : s \in Slot} : sys_munmap(r)
    BY <2>5, CMunmap
  <2>6. CASE app_spawn_vfs
    BY <2>6, CSpawn
  <2> QED
    BY <1>2, <2>1, <2>2, <2>3, <2>4, <2>5, <2>6 DEF User
<1>3. CASE irq_handler_frame
  BY <1>3, CPreempt DEF irq_handler_frame
<1>4. CASE UNCHANGED vars
  BY <1>4, CSame DEF vars, CInv, TypeOK
<1> QED
  BY <1>1, <1>2, <1>3, <1>4 DEF Next, Console

(* The initial state satisfies it: an empty table, no process, no launch.  *)
LEMMA CInit == Init => CInv
<1> SUFFICES ASSUME Init PROVE CInv
  OBVIOUS
<1>1. TypeOK
  BY Slots, Empties DEF Init, TypeOK, ControlPoints
<1>2. SlotsInv /\ ControlInv /\ LoaderInv
  BY DEF Init, SlotsInv, SlotInv, ControlInv, LoaderInv, LoadPoints, EmptySlot
<1> QED
  BY <1>1, <1>2 DEF CInv

(* The control layer holds throughout. *)
THEOREM ControlCorrect == Spec => []CInv
BY CInit, CStep, PTL DEF Spec

(* Every variable keeps the type its C declaration gives it, for any       *)
(* number of slots, pages and pids: in particular the spawn counter of     *)
(* kernel/panel_boot.c, a uint32_t, never leaves the range of pids.        *)
THEOREM TypeCorrect == Spec => []TypeOK
<1>1. CInv => TypeOK
  BY DEF CInv
<1> QED
  BY <1>1, ControlCorrect, PTL
=============================================================================
