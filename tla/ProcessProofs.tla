--------------------------- MODULE ProcessProofs ---------------------------
(***************************************************************************)
(* What rests on the control invariant of Process, for any number of       *)
(* slots, pages and pids: one running process, live page tables, unique    *)
(* pids, descriptors and windows only with live processes, zombies kept    *)
(* for their parents, the process count, no page owned twice and no page   *)
(* lost.                                                                   *)
(***************************************************************************)
EXTENDS ProcessControlProofs

(* What rests on the control layer *)

(* While EL0 runs, exactly the current process is RUNNING and every READY  *)
(* process can be switched to: process_dispatch_next (kernel/process.c)    *)
(* never finds a slot that app_spawn_vfs is still loading.                 *)
THEOREM OneRunningCorrect == Spec => []OneRunning
<1>1. CInv => OneRunning
  <2> SUFFICES ASSUME CInv PROVE OneRunning
    OBVIOUS
  <2>1. at = "el0" => /\ g_current \in Slot /\ load = NoLoad /\ load.slot = NoSlot
                      /\ \A s \in Slot : IF s = g_current
                                         THEN g_processes[s].state = "RUNNING"
                                         ELSE g_processes[s].state \in {"UNUSED", "READY", "ZOMBIE"}
    BY DEF CInv, ControlInv, NoLoad
  <2>2. \A s \in Slot : g_processes[s].state # "UNUSED" /\ s # load.slot =>
                        g_processes[s].page_table # NoPage
    BY DEF CInv, SlotsInv, SlotInv
  <2> QED
    BY <2>1, <2>2, Slots DEF OneRunning
<1> QED
  BY <1>1, ControlCorrect, PTL

(* A step that neither switches nor touches the current process's root     *)
(* keeps its tables active.                                                *)
LEMMA ASame ==
  ASSUME ActiveTablesLive, UNCHANGED <<g_current, ttbr0>>,
         g_current # NoSlot =>
           /\ g_processes'[g_current].state # "UNUSED"
           /\ g_processes'[g_current].page_table = g_processes[g_current].page_table
           /\ g_processes[g_current].tables \subseteq g_processes'[g_current].tables
  PROVE  ActiveTablesLive'
BY DEF ActiveTablesLive

(* A switch makes the tables of the next process active. *)
LEMMA ASwitch ==
  ASSUME CInv, at = "el0", NEW next \in Slot, Switch(next)
  PROVE  ActiveTablesLive'
<1>1. load = NoLoad /\ next # NoSlot
  BY Slots DEF CInv, ControlInv
<1>2. /\ g_processes[next].page_table # NoPage
      /\ g_processes[next].page_table \in g_processes[next].tables
  BY <1>1 DEF Switch, CInv, SlotsInv, SlotInv, NoLoad
<1> QED
  BY <1>1, <1>2 DEF Switch, SameOwner, ActiveTablesLive

(* Releasing a slot that is not current. *)
LEMMA ARelease ==
  ASSUME CInv, ActiveTablesLive, UNCHANGED ttbr0, NEW s \in Slot, s # g_current,
         NEW more, process_release({s}, more)
  PROVE  ActiveTablesLive'
<1>1. /\ g_current' = g_current
      /\ g_current # NoSlot => g_current \in Slot /\ g_processes'[g_current] = g_processes[g_current]
  BY DEF process_release, Released, CurrentAfter, CInv, TypeOK
<1> QED
  BY <1>1 DEF ActiveTablesLive

(* Every step keeps the active root allocated. *)
LEMMA AStep == CInv /\ ActiveTablesLive /\ [Next]_vars => ActiveTablesLive'
<1> SUFFICES ASSUME CInv, ActiveTablesLive, [Next]_vars PROVE ActiveTablesLive'
  OBVIOUS
<1>0. CASE UNCHANGED <<g_processes, g_current, ttbr0>>
  BY <1>0 DEF ActiveTablesLive
<1>1. ASSUME Preempt PROVE ActiveTablesLive'
  <2>1. CASE ~UNCHANGED vars
    BY <1>1, <2>1, PreemptEffect, ASwitch DEF Preempt
  <2> QED
    BY <1>0, <2>1 DEF vars
<1>2. ASSUME NEW code \in ExitCodes, Leave(code) PROVE ActiveTablesLive'
  <2>1. CASE \E next \in Slot : Switch(next)
    BY <1>2, <2>1, ASwitch DEF Leave
  <2>2. CASE UNCHANGED <<g_current, ttbr0>> /\ SameOwner(g_current)
    BY <1>2, <2>2, LeaveEffect, ASame DEF SameOwner
  <2> QED
    BY <1>2, <2>1, <2>2, LeaveEffect
<1>3. ASSUME NEW pid \in Pid, sys_wait(pid) PROVE ActiveTablesLive'
  BY <1>3, ARelease DEF sys_wait, process_find
<1>4. ASSUME NEW pid \in Pid, sys_kill(pid) PROVE ActiveTablesLive'
  <2>1. g_processes'[g_current] = g_processes[g_current]
    BY <1>4, KillEffect DEF sys_kill, CInv, ControlInv
  <2> QED
    BY <1>4, <2>1 DEF sys_kill, ActiveTablesLive
<1>5. ASSUME NEW n \in MmapSizes, sys_mmap(n) PROVE ActiveTablesLive'
  <2>1. /\ g_processes'[g_current].state = g_processes[g_current].state
        /\ g_processes'[g_current].page_table = g_processes[g_current].page_table
    BY <1>5, MmapEffect
  <2>2. g_processes[g_current].tables \subseteq g_processes'[g_current].tables
    BY <1>5, MmapEffect
  <2>3. UNCHANGED <<g_current, ttbr0>>
    BY <1>5 DEF sys_mmap
  <2> QED
    BY <2>1, <2>2, <2>3 DEF ActiveTablesLive
<1>6. ASSUME NEW r, sys_munmap(r) PROVE ActiveTablesLive'
  BY <1>6, MunmapEffect DEF sys_munmap, ActiveTablesLive
<1>7. CASE app_spawn_vfs
  <2>1. /\ g_current \in Slot /\ g_processes[g_current].state = "RUNNING"
        /\ UNCHANGED ttbr0
    BY <1>7 DEF app_spawn_vfs, CInv, ControlInv
  <2>2. /\ g_current' = g_current
        /\ g_processes'[g_current] = g_processes[g_current]
    <3>1. g_next_spawn_pid \in Pid /\ g_processes[g_current].pid \in Pid /\ "BLOCKED" \in States
      BY <2>1 DEF CInv, TypeOK, ProcessRecord, States
    <3>2. AllocAfterReclaim(g_next_spawn_pid, g_processes[g_current].pid, "BLOCKED", "el0")
      BY <1>7 DEF app_spawn_vfs
    <3>3. /\ g_current \notin Reclaimable
          /\ Released(Reclaimable)[g_current] = g_processes[g_current]
      BY <2>1, ReclaimedZombies DEF Released
    <3>4. ASSUME NEW s \in Slot, process_alloc(Released(Reclaimable), g_next_spawn_pid, s)
          PROVE  s # g_current
      BY <2>1, <3>3, <3>4 DEF process_alloc
    <3> QED
      BY <2>1, <3>1, <3>2, <3>3, <3>4, AllocEffect
  <2> QED
    BY <2>1, <2>2 DEF ActiveTablesLive
<1>8. CASE panel_boot_run
  <2>1. g_current = NoSlot /\ Reclaimable = {} /\ UNCHANGED ttbr0
    BY <1>8, ReclaimedZombies DEF panel_boot_run, CInv, ControlInv
  <2>2. g_current' = NoSlot
    BY <1>8, <2>1 DEF panel_boot_run, AllocAfterReclaim, CurrentAfter
  <2> QED
    BY <2>1, <2>2 DEF ActiveTablesLive
<1>9. ASSUME NEW storage, LoadFails(storage), at \in LoadPoints PROVE ActiveTablesLive'
  <2>1. load.slot \in Slot /\ load.slot # g_current
    BY <1>9, Slots DEF CInv, LoaderInv
  <2> QED
    BY <1>9, <2>1, ARelease DEF LoadFails
<1>10. CASE load_image \/ init_panel_process \/ vmm_new_table \/ map_kernel_identity
  <2>1. CASE UNCHANGED <<g_processes, g_current, ttbr0>>
    BY <1>0, <2>1
  <2>2. CASE at \in LoadPoints /\ \E storage : LoadFails(storage)
    BY <1>9, <2>2
  <2> QED
    BY <1>10, <2>1, <2>2
       DEF load_image, init_panel_process, vmm_new_table, map_kernel_identity,
           LoadSteps, LoadPoints
<1>11. CASE create_panel_page_table
  <2>1. CASE /\ UNCHANGED <<g_current, ttbr0>>
             /\ \E b \in Page :
                  g_processes' = [g_processes EXCEPT ![load.slot] = Loaded({b})]
    <3>1. at = "map" /\ at \in LoadPoints
      BY <1>11 DEF create_panel_page_table, LoadPoints
    <3>2. g_current # NoSlot => /\ g_current \in Slot \ {load.slot}
                                /\ g_processes'[g_current] = g_processes[g_current]
      BY <2>1, <3>1, MapEffect DEF CInv, LoaderInv, TypeOK
    <3> QED
      BY <2>1, <3>2 DEF ActiveTablesLive
  <2>2. CASE at \in LoadPoints /\ \E storage : LoadFails(storage)
    BY <1>9, <2>2
  <2> QED
    BY <1>11, <2>1, <2>2 DEF create_panel_page_table, LoadSteps, LoadPoints
<1>12. CASE SpawnDone
  <2>1. at \in LoadPoints /\ g_current # NoSlot
    BY <1>12 DEF SpawnDone, LoadPoints
  <2>2. CASE /\ g_processes' = [g_processes EXCEPT ![load.slot].state = "READY"]
             /\ UNCHANGED <<g_current, ttbr0>>
    <3>1. g_processes'[g_current] = g_processes[g_current]
      BY <2>1, <2>2 DEF CInv, LoaderInv, TypeOK
    <3> QED
      BY <2>2, <3>1 DEF ActiveTablesLive
  <2> QED
    BY <1>9, <1>12, <2>1, <2>2 DEF SpawnDone, LoadSteps
<1>13. CASE PanelEnter
  <2>1. /\ load.slot \in Slot /\ g_processes[load.slot].page_table # NoPage
        /\ g_processes[load.slot].page_table \in g_processes[load.slot].tables
        /\ g_processes \in [Slot -> ProcessRecord]
    BY <1>13 DEF PanelEnter, LoadPoints, CInv, LoaderInv, SlotsInv, SlotInv, TypeOK
  <2>2. g_current' = load.slot /\ ttbr0' = g_processes[load.slot].page_table
    BY <1>13, <2>1 DEF PanelEnter, Activate
  <2>3. /\ g_processes'[load.slot].state = "RUNNING"
        /\ g_processes'[load.slot].page_table = g_processes[load.slot].page_table
        /\ g_processes'[load.slot].tables = g_processes[load.slot].tables
    BY <1>13, <2>1 DEF PanelEnter, ProcessRecord
  <2> QED
    BY <2>1, <2>2, <2>3, Slots DEF ActiveTablesLive
<1>14. CASE PanelReturn
  <2>1. g_current \in Slot /\ g_processes[g_current].state = "ZOMBIE"
    BY <1>14 DEF PanelReturn, CInv, ControlInv
  <2>2. g_current \in Reclaimable
    BY <1>14, <2>1, AllReclaimed DEF PanelReturn, EmptySlot
  <2>3. g_current' = NoSlot /\ ttbr0' = NoPage
    BY <1>14, <2>2 DEF PanelReturn, process_release, CurrentAfter
  <2> QED
    BY <2>3 DEF ActiveTablesLive
<1> QED
  BY <1>0, <1>1, <1>2, <1>3, <1>4, <1>5, <1>6, <1>7, <1>8, <1>10, <1>11, <1>12,
     <1>13, <1>14
     DEF Next, Kernel, Loader, User, sys_yield_process, irq_handler_frame, sys_exit,
         handle_user_fault, ExitCodes, Acquire, Console, vars

(* The MMU never walks freed tables, whatever is spawned, killed, waited   *)
(* for or faults: process_activate_context and the switch back to the      *)
(* kernel's tables in panel_boot_run come before any release.              *)
THEOREM ActiveTablesCorrect == Spec => []ActiveTablesLive
<1>1. Init => ActiveTablesLive
  BY DEF Init, ActiveTablesLive
<1> QED
  BY <1>1, AStep, ControlCorrect, PTL DEF Spec
-----------------------------------------------------------------------------
(* Pids *)

(* Slots that keep their pid and come into use nowhere keep pids unique. *)
LEMMA USame ==
  ASSUME UniquePids,
         \A s \in Slot : g_processes'[s].state # "UNUSED" =>
           /\ g_processes[s].state # "UNUSED"
           /\ g_processes'[s].pid = g_processes[s].pid
  PROVE  UniquePids'
BY DEF UniquePids, Used

(* A pid that process_alloc accepted is nobody else's. *)
LEMMA UAlloc ==
  ASSUME CInv, UniquePids, NEW pid \in Pid, NEW parent \in Pid, NEW state \in States,
         NEW full, AllocAfterReclaim(pid, parent, state, full)
  PROVE  UniquePids'
<1>1. \A s \in Slot : \/ Released(Reclaimable)[s] = g_processes[s]
                      \/ Released(Reclaimable)[s].state = "UNUSED"
  BY DEF Released, EmptySlot
<1>a. CASE g_processes' = Released(Reclaimable)
  BY <1>1, <1>a, USame
<1>b. ASSUME NEW s \in Slot, process_alloc(Released(Reclaimable), pid, s),
             g_processes'[s] = NewProcess(pid, parent, state),
             \A t \in Slot \ {s} : g_processes'[t] = Released(Reclaimable)[t]
      PROVE  UniquePids'
  <2>1. g_processes'[s].pid = pid
    <3>1. NewProcess(pid, parent, state).pid = pid
      BY NewProcessFields
    <3> QED
      BY <1>b, <3>1
  <2>2. \A t \in Slot \ {s} : g_processes'[t].state # "UNUSED" =>
           /\ g_processes'[t].pid # pid
           /\ g_processes'[t] = g_processes[t]
    BY <1>1, <1>b DEF process_alloc
  <2> QED
    BY <2>1, <2>2 DEF UniquePids, Used
<1> QED
  BY <1>a, <1>b, AllocEffect

(* Every step keeps pids unique. *)
LEMMA UStep == CInv /\ UniquePids /\ [Next]_vars => UniquePids'
<1> SUFFICES ASSUME CInv, UniquePids, [Next]_vars PROVE UniquePids'
  OBVIOUS
<1>0. CASE UNCHANGED g_processes
  BY <1>0 DEF UniquePids, Used
<1>s. ASSUME NEW next \in Slot, Switch(next), at = "el0" PROVE UniquePids'
  <2>1. g_processes[g_current].state = "RUNNING"
    BY <1>s DEF CInv, ControlInv
  <2> QED
    BY <1>s, <2>1, USame DEF Switch, SameOwner
<1>r. ASSUME NEW S, g_processes' = Released(S) PROVE UniquePids'
  BY <1>r, USame DEF Released, EmptySlot
<1>1. ASSUME Preempt PROVE UniquePids'
  BY <1>0, <1>1, <1>s, PreemptEffect DEF Preempt, vars
<1>2. ASSUME NEW code \in ExitCodes, Leave(code) PROVE UniquePids'
  <2>1. at = "el0" /\ g_current \in Slot /\ g_processes[g_current].state = "RUNNING"
    BY <1>2 DEF Leave, CInv, ControlInv
  <2>2. CASE /\ \A s \in Slot \ {g_current} : g_processes'[s] = g_processes[s]
             /\ SameOwner(g_current)
    BY <2>1, <2>2, USame DEF SameOwner
  <2> QED
    BY <1>2, <1>s, <2>1, <2>2, LeaveEffect
<1>3. ASSUME NEW pid \in Pid, sys_wait(pid) PROVE UniquePids'
  BY <1>3, <1>r DEF sys_wait, process_release
<1>4. ASSUME NEW pid \in Pid, sys_kill(pid) PROVE UniquePids'
  BY <1>4, KillEffect, USame DEF SameOwner
<1>5. ASSUME NEW n \in MmapSizes, sys_mmap(n) PROVE UniquePids'
  BY <1>5, MmapEffect, USame
<1>6. ASSUME NEW r, sys_munmap(r) PROVE UniquePids'
  BY <1>6, MunmapEffect, USame
<1>7. CASE app_spawn_vfs
  <2>1. /\ g_next_spawn_pid \in Pid /\ g_processes[g_current].pid \in Pid
        /\ "BLOCKED" \in States
    BY <1>7 DEF app_spawn_vfs, CInv, ControlInv, TypeOK, ProcessRecord, States
  <2> QED
    BY <1>7, <2>1, UAlloc DEF app_spawn_vfs
<1>8. CASE panel_boot_run
  <2>1. PanelPid \in Pid /\ 0 \in Pid /\ "READY" \in States
    BY Slots DEF States
  <2> QED
    BY <1>8, <2>1, UAlloc DEF panel_boot_run
<1>9. ASSUME NEW storage, LoadFails(storage) PROVE UniquePids'
  BY <1>9, <1>r DEF LoadFails, process_release
<1>10. CASE load_image \/ init_panel_process \/ vmm_new_table \/ map_kernel_identity
  BY <1>0, <1>9, <1>10
     DEF load_image, init_panel_process, vmm_new_table, map_kernel_identity
<1>11. CASE create_panel_page_table
  <2>1. ASSUME NEW b \in Page,
               g_processes' = [g_processes EXCEPT ![load.slot] = Loaded({b})]
        PROVE  UniquePids'
    <3>1. at = "map"
      BY <1>11 DEF create_panel_page_table
    <3> QED
      BY <2>1, <3>1, MapEffect, USame
  <2> QED
    BY <1>9, <1>11, <2>1 DEF create_panel_page_table
<1>12. ASSUME NEW state,
              at = "argv", g_processes' = [g_processes EXCEPT ![load.slot].state = state]
       PROVE  UniquePids'
  <2>1. /\ load.slot \in Slot /\ g_processes[load.slot].state # "UNUSED"
        /\ g_processes \in [Slot -> ProcessRecord]
    BY <1>12 DEF CInv, LoaderInv, LoadPoints, TypeOK
  <2> QED
    BY <1>12, <2>1, USame DEF ProcessRecord
<1>13. CASE SpawnDone \/ PanelEnter
  BY <1>9, <1>12, <1>13 DEF SpawnDone, PanelEnter
<1>14. CASE PanelReturn
  BY <1>14, <1>r DEF PanelReturn, process_release
<1> QED
  BY <1>0, <1>1, <1>2, <1>3, <1>4, <1>5, <1>6, <1>7, <1>8, <1>10, <1>11, <1>13, <1>14
     DEF Next, Kernel, Loader, User, sys_yield_process, irq_handler_frame, sys_exit,
         handle_user_fault, ExitCodes, Acquire, Console, vars

(* process_find never has two answers, however often the 32-bit spawn      *)
(* counter wraps and however often the panel takes pid 1 again.            *)
THEOREM UniquePidsCorrect == Spec => []UniquePids
<1>1. Init => UniquePids
  BY DEF Init, UniquePids, Used, EmptySlot
<1> QED
  BY <1>1, UStep, ControlCorrect, PTL DEF Spec
-----------------------------------------------------------------------------
(* Descriptors and windows *)

(* Holders stay covered while live slots stay live with their pids. *)
LEMMA HSame ==
  ASSUME NoGhostHolders, holders' \subseteq holders,
         \A s \in Slot : g_processes[s].state \notin {"UNUSED", "ZOMBIE"} =>
           \/ g_processes[s].pid \notin holders'
           \/ /\ g_processes'[s].state \notin {"UNUSED", "ZOMBIE"}
              /\ g_processes'[s].pid = g_processes[s].pid
  PROVE  NoGhostHolders'
BY DEF NoGhostHolders, Live

(* Releasing zombies and empty slots. *)
LEMMA HRelease ==
  ASSUME NoGhostHolders, UNCHANGED holders, NEW S,
         \A s \in Slot \cap S : g_processes[s].state \in {"UNUSED", "ZOMBIE"},
         \A s \in Slot : g_processes'[s] = g_processes[s] \/ s \in S
  PROVE  NoGhostHolders'
BY HSame

(* A process that is being loaded holds nothing yet: no process that runs  *)
(* before it is READY has its pid.                                         *)
LoadedHoldsNothing ==
  at \in LoadPoints => g_processes[load.slot].pid \notin holders

HInv == NoGhostHolders /\ LoadedHoldsNothing

(* Taking a slot. *)
LEMMA HAlloc ==
  ASSUME CInv, HInv, NEW pid \in Pid, NEW parent \in Pid, NEW state \in States,
         NEW full \in {"el0", "boot", "console"}, UNCHANGED holders,
         AllocAfterReclaim(pid, parent, state, full)
  PROVE  HInv'
<1>1. \A s \in Slot : s \notin Reclaimable => Released(Reclaimable)[s] = g_processes[s]
  BY DEF Released
<1>a. CASE at' = full /\ g_processes' = Released(Reclaimable)
  <2>1. NoGhostHolders'
    BY <1>1, <1>a, HRelease, ReclaimedZombies DEF HInv
  <2> QED
    BY <1>a, <2>1 DEF HInv, LoadedHoldsNothing, LoadPoints
<1>b. ASSUME NEW s \in Slot, load'.slot = s,
             process_alloc(Released(Reclaimable), pid, s),
             g_processes'[s] = NewProcess(pid, parent, state),
             \A t \in Slot \ {s} : g_processes'[t] = Released(Reclaimable)[t]
      PROVE  HInv'
  <2>1. g_processes'[s].pid = pid
    <3>1. NewProcess(pid, parent, state).pid = pid
      BY NewProcessFields
    <3> QED
      BY <1>b, <3>1
  <2>2. s \in Reclaimable \/ g_processes[s].state = "UNUSED"
    BY <1>1, <1>b DEF process_alloc
  <2>3. NoGhostHolders'
    <3>1. \A t \in Slot : g_processes[t].state \notin {"UNUSED", "ZOMBIE"} =>
                          g_processes'[t] = g_processes[t]
      BY <1>1, <1>b, <2>2, ReclaimedZombies
    <3> QED
      BY <3>1, HSame DEF HInv
  <2>4. \A t \in Slot : g_processes[t].state \notin {"UNUSED", "ZOMBIE"} =>
                        g_processes[t].pid # pid
    <3>1. \A t \in Slot : g_processes[t].state \notin {"UNUSED", "ZOMBIE"} =>
                          Released(Reclaimable)[t] = g_processes[t]
      BY <1>1, ReclaimedZombies
    <3> QED
      BY <1>b, <3>1 DEF process_alloc
  <2>5. pid \notin holders
    BY <2>4 DEF HInv, NoGhostHolders, Live
  <2> QED
    BY <1>b, <2>1, <2>3, <2>5 DEF HInv, LoadedHoldsNothing
<1> QED
  BY <1>a, <1>b, AllocEffect

(* Giving up on a launch. *)
LEMMA HLoadFails ==
  ASSUME CInv, HInv, at \in LoadPoints, NEW storage, LoadFails(storage)
  PROVE  HInv'
<1>1. /\ load.slot \in Slot /\ g_processes[load.slot].pid \notin holders
      /\ UNCHANGED holders /\ at' \notin LoadPoints
  BY DEF HInv, LoadedHoldsNothing, LoadFails, CInv, LoaderInv, Recover, LoadPoints
<1>2. \A s \in Slot \ {load.slot} : g_processes'[s] = g_processes[s]
  BY DEF LoadFails, process_release, Released
<1> QED
  BY <1>1, <1>2, HSame DEF HInv, LoadedHoldsNothing

(* Every step keeps ghosts out; uniqueness of pids is what makes it safe   *)
(* to close everything a pid holds.                                        *)
LEMMA HStep == CInv /\ UniquePids /\ HInv /\ [Next]_vars => HInv'
<1> SUFFICES ASSUME CInv, UniquePids, HInv, [Next]_vars PROVE HInv'
  OBVIOUS
<1>0. CASE UNCHANGED <<g_processes, holders, at, load>>
  BY <1>0 DEF HInv, NoGhostHolders, Live, LoadedHoldsNothing
<1>e. at' \notin LoadPoints /\ NoGhostHolders' => HInv'
  BY DEF HInv, LoadedHoldsNothing
<1>1. ASSUME Preempt PROVE HInv'
  <2>1. at' \notin LoadPoints /\ UNCHANGED holders
    BY <1>1 DEF Preempt, LoadPoints
  <2>2. ASSUME NEW next \in Slot, Switch(next), g_processes'[g_current].state = "READY"
        PROVE  NoGhostHolders'
    BY <2>1, <2>2, HSame DEF HInv, Switch, SameOwner
  <2> QED
    BY <1>0, <1>1, <1>e, <2>1, <2>2, PreemptEffect DEF vars
<1>2. ASSUME NEW code \in ExitCodes, Leave(code) PROVE HInv'
  <2>1. /\ at = "el0" /\ g_current \in Slot /\ at' \notin LoadPoints
        /\ holders' = holders \ {g_processes[g_current].pid}
    BY <1>2 DEF Leave, CInv, ControlInv, LoadPoints, HoldersWithout
  <2>2. ASSUME NEW next \in Slot, Switch(next) PROVE NoGhostHolders'
    BY <2>1, <2>2, HSame DEF HInv, Switch, SameOwner
  <2>3. CASE \A s \in Slot \ {g_current} : g_processes'[s] = g_processes[s]
    <3>1. /\ holders' \subseteq holders
          /\ g_processes[g_current].pid \notin holders'
      BY <2>1
    <3>2. \A s \in Slot : s = g_current \/ g_processes'[s] = g_processes[s]
      BY <2>3
    <3> QED
      BY <1>e, <2>1, <3>1, <3>2, HSame DEF HInv
  <2> QED
    BY <1>2, <1>e, <2>1, <2>2, <2>3, LeaveEffect
<1>3. ASSUME NEW pid \in Pid, sys_wait(pid) PROVE HInv'
  <2>1. at' \notin LoadPoints /\ UNCHANGED holders
    BY <1>3 DEF sys_wait, LoadPoints
  <2>2. PICK child \in Slot : /\ g_processes[child].state = "ZOMBIE"
                              /\ process_release({child}, {})
    BY <1>3 DEF sys_wait, process_find, MayReap
  <2>3. NoGhostHolders'
    BY <2>1, <2>2, HRelease DEF process_release, Released, HInv
  <2> QED
    BY <1>e, <2>1, <2>3
<1>4. ASSUME NEW pid \in Pid, sys_kill(pid) PROVE HInv'
  <2>1. at' \notin LoadPoints /\ holders' = holders \ {pid}
    BY <1>4 DEF sys_kill, LoadPoints, HoldersWithout
  <2>2. NoGhostHolders'
    BY <1>4, <2>1, KillEffect, HSame DEF HInv
  <2> QED
    BY <1>e, <2>1, <2>2
<1>5. ASSUME NEW n \in MmapSizes, sys_mmap(n) PROVE HInv'
  <2>1. at' \notin LoadPoints /\ UNCHANGED holders
    BY <1>5 DEF sys_mmap, LoadPoints
  <2>2. \A s \in Slot : /\ g_processes'[s].state = g_processes[s].state
                        /\ g_processes'[s].pid = g_processes[s].pid
    BY <1>5, MmapEffect
  <2> QED
    BY <1>e, <2>1, <2>2, HSame DEF HInv
<1>6. ASSUME NEW r, sys_munmap(r) PROVE HInv'
  <2>1. at' \notin LoadPoints /\ UNCHANGED holders
    BY <1>6 DEF sys_munmap, LoadPoints
  <2>2. \A s \in Slot : /\ g_processes'[s].state = g_processes[s].state
                        /\ g_processes'[s].pid = g_processes[s].pid
    BY <1>6, MunmapEffect
  <2> QED
    BY <1>e, <2>1, <2>2, HSame DEF HInv
<1>7. CASE app_spawn_vfs
  <2>1. /\ g_next_spawn_pid \in Pid /\ g_processes[g_current].pid \in Pid
        /\ "BLOCKED" \in States
    BY <1>7 DEF app_spawn_vfs, CInv, ControlInv, TypeOK, ProcessRecord, States
  <2> QED
    BY <1>7, <2>1, HAlloc DEF app_spawn_vfs
<1>8. CASE panel_boot_run
  <2>1. PanelPid \in Pid /\ 0 \in Pid /\ "READY" \in States
    BY Slots DEF States
  <2> QED
    BY <1>8, <2>1, HAlloc DEF panel_boot_run
<1>9. CASE load_image \/ init_panel_process \/ vmm_new_table \/ map_kernel_identity
  <2>1. at \in LoadPoints /\ load \in Locals
    BY <1>9 DEF load_image, init_panel_process, vmm_new_table, map_kernel_identity,
                LoadPoints, CInv, TypeOK
  <2>2. CASE /\ UNCHANGED <<g_processes, holders>>
             /\ load'.slot = load.slot
    BY <2>1, <2>2 DEF HInv, NoGhostHolders, Live, LoadedHoldsNothing
  <2>3. \/ \E storage : LoadFails(storage)
        \/ UNCHANGED <<g_processes, holders>> /\ load'.slot = load.slot
    BY <1>9, <2>1 DEF load_image, init_panel_process, vmm_new_table,
                      map_kernel_identity, LoadSteps, Locals
  <2> QED
    BY <2>1, <2>2, <2>3, HLoadFails
<1>10. CASE create_panel_page_table
  <2>1. at = "map" /\ at \in LoadPoints /\ load \in Locals
    BY <1>10 DEF create_panel_page_table, LoadPoints, CInv, TypeOK
  <2>2. ASSUME NEW b \in Page,
               g_processes' = [g_processes EXCEPT ![load.slot] = Loaded({b})],
               UNCHANGED holders, load'.slot = load.slot
        PROVE  HInv'
    <3>1. \A s \in Slot : /\ g_processes'[s].state = g_processes[s].state
                          /\ g_processes'[s].pid = g_processes[s].pid
      BY <2>1, <2>2, MapEffect
    <3>2. NoGhostHolders'
      BY <2>2, <3>1, HSame DEF HInv
    <3>3. load.slot \in Slot /\ g_processes[load.slot].pid \notin holders
      BY <2>1 DEF HInv, LoadedHoldsNothing, CInv, LoaderInv
    <3> QED
      <4>1. load'.slot \in Slot => g_processes'[load'.slot].pid = g_processes[load'.slot].pid
        BY <3>1
      <4> QED
        BY <2>2, <3>1, <3>2, <3>3, <4>1 DEF HInv, LoadedHoldsNothing
  <2> QED
    BY <1>10, <2>1, <2>2, HLoadFails DEF create_panel_page_table, LoadSteps, Locals
<1>11. ASSUME NEW state \in {"READY", "RUNNING"}, at = "argv", UNCHANGED holders,
              at' = "el0", g_processes' = [g_processes EXCEPT ![load.slot].state = state]
       PROVE  HInv'
  <2>1. load.slot \in Slot /\ g_processes \in [Slot -> ProcessRecord]
    BY <1>11 DEF CInv, LoaderInv, LoadPoints, TypeOK
  <2>2. \A s \in Slot : /\ g_processes'[s].pid = g_processes[s].pid
                        /\ \/ g_processes'[s].state = g_processes[s].state
                           \/ g_processes'[s].state = state
    BY <1>11, <2>1 DEF ProcessRecord
  <2>3. NoGhostHolders'
    BY <1>11, <2>2, HSame DEF HInv
  <2> QED
    BY <1>11, <1>e, <2>3 DEF LoadPoints
<1>12. CASE SpawnDone \/ PanelEnter
  BY <1>11, <1>12, HLoadFails DEF SpawnDone, PanelEnter, LoadSteps, LoadPoints
<1>13. CASE PanelReturn
  <2>1. at' \notin LoadPoints /\ UNCHANGED holders
    BY <1>13 DEF PanelReturn, Recover, LoadPoints
  <2>2. \A s \in Slot : g_processes[s].state \in {"UNUSED", "ZOMBIE"}
    BY <1>13 DEF PanelReturn, CInv, ControlInv
  <2> QED
    BY <1>e, <2>1, <2>2, HRelease DEF HInv
<1>14. CASE Acquire
  <2>1. /\ at' \notin LoadPoints /\ UNCHANGED g_processes
        /\ holders' = holders \cup {g_processes[g_current].pid}
        /\ g_current \in Slot /\ g_processes[g_current].state = "RUNNING"
    BY <1>14 DEF Acquire, LoadPoints, CInv, ControlInv
  <2>2. NoGhostHolders'
    BY <2>1 DEF HInv, NoGhostHolders, Live
  <2> QED
    BY <1>e, <2>1, <2>2
<1> QED
  BY <1>0, <1>1, <1>2, <1>3, <1>4, <1>5, <1>6, <1>7, <1>8, <1>9, <1>10, <1>12,
     <1>13, <1>14
     DEF Next, Kernel, Loader, User, sys_yield_process, irq_handler_frame, sys_exit,
         handle_user_fault, ExitCodes, Console, vars

(* No descriptor or window outlives its process or passes to a later       *)
(* process with the same pid.                                              *)
THEOREM NoGhostHoldersCorrect == Spec => []NoGhostHolders
<1>1. Init => HInv
  BY DEF Init, HInv, NoGhostHolders, LoadedHoldsNothing, LoadPoints
<1>2. HInv => NoGhostHolders
  BY DEF HInv
<1> QED
  BY <1>1, <1>2, HStep, ControlCorrect, UniquePidsCorrect, PTL DEF Spec
-----------------------------------------------------------------------------
(* Zombies and the count *)

(* What is reclaimed is not awaited: a live parent has a pid other than 0, *)
(* so process_find finds it.                                               *)
LEMMA AwaitedStays == ASSUME CInv, NEW s \in Slot, Awaited(s) PROVE s \notin Reclaimable
<1>1. PICK p \in Slot : /\ g_processes[p].state \notin {"UNUSED", "ZOMBIE"}
                        /\ g_processes[p].pid = g_processes[s].parent_pid
  BY DEF Awaited, Live
<1>2. g_processes[p].pid # 0
  BY <1>1 DEF CInv, SlotsInv, SlotInv
<1> QED
  BY <1>1, <1>2 DEF Reclaimable, process_find

(* Every step leaves an awaited zombie alone, or is its parent's wait. *)
LEMMA ZStep == CInv /\ [Next]_vars => [ZombieStep]_vars
<1> SUFFICES ASSUME CInv, Next, NEW s \in Slot, Awaited(s),
                    g_processes'[s] # g_processes[s]
             PROVE  /\ at = "el0"
                    /\ g_processes[g_current].pid = g_processes[s].parent_pid
                    /\ g_processes'[s] = EmptySlot
  BY DEF ZombieStep
<1>1. /\ g_processes[s].state = "ZOMBIE" /\ s \notin Reclaimable
      /\ g_processes \in [Slot -> ProcessRecord]
  BY AwaitedStays DEF Awaited, CInv, TypeOK
<1>2. ASSUME NEW next \in Slot, Switch(next), at = "el0" PROVE FALSE
  BY <1>1, <1>2 DEF Switch, CInv, ControlInv
<1>3. ~Preempt
  BY <1>2, PreemptEffect DEF Preempt, vars
<1>4. \A code \in ExitCodes : ~Leave(code)
  <2> SUFFICES ASSUME NEW code \in ExitCodes, Leave(code) PROVE FALSE
    OBVIOUS
  <2>1. at = "el0" /\ s # g_current
    BY <1>1 DEF Leave, CInv, ControlInv
  <2> QED
    BY <1>2, <2>1, LeaveEffect
<1>5. \A pid \in Pid : ~sys_kill(pid)
  BY <1>1, KillEffect
<1>6. \A n \in MmapSizes : ~sys_mmap(n)
  <2> SUFFICES ASSUME NEW n \in MmapSizes, sys_mmap(n) PROVE FALSE
    OBVIOUS
  <2>1. s # g_current
    BY <1>1 DEF sys_mmap, CInv, ControlInv
  <2> QED
    BY <2>1, MmapEffect
<1>7. \A r : ~sys_munmap(r)
  <2> SUFFICES ASSUME NEW r, sys_munmap(r) PROVE FALSE
    OBVIOUS
  <2>1. s # g_current
    BY <1>1 DEF sys_munmap, CInv, ControlInv
  <2> QED
    BY <2>1, MunmapEffect
<1>8. ASSUME NEW pid, NEW parent, NEW state, NEW full,
             AllocAfterReclaim(pid, parent, state, full)
      PROVE  FALSE
  <2>1. Released(Reclaimable)[s] = g_processes[s]
    BY <1>1 DEF Released
  <2>2. CASE g_processes' = Released(Reclaimable)
    BY <2>1, <2>2
  <2>3. ASSUME NEW t \in Slot, process_alloc(Released(Reclaimable), pid, t),
               g_processes' = [Released(Reclaimable) EXCEPT ![t] = NewProcess(pid, parent, state)]
        PROVE  FALSE
    <3>1. t # s
      BY <1>1, <2>1, <2>3 DEF process_alloc
    <3> QED
      BY <2>1, <2>3, <3>1 DEF Released
  <2> QED
    BY <1>8, <2>2, <2>3 DEF AllocAfterReclaim
<1>9. ASSUME at \in LoadPoints PROVE s # load.slot /\ load.slot \in Slot
  BY <1>1, <1>9 DEF CInv, LoaderInv
<1>10. ASSUME NEW storage, LoadFails(storage), at \in LoadPoints PROVE FALSE
  BY <1>9, <1>10 DEF LoadFails, process_release, Released
<1>11. ~Loader /\ ~PanelEnter
  BY <1>1, <1>9, <1>10
     DEF Loader, load_image, init_panel_process, vmm_new_table, map_kernel_identity,
         create_panel_page_table, SpawnDone, PanelEnter, LoadPoints
<1>12. ~PanelReturn
  BY DEF PanelReturn, CInv, ControlInv, Awaited, Live
<1>13. PICK pid \in Pid : sys_wait(pid)
  BY <1>3, <1>4, <1>5, <1>6, <1>7, <1>8, <1>11, <1>12
     DEF Next, Kernel, User, sys_yield_process, irq_handler_frame, sys_exit,
         handle_user_fault, ExitCodes, Acquire, Console, vars, app_spawn_vfs,
         panel_boot_run
<1>14. PICK child \in Slot : MayReap(child) /\ process_release({child}, {})
  BY <1>13 DEF sys_wait, process_find
<1>15. s = child
  BY <1>14 DEF process_release, Released
<1> QED
  BY <1>13, <1>14, <1>15 DEF sys_wait, MayReap, process_release, Released

(* ARCHITECTURE.md:207, for every instance: neither process_reclaim_zombies *)
(* nor a foreign SYS_WAIT takes a zombie from a live parent.               *)
THEOREM ZombieKeptCorrect == Spec => ZombieKept
BY ZStep, ControlCorrect, PTL DEF Spec, ZombieKept

(* Slots that are given back are counted down once each. *)
LEMMA CountDown ==
  ASSUME CountMatches, NEW S
  PROVE  /\ CountAfter(S) = Cardinality(Used \ S)
         /\ IsFiniteSet(Used \ S) /\ Cardinality(Used \ S) \in Nat
<1> DEFINE A == Used \ S
           B == S \cap Used
<1>1. /\ IsFiniteSet(A) /\ IsFiniteSet(B)
      /\ Cardinality(A) \in Nat /\ Cardinality(B) \in Nat
  BY SlotCount DEF Used
<1>2. A \cup B = Used /\ A \cap B = {}
  OBVIOUS
<1>3. CountAfter(S) = IF g_process_count > Cardinality(B)
                      THEN g_process_count - Cardinality(B) ELSE 0
  BY DEF CountAfter
<1> HIDE DEF A, B
<1>4. Cardinality(A \cup B) = Cardinality(A) + Cardinality(B) - Cardinality(A \cap B)
  BY <1>1, FS_Union
<1>5. g_process_count = Cardinality(A) + Cardinality(B)
  <2>1. Cardinality(A \cap B) = 0
    BY <1>2, FS_EmptySet
  <2>2. Cardinality(A \cup B) = g_process_count
    BY <1>2 DEF CountMatches
  <2> QED
    BY <1>1, <1>4, <2>1, <2>2
<1>6. CountAfter(S) = Cardinality(A)
  BY <1>1, <1>3, <1>5
<1> QED
  BY <1>1, <1>6 DEF A

(* process_release keeps the count. *)
LEMMA NRelease ==
  ASSUME CountMatches, NEW S, NEW more, process_release(S, more)
  PROVE  CountMatches'
<1>1. Used' = Used \ S
  BY DEF process_release, Released, Used, EmptySlot
<1>2. g_process_count' = CountAfter(S)
  BY DEF process_release
<1> QED
  BY <1>1, <1>2, CountDown DEF CountMatches

(* Taking a slot keeps the count. *)
LEMMA NAlloc ==
  ASSUME CInv, CountMatches, NEW pid \in Pid, NEW parent \in Pid,
         NEW state \in States \ {"UNUSED"},
         NEW full, AllocAfterReclaim(pid, parent, state, full)
  PROVE  CountMatches'
<1>2. \A s \in Slot : Released(Reclaimable)[s].state # "UNUSED" <=> s \in Used \ Reclaimable
  BY DEF Released, Used, EmptySlot
<1>3. /\ CountAfter(Reclaimable) = Cardinality(Used \ Reclaimable)
      /\ IsFiniteSet(Used \ Reclaimable)
  BY CountDown
<1>a. CASE /\ g_processes' = Released(Reclaimable)
           /\ g_process_count' = CountAfter(Reclaimable)
  <2>1. Used' = Used \ Reclaimable
    BY <1>2, <1>a DEF Used
  <2> QED
    BY <1>3, <1>a, <2>1 DEF CountMatches
<1>b. ASSUME NEW s \in Slot,
             process_alloc(Released(Reclaimable), pid, s),
             g_processes' = [Released(Reclaimable) EXCEPT
                               ![s] = NewProcess(pid, parent, state)],
             g_process_count' = CountAfter(Reclaimable) + 1
      PROVE  CountMatches'
  <2>1. s \notin Used \ Reclaimable
    BY <1>2, <1>b DEF process_alloc
  <2>2. /\ g_processes'[s] = NewProcess(pid, parent, state)
        /\ \A t \in Slot \ {s} : g_processes'[t] = Released(Reclaimable)[t]
    BY <1>b DEF Released
  <2>3. Used' = (Used \ Reclaimable) \cup {s}
    <3>1. NewProcess(pid, parent, state).state = state
      BY NewProcessFields
    <3>2. g_processes'[s].state = state
      BY <2>2, <3>1
    <3> QED
      BY <1>2, <2>1, <2>2, <3>2 DEF Used
  <2>4. Cardinality((Used \ Reclaimable) \cup {s}) = Cardinality(Used \ Reclaimable) + 1
    BY <1>3, <2>1, FS_AddElement
  <2> QED
    BY <1>3, <1>b, <2>3, <2>4 DEF CountMatches
<1> QED
  BY <1>a, <1>b DEF AllocAfterReclaim

(* Every step keeps the count. *)
LEMMA NStep == CInv /\ CountMatches /\ [Next]_vars => CountMatches'
<1> SUFFICES ASSUME CInv, CountMatches, [Next]_vars PROVE CountMatches'
  OBVIOUS
<1>0. ASSUME UNCHANGED g_process_count,
             \A s \in Slot : g_processes'[s].state = "UNUSED" <=> g_processes[s].state = "UNUSED"
      PROVE  CountMatches'
  <2>1. Used' = Used
    BY <1>0 DEF Used
  <2> QED
    BY <1>0, <2>1 DEF CountMatches
<1>s. ASSUME NEW next \in Slot, Switch(next), at = "el0", UNCHANGED g_process_count,
             g_processes'[g_current].state # "UNUSED"
      PROVE  CountMatches'
  <2>1. g_processes[g_current].state = "RUNNING"
    BY <1>s DEF CInv, ControlInv
  <2> QED
    BY <1>0, <1>s, <2>1 DEF Switch
<1>1. ASSUME Preempt PROVE CountMatches'
  BY <1>0, <1>1, <1>s, PreemptEffect DEF Preempt, vars
<1>2. ASSUME NEW code \in ExitCodes, Leave(code) PROVE CountMatches'
  <2>1. /\ at = "el0" /\ g_current \in Slot /\ g_processes[g_current].state = "RUNNING"
        /\ UNCHANGED g_process_count /\ g_processes'[g_current].state = "ZOMBIE"
    BY <1>2, LeaveEffect DEF Leave, CInv, ControlInv
  <2>2. CASE \A s \in Slot \ {g_current} : g_processes'[s] = g_processes[s]
    BY <1>0, <2>1, <2>2
  <2> QED
    BY <1>2, <1>s, <2>1, <2>2, LeaveEffect
<1>3. ASSUME NEW pid \in Pid, sys_wait(pid) PROVE CountMatches'
  BY <1>3, NRelease DEF sys_wait
<1>4. ASSUME NEW pid \in Pid, sys_kill(pid) PROVE CountMatches'
  <2>1. UNCHANGED g_process_count
    BY <1>4 DEF sys_kill
  <2> QED
    BY <1>0, <1>4, <2>1, KillEffect
<1>5. ASSUME NEW n \in MmapSizes, sys_mmap(n) PROVE CountMatches'
  <2>1. UNCHANGED g_process_count
    BY <1>5 DEF sys_mmap
  <2> QED
    BY <1>0, <1>5, <2>1, MmapEffect
<1>6. ASSUME NEW r, sys_munmap(r) PROVE CountMatches'
  <2>1. UNCHANGED g_process_count
    BY <1>6 DEF sys_munmap
  <2> QED
    BY <1>0, <1>6, <2>1, MunmapEffect
<1>7. CASE app_spawn_vfs
  <2>1. /\ g_next_spawn_pid \in Pid /\ g_processes[g_current].pid \in Pid
        /\ "BLOCKED" \in States \ {"UNUSED"}
    BY <1>7 DEF app_spawn_vfs, CInv, ControlInv, TypeOK, ProcessRecord, States
  <2> QED
    BY <1>7, <2>1, NAlloc DEF app_spawn_vfs
<1>8. CASE panel_boot_run
  <2>1. PanelPid \in Pid /\ 0 \in Pid /\ "READY" \in States \ {"UNUSED"}
    BY Slots DEF States
  <2> QED
    BY <1>8, <2>1, NAlloc DEF panel_boot_run
<1>9. ASSUME NEW storage, LoadFails(storage) PROVE CountMatches'
  BY <1>9, NRelease DEF LoadFails
<1>10. CASE load_image \/ init_panel_process \/ vmm_new_table \/ map_kernel_identity
  BY <1>0, <1>9, <1>10
     DEF load_image, init_panel_process, vmm_new_table, map_kernel_identity, LoadSteps
<1>11. CASE create_panel_page_table
  <2>1. ASSUME NEW b \in Page, UNCHANGED g_process_count,
               g_processes' = [g_processes EXCEPT ![load.slot] = Loaded({b})]
        PROVE  CountMatches'
    <3>1. at = "map"
      BY <1>11 DEF create_panel_page_table
    <3> QED
      BY <1>0, <2>1, <3>1, MapEffect
  <2> QED
    BY <1>9, <1>11, <2>1 DEF create_panel_page_table, LoadSteps
<1>12. ASSUME NEW state \in {"READY", "RUNNING"}, at = "argv", UNCHANGED g_process_count,
              g_processes' = [g_processes EXCEPT ![load.slot].state = state]
       PROVE  CountMatches'
  <2>1. /\ load.slot \in Slot /\ g_processes[load.slot].state # "UNUSED"
        /\ g_processes \in [Slot -> ProcessRecord]
    BY <1>12 DEF CInv, LoaderInv, LoadPoints, TypeOK
  <2>2. \A s \in Slot : \/ g_processes'[s] = g_processes[s]
                        \/ s = load.slot /\ g_processes'[s].state = state
    BY <1>12, <2>1 DEF ProcessRecord
  <2> QED
    BY <1>0, <1>12, <2>1, <2>2
<1>13. CASE SpawnDone \/ PanelEnter
  BY <1>9, <1>12, <1>13 DEF SpawnDone, PanelEnter, LoadSteps
<1>14. CASE PanelReturn
  BY <1>14, NRelease DEF PanelReturn
<1>15. CASE UNCHANGED <<g_processes, g_process_count>>
  BY <1>0, <1>15
<1> QED
  BY <1>1, <1>2, <1>3, <1>4, <1>5, <1>6, <1>7, <1>8, <1>10, <1>11, <1>13, <1>14, <1>15
     DEF Next, Kernel, Loader, User, sys_yield_process, irq_handler_frame, sys_exit,
         handle_user_fault, ExitCodes, Acquire, Console, vars

(* g_process_count never drifts, and the floor at 0 in process_release     *)
(* (kernel/process.c:188) never hides a miscount.                          *)
THEOREM CountCorrect == Spec => []CountMatches
<1>1. Init => CountMatches
  <2> SUFFICES ASSUME Init PROVE CountMatches
    OBVIOUS
  <2>1. Used = {} /\ g_process_count = 0
    BY DEF Init, Used, EmptySlot
  <2> QED
    BY <2>1, FS_EmptySet DEF CountMatches
<1> QED
  BY <1>1, NStep, ControlCorrect, PTL DEF Spec
-----------------------------------------------------------------------------
(* Pages: none is owned twice and none is lost. *)

PInv == PagesExclusive /\ NoPageLost

(* The parts of PagesExclusive: inside one process, and inside the locals. *)
OwnApart(s) ==
  /\ (UNION g_processes[s].regions) \cap g_processes[s].tables = {}
  /\ \A r, q \in g_processes[s].regions : r # q => r \cap q = {}
LocalsApart ==
  /\ load.image \cap load.pgd = {}
  /\ at # "argv" => load.stack \cap (load.image \cup load.pgd) = {}

(* PInv, element by element, which is how the provers use it. *)
LEMMA PInvElements ==
  PInv <=> /\ \A s, t \in Slot : \A x : x \in PagesOf(s) /\ x \in PagesOf(t) => s = t
           /\ \A s \in Slot : \A x : x \in PagesOf(s) => x \notin LocalPages
           /\ \A s \in Slot : OwnApart(s)
           /\ LocalsApart
           /\ \A x : x \in pmm <=> \/ x \in LocalPages
                                   \/ \E s \in Slot : x \in PagesOf(s)
<1>1. NoPageLost <=> \A x : x \in pmm <=> \/ x \in LocalPages
                                          \/ \E s \in Slot : x \in PagesOf(s)
  BY DEF NoPageLost
<1>2. PagesExclusive <=>
        /\ \A s, t \in Slot : \A x : x \in PagesOf(s) /\ x \in PagesOf(t) => s = t
        /\ \A s \in Slot : \A x : x \in PagesOf(s) => x \notin LocalPages
        /\ \A s \in Slot : OwnApart(s)
        /\ LocalsApart
  BY DEF PagesExclusive, OwnApart, LocalsApart
<1> QED
  BY <1>1, <1>2 DEF PInv

(* The same for the next state. *)
LEMMA PInvElementsNext ==
  ASSUME \A s, t \in Slot : \A x : x \in PagesOf(s)' /\ x \in PagesOf(t)' => s = t,
         \A s \in Slot : \A x : x \in PagesOf(s)' => x \notin LocalPages',
         \A s \in Slot : OwnApart(s)',
         LocalsApart',
         \A x : x \in pmm' <=> \/ x \in LocalPages'
                               \/ \E s \in Slot : x \in PagesOf(s)'
  PROVE  PInv'
<1>1. NoPageLost'
  BY DEF NoPageLost
<1>2. PagesExclusive'
  BY DEF PagesExclusive, OwnApart, LocalsApart
<1> QED
  BY <1>1, <1>2 DEF PInv

(* The loader takes free pages into its locals; no process changes what it *)
(* owns.                                                                   *)
LEMMA PLocal ==
  ASSUME PInv, NEW pages, pages \cap pmm = {}, pmm' = pmm \cup pages,
         LocalPages' = LocalPages \cup pages, LocalsApart',
         \A s \in Slot : /\ g_processes'[s].regions = g_processes[s].regions
                         /\ g_processes'[s].tables = g_processes[s].tables
  PROVE  PInv'
<1>1. \A s \in Slot : PagesOf(s)' = PagesOf(s) /\ (OwnApart(s) => OwnApart(s)')
  BY DEF PagesOf, OwnApart
<1> QED
  BY <1>1, PInvElements, PInvElementsNext

(* Slots and locals give their pages back together with the bits. *)
LEMMA PRelease ==
  ASSUME PInv, NEW S, S \subseteq Slot, NEW more,
         more \subseteq LocalPages, LocalPages' = LocalPages \ more, LocalsApart',
         pmm' = pmm \ (FreedPages(S) \cup more),
         \A s \in S : g_processes'[s].regions = {} /\ g_processes'[s].tables = {},
         \A s \in Slot \ S : /\ g_processes'[s].regions = g_processes[s].regions
                             /\ g_processes'[s].tables = g_processes[s].tables
  PROVE  PInv'
<1>1. \A s \in Slot \ S : PagesOf(s)' = PagesOf(s) /\ (OwnApart(s) => OwnApart(s)')
  BY DEF PagesOf, OwnApart
<1>2. \A s \in S : PagesOf(s)' = {} /\ OwnApart(s)'
  BY DEF PagesOf, OwnApart
<1>3. \A x : x \in FreedPages(S) <=> \E s \in S : x \in PagesOf(s)
  BY DEF FreedPages
<1>4. /\ \A s, t \in Slot : \A x : x \in PagesOf(s)' /\ x \in PagesOf(t)' => s = t
      /\ \A s \in Slot : \A x : x \in PagesOf(s)' => x \notin LocalPages'
      /\ \A s \in Slot : OwnApart(s)'
  BY <1>1, <1>2, PInvElements
<1>5. \A x : x \in pmm' <=> \/ x \in LocalPages'
                            \/ \E s \in Slot : x \in PagesOf(s)'
  BY <1>1, <1>2, <1>3, PInvElements
<1> QED
  BY <1>4, <1>5, PInvElementsNext

(* The same when the slots are emptied, as process_release does. *)
LEMMA PEmptied ==
  ASSUME PInv, NEW S, S \subseteq Slot, NEW more,
         more \subseteq LocalPages, LocalPages' = LocalPages \ more, LocalsApart',
         pmm' = pmm \ (FreedPages(S) \cup more),
         \A s \in Slot : g_processes'[s] = IF s \in S THEN EmptySlot ELSE g_processes[s]
  PROVE  PInv'
<1>1. EmptySlot.regions = {} /\ EmptySlot.tables = {}
  BY EmptyFields
<1>2. ASSUME NEW s \in S PROVE g_processes'[s].regions = {} /\ g_processes'[s].tables = {}
  <2>1. g_processes'[s] = EmptySlot
    OBVIOUS
  <2> QED
    BY <1>1, <2>1
<1>3. ASSUME NEW s \in Slot \ S
      PROVE  /\ g_processes'[s].regions = g_processes[s].regions
             /\ g_processes'[s].tables = g_processes[s].tables
  <2>1. g_processes'[s] = g_processes[s]
    OBVIOUS
  <2> QED
    BY <2>1
<1> QED
  BY <1>2, <1>3, PRelease

(* SYS_MMAP: pages that were free go to the caller. *)
LEMMA PMmap ==
  ASSUME CInv, PInv, NEW n \in MmapSizes, sys_mmap(n)
  PROVE  PInv'
<1>0. PICK c \in Slot : c = g_current
  BY MmapEffect
<1>1. /\ \A s \in Slot \ {c} : g_processes'[s] = g_processes[s]
  BY <1>0, MmapEffect
<1>2. PICK run, table \in SUBSET Page :
        /\ run \cap pmm = {} /\ table \cap pmm = {} /\ run \cap table = {}
        /\ pmm' = pmm \cup run \cup table
        /\ g_processes'[c].tables = g_processes[c].tables \cup table
        /\ \/ /\ run = {}
              /\ g_processes'[c].regions = g_processes[c].regions
           \/ g_processes'[c].regions = g_processes[c].regions \cup {run}
  BY <1>0, MmapEffect
<1>3. LocalPages' = LocalPages /\ LocalsApart'
  BY PInvElements DEF sys_mmap, LocalPages, LocalsApart
<1>4. \A s \in Slot \ {c} : PagesOf(s)' = PagesOf(s) /\ OwnApart(s)'
  BY <1>1, PInvElements DEF PagesOf, OwnApart
<1>5. \A x : x \in PagesOf(c)' <=>
               x \in PagesOf(c) \/ x \in run \/ x \in table
  BY <1>2 DEF PagesOf
<1>6. \A x : x \in PagesOf(c) => x \in pmm
  BY <1>1, PInvElements
<1>7. OwnApart(c)'
  <2>1. OwnApart(c)
    BY <1>1, PInvElements
  <2>2. \A r \in g_processes[c].regions : r \cap run = {} /\ r \cap table = {}
    BY <1>2, <1>6 DEF PagesOf
  <2>3. g_processes[c].tables \cap run = {}
    BY <1>2, <1>6 DEF PagesOf
  <2>4. (UNION g_processes'[c].regions) \cap g_processes'[c].tables = {}
    BY <1>2, <2>1, <2>2, <2>3 DEF OwnApart
  <2>5. \A r, q \in g_processes'[c].regions : r # q => r \cap q = {}
    BY <1>2, <2>1, <2>2 DEF OwnApart
  <2> QED
    BY <2>4, <2>5 DEF OwnApart, sys_mmap
<1>8. \A x : x \in pmm' <=> \/ x \in LocalPages'
                            \/ \E s \in Slot : x \in PagesOf(s)'
  BY <1>1, <1>2, <1>3, <1>4, <1>5, PInvElements
<1>9. /\ \A s, t \in Slot : \A x : x \in PagesOf(s)' /\ x \in PagesOf(t)' => s = t
      /\ \A s \in Slot : \A x : x \in PagesOf(s)' => x \notin LocalPages'
  BY <1>1, <1>2, <1>3, <1>4, <1>5, PInvElements
<1> QED
  BY <1>3, <1>4, <1>7, <1>8, <1>9, PInvElementsNext

(* SYS_MUNMAP: the pages of one region are nobody else's, so their bits    *)
(* may go.                                                                 *)
LEMMA PMunmap ==
  ASSUME CInv, PInv, NEW r, sys_munmap(r)
  PROVE  PInv'
<1>0. PICK c \in Slot : c = g_current
  BY MunmapEffect
<1>1. /\ r \in g_processes[c].regions
      /\ \A s \in Slot \ {c} : g_processes'[s] = g_processes[s]
      /\ g_processes'[c].tables = g_processes[c].tables
      /\ g_processes'[c].regions = g_processes[c].regions \ {r}
      /\ pmm' = pmm \ r
  BY <1>0, MunmapEffect
<1>2. LocalPages' = LocalPages /\ LocalsApart'
  BY PInvElements DEF sys_munmap, LocalPages, LocalsApart
<1>3. \A s \in Slot \ {c} : PagesOf(s)' = PagesOf(s) /\ OwnApart(s)'
  BY <1>1, PInvElements DEF PagesOf, OwnApart
<1>4. OwnApart(c)
  BY <1>1, PInvElements
<1>5. \A x : x \in PagesOf(c)' <=> x \in PagesOf(c) /\ x \notin r
  BY <1>1, <1>4 DEF PagesOf, OwnApart
<1>6. \A x : x \in r => x \in PagesOf(c)
  BY <1>1 DEF PagesOf
<1>7. OwnApart(c)'
  BY <1>1, <1>4 DEF OwnApart, sys_munmap
<1>8. \A x : x \in pmm' <=> \/ x \in LocalPages'
                            \/ \E s \in Slot : x \in PagesOf(s)'
  BY <1>1, <1>2, <1>3, <1>5, <1>6, PInvElements
<1>9. /\ \A s, t \in Slot : \A x : x \in PagesOf(s)' /\ x \in PagesOf(t)' => s = t
      /\ \A s \in Slot : \A x : x \in PagesOf(s)' => x \notin LocalPages'
  BY <1>1, <1>2, <1>3, <1>5, PInvElements
<1> QED
  BY <1>2, <1>3, <1>7, <1>8, <1>9, PInvElementsNext

(* create_panel_page_table: what the locals held becomes the process's. *)
LEMMA PMap ==
  ASSUME CInv, PInv, at = "map", NEW b \in Page, pmm_alloc_page(pmm, b),
         g_processes' = [g_processes EXCEPT ![load.slot] = Loaded({b})],
         LoadSteps({b}, [load EXCEPT !.image = {}, !.root = NoPage, !.pgd = {}], "argv")
  PROVE  PInv'
<1>1. /\ load.slot \in Slot
      /\ \A s \in Slot \ {load.slot} : g_processes'[s] = g_processes[s]
      /\ g_processes'[load.slot].tables = load.pgd \cup {b}
      /\ g_processes'[load.slot].regions = {load.image, load.stack}
  BY MapEffect
<1>2. /\ load \in Locals /\ b \notin pmm
      /\ g_processes[load.slot].tables = {} /\ g_processes[load.slot].regions = {}
  BY AllocPage DEF CInv, TypeOK, LoaderInv, LoadPoints
<1>3. /\ load'.image = {} /\ load'.pgd = {} /\ at' = "argv" /\ pmm' = pmm \cup {b}
  BY <1>2 DEF LoadSteps, Locals
<1>4. LocalPages' = {} /\ LocalsApart'
  BY <1>3 DEF LocalPages, LocalsApart
<1>5. LocalPages = load.image \cup load.pgd \cup load.stack /\ LocalsApart
  BY PInvElements DEF LocalPages
<1>6. \A s \in Slot \ {load.slot} : PagesOf(s)' = PagesOf(s) /\ OwnApart(s)'
  BY <1>1, PInvElements DEF PagesOf, OwnApart
<1>7. PagesOf(load.slot) = {}
  BY <1>2 DEF PagesOf
<1>8. \A x : x \in g_processes'[load.slot].tables
             \/ (\E r \in g_processes'[load.slot].regions : x \in r)
             <=> x \in LocalPages \/ x = b
  BY <1>1, <1>5
<1>9. g_processes'[load.slot].tables \cap UNION g_processes'[load.slot].regions = {}
  <2>1. b \notin LocalPages
    BY <1>2, PInvElements
  <2>2. load.image \cap (load.pgd \cup {b}) = {} /\ load.stack \cap (load.pgd \cup {b}) = {}
    BY <1>5, <2>1 DEF LocalsApart
  <2> QED
    BY <1>1, <2>2
<1>10. \A r, q \in g_processes'[load.slot].regions : r # q => r \cap q = {}
  BY <1>1, <1>5 DEF LocalsApart
<1>11. ASSUME NEW s \in Slot, s = load.slot
       PROVE  OwnApart(s)' /\ \A x : x \in PagesOf(s)' <=> x \in LocalPages \/ x = b
  BY <1>8, <1>9, <1>10, <1>11 DEF OwnApart, PagesOf
<1>12. \A x : x \in pmm' <=> \/ x \in LocalPages'
                             \/ \E s \in Slot : x \in PagesOf(s)'
  BY <1>1, <1>3, <1>4, <1>6, <1>7, <1>11, PInvElements
<1>13. /\ \A s, t \in Slot : \A x : x \in PagesOf(s)' /\ x \in PagesOf(t)' => s = t
       /\ \A s \in Slot : \A x : x \in PagesOf(s)' => x \notin LocalPages'
  BY <1>1, <1>2, <1>4, <1>6, <1>11, PInvElements
<1>14. \A s \in Slot : OwnApart(s)'
  BY <1>6, <1>11
<1> QED
  BY <1>4, <1>12, <1>13, <1>14, PInvElementsNext

(* A step that moves no page. *)
LEMMA PSame ==
  ASSUME PInv, UNCHANGED pmm, LocalPages' = LocalPages, LocalsApart',
         \A s \in Slot : /\ g_processes'[s].regions = g_processes[s].regions
                         /\ g_processes'[s].tables = g_processes[s].tables
  PROVE  PInv'
BY PLocal, {} \cap pmm = {}, pmm' = pmm \cup {}, LocalPages' = LocalPages \cup {}

(* Outside the loader there are no local pages, and with empty locals they *)
(* are trivially apart.                                                    *)
LEMMA AtRest ==
  /\ load = NoLoad => LocalPages = {} /\ LocalsApart
  /\ load' = NoLoad => LocalPages' = {} /\ LocalsApart'
BY DEF NoLoad, LocalPages, LocalsApart

(* Taking a slot. *)
LEMMA PAlloc ==
  ASSUME CInv, PInv, load = NoLoad,
         NEW pid \in Pid, NEW parent \in Pid, NEW state \in States, NEW full,
         AllocAfterReclaim(pid, parent, state, full)
  PROVE  PInv'
<1>1. /\ pmm' = pmm \ (FreedPages(Reclaimable) \cup {})
      /\ Reclaimable \subseteq Slot /\ {} \subseteq LocalPages
  BY AllocEffect, ReclaimedZombies
<1>2. \A s \in Slot : Released(Reclaimable)[s] =
                      IF s \in Reclaimable THEN EmptySlot ELSE g_processes[s]
  BY DEF Released
<1>a. CASE load' = load /\ g_processes' = Released(Reclaimable)
  <2>1. LocalPages' = LocalPages \ {} /\ LocalsApart'
    BY <1>a, AtRest
  <2>2. /\ \A s \in Reclaimable : g_processes'[s].regions = {} /\ g_processes'[s].tables = {}
        /\ \A s \in Slot \ Reclaimable : g_processes'[s] = g_processes[s]
    BY <1>1, <1>2, <1>a, EmptyFields
  <2> QED
    BY <1>1, <2>1, <2>2, PRelease
<1>b. ASSUME NEW s \in Slot, at' = "image", load' = [NoLoad EXCEPT !.slot = s],
             process_alloc(Released(Reclaimable), pid, s),
             g_processes'[s] = NewProcess(pid, parent, state),
             \A t \in Slot \ {s} : g_processes'[t] = Released(Reclaimable)[t]
      PROVE  PInv'
  <2>1. load'.image = {} /\ load'.stack = {} /\ load'.pgd = {}
    BY <1>b, NewLoadFields
  <2>2. LocalPages' = LocalPages \ {} /\ LocalsApart'
    BY <2>1, AtRest DEF LocalPages, LocalsApart
  <2>3. g_processes'[s].regions = {} /\ g_processes'[s].tables = {}
    BY <1>b, NewProcessFields
  <2>4. s \in Reclaimable \/ g_processes[s] = EmptySlot
    <3>1. s \in Reclaimable \/ g_processes[s].state = "UNUSED"
      BY <1>2, <1>b DEF process_alloc
    <3> QED
      BY <3>1 DEF CInv, SlotsInv, SlotInv
  <2>5. /\ \A t \in Reclaimable : g_processes'[t].regions = {} /\ g_processes'[t].tables = {}
        /\ \A t \in Slot \ Reclaimable :
             /\ g_processes'[t].regions = g_processes[t].regions
             /\ g_processes'[t].tables = g_processes[t].tables
    <3>1. EmptySlot.regions = {} /\ EmptySlot.tables = {}
      BY DEF EmptySlot
    <3>2. \A t \in Slot \ {s} : g_processes'[t] = IF t \in Reclaimable THEN EmptySlot
                                                 ELSE g_processes[t]
      BY <1>2, <1>b
    <3> QED
      BY <1>1, <2>3, <2>4, <3>1, <3>2
  <2> QED
    BY <1>1, <2>2, <2>5, PRelease
<1> QED
  BY <1>a, <1>b, AllocEffect

(* Giving up on a launch: whatever the locals hold goes back, and what the *)
(* slot owns goes with the slot.                                           *)
LEMMA PLoadFails ==
  ASSUME CInv, PInv, at \in LoadPoints, LoadFails(LocalPages)
  PROVE  PInv'
<1>1. /\ load.slot \in Slot /\ load' = NoLoad
      /\ pmm' = pmm \ (FreedPages({load.slot}) \cup LocalPages)
  BY DEF LoadFails, process_release, pmm_free, CInv, LoaderInv
<1>2. \A s \in Slot : g_processes'[s] = IF s = load.slot THEN EmptySlot ELSE g_processes[s]
  BY DEF LoadFails, process_release, Released
<1>3. LocalPages' = LocalPages \ LocalPages /\ LocalsApart'
  BY <1>1, AtRest
<1> QED
  <2>1. PICK S : S = {load.slot}
    OBVIOUS
  <2>2. S \subseteq Slot /\ pmm' = pmm \ (FreedPages(S) \cup LocalPages)
    BY <1>1, <2>1
  <2>3. \A s \in Slot : g_processes'[s] = IF s \in S THEN EmptySlot ELSE g_processes[s]
    BY <1>2, <2>1
  <2> QED
    BY <1>3, <2>2, <2>3, PEmptied

(* What each error path frees is exactly what the locals hold. *)
LEMMA StorageIsLocal ==
  ASSUME CInv
  PROVE  /\ at \in {"image", "stack", "table"} => free_user_storage = LocalPages
         /\ at \in {"identity", "map"} => free_user_storage \cup load.pgd = LocalPages
         /\ at = "argv" => LocalPages = {}
<1>1. at \in {"image", "stack", "table"} => load.pgd = {}
  BY DEF CInv, LoaderInv, LoadPoints
<1>2. at = "argv" => load.pgd = {} /\ load.image = {}
  BY DEF CInv, LoaderInv, LoadPoints
<1> QED
  BY <1>1, <1>2 DEF free_user_storage, LocalPages

(* Every step keeps the bitmap and the owners in agreement. *)
LEMMA PStep == CInv /\ PInv /\ [Next]_vars => PInv'
<1> SUFFICES ASSUME CInv, PInv, [Next]_vars PROVE PInv'
  OBVIOUS
<1>0. CASE UNCHANGED <<g_processes, pmm, at, load>>
  <2>1. LocalPages' = LocalPages /\ LocalsApart'
    BY <1>0, PInvElements DEF LocalPages, LocalsApart
  <2> QED
    BY <1>0, <2>1, PSame
<1>r. load = NoLoad /\ load' = load => LocalPages' = LocalPages /\ LocalsApart'
  BY AtRest
<1>s. ASSUME NEW next \in Slot, Switch(next), UNCHANGED <<pmm, load>>, load = NoLoad
      PROVE  PInv'
  BY <1>r, <1>s, PSame DEF Switch, SameOwner
<1>1. ASSUME Preempt PROVE PInv'
  <2>1. UNCHANGED <<pmm, load>> /\ load = NoLoad
    BY <1>1 DEF Preempt, CInv, ControlInv
  <2> QED
    BY <1>0, <1>1, <1>s, <2>1, PreemptEffect DEF vars
<1>2. ASSUME NEW code \in ExitCodes, Leave(code) PROVE PInv'
  <2>1. UNCHANGED <<pmm, load>> /\ load = NoLoad
    BY <1>2 DEF Leave, CInv, ControlInv
  <2>2. CASE /\ \A s \in Slot \ {g_current} : g_processes'[s] = g_processes[s]
             /\ SameOwner(g_current)
    BY <1>r, <2>1, <2>2, PSame DEF SameOwner
  <2> QED
    BY <1>2, <1>s, <2>1, <2>2, LeaveEffect
<1>3. ASSUME NEW pid \in Pid, sys_wait(pid) PROVE PInv'
  <2>1. UNCHANGED load /\ load = NoLoad
    BY <1>3 DEF sys_wait, CInv, ControlInv
  <2>2. PICK child \in Slot : process_release({child}, {})
    BY <1>3 DEF sys_wait, process_find
  <2>3. \A s \in Slot : g_processes'[s] = IF s = child THEN EmptySlot ELSE g_processes[s]
    BY <2>2 DEF process_release, Released
  <2>4. /\ pmm' = pmm \ (FreedPages({child}) \cup {}) /\ {} \subseteq LocalPages
        /\ LocalPages' = LocalPages \ {} /\ LocalsApart'
    BY <1>r, <2>1, <2>2 DEF process_release, pmm_free
  <2> QED
    <3>1. PICK S, none : S = {child} /\ none = {}
      OBVIOUS
    <3>2. /\ S \subseteq Slot /\ pmm' = pmm \ (FreedPages(S) \cup none)
          /\ none \subseteq LocalPages /\ LocalPages' = LocalPages \ none /\ LocalsApart'
      BY <2>4, <3>1
    <3>3. \A s \in Slot : g_processes'[s] = IF s \in S THEN EmptySlot ELSE g_processes[s]
      BY <2>3, <3>1
    <3> QED
      BY <3>2, <3>3, PEmptied
<1>4. ASSUME NEW pid \in Pid, sys_kill(pid) PROVE PInv'
  <2>1. UNCHANGED <<pmm, load>> /\ load = NoLoad
    BY <1>4 DEF sys_kill, CInv, ControlInv
  <2> QED
    BY <1>4, <1>r, <2>1, KillEffect, PSame DEF SameOwner
<1>5. ASSUME NEW n \in MmapSizes, sys_mmap(n) PROVE PInv'
  BY <1>5, PMmap
<1>6. ASSUME NEW r, sys_munmap(r) PROVE PInv'
  BY <1>6, PMunmap
<1>7. CASE app_spawn_vfs
  <2>1. /\ g_next_spawn_pid \in Pid /\ g_processes[g_current].pid \in Pid
        /\ "BLOCKED" \in States /\ load = NoLoad
    BY <1>7 DEF app_spawn_vfs, CInv, ControlInv, TypeOK, ProcessRecord, States
  <2> QED
    BY <1>7, <2>1, PAlloc DEF app_spawn_vfs
<1>8. CASE panel_boot_run
  <2>1. PanelPid \in Pid /\ 0 \in Pid /\ "READY" \in States /\ load = NoLoad
    BY <1>8, Slots DEF States, panel_boot_run, CInv, ControlInv
  <2> QED
    BY <1>8, <2>1, PAlloc DEF panel_boot_run
<1>9. ASSUME NEW pages, pages \cap pmm = {}, pmm' = pmm \cup pages,
             LocalPages' = LocalPages \cup pages, LocalsApart', UNCHANGED g_processes
      PROVE  PInv'
  BY <1>9, PLocal
<1>10. load \in Locals /\ LocalsApart /\ (\A x \in LocalPages : x \in pmm)
  BY PInvElements DEF CInv, TypeOK
<1>11. CASE load_image
  <2>1. at = "image" /\ load.pgd = {} /\ load.stack = {} /\ load.image = {}
    BY <1>11 DEF load_image, CInv, LoaderInv, LoadPoints
  <2>2. ASSUME NEW b \in Page, pmm_alloc_pages(pmm, ImagePages, b),
               LoadSteps(Run(b, ImagePages),
                         [load EXCEPT !.image = Run(b, ImagePages)], "stack"),
               UNCHANGED g_processes
        PROVE  PInv'
    <3>1. /\ load'.image = Run(b, ImagePages) /\ load'.pgd = {} /\ load'.stack = {}
          /\ at' = "stack" /\ pmm' = pmm \cup Run(b, ImagePages)
      BY <1>10, <2>1, <2>2 DEF LoadSteps, Locals
    <3>2. LocalPages' = LocalPages \cup Run(b, ImagePages) /\ LocalsApart'
      BY <2>1, <3>1 DEF LocalPages, LocalsApart
    <3> QED
      BY <1>9, <2>2, <3>1, <3>2, AllocRun
  <2>3. ASSUME LoadFails(free_user_storage) PROVE PInv'
    BY <2>1, <2>3, PLoadFails, StorageIsLocal DEF LoadPoints
  <2> QED
    BY <1>11, <2>2, <2>3 DEF load_image
<1>12. CASE init_panel_process
  <2>1. at = "stack" /\ load.pgd = {} /\ load.stack = {}
    BY <1>12 DEF init_panel_process, CInv, LoaderInv, LoadPoints
  <2>2. ASSUME NEW b \in Page, pmm_alloc_page(pmm, b),
               LoadSteps({b}, [load EXCEPT !.stack = {b}], "table"),
               UNCHANGED g_processes
        PROVE  PInv'
    <3>1. /\ load'.stack = {b} /\ load'.image = load.image /\ load'.pgd = {}
          /\ at' = "table" /\ pmm' = pmm \cup {b}
      BY <1>10, <2>1, <2>2 DEF LoadSteps, Locals
    <3>2. {b} \cap pmm = {} /\ b \notin load.image
      BY <1>10, <2>2, AllocPage DEF LocalPages
    <3>3. LocalPages' = LocalPages \cup {b} /\ LocalsApart'
      BY <2>1, <3>1, <3>2 DEF LocalPages, LocalsApart
    <3> QED
      BY <1>9, <2>2, <3>1, <3>2, <3>3
  <2>3. ASSUME LoadFails(free_user_storage) PROVE PInv'
    BY <2>1, <2>3, PLoadFails, StorageIsLocal DEF LoadPoints
  <2> QED
    BY <1>12, <2>2, <2>3 DEF init_panel_process
<1>13. CASE vmm_new_table
  <2>1. at = "table" /\ load.pgd = {}
    BY <1>13 DEF vmm_new_table, CInv, LoaderInv, LoadPoints
  <2>2. ASSUME NEW b \in Page, pmm_alloc_page(pmm, b),
               LoadSteps({b}, [load EXCEPT !.root = b, !.pgd = {b}], "identity"),
               UNCHANGED g_processes
        PROVE  PInv'
    <3>1. /\ load'.stack = load.stack /\ load'.image = load.image /\ load'.pgd = {b}
          /\ at' = "identity" /\ pmm' = pmm \cup {b}
      BY <1>10, <2>2 DEF LoadSteps, Locals
    <3>2. {b} \cap pmm = {} /\ b \notin load.image /\ b \notin load.stack
      BY <1>10, <2>1, <2>2, AllocPage DEF LocalPages
    <3>3. LocalPages' = LocalPages \cup {b} /\ LocalsApart'
      BY <1>10, <2>1, <3>1, <3>2 DEF LocalPages, LocalsApart
    <3> QED
      BY <1>9, <2>2, <3>1, <3>2, <3>3
  <2>3. ASSUME LoadFails(free_user_storage) PROVE PInv'
    BY <2>1, <2>3, PLoadFails, StorageIsLocal DEF LoadPoints
  <2> QED
    BY <1>13, <2>2, <2>3 DEF vmm_new_table
<1>14. CASE map_kernel_identity
  <2>1. at = "identity"
    BY <1>14 DEF map_kernel_identity
  <2>2. ASSUME NEW b \in Page, pmm_alloc_page(pmm, b),
               LoadSteps({b}, [load EXCEPT !.pgd = @ \cup {b}], "map"),
               UNCHANGED g_processes
        PROVE  PInv'
    <3>1. /\ load'.stack = load.stack /\ load'.image = load.image
          /\ load'.pgd = load.pgd \cup {b}
          /\ at' = "map" /\ pmm' = pmm \cup {b}
      BY <1>10, <2>2 DEF LoadSteps, Locals
    <3>2. {b} \cap pmm = {} /\ b \notin load.image /\ b \notin load.stack
      BY <1>10, <2>1, <2>2, AllocPage DEF LocalPages
    <3>3. LocalPages' = LocalPages \cup {b} /\ LocalsApart'
      BY <1>10, <2>1, <3>1, <3>2 DEF LocalPages, LocalsApart
    <3> QED
      BY <1>9, <2>2, <3>1, <3>2, <3>3
  <2> QED
    BY <1>14, <2>1, <2>2, PLoadFails, StorageIsLocal DEF map_kernel_identity, LoadPoints
<1>15. CASE create_panel_page_table
  <2>1. at = "map"
    BY <1>15 DEF create_panel_page_table
  <2> QED
    BY <1>15, <2>1, PMap, PLoadFails, StorageIsLocal DEF create_panel_page_table, LoadPoints
<1>16. ASSUME NEW state, at = "argv", UNCHANGED pmm, load' = NoLoad,
              g_processes' = [g_processes EXCEPT ![load.slot].state = state]
       PROVE  PInv'
  <2>1. load.slot \in Slot /\ g_processes \in [Slot -> ProcessRecord]
    BY <1>16 DEF CInv, LoaderInv, LoadPoints, TypeOK
  <2>2. \A s \in Slot : /\ g_processes'[s].regions = g_processes[s].regions
                        /\ g_processes'[s].tables = g_processes[s].tables
    BY <1>16, <2>1 DEF ProcessRecord
  <2>3. LocalPages' = LocalPages /\ LocalsApart'
    BY <1>16, AtRest, StorageIsLocal
  <2> QED
    BY <1>16, <2>2, <2>3, PSame
<1>17. CASE SpawnDone \/ PanelEnter
  <2>1. at = "argv"
    BY <1>17 DEF SpawnDone, PanelEnter
  <2>2. SpawnDone /\ ~LoadFails({}) => UNCHANGED pmm
    BY DEF SpawnDone, LoadSteps
  <2> QED
    BY <1>16, <1>17, <2>1, <2>2, PLoadFails, StorageIsLocal
       DEF SpawnDone, PanelEnter, LoadSteps, LoadPoints
<1>18. CASE PanelReturn
  <2>1. /\ load = NoLoad /\ load' = load /\ Reclaimable \cup {panel} \subseteq Slot
        /\ process_release(Reclaimable \cup {panel}, {})
    BY <1>18, ReclaimedZombies DEF PanelReturn, CInv, ControlInv
  <2>2. /\ \A s \in Reclaimable \cup {panel} : g_processes'[s] = EmptySlot
        /\ \A s \in Slot \ (Reclaimable \cup {panel}) : g_processes'[s] = g_processes[s]
    BY <2>1 DEF process_release, Released
  <2>3. /\ pmm' = pmm \ (FreedPages(Reclaimable \cup {panel}) \cup {})
        /\ {} \subseteq LocalPages /\ LocalPages' = LocalPages \ {} /\ LocalsApart'
    BY <1>r, <2>1 DEF process_release, pmm_free
  <2> QED
    <3>1. PICK S, none : S = Reclaimable \cup {panel} /\ none = {}
      OBVIOUS
    <3>2. /\ S \subseteq Slot /\ pmm' = pmm \ (FreedPages(S) \cup none)
          /\ none \subseteq LocalPages /\ LocalPages' = LocalPages \ none /\ LocalsApart'
      BY <2>1, <2>3, <3>1
    <3>3. \A s \in Slot : g_processes'[s] = IF s \in S THEN EmptySlot ELSE g_processes[s]
      BY <2>2, <3>1
    <3> QED
      BY <3>2, <3>3, PEmptied
<1> QED
  BY <1>0, <1>1, <1>2, <1>3, <1>4, <1>5, <1>6, <1>7, <1>8, <1>11, <1>12, <1>13,
     <1>14, <1>15, <1>17, <1>18
     DEF Next, Kernel, Loader, User, sys_yield_process, irq_handler_frame, sys_exit,
         handle_user_fault, ExitCodes, Acquire, Console, vars

(* Pages are accounted for throughout. *)
LEMMA PagesInvariant == Spec => []PInv
<1>1. Init => PInv
  <2> SUFFICES ASSUME Init PROVE PInv
    OBVIOUS
  <2>1. \A s \in Slot : g_processes[s].regions = {} /\ g_processes[s].tables = {}
    BY EmptyFields DEF Init
  <2>2. (\A s \in Slot : PagesOf(s) = {}) /\ LocalPages = {} /\ pmm = {}
    BY <2>1 DEF Init, PagesOf, LocalPages, NoLoad
  <2>3. PagesExclusive
    BY <2>1, <2>2 DEF Init, PagesExclusive, NoLoad
  <2>4. NoPageLost
    BY <2>2 DEF NoPageLost
  <2> QED
    BY <2>3, <2>4 DEF PInv
<1> QED
  BY <1>1, PStep, ControlCorrect, PTL DEF Spec

(* No page has two owners: process_free_resources may free all it finds,   *)
(* and the error paths of app_spawn_vfs never free a page twice.           *)
THEOREM PagesExclusiveCorrect == Spec => []PagesExclusive
<1>1. PInv => PagesExclusive
  BY DEF PInv
<1> QED
  BY <1>1, PagesInvariant, PTL

(* A bit of the bitmap is set exactly while someone owns the page: no      *)
(* sequence of spawns, failures, faults, kills and waits leaks a page.     *)
THEOREM NoPageLostCorrect == Spec => []NoPageLost
<1>1. PInv => NoPageLost
  BY DEF PInv
<1> QED
  BY <1>1, PagesInvariant, PTL

(* panel_boot_recovery_run always launches on an empty system. *)
THEOREM CleanRestartCorrect == Spec => []CleanRestart
<1>1. CInv /\ NoPageLost /\ NoGhostHolders /\ ActiveTablesLive => CleanRestart
  <2> SUFFICES ASSUME CInv, NoPageLost, NoGhostHolders, ActiveTablesLive,
                      at \in {"boot", "console"}
               PROVE  /\ Used = {} /\ pmm = {} /\ holders = {}
                      /\ g_current = NoSlot /\ ttbr0 = NoPage
    BY DEF CleanRestart
  <2>1. /\ g_current = NoSlot /\ load = NoLoad
        /\ \A s \in Slot : g_processes[s] = EmptySlot
    BY DEF CInv, ControlInv, SlotsInv, SlotInv
  <2>2. Used = {} /\ Live = {}
    <3>1. EmptySlot.state = "UNUSED"
      BY EmptyFields
    <3>2. ASSUME NEW s \in Slot PROVE g_processes[s].state = "UNUSED"
      <4>1. g_processes[s] = EmptySlot
        BY <2>1
      <4> QED
        BY <3>1, <4>1
    <3> QED
      BY <3>2 DEF Used, Live
  <2>3. ASSUME NEW s \in Slot PROVE PagesOf(s) = {}
    <3>1. /\ g_processes[s].page_table = NoPage
          /\ g_processes[s].tables = {} /\ g_processes[s].regions = {}
      BY <2>1, EmptyFields
    <3> QED
      BY <3>1 DEF PagesOf
  <2>4. pmm = {}
    BY <2>1, <2>3, AtRest DEF NoPageLost
  <2>5. holders = {}
    BY <2>2 DEF NoGhostHolders
  <2>6. ttbr0 = NoPage
    BY <2>1 DEF ActiveTablesLive
  <2> QED
    BY <2>1, <2>2, <2>4, <2>5, <2>6
<1> QED
  BY <1>1, ControlCorrect, NoPageLostCorrect, NoGhostHoldersCorrect,
     ActiveTablesCorrect, PTL
=============================================================================
