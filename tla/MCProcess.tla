----------------------------- MODULE MCProcess -----------------------------
(***************************************************************************)
(* Process for TLC, and the two loops of kernel/process.c as the C code    *)
(* writes them, against which the set forms of Process are checked.        *)
(***************************************************************************)
EXTENDS Process

(* process_reclaim_zombies from slot i on: the verdict on each zombie sees *)
(* the slots released before it.                                           *)
RECURSIVE process_reclaim_zombies(_, _)
process_reclaim_zombies(i, procs) ==
  IF i = MaxProcesses THEN procs
  ELSE LET waits == \E p \in Slot : /\ procs[p].pid = procs[i].parent_pid
                                    /\ procs[p].pid # 0
                                    /\ procs[p].state \notin {"UNUSED", "ZOMBIE"}
           goes == procs[i].state = "ZOMBIE" /\ ~waits
       IN process_reclaim_zombies(
            i + 1, IF goes THEN [procs EXCEPT ![i] = EmptySlot] ELSE procs)

(* The scan of process_next_runnable from an offset on; NoSlot: nobody. *)
RECURSIVE ScanFrom(_, _)
ScanFrom(after, offset) ==
  LET index == (after + 1 + offset) % MaxProcesses IN
  IF offset = MaxProcesses - 1 THEN NoSlot
  ELSE IF g_processes[index].state = "READY" THEN index
  ELSE ScanFrom(after, offset + 1)

(* The order of the slots does not matter to process_reclaim_zombies: a    *)
(* zombie released early in the scan never decides whether a later one     *)
(* goes (kernel/process.c:312).  The loop of process_next_runnable with    *)
(* its modulus finds the READY slot at the least distance behind the       *)
(* current one, and misses none but the current one (line 230).            *)
ScansAgree ==
  /\ process_reclaim_zombies(0, g_processes) = Released(Reclaimable)
  /\ g_current # NoSlot =>
       LET found == ScanFrom(g_current, 0) IN
       IF found = NoSlot THEN ReadySlots(g_processes, g_current) = {}
       ELSE process_next_runnable(g_processes, g_current, found)
=============================================================================
