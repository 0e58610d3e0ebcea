------------------------------ MODULE MCMemory ------------------------------
(***************************************************************************)
(* Address spaces (UserVm) and a family of three processes (Process): what *)
(* the processes' pages are mapped to, and what becomes of the processes.  *)
(* A behaviour exercises the one that `subject` names; each has an         *)
(* allocator of its own, of NumPages pages.                                *)
(***************************************************************************)
EXTENDS MCUserVm

VARIABLES
  subject,
  g_processes, g_current, g_process_count, g_next_spawn_pid, used, ttbr0,
  holders, at, load, panel, attempts     \* those of Process; used is its pmm

familyvars == <<g_processes, g_current, g_process_count, g_next_spawn_pid, used,
                ttbr0, holders, at, load, panel, attempts>>

(* Parent, child and grandchild, in memory for two of them and a part of   *)
(* the third, and three pids to share.                                     *)
Family == INSTANCE MCProcess WITH
  MaxProcesses <- 3, PidModulus <- 4, ImagePages <- 1, MaxRegions <- 2,
  MmapSizes <- {}, Calls <- {"open"}, MaxTables <- 4, MaxAttempts <- 1,
  pmm <- used

MCInit == Init /\ Family!Init /\ subject \in {"spaces", "family"}

FamilyStep(A) == subject = "family" /\ A /\ UNCHANGED vars /\ UNCHANGED subject

MCNext ==
  \/ subject = "spaces" /\ Next /\ UNCHANGED familyvars /\ UNCHANGED subject
  \/ FamilyStep(Family!Next)

mcvars == <<vars, familyvars, subject>>

(* The fairness of Process!FairSpec, on the family. *)
MCSpec ==
  /\ MCInit /\ [][MCNext]_mcvars
  /\ WF_mcvars(FamilyStep(Family!Kernel))
  /\ SF_mcvars(FamilyStep(Family!irq_handler_frame))
-----------------------------------------------------------------------------
(* The loops of kernel/process.c:230 and 312 and of kernel/mm/vmm.c:200 do *)
(* what the set forms the models use say they do.                          *)
LoopsAgree ==
  IF subject = "family" THEN Family!ScansAgree ELSE MapRangeAgrees

(* Process: a READY process runs again, whatever the others do             *)
(* (kernel/process.c:230).                                                 *)
ReadyRuns == Family!ReadyRuns
=============================================================================
