----------------------------- MODULE Interrupts -----------------------------
(***************************************************************************)
(* Who may be interrupted where: exception entry and return                *)
(* (kernel/exception_vectors.S), the mask helpers irq_disable and          *)
(* irq_enable instruction by instruction (kernel/irq_asm.S), the launch of *)
(* EL0 (kernel/user_entry.S), and the code that runs with interrupts open: *)
(* the boot path once init_timer_irq is done, processes, and the console   *)
(* thread once the panel has exited (kernel/kernel.c).                     *)
(*                                                                         *)
(* The one CPU runs the context on top of `stack`; those below it wait for *)
(* an exception return.  Contexts keep their registers, everything else is *)
(* shared.                                                                 *)
(***************************************************************************)
EXTENDS Integers, Sequences

CONSTANT MaxHeld      \* bound on how deep a context nests the helpers

ASSUME InterruptsAssumption == MaxHeld \in Nat \ {0}

VARIABLES
  I,                    \* PSTATE.I: 1 while interrupts are masked
  spsr_el1, elr_el1,    \* the registers of the last exception
  irq_disable_depth,
  irq_restore_enabled,
  stack,                \* contexts, the running one last
  rx                    \* bytes in the receiver of the serial port

helpers == <<irq_disable_depth, irq_restore_enabled>>
exception == <<spsr_el1, elr_el1>>
irqvars == <<I, exception, helpers, stack, rx>>

Flows == {"boot", "console", "user", "svc", "irq"}
Points == {"run", "disable", "daif", "restore", "depth", "mask", "enable",
           "unmask", "spsr", "elr", "eret", "wild"}

Spsr == [el : 0 .. 1, I : 0 .. 1]
Elr == {"user", "kernel"}

(* held: irq_disable calls not yet undone; w2: the helper's register;      *)
(* spsr, elr: the exception frame of a handler; entered: history, I when   *)
(* the outermost irq_disable was called.                                   *)
Context == [flow : Flows, pc : Points, w2 : 0 .. 1, held : 0 .. MaxHeld,
            spsr : Spsr, elr : Elr, entered : 0 .. 1]
NewContext(flow, spsr, elr, masked) ==
  [flow |-> flow, pc |-> "run", w2 |-> 0, held |-> 0,
   spsr |-> spsr, elr |-> elr, entered |-> masked]
Top == stack[Len(stack)]
Below == SubSeq(stack, 1, Len(stack) - 1)
ExceptionLevel(c) == IF c.flow = "user" THEN 0 ELSE 1
SetTop(c) == stack' = Append(Below, c)
Goto(pc) == SetTop([Top EXCEPT !.pc = pc])
-----------------------------------------------------------------------------
(* irq_disable; an interrupt may be taken before each instruction.         *)

CallDisable ==
  /\ Top.pc = "run" /\ Top.flow # "user" /\ Top.held < MaxHeld
  /\ SetTop([Top EXCEPT !.pc = "disable",
                        !.entered = IF Top.held = 0 THEN I ELSE @])
  /\ UNCHANGED <<I, exception, helpers, rx>>

(* ldr depth; when it is not zero, add and str.  It is not zero only while *)
(* this or the interrupted code has masked, or is about to.                *)
DisableLoad ==
  /\ Top.pc = "disable"
  /\ IF irq_disable_depth = 0
     THEN Goto("daif") /\ UNCHANGED irq_disable_depth
     ELSE /\ SetTop([Top EXCEPT !.pc = "run", !.held = @ + 1])
          /\ irq_disable_depth' = irq_disable_depth + 1
  /\ UNCHANGED <<I, exception, irq_restore_enabled, rx>>

DisableReadDaif ==
  /\ Top.pc = "daif"
  /\ SetTop([Top EXCEPT !.pc = "restore", !.w2 = 1 - I])
  /\ UNCHANGED <<I, exception, helpers, rx>>

DisableStoreRestore ==
  /\ Top.pc = "restore"
  /\ irq_restore_enabled' = Top.w2
  /\ Goto("depth")
  /\ UNCHANGED <<I, exception, irq_disable_depth, rx>>

DisableStoreDepth ==
  /\ Top.pc = "depth"
  /\ irq_disable_depth' = 1
  /\ Goto("mask")
  /\ UNCHANGED <<I, exception, irq_restore_enabled, rx>>

DisableMask ==
  /\ Top.pc = "mask"
  /\ I' = 1
  /\ SetTop([Top EXCEPT !.pc = "run", !.held = @ + 1])
  /\ UNCHANGED <<exception, helpers, rx>>

irq_disable ==
  \/ CallDisable \/ DisableLoad \/ DisableReadDaif \/ DisableStoreRestore
  \/ DisableStoreDepth \/ DisableMask
-----------------------------------------------------------------------------
(* irq_enable *)

CallEnable ==
  /\ Top.pc = "run" /\ Top.held > 0
  /\ SetTop([Top EXCEPT !.pc = "enable"])
  /\ UNCHANGED <<I, exception, helpers, rx>>

(* The depth is not zero: init_timer_irq makes the only call that does not *)
(* match an irq_disable, and it comes first.                               *)
EnableLoad ==
  /\ Top.pc = "enable"
  /\ irq_disable_depth' = irq_disable_depth - 1
  /\ IF irq_disable_depth > 1
     THEN SetTop([Top EXCEPT !.pc = "run", !.held = @ - 1])
     ELSE Goto("unmask")
  /\ UNCHANGED <<I, exception, irq_restore_enabled, rx>>

(* Fault: a plain enable. *)
EnableUnmask_Always ==
  /\ Top.pc = "unmask"
  /\ I' = 0
  /\ SetTop([Top EXCEPT !.pc = "run", !.held = @ - 1])
  /\ UNCHANGED <<exception, helpers, rx>>

EnableUnmask ==
  /\ Top.pc = "unmask"
  /\ I' = IF irq_restore_enabled = 1 THEN 0 ELSE I
  /\ SetTop([Top EXCEPT !.pc = "run", !.held = @ - 1])
  /\ UNCHANGED <<exception, helpers, rx>>

irq_enable == CallEnable \/ EnableLoad \/ EnableUnmask
-----------------------------------------------------------------------------
(* Exceptions *)

(* Entry: the registers take the state of the interrupted context, which   *)
(* the handler saves in its frame, and interrupts are masked.              *)
Enter(flow) ==
  /\ spsr_el1' = [el |-> ExceptionLevel(Top), I |-> I]
  /\ elr_el1' = IF Top.flow = "user" THEN "user" ELSE "kernel"
  /\ I' = 1
  /\ stack' = Append(stack, NewContext(flow, spsr_el1', elr_el1', 1))
  /\ UNCHANGED helpers

(* Fault: the handler leaves the byte in the receiver. *)
TakeUartIrq_NoDrain ==
  /\ I = 0 /\ rx = 1 /\ Top.pc # "wild"
  /\ Enter("irq")
  /\ UNCHANGED rx

(* irq_entry and irq_handler_frame, with uart_irq_handler, which drains    *)
(* the receiver, or with timer_handle_irq.                                 *)
TakeUartIrq ==
  /\ I = 0 /\ rx = 1 /\ Top.pc # "wild"
  /\ Enter("irq")
  /\ rx' = 0

TakeTimerIrq ==
  /\ I = 0 /\ Top.pc # "wild"
  /\ Enter("irq")
  /\ UNCHANGED rx

(* lower_sync_entry, and syscall_pump_input, with which every call starts. *)
Svc ==
  /\ Top.flow = "user"
  /\ Enter("svc")
  /\ rx' = 0

(* The epilogue puts the frame back into the registers; eret. *)
Return ==
  /\ Top.pc = "run" /\ Top.held = 0 /\ Top.flow \in {"svc", "irq"}
  /\ spsr_el1' = Top.spsr /\ elr_el1' = Top.elr
  /\ I' = Top.spsr.I
  /\ stack' = Below
  /\ UNCHANGED <<helpers, rx>>

(* sys_exit of the panel: the frame is changed to return to panel_boot_run *)
(* with AARCH64_SPSR_EL1H_DAIF_MASKED.                                     *)
PanelExit ==
  /\ Top.flow = "svc" /\ Top.pc = "run" /\ Top.held = 0
  /\ spsr_el1' = [el |-> 1, I |-> 1]
  /\ elr_el1' = "kernel"
  /\ I' = 1
  /\ stack' = <<stack[1]>>
  /\ UNCHANGED <<helpers, rx>>
-----------------------------------------------------------------------------
(* user_enter_el0, and the console thread *)

CallEnter ==
  /\ Top.flow = "boot" /\ Top.pc = "run" /\ Top.held = 0
  /\ Goto("spsr")
  /\ UNCHANGED <<I, exception, helpers, rx>>

EnterSpsr ==
  /\ Top.pc = "spsr"
  /\ spsr_el1' = [el |-> 0, I |-> 0]
  /\ Goto("elr")
  /\ UNCHANGED <<I, elr_el1, helpers, rx>>

EnterElr ==
  /\ Top.pc = "elr"
  /\ elr_el1' = "user"
  /\ Goto("eret")
  /\ UNCHANGED <<I, spsr_el1, helpers, rx>>

(* The CPU goes where the two registers say. *)
EnterEret ==
  /\ Top.pc = "eret"
  /\ I' = spsr_el1.I
  /\ IF elr_el1 = "user" /\ spsr_el1.el = 0
     THEN stack' = Append(Append(Below, [Top EXCEPT !.pc = "run"]), NewContext("user", spsr_el1, elr_el1, 0))
     ELSE Goto("wild")
  /\ UNCHANGED <<exception, helpers, rx>>

(* panel_boot_recovery_run gives up, and start_scheduler switches to       *)
(* console_input_thread.                                                   *)
StartConsole ==
  /\ Top.flow = "boot" /\ Top.pc = "run" /\ Top.held = 0
  /\ SetTop([Top EXCEPT !.flow = "console"])
  /\ UNCHANGED <<I, exception, helpers, rx>>

Type ==
  /\ rx = 0 /\ rx' = 1
  /\ UNCHANGED <<I, exception, helpers, stack>>
-----------------------------------------------------------------------------
(* After the irq_enable of init_timer_irq. *)
IrqInit ==
  /\ I = 0
  /\ spsr_el1 = [el |-> 1, I |-> 1] /\ elr_el1 = "kernel"
  /\ irq_disable_depth = 0 /\ irq_restore_enabled = 0
  /\ stack = <<NewContext("boot", spsr_el1, elr_el1, 0)>>
  /\ rx = 0

Step ==
  \/ irq_disable \/ irq_enable
  \/ Svc \/ Return \/ PanelExit
  \/ CallEnter \/ EnterSpsr \/ EnterElr \/ EnterEret
  \/ StartConsole

IrqNext == Step \/ TakeUartIrq \/ TakeTimerIrq \/ Type

IrqSpec == IrqInit /\ [][IrqNext]_irqvars

(* A pending interrupt is taken before the next instruction once it is     *)
(* open, unless the timer comes first, which it does only every ten        *)
(* milliseconds.  A helper, once entered, runs to its end; a critical      *)
(* section ends, and a handler has finitely many.                          *)
IrqFairSpec ==
  /\ IrqSpec
  /\ SF_irqvars(TakeUartIrq)
  /\ SF_irqvars(Return)
  /\ WF_irqvars(CallEnable) /\ SF_irqvars(CallEnable /\ Top.held = 1)
  /\ WF_irqvars(Step /\ Top.pc # "run")
-----------------------------------------------------------------------------
(* The variables keep their types. *)
IrqTypeOK ==
  /\ I \in 0 .. 1 /\ spsr_el1 \in Spsr /\ elr_el1 \in Elr
  /\ irq_disable_depth \in Nat /\ irq_restore_enabled \in 0 .. 1
  /\ stack \in Seq(Context) /\ stack # <<>>
  /\ rx \in 0 .. 1

(* irq_asm.S: SVC and IRQ handlers "enter with I masked" and the helpers   *)
(* they call leave it so: no handler is ever interrupted.  Nor is anybody  *)
(* between irq_disable and the matching irq_enable: the queues they        *)
(* bracket are never seen half updated.                                    *)
CriticalUninterrupted ==
  \A i \in 1 .. Len(stack) :
    stack[i].flow \in {"svc", "irq"} \/ stack[i].held > 0 => i = Len(stack) /\ I = 1

(* The depth counts the open irq_disable calls of the running context;     *)
(* no nesting of helpers and interrupts leaves it too high, which would    *)
(* mask interrupts for good, or too low.                                   *)
DepthMatches ==
  LET Pending(c) == IF c.pc = "mask" THEN 1 ELSE IF c.pc = "unmask" THEN -1 ELSE 0
  IN IF Len(stack) > 1 /\ stack[Len(stack) - 1].pc = "mask"
     THEN irq_disable_depth = 1 + Top.held + Pending(Top)
     ELSE irq_disable_depth = Top.held + Pending(Top)

(* What every instruction of the helpers, of the handlers and of the       *)
(* launch path leaves of the mask and its depth (kernel/irq_asm.S:4).      *)
MaskSound == IrqTypeOK /\ CriticalUninterrupted /\ DepthMatches

(* irq_asm.S:4: the helpers restore the state they found: the outermost    *)
(* irq_enable leaves I as the outermost irq_disable saw it.                *)
MaskRestored ==
  [][Top.pc = "unmask" /\ (Top.pc)' = "run" => I' = Top.entered]_irqvars

(* user_entry.S: the launch trampoline goes to the entry point with "the   *)
(* SPSR value prepared for EL0t".                                          *)
LaunchReachesEl0 == Top.pc # "wild"

(* A byte that arrives while a process runs is read, by the interrupt it   *)
(* raises or by the next system call, unless the panel leaves first.       *)
ByteReadWhileUserRuns ==
  LET Runs == \E i \in 1 .. Len(stack) : stack[i].flow = "user"
  IN (rx = 1 /\ Runs) ~> (rx = 0 \/ ~Runs)
=============================================================================
