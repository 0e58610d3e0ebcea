-------------------------- MODULE InterruptsProofs --------------------------
(***************************************************************************)
(* The interrupt mask, for any nesting of the helpers: no handler and no   *)
(* critical section is interrupted, and the depth counts the sections that *)
(* are open.                                                               *)
(***************************************************************************)
EXTENDS Interrupts, TLAPS

Handlers == {"svc", "irq"}
Disabling == {"disable", "daif", "restore", "depth", "mask"}
Launching == {"spsr", "elr", "eret", "wild"}

(* What holds of a context wherever it is on the stack. *)
ContextOK(c) ==
  /\ c.flow = "user" => c.pc = "run" /\ c.held = 0
  /\ c.pc \in Disabling => c.held < MaxHeld
  /\ c.pc \in Disabling \ {"disable"} => c.held = 0
  /\ c.pc = "enable" => c.held > 0
  /\ c.pc = "unmask" => c.held = 1
  /\ c.pc \in Launching => c.flow = "boot" /\ c.held = 0

(* Three contexts at most: boot or console, the process it launched, and   *)
(* the handler of an exception.                                            *)
Shape ==
  /\ Len(stack) \in 1 .. 3
  /\ stack[1].flow \in {"boot", "console"}
  /\ Len(stack) = 2 => stack[2].flow \in {"user", "irq"}
  /\ Len(stack) = 3 => stack[2].flow = "user" /\ stack[3].flow \in Handlers
  /\ Len(stack) > 1 /\ stack[2].flow = "user" => stack[1].pc = "run"

(* What the context below has already added to the depth: an interrupt may *)
(* come between the two last instructions of irq_disable.                  *)
Base == IF Len(stack) > 1 /\ stack[Len(stack) - 1].pc = "mask" THEN 1 ELSE 0
PendingOf(c) == IF c.pc = "mask" THEN 1 ELSE IF c.pc = "unmask" THEN -1 ELSE 0

(* What holds of the running context.  A handler that is the first to mask *)
(* has noted that it need not unmask.                                      *)
Running ==
  /\ Top.flow \in Handlers \/ Top.held > 0 => I = 1
  /\ Base = 1 => Top.pc \in {"run", "disable", "enable"}
  /\ irq_disable_depth = Base + Top.held + PendingOf(Top)
  /\ Top.flow \in Handlers =>
       /\ Top.pc = "restore" => Top.w2 = 0
       /\ Base = 0 /\ (Top.held > 0 \/ Top.pc \in {"depth", "mask"}) =>
            irq_restore_enabled = 0

(* The inductive invariant. *)
MaskInv ==
  /\ IrqTypeOK
  /\ Shape
  /\ \A i \in 1 .. Len(stack) : ContextOK(stack[i])
  /\ \A i \in 1 .. (Len(stack) - 1) : stack[i].held = 0
  /\ Running
-----------------------------------------------------------------------------
(* What the operations on the stack do *)

(* The running context changes. *)
LEMMA SetTopEffect ==
  ASSUME stack \in Seq(Context), stack # <<>>, NEW c \in Context, SetTop(c)
  PROVE  /\ stack' \in Seq(Context) /\ Len(stack') = Len(stack) /\ stack' # <<>>
         /\ stack'[Len(stack)] = c
         /\ \A i \in 1 .. (Len(stack) - 1) : stack'[i] = stack[i]
<1>1. Len(stack) \in Nat /\ Len(stack) > 0
  OBVIOUS
<1>2. /\ Below \in Seq(Context) /\ Len(Below) = Len(stack) - 1
      /\ \A i \in 1 .. (Len(stack) - 1) : Below[i] = stack[i]
  BY <1>1 DEF Below
<1> HIDE DEF Below
<1> QED
  BY <1>1, <1>2 DEF SetTop

(* An exception, or the launch of a process, puts a context on top. *)
LEMMA PushEffect ==
  ASSUME stack \in Seq(Context), NEW c \in Context, stack' = Append(stack, c)
  PROVE  /\ stack' \in Seq(Context) /\ Len(stack') = Len(stack) + 1 /\ stack' # <<>>
         /\ stack'[Len(stack) + 1] = c
         /\ \A i \in 1 .. Len(stack) : stack'[i] = stack[i]
  OBVIOUS

(* An exception return takes it off. *)
LEMMA PopEffect ==
  ASSUME stack \in Seq(Context), Len(stack) > 1, stack' = Below
  PROVE  /\ stack' \in Seq(Context) /\ Len(stack') = Len(stack) - 1 /\ stack' # <<>>
         /\ \A i \in 1 .. (Len(stack) - 1) : stack'[i] = stack[i]
<1>1. Len(stack) \in Nat
  OBVIOUS
<1>2. /\ Below \in Seq(Context) /\ Len(Below) = Len(stack) - 1
      /\ \A i \in 1 .. (Len(stack) - 1) : Below[i] = stack[i]
  BY <1>1 DEF Below
<1> QED
  BY <1>1, <1>2

(* A step of the running context that stays in its flow. *)
LEMMA TopChanged ==
  ASSUME MaskInv, NEW c \in Context, SetTop(c), ContextOK(c), c.flow = Top.flow,
         I' \in 0 .. 1, spsr_el1' \in Spsr, elr_el1' \in Elr, rx' \in 0 .. 1,
         irq_restore_enabled' \in 0 .. 1,
         c.flow \in Handlers \/ c.held > 0 => I' = 1,
         Base = 1 => c.pc \in {"run", "disable", "enable"},
         irq_disable_depth' = Base + c.held + PendingOf(c),
         c.flow \in Handlers =>
           /\ c.pc = "restore" => c.w2 = 0
           /\ Base = 0 /\ (c.held > 0 \/ c.pc \in {"depth", "mask"}) =>
                irq_restore_enabled' = 0
  PROVE  MaskInv'
<1>0. stack \in Seq(Context) /\ stack # <<>> /\ Len(stack) \in 1 .. 3
  BY DEF MaskInv, IrqTypeOK, Shape
<1>1. /\ stack' \in Seq(Context) /\ Len(stack') = Len(stack) /\ stack' # <<>>
      /\ stack'[Len(stack)] = c
      /\ \A i \in 1 .. (Len(stack) - 1) : stack'[i] = stack[i]
  BY <1>0, SetTopEffect
<1>2. Top' = c /\ Base' = Base
  BY <1>0, <1>1 DEF Top, Base
<1>3. irq_disable_depth' \in Nat
  BY <1>0 DEF PendingOf, Base, Context, ContextOK
<1>4. IrqTypeOK'
  BY <1>1, <1>3 DEF IrqTypeOK
<1>5. Shape'
  BY <1>0, <1>1 DEF Shape, MaskInv, Top, ContextOK, Launching
<1>6. \A i \in 1 .. Len(stack') : ContextOK(stack'[i])
  BY <1>0, <1>1 DEF MaskInv
<1>7. \A i \in 1 .. (Len(stack') - 1) : stack'[i].held = 0
  BY <1>0, <1>1 DEF MaskInv
<1>8. Running'
  BY <1>2 DEF Running, PendingOf
<1> QED
  BY <1>4, <1>5, <1>6, <1>7, <1>8 DEF MaskInv

(* The facts about the running context that the steps use. *)
LEMMA TopFacts ==
  ASSUME MaskInv
  PROVE  /\ Top \in Context /\ ContextOK(Top) /\ Base \in 0 .. 1 /\ MaxHeld \in Nat \ {0}
         /\ I \in 0 .. 1 /\ spsr_el1 \in Spsr /\ elr_el1 \in Elr /\ rx \in 0 .. 1
         /\ irq_restore_enabled \in 0 .. 1 /\ irq_disable_depth \in Nat
<1>1. Len(stack) \in 1 .. Len(stack) /\ stack[Len(stack)] \in Context
  BY DEF MaskInv, IrqTypeOK, Shape
<1> QED
  BY <1>1, InterruptsAssumption DEF MaskInv, Top, Base, IrqTypeOK

(* Each instruction of irq_disable that matters: the first to mask notes   *)
(* whether to unmask later, stores the depth, and only then masks.         *)
LEMMA DisableStep == ASSUME MaskInv, irq_disable PROVE MaskInv'
<1>0. /\ Top \in Context /\ ContextOK(Top) /\ Base \in 0 .. 1 /\ MaxHeld \in Nat \ {0}
      /\ I \in 0 .. 1 /\ spsr_el1 \in Spsr /\ elr_el1 \in Elr /\ rx \in 0 .. 1
      /\ irq_restore_enabled \in 0 .. 1 /\ irq_disable_depth \in Nat
  BY TopFacts
<1>r. Running
  BY DEF MaskInv
<1>1. CASE CallDisable
  <2> DEFINE c == [Top EXCEPT !.pc = "disable", !.entered = IF Top.held = 0 THEN I ELSE @]
  <2>1. /\ c \in Context /\ c.flow = Top.flow /\ c.held = Top.held /\ c.pc = "disable"
        /\ Top.pc = "run" /\ Top.flow # "user" /\ Top.held < MaxHeld /\ SetTop(c)
    BY <1>0, <1>1 DEF CallDisable, Context, Points
  <2> HIDE DEF c
  <2>2. ContextOK(c)
    BY <1>0, <2>1 DEF ContextOK, Disabling, Launching
  <2>3. /\ I' = I /\ spsr_el1' = spsr_el1 /\ elr_el1' = elr_el1 /\ rx' = rx
        /\ irq_restore_enabled' = irq_restore_enabled
        /\ irq_disable_depth' = irq_disable_depth
    BY <1>1 DEF CallDisable, exception, helpers
  <2> QED
    BY <1>0, <1>r, <2>1, <2>2, <2>3, TopChanged DEF Running, PendingOf
<1>2. CASE DisableLoad /\ irq_disable_depth = 0
  <2> DEFINE c == [Top EXCEPT !.pc = "daif"]
  <2>1. /\ c \in Context /\ c.flow = Top.flow /\ c.held = Top.held /\ c.pc = "daif"
        /\ Top.pc = "disable" /\ SetTop(c)
    BY <1>0, <1>2 DEF DisableLoad, Goto, Context, Points
  <2> HIDE DEF c
  <2>2. Base = 0 /\ Top.held = 0
    BY <1>0, <1>2, <1>r, <2>1 DEF Running, PendingOf, Context
  <2>3. ContextOK(c)
    BY <1>0, <2>1, <2>2 DEF ContextOK, Disabling, Launching
  <2>4. /\ I' = I /\ spsr_el1' = spsr_el1 /\ elr_el1' = elr_el1 /\ rx' = rx
        /\ irq_restore_enabled' = irq_restore_enabled
        /\ irq_disable_depth' = irq_disable_depth
    BY <1>2 DEF DisableLoad, exception
  <2> QED
    BY <1>0, <1>2, <1>r, <2>1, <2>2, <2>3, <2>4, TopChanged DEF Running, PendingOf
<1>3. CASE DisableLoad /\ irq_disable_depth # 0
  <2> DEFINE c == [Top EXCEPT !.pc = "run", !.held = @ + 1]
  <2>1. Top.pc = "disable" /\ Top.held < MaxHeld /\ Top.flow # "user"
    BY <1>0, <1>3 DEF DisableLoad, ContextOK, Disabling
  <2>2. /\ c \in Context /\ c.flow = Top.flow /\ c.held = Top.held + 1 /\ c.pc = "run"
        /\ SetTop(c)
    <3>1. Top.held + 1 \in 0 .. MaxHeld
      BY <1>0, <2>1 DEF Context
    <3>2. SetTop(c)
      BY <1>3 DEF DisableLoad
    <3> QED
      BY <1>0, <3>1, <3>2 DEF Context, Points
  <2> HIDE DEF c
  <2>3. ContextOK(c)
    BY <2>1, <2>2 DEF ContextOK, Disabling, Launching
  <2>4. /\ I' = I /\ spsr_el1' = spsr_el1 /\ elr_el1' = elr_el1 /\ rx' = rx
        /\ irq_restore_enabled' = irq_restore_enabled
        /\ irq_disable_depth' = irq_disable_depth + 1
    BY <1>3 DEF DisableLoad, exception
  <2>5. I = 1
    <3>1. CASE Top.held > 0
      BY <1>r, <3>1 DEF Running
    <3>2. CASE Top.held = 0
      <4>1. Base = 1
        BY <1>0, <1>3, <1>r, <2>1, <3>2 DEF Running, PendingOf
      <4>2. Top.flow \in Handlers
        BY <1>0, <2>1, <4>1 DEF Base, MaskInv, Shape, Top, Handlers
      <4> QED
        BY <1>r, <4>2 DEF Running
    <3> QED
      BY <1>0, <3>1, <3>2 DEF Context
  <2>6. Top.held = 0 => Base = 1
    BY <1>0, <1>3, <1>r, <2>1 DEF Running, PendingOf
  <2>7. irq_disable_depth' = Base + c.held + PendingOf(c)
    BY <1>0, <1>r, <2>1, <2>2, <2>4 DEF Running, PendingOf, Context
  <2>8. c.flow \in Handlers /\ Base = 0 => irq_restore_enabled' = 0
    <3>1. Base = 0 => Top.held > 0
      BY <1>0, <2>6 DEF Context
    <3> QED
      BY <1>r, <2>2, <2>4, <3>1 DEF Running
  <2> QED
    BY <1>0, <2>2, <2>3, <2>4, <2>5, <2>7, <2>8, TopChanged
<1>4. CASE DisableReadDaif
  <2> DEFINE c == [Top EXCEPT !.pc = "restore", !.w2 = 1 - I]
  <2>1. /\ c \in Context /\ c.flow = Top.flow /\ c.held = Top.held /\ c.pc = "restore"
        /\ c.w2 = 1 - I /\ Top.pc = "daif" /\ SetTop(c)
    <3>1. 1 - I \in 0 .. 1
      BY <1>0
    <3>2. Top.pc = "daif" /\ SetTop(c)
      BY <1>4 DEF DisableReadDaif
    <3> QED
      BY <1>0, <3>1, <3>2 DEF Context, Points
  <2> HIDE DEF c
  <2>2. ContextOK(c)
    BY <1>0, <2>1 DEF ContextOK, Disabling, Launching
  <2>3. /\ I' = I /\ spsr_el1' = spsr_el1 /\ elr_el1' = elr_el1 /\ rx' = rx
        /\ irq_restore_enabled' = irq_restore_enabled
        /\ irq_disable_depth' = irq_disable_depth
    BY <1>4 DEF DisableReadDaif, exception, helpers
  <2> QED
    BY <1>0, <1>r, <2>1, <2>2, <2>3, TopChanged DEF Running, PendingOf
<1>5. CASE DisableStoreRestore
  <2> DEFINE c == [Top EXCEPT !.pc = "depth"]
  <2>1. /\ c \in Context /\ c.flow = Top.flow /\ c.held = Top.held /\ c.pc = "depth"
        /\ Top.pc = "restore" /\ SetTop(c) /\ Top.w2 \in 0 .. 1
    BY <1>0, <1>5 DEF DisableStoreRestore, Goto, Context, Points
  <2> HIDE DEF c
  <2>2. ContextOK(c)
    BY <1>0, <2>1 DEF ContextOK, Disabling, Launching
  <2>3. /\ I' = I /\ spsr_el1' = spsr_el1 /\ elr_el1' = elr_el1 /\ rx' = rx
        /\ irq_restore_enabled' = Top.w2
        /\ irq_disable_depth' = irq_disable_depth
    BY <1>5 DEF DisableStoreRestore, exception
  <2> QED
    BY <1>0, <1>r, <2>1, <2>2, <2>3, TopChanged DEF Running, PendingOf
<1>6. CASE DisableStoreDepth
  <2> DEFINE c == [Top EXCEPT !.pc = "mask"]
  <2>1. /\ c \in Context /\ c.flow = Top.flow /\ c.held = Top.held /\ c.pc = "mask"
        /\ Top.pc = "depth" /\ SetTop(c)
    BY <1>0, <1>6 DEF DisableStoreDepth, Goto, Context, Points
  <2> HIDE DEF c
  <2>2. ContextOK(c) /\ Top.held = 0
    BY <1>0, <2>1 DEF ContextOK, Disabling, Launching
  <2>3. /\ I' = I /\ spsr_el1' = spsr_el1 /\ elr_el1' = elr_el1 /\ rx' = rx
        /\ irq_restore_enabled' = irq_restore_enabled
        /\ irq_disable_depth' = 1
    BY <1>6 DEF DisableStoreDepth, exception
  <2> QED
    BY <1>0, <1>r, <2>1, <2>2, <2>3, TopChanged DEF Running, PendingOf
<1>7. CASE DisableMask
  <2> DEFINE c == [Top EXCEPT !.pc = "run", !.held = @ + 1]
  <2>1. Top.pc = "mask" /\ Top.held = 0 /\ Top.flow # "user"
    BY <1>0, <1>7 DEF DisableMask, ContextOK, Disabling
  <2>2. /\ c \in Context /\ c.flow = Top.flow /\ c.held = 1 /\ c.pc = "run" /\ SetTop(c)
    <3>1. Top.held + 1 = 1 /\ 1 \in 0 .. MaxHeld
      BY <1>0, <2>1
    <3>2. SetTop(c)
      BY <1>7 DEF DisableMask
    <3> QED
      BY <1>0, <3>1, <3>2 DEF Context, Points
  <2> HIDE DEF c
  <2>3. ContextOK(c)
    BY <2>1, <2>2 DEF ContextOK, Disabling, Launching
  <2>4. /\ I' = 1 /\ spsr_el1' = spsr_el1 /\ elr_el1' = elr_el1 /\ rx' = rx
        /\ irq_restore_enabled' = irq_restore_enabled
        /\ irq_disable_depth' = irq_disable_depth
    BY <1>7 DEF DisableMask, exception, helpers
  <2> QED
    BY <1>0, <1>r, <2>1, <2>2, <2>3, <2>4, TopChanged DEF Running, PendingOf
<1> QED
  BY <1>1, <1>2, <1>3, <1>4, <1>5, <1>6, <1>7 DEF irq_disable

(* Each step of irq_enable: only the one that brings the depth back to     *)
(* zero may unmask, and only if the mask was not there before.             *)
LEMMA EnableStep == ASSUME MaskInv, irq_enable PROVE MaskInv'
<1>0. /\ Top \in Context /\ ContextOK(Top) /\ Base \in 0 .. 1 /\ MaxHeld \in Nat \ {0}
      /\ I \in 0 .. 1 /\ spsr_el1 \in Spsr /\ elr_el1 \in Elr /\ rx \in 0 .. 1
      /\ irq_restore_enabled \in 0 .. 1 /\ irq_disable_depth \in Nat
  BY TopFacts
<1>r. Running
  BY DEF MaskInv
<1>1. CASE CallEnable
  <2> DEFINE c == [Top EXCEPT !.pc = "enable"]
  <2>1. /\ c \in Context /\ c.flow = Top.flow /\ c.held = Top.held /\ c.pc = "enable"
        /\ Top.pc = "run" /\ Top.held > 0 /\ SetTop(c)
    BY <1>0, <1>1 DEF CallEnable, Context, Points
  <2> HIDE DEF c
  <2>2. ContextOK(c)
    BY <1>0, <2>1 DEF ContextOK, Disabling, Launching
  <2>3. /\ I' = I /\ spsr_el1' = spsr_el1 /\ elr_el1' = elr_el1 /\ rx' = rx
        /\ irq_restore_enabled' = irq_restore_enabled
        /\ irq_disable_depth' = irq_disable_depth
    BY <1>1 DEF CallEnable, exception, helpers
  <2> QED
    BY <1>0, <1>r, <2>1, <2>2, <2>3, TopChanged DEF Running, PendingOf
<1>2. CASE EnableLoad /\ irq_disable_depth > 1
  <2> DEFINE c == [Top EXCEPT !.pc = "run", !.held = @ - 1]
  <2>1. Top.pc = "enable" /\ Top.held > 0 /\ Top.flow # "user"
    BY <1>0, <1>2 DEF EnableLoad, ContextOK
  <2>2. /\ c \in Context /\ c.flow = Top.flow /\ c.held = Top.held - 1 /\ c.pc = "run"
        /\ SetTop(c)
    <3>1. Top.held - 1 \in 0 .. MaxHeld
      BY <1>0, <2>1 DEF Context
    <3>2. SetTop(c)
      BY <1>2 DEF EnableLoad
    <3> QED
      BY <1>0, <3>1, <3>2 DEF Context, Points
  <2> HIDE DEF c
  <2>3. ContextOK(c)
    BY <2>1, <2>2 DEF ContextOK, Disabling, Launching
  <2>4. /\ I' = I /\ spsr_el1' = spsr_el1 /\ elr_el1' = elr_el1 /\ rx' = rx
        /\ irq_restore_enabled' = irq_restore_enabled
        /\ irq_disable_depth' = irq_disable_depth - 1
    BY <1>2 DEF EnableLoad, exception
  <2>5. I = 1
    BY <1>r, <2>1 DEF Running
  <2>6. irq_disable_depth' = Base + c.held + PendingOf(c)
    BY <1>0, <1>r, <2>1, <2>2, <2>4 DEF Running, PendingOf, Context
  <2>7. c.flow \in Handlers /\ Base = 0 => irq_restore_enabled' = 0
    BY <1>r, <2>1, <2>2, <2>4 DEF Running
  <2> QED
    BY <1>0, <2>2, <2>3, <2>4, <2>5, <2>6, <2>7, TopChanged
<1>3. CASE EnableLoad /\ ~(irq_disable_depth > 1)
  <2> DEFINE c == [Top EXCEPT !.pc = "unmask"]
  <2>1. /\ c \in Context /\ c.flow = Top.flow /\ c.held = Top.held /\ c.pc = "unmask"
        /\ Top.pc = "enable" /\ Top.held > 0 /\ SetTop(c)
    BY <1>0, <1>3 DEF EnableLoad, Goto, Context, Points, ContextOK
  <2> HIDE DEF c
  <2>2. Base = 0 /\ Top.held = 1 /\ irq_disable_depth = 1
    BY <1>0, <1>3, <1>r, <2>1 DEF Running, PendingOf, Context
  <2>3. ContextOK(c)
    BY <1>0, <2>1, <2>2 DEF ContextOK, Disabling, Launching
  <2>4. /\ I' = I /\ spsr_el1' = spsr_el1 /\ elr_el1' = elr_el1 /\ rx' = rx
        /\ irq_restore_enabled' = irq_restore_enabled
        /\ irq_disable_depth' = 0
    BY <1>3, <2>2 DEF EnableLoad, exception
  <2> QED
    BY <1>0, <1>r, <2>1, <2>2, <2>3, <2>4, TopChanged DEF Running, PendingOf
<1>4. CASE EnableUnmask
  <2> DEFINE c == [Top EXCEPT !.pc = "run", !.held = @ - 1]
  <2>1. Top.pc = "unmask" /\ Top.held = 1 /\ Top.flow # "user"
    BY <1>0, <1>4 DEF EnableUnmask, ContextOK
  <2>2. /\ c \in Context /\ c.flow = Top.flow /\ c.held = 0 /\ c.pc = "run" /\ SetTop(c)
    <3>1. Top.held - 1 = 0 /\ 0 \in 0 .. MaxHeld
      BY <1>0, <2>1
    <3>2. SetTop(c)
      BY <1>4 DEF EnableUnmask
    <3> QED
      BY <1>0, <3>1, <3>2 DEF Context, Points
  <2> HIDE DEF c
  <2>3. ContextOK(c)
    BY <2>1, <2>2 DEF ContextOK, Disabling, Launching
  <2>4. /\ I' = (IF irq_restore_enabled = 1 THEN 0 ELSE I)
        /\ spsr_el1' = spsr_el1 /\ elr_el1' = elr_el1 /\ rx' = rx
        /\ irq_restore_enabled' = irq_restore_enabled
        /\ irq_disable_depth' = irq_disable_depth
    BY <1>4 DEF EnableUnmask, exception, helpers
  <2>5. Base = 0 /\ irq_disable_depth = 0
    BY <1>0, <1>r, <2>1 DEF Running, PendingOf
  <2>6. Top.flow \in Handlers => irq_restore_enabled = 0 /\ I = 1
    BY <1>r, <2>1, <2>5 DEF Running
  <2> QED
    BY <1>0, <2>2, <2>3, <2>4, <2>5, <2>6, TopChanged DEF PendingOf
<1> QED
  BY <1>1, <1>2, <1>3, <1>4 DEF irq_enable

(* Exception entry: only code with interrupts open, or a process that      *)
(* makes a call, is left, and it holds nothing.                            *)
LEMMA EnterStep ==
  ASSUME MaskInv, NEW flow \in Handlers, Enter(flow), rx' \in 0 .. 1,
         \/ flow = "irq" /\ I = 0 /\ Top.pc # "wild"
         \/ Top.flow = "user"
  PROVE  MaskInv'
<1>0. /\ Top \in Context /\ ContextOK(Top) /\ Base \in 0 .. 1 /\ MaxHeld \in Nat \ {0}
      /\ I \in 0 .. 1 /\ irq_restore_enabled \in 0 .. 1 /\ irq_disable_depth \in Nat
  BY TopFacts
<1>1. /\ stack \in Seq(Context) /\ Len(stack) \in 1 .. 3 /\ Top = stack[Len(stack)]
      /\ Running /\ Shape
  BY DEF MaskInv, IrqTypeOK, Shape, Top
<1>2. Top.held = 0 /\ Top.flow \notin Handlers /\ Top.pc # "unmask"
  BY <1>0, <1>1 DEF Running, ContextOK, Context, Handlers
<1> DEFINE spsr == [el |-> ExceptionLevel(Top), I |-> I]
           elr == IF Top.flow = "user" THEN "user" ELSE "kernel"
           c == NewContext(flow, spsr, elr, 1)
<1>3. spsr \in Spsr /\ elr \in Elr
  BY <1>0 DEF Spsr, Elr, ExceptionLevel
<1>4. /\ c \in Context /\ c.flow = flow /\ c.pc = "run" /\ c.held = 0
  <2>1. 0 \in 0 .. MaxHeld
    BY <1>0
  <2> HIDE DEF spsr, elr
  <2> QED
    BY <1>3, <2>1 DEF NewContext, Context, Points, Flows, Handlers
<1>5. /\ I' = 1 /\ spsr_el1' = spsr /\ elr_el1' = elr /\ stack' = Append(stack, c)
      /\ irq_restore_enabled' = irq_restore_enabled /\ irq_disable_depth' = irq_disable_depth
  BY DEF Enter, helpers
<1> HIDE DEF c, spsr, elr
<1>6. /\ stack' \in Seq(Context) /\ Len(stack') = Len(stack) + 1 /\ stack' # <<>>
      /\ stack'[Len(stack) + 1] = c
      /\ \A i \in 1 .. Len(stack) : stack'[i] = stack[i]
  BY <1>1, <1>4, <1>5, PushEffect
<1>7. Top' = c /\ Base' = IF Top.pc = "mask" THEN 1 ELSE 0
  BY <1>1, <1>6 DEF Top, Base
<1>8. IrqTypeOK'
  BY <1>0, <1>3, <1>5, <1>6 DEF IrqTypeOK
<1>9. Shape'
  <2>1. CASE Len(stack) = 1
    <3>1. Top.flow # "user" /\ flow = "irq"
      BY <1>1, <2>1 DEF Shape
    <3> QED
      BY <1>1, <1>4, <1>6, <2>1, <3>1 DEF Shape
  <2>2. CASE Len(stack) = 2
    BY <1>1, <1>2, <1>4, <1>6, <2>2 DEF Shape, Handlers
  <2>3. CASE Len(stack) = 3
    BY <1>1, <1>2, <2>3 DEF Shape
  <2> QED
    BY <1>1, <2>1, <2>2, <2>3
<1>10. ContextOK(c)
  BY <1>4 DEF ContextOK, Disabling, Launching, Handlers
<1>11. \A i \in 1 .. Len(stack') : ContextOK(stack'[i])
  BY <1>1, <1>6, <1>10 DEF MaskInv
<1>12. \A i \in 1 .. (Len(stack') - 1) : stack'[i].held = 0
  BY <1>1, <1>2, <1>6 DEF MaskInv
<1>13. irq_disable_depth = IF Top.pc = "mask" THEN 1 ELSE 0
  <2>1. Base = 0
    <3>1. CASE Len(stack) = 1
      BY <3>1 DEF Base
    <3>2. CASE Len(stack) = 2
      BY <1>1, <1>2, <3>2 DEF Base, Shape, Handlers
    <3>3. CASE Len(stack) = 3
      BY <1>1, <1>2, <3>3 DEF Shape
    <3> QED
      BY <1>1, <3>1, <3>2, <3>3
  <2> QED
    BY <1>1, <1>2, <2>1 DEF Running, PendingOf
<1>14. Running'
  BY <1>4, <1>5, <1>7, <1>13 DEF Running, PendingOf
<1> QED
  BY <1>8, <1>9, <1>11, <1>12, <1>14 DEF MaskInv

(* A handler returns to the context it interrupted, which goes on where it *)
(* was: if that is just before its msr, the depth already counts it.       *)
LEMMA ReturnStep == ASSUME MaskInv, Return PROVE MaskInv'
<1>0. /\ Top \in Context /\ irq_restore_enabled \in 0 .. 1 /\ irq_disable_depth \in Nat
      /\ Top.pc = "run" /\ Top.held = 0 /\ Top.flow \in Handlers
  BY TopFacts DEF Return, Handlers
<1>1. /\ stack \in Seq(Context) /\ Len(stack) \in 1 .. 3 /\ Top = stack[Len(stack)]
      /\ Running /\ Shape /\ rx \in 0 .. 1
      /\ \A i \in 1 .. Len(stack) : ContextOK(stack[i])
      /\ \A i \in 1 .. (Len(stack) - 1) : stack[i].held = 0
  BY DEF MaskInv, IrqTypeOK, Shape, Top
<1>2. Len(stack) \in 2 .. 3
  BY <1>0, <1>1 DEF Shape, Handlers
<1>3. /\ I' \in 0 .. 1 /\ spsr_el1' \in Spsr /\ elr_el1' \in Elr /\ rx' = rx
      /\ irq_restore_enabled' = irq_restore_enabled
      /\ irq_disable_depth' = irq_disable_depth
  BY <1>0 DEF Return, helpers, Context, Spsr
<1>4. /\ stack' \in Seq(Context) /\ Len(stack') = Len(stack) - 1 /\ stack' # <<>>
      /\ \A i \in 1 .. (Len(stack) - 1) : stack'[i] = stack[i]
  <2>1. stack' = Below
    BY DEF Return
  <2>2. Len(stack) > 1
    BY <1>2
  <2> QED
    BY <1>1, <2>1, <2>2, PopEffect
<1>5. IrqTypeOK'
  BY <1>0, <1>1, <1>3, <1>4 DEF IrqTypeOK
<1>6. Shape'
  BY <1>1, <1>2, <1>4 DEF Shape
<1>7. Top' = stack[Len(stack) - 1] /\ Top'.held = 0 /\ ContextOK(Top')
  BY <1>1, <1>2, <1>4 DEF Top
<1>8. Base' = 0
  <2>1. CASE Len(stack) = 2
    BY <1>4, <2>1 DEF Base
  <2>2. CASE Len(stack) = 3
    BY <1>1, <1>4, <2>2 DEF Base, Shape
  <2> QED
    BY <1>2, <2>1, <2>2
<1>9. Base = PendingOf(Top')
  <2>1. Base = IF Top'.pc = "mask" THEN 1 ELSE 0
    BY <1>2, <1>7 DEF Base
  <2>2. Top'.pc # "unmask"
    BY <1>7 DEF ContextOK
  <2> QED
    BY <2>1, <2>2 DEF PendingOf
<1>10. irq_disable_depth = Base
  BY <1>0, <1>1 DEF Running, PendingOf, Base
<1>11. Top'.flow \notin Handlers
  BY <1>1, <1>2, <1>7 DEF Shape, Handlers
<1>12. Running'
  <2>1. irq_disable_depth' = Base' + Top'.held + PendingOf(Top')
    BY <1>0, <1>3, <1>7, <1>8, <1>9, <1>10
  <2> QED
    BY <1>7, <1>8, <1>11, <2>1 DEF Running, PendingOf
<1> QED
  BY <1>1, <1>2, <1>4, <1>5, <1>6, <1>12 DEF MaskInv

(* The exit of the panel drops its context and the handler's: the boot     *)
(* path, which launched it outside any critical section, is left.          *)
LEMMA PanelExitStep == ASSUME MaskInv, PanelExit PROVE MaskInv'
<1>0. /\ irq_restore_enabled \in 0 .. 1 /\ irq_disable_depth \in Nat
      /\ Top.pc = "run" /\ Top.held = 0 /\ Top.flow = "svc"
  BY TopFacts DEF PanelExit
<1>1. /\ stack \in Seq(Context) /\ Len(stack) \in 1 .. 3 /\ Top = stack[Len(stack)]
      /\ Running /\ Shape /\ rx \in 0 .. 1
      /\ \A i \in 1 .. Len(stack) : ContextOK(stack[i])
      /\ \A i \in 1 .. (Len(stack) - 1) : stack[i].held = 0
  BY DEF MaskInv, IrqTypeOK, Shape, Top
<1>2. Len(stack) = 3 /\ stack[2].flow = "user" /\ stack[1].pc = "run"
  BY <1>0, <1>1 DEF Shape, Handlers
<1>3. stack[1] \in Context /\ stack[1].held = 0 /\ ContextOK(stack[1])
  <2>1. 1 \in 1 .. Len(stack) /\ 1 \in 1 .. (Len(stack) - 1)
    BY <1>2
  <2>2. stack[1] \in Context
    BY <1>1, <2>1
  <2> QED
    BY <1>1, <2>1, <2>2
<1>4. stack[2].pc = "run"
  BY <1>1, <1>2 DEF ContextOK
<1>5. irq_disable_depth = 0
  BY <1>0, <1>1, <1>2, <1>4 DEF Running, PendingOf, Base
<1>6. /\ I' = 1 /\ spsr_el1' \in Spsr /\ elr_el1' \in Elr /\ rx' = rx
      /\ irq_restore_enabled' = irq_restore_enabled
      /\ irq_disable_depth' = irq_disable_depth /\ stack' = <<stack[1]>>
  BY DEF PanelExit, helpers, Spsr, Elr
<1>7. /\ stack' \in Seq(Context) /\ Len(stack') = 1 /\ stack' # <<>>
      /\ stack'[1] = stack[1]
  BY <1>3, <1>6
<1>8. IrqTypeOK'
  BY <1>0, <1>1, <1>6, <1>7 DEF IrqTypeOK
<1>9. Shape'
  BY <1>1, <1>7 DEF Shape
<1>10. Top' = stack[1] /\ Base' = 0
  BY <1>7 DEF Top, Base
<1>11. Running'
  BY <1>1, <1>2, <1>3, <1>5, <1>6, <1>10 DEF Running, PendingOf, Shape, Handlers
<1> QED
  BY <1>3, <1>7, <1>8, <1>9, <1>11 DEF MaskInv

(* Only the boot path, alone on the stack, launches a process. *)
LEMMA BootAlone == ASSUME MaskInv, Top.flow = "boot" PROVE Len(stack) = 1 /\ Base = 0
<1>1. Len(stack) \in 1 .. 3 /\ Top = stack[Len(stack)] /\ Shape
  BY DEF MaskInv, Shape, Top
<1>2. Len(stack) = 1
  BY <1>1 DEF Shape, Handlers
<1> QED
  BY <1>2 DEF Base

(* The instructions of the launch up to its eret leave the mask alone. *)
LEMMA LaunchStep ==
  ASSUME MaskInv, CallEnter \/ EnterSpsr \/ EnterElr PROVE MaskInv'
<1>0. /\ Top \in Context /\ ContextOK(Top) /\ MaxHeld \in Nat \ {0}
      /\ I \in 0 .. 1 /\ spsr_el1 \in Spsr /\ elr_el1 \in Elr /\ rx \in 0 .. 1
      /\ irq_restore_enabled \in 0 .. 1 /\ irq_disable_depth \in Nat
  BY TopFacts
<1>1. Top.flow = "boot" /\ Top.held = 0 /\ Top.pc \in {"run", "spsr", "elr"}
  BY <1>0 DEF CallEnter, EnterSpsr, EnterElr, ContextOK, Launching
<1>2. PICK pc \in {"spsr", "elr", "eret"} : Goto(pc)
  BY DEF CallEnter, EnterSpsr, EnterElr
<1>3. /\ spsr_el1' \in Spsr /\ elr_el1' \in Elr
      /\ I' = I /\ rx' = rx /\ irq_restore_enabled' = irq_restore_enabled
      /\ irq_disable_depth' = irq_disable_depth
  <2>1. [el |-> 0, I |-> 0] \in Spsr /\ "user" \in Elr
    BY DEF Spsr, Elr
  <2> QED
    BY <1>0, <2>1 DEF CallEnter, EnterSpsr, EnterElr, exception, helpers
<1> DEFINE c == [Top EXCEPT !.pc = pc]
<1>4. c \in Context /\ c.flow = "boot" /\ c.held = 0 /\ c.pc = pc /\ SetTop(c)
  BY <1>0, <1>1, <1>2 DEF Context, Points, Goto
<1> HIDE DEF c
<1>5. ContextOK(c)
  BY <1>4 DEF ContextOK, Disabling, Launching
<1>6. irq_disable_depth = 0 /\ Base = 0
  BY <1>0, <1>1, BootAlone DEF MaskInv, Running, PendingOf
<1> QED
  BY <1>0, <1>1, <1>3, <1>4, <1>5, <1>6, TopChanged DEF PendingOf, Handlers

(* The eret of the launch: to the process, or, with the registers an       *)
(* interrupt has changed meanwhile, somewhere in the kernel.               *)
LEMMA EretStep == ASSUME MaskInv, EnterEret PROVE MaskInv'
<1>0. /\ Top \in Context /\ ContextOK(Top) /\ MaxHeld \in Nat \ {0}
      /\ I \in 0 .. 1 /\ spsr_el1 \in Spsr /\ elr_el1 \in Elr /\ rx \in 0 .. 1
      /\ irq_restore_enabled \in 0 .. 1 /\ irq_disable_depth \in Nat
  BY TopFacts
<1>1. Top.pc = "eret" /\ Top.flow = "boot" /\ Top.held = 0
  BY <1>0 DEF EnterEret, ContextOK, Launching
<1>2. irq_disable_depth = 0 /\ Base = 0 /\ Len(stack) = 1
  BY <1>0, <1>1, BootAlone DEF MaskInv, Running, PendingOf
<1>3. /\ I' \in 0 .. 1 /\ spsr_el1' = spsr_el1 /\ elr_el1' = elr_el1 /\ rx' = rx
      /\ irq_restore_enabled' = irq_restore_enabled
      /\ irq_disable_depth' = irq_disable_depth
  BY <1>0 DEF EnterEret, exception, helpers, Spsr
<1>4. CASE elr_el1 = "user" /\ spsr_el1.el = 0
  <2> DEFINE c == [Top EXCEPT !.pc = "run"]
             u == NewContext("user", spsr_el1, elr_el1, 0)
  <2>1. c \in Context /\ c.flow = "boot" /\ c.held = 0 /\ c.pc = "run"
    BY <1>0, <1>1 DEF Context, Points
  <2>2. u \in Context /\ u.flow = "user" /\ u.held = 0 /\ u.pc = "run"
    <3>1. 0 \in 0 .. MaxHeld
      BY <1>0
    <3> QED
      BY <1>0, <3>1 DEF NewContext, Context, Points, Flows
  <2>3. stack' = Append(Append(Below, c), u)
    BY <1>4 DEF EnterEret
  <2> HIDE DEF c, u
  <2>4. stack \in Seq(Context) /\ Below = <<>>
    BY <1>2 DEF MaskInv, IrqTypeOK, Below
  <2>5. Append(Below, c) \in Seq(Context) /\ Len(Append(Below, c)) = 1 /\ Append(Below, c)[1] = c
    BY <2>1, <2>4
  <2>6. /\ stack' \in Seq(Context) /\ Len(stack') = 2 /\ stack' # <<>>
        /\ stack'[1] = c /\ stack'[2] = u
    BY <2>1, <2>2, <2>3, <2>5
  <2>7. IrqTypeOK'
    BY <1>0, <1>3, <2>6 DEF IrqTypeOK
  <2>8. Shape'
    BY <2>1, <2>2, <2>6 DEF Shape
  <2>9. Top' = u /\ Base' = 0
    BY <2>1, <2>6 DEF Top, Base
  <2>10. Running'
    BY <1>2, <1>3, <2>2, <2>9 DEF Running, PendingOf, Handlers
  <2>11. ContextOK(c) /\ ContextOK(u)
    BY <2>1, <2>2 DEF ContextOK, Disabling, Launching
  <2> QED
    BY <2>1, <2>6, <2>7, <2>8, <2>10, <2>11 DEF MaskInv
<1>5. CASE ~(elr_el1 = "user" /\ spsr_el1.el = 0)
  <2> DEFINE c == [Top EXCEPT !.pc = "wild"]
  <2>1. c \in Context /\ c.flow = "boot" /\ c.held = 0 /\ c.pc = "wild"
    BY <1>0, <1>1 DEF Context, Points
  <2>2. SetTop(c)
    BY <1>5 DEF EnterEret, Goto
  <2> HIDE DEF c
  <2>3. ContextOK(c)
    BY <2>1 DEF ContextOK, Disabling, Launching
  <2> QED
    BY <1>0, <1>1, <1>2, <1>3, <2>1, <2>2, <2>3, TopChanged DEF PendingOf, Handlers
<1> QED
  BY <1>4, <1>5

(* The console thread takes over from the boot path. *)
LEMMA ConsoleStep == ASSUME MaskInv, StartConsole PROVE MaskInv'
<1>0. /\ Top \in Context /\ MaxHeld \in Nat \ {0}
      /\ I \in 0 .. 1 /\ spsr_el1 \in Spsr /\ elr_el1 \in Elr /\ rx \in 0 .. 1
      /\ irq_restore_enabled \in 0 .. 1 /\ irq_disable_depth \in Nat
  BY TopFacts
<1> DEFINE c == [Top EXCEPT !.flow = "console"]
<1>1. /\ c \in Context /\ c.flow = "console" /\ c.held = 0 /\ c.pc = "run"
      /\ SetTop(c) /\ Top.held = 0 /\ Top.pc = "run" /\ Top.flow = "boot"
  BY <1>0 DEF StartConsole, Context, Flows
<1> HIDE DEF c
<1>2. Len(stack) = 1 /\ Base = 0 /\ irq_disable_depth = 0
  BY <1>0, <1>1, BootAlone DEF MaskInv, Running, PendingOf
<1>3. stack \in Seq(Context) /\ stack # <<>>
  BY DEF MaskInv, IrqTypeOK
<1>4. /\ stack' \in Seq(Context) /\ Len(stack') = 1 /\ stack' # <<>> /\ stack'[1] = c
  BY <1>1, <1>2, <1>3, SetTopEffect
<1>5. /\ I' = I /\ spsr_el1' = spsr_el1 /\ elr_el1' = elr_el1 /\ rx' = rx
      /\ irq_restore_enabled' = irq_restore_enabled
      /\ irq_disable_depth' = irq_disable_depth
  BY DEF StartConsole, exception, helpers
<1>6. IrqTypeOK' /\ Shape'
  BY <1>0, <1>1, <1>4, <1>5 DEF IrqTypeOK, Shape
<1>7. Top' = c /\ Base' = 0
  BY <1>4 DEF Top, Base
<1>8. Running'
  BY <1>1, <1>2, <1>5, <1>7 DEF Running, PendingOf, Handlers
<1>9. ContextOK(c)
  BY <1>1 DEF ContextOK, Disabling, Launching
<1> QED
  BY <1>4, <1>6, <1>8, <1>9 DEF MaskInv
-----------------------------------------------------------------------------
(* The theorems *)

(* Once init_timer_irq is done, nobody is in a helper. *)
LEMMA MaskInit == IrqInit => MaskInv
<1> SUFFICES ASSUME IrqInit PROVE MaskInv
  OBVIOUS
<1> DEFINE c == NewContext("boot", spsr_el1, elr_el1, 0)
<1>1. /\ I = 0 /\ spsr_el1 \in Spsr /\ elr_el1 \in Elr /\ rx = 0
      /\ irq_disable_depth = 0 /\ irq_restore_enabled = 0 /\ stack = <<c>>
  BY DEF IrqInit, Spsr, Elr
<1>2. c \in Context /\ c.flow = "boot" /\ c.held = 0 /\ c.pc = "run"
  <2>1. 0 \in 0 .. MaxHeld
    BY InterruptsAssumption
  <2> QED
    BY <1>1, <2>1 DEF NewContext, Context, Points, Flows
<1> HIDE DEF c
<1>3. stack \in Seq(Context) /\ Len(stack) = 1 /\ stack # <<>> /\ stack[1] = c
  BY <1>1, <1>2
<1>4. IrqTypeOK /\ Shape
  BY <1>1, <1>2, <1>3 DEF IrqTypeOK, Shape
<1>5. Top = c /\ Base = 0
  BY <1>3 DEF Top, Base
<1>6. Running
  BY <1>1, <1>2, <1>5 DEF Running, PendingOf, Handlers
<1>7. ContextOK(c)
  BY <1>2 DEF ContextOK, Disabling, Launching
<1> QED
  BY <1>3, <1>4, <1>6, <1>7 DEF MaskInv

(* Every instruction, exception and return keeps the invariant. *)
LEMMA MaskStep == MaskInv /\ [IrqNext]_irqvars => MaskInv'
<1> SUFFICES ASSUME MaskInv, [IrqNext]_irqvars PROVE MaskInv'
  OBVIOUS
<1>0. rx \in 0 .. 1
  BY TopFacts
<1>1. CASE irq_disable
  BY <1>1, DisableStep
<1>2. CASE irq_enable
  BY <1>2, EnableStep
<1>3. CASE Svc
  BY <1>3, EnterStep DEF Svc, Handlers
<1>4. CASE TakeUartIrq
  BY <1>4, EnterStep DEF TakeUartIrq, Handlers
<1>5. CASE TakeTimerIrq
  BY <1>0, <1>5, EnterStep DEF TakeTimerIrq, Handlers
<1>6. CASE Return
  BY <1>6, ReturnStep
<1>7. CASE PanelExit
  BY <1>7, PanelExitStep
<1>8. CASE CallEnter \/ EnterSpsr \/ EnterElr
  BY <1>8, LaunchStep
<1>9. CASE EnterEret
  BY <1>9, EretStep
<1>10. CASE StartConsole
  BY <1>10, ConsoleStep
<1>11. CASE Type \/ UNCHANGED irqvars
  <2>1. /\ rx' \in 0 .. 1 /\ I' = I /\ spsr_el1' = spsr_el1 /\ elr_el1' = elr_el1
        /\ irq_restore_enabled' = irq_restore_enabled
        /\ irq_disable_depth' = irq_disable_depth /\ stack' = stack
    BY <1>0, <1>11 DEF Type, irqvars, exception, helpers
  <2> QED
    BY <2>1 DEF MaskInv, IrqTypeOK, Shape, Running, Top, Base
<1> QED
  BY <1>1, <1>2, <1>3, <1>4, <1>5, <1>6, <1>7, <1>8, <1>9, <1>10, <1>11 DEF IrqNext, Step

(* The invariant says what it must of handlers, sections and the depth. *)
LEMMA MaskImplies == MaskInv => MaskSound
<1> SUFFICES ASSUME MaskInv PROVE MaskSound
  OBVIOUS
<1>1. /\ stack \in Seq(Context) /\ Len(stack) \in 1 .. 3 /\ Top = stack[Len(stack)]
      /\ Running /\ Shape /\ IrqTypeOK
      /\ \A i \in 1 .. (Len(stack) - 1) : stack[i].held = 0
  BY DEF MaskInv, IrqTypeOK, Shape, Top
<1>2. CriticalUninterrupted
  <2> SUFFICES ASSUME NEW i \in 1 .. Len(stack),
                      stack[i].flow \in {"svc", "irq"} \/ stack[i].held > 0
               PROVE  i = Len(stack) /\ I = 1
    BY DEF CriticalUninterrupted
  <2>1. i = Len(stack)
    BY <1>1 DEF Shape
  <2> QED
    BY <1>1, <2>1 DEF Running, Handlers
<1>3. DepthMatches
  <2>1. Top.held \in Int
    BY TopFacts DEF Context
  <2> QED
    BY <1>1, <2>1 DEF DepthMatches, Running, Base, PendingOf
<1> QED
  BY <1>1, <1>2, <1>3 DEF MaskSound

(* Whatever the nesting of the helpers, no handler and no section between  *)
(* irq_disable and irq_enable (kernel/irq_asm.S) is interrupted, and the   *)
(* depth counts the sections the running context has open.                 *)
THEOREM MaskCorrect == IrqSpec => []MaskSound
<1>1. IrqSpec => []MaskInv
  BY MaskInit, MaskStep, PTL DEF IrqSpec
<1> QED
  BY <1>1, MaskImplies, PTL
=============================================================================
