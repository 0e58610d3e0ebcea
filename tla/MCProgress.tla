----------------------------- MODULE MCProgress -----------------------------
(***************************************************************************)
(* What must eventually happen: a change reaches the screen                *)
(* (RuntimeService), a byte is read (Interrupts), an offered lease is      *)
(* obtained (Net).  A behaviour exercises the one that `subject` names.    *)
(*                                                                         *)
(* A screen of one row, and rectangles that stick out on either side and   *)
(* cannot be merged.  MCServices merges.                                   *)
(***************************************************************************)
EXTENDS RuntimeService, Interrupts

CONSTANTS
  QueueSize, IndexMod, Servers, None     \* of Net

VARIABLES
  subject,
  g_rx_avail, g_rx_used, g_rx_buf, last_used_idx,
  g_tx_avail, g_tx_used, g_tx_last_used, g_tx_pending, g_tx_buf,
  g_net_info, net_at, net_received, rx_seen, tx_seen, wire, heard, arrived, published

Interval(x, w) == [x |-> x, y |-> 0, w |-> w, h |-> 1]
MCRects == {Interval(-1, 2), Interval(2, 3)}

N == INSTANCE Net WITH at <- net_at, received <- net_received,
                         AddressOf <- [s \in Servers |-> s],
                         SiblingAddressOf <- [s \in Servers |-> None], Strays <- {"empty"}

netvars ==
  <<g_rx_avail, g_rx_used, g_rx_buf, last_used_idx, g_tx_avail, g_tx_used, g_tx_last_used,
    g_tx_pending, g_tx_buf, g_net_info, net_at, net_received, rx_seen, tx_seen, wire, heard,
    arrived, published>>
mcvars == <<vars, irqvars, netvars, subject>>

MCInit == Init /\ IrqInit /\ N!Init /\ subject \in {"runtime", "interrupts", "net"}

(* A step of one machine; the others stand still. *)
Runtime(A) == subject = "runtime" /\ A /\ UNCHANGED <<irqvars, netvars, subject>>
Interrupt(A) == subject = "interrupts" /\ A /\ UNCHANGED <<vars, netvars, subject>>
Network(A) == subject = "net" /\ A /\ UNCHANGED <<vars, irqvars, subject>>

MCNext == Runtime(Next) \/ Interrupt(IrqNext) \/ Network(N!Next)

(* FairSpec of RuntimeService and of Interrupts, and Fairness of Net.  As  *)
(* the subject never changes, a condition on a choice of steps of several  *)
(* machines is the condition on the step of the subject.                   *)
MCFairSpec ==
  /\ MCInit /\ [][MCNext]_mcvars
  /\ WF_mcvars(Runtime(Pass) \/ Interrupt(CallEnable) \/ Network(N!net_poll))
  /\ WF_mcvars(\/ Interrupt(Step /\ Top.pc # "run")
               \/ Network(N!SpinDone \/ N!SpinLimit))
  /\ WF_mcvars(Network(\E s \in Servers : N!Answer(s)))
  /\ SF_mcvars(\/ Runtime(irq_handler_frame(RUNTIME_WORK_ALL))
               \/ Interrupt(TakeUartIrq)
               \/ Network(N!Transmit(TRUE)))
  /\ SF_mcvars(\/ Runtime(OnTime(Sources))
               \/ Interrupt(Return)
               \/ Network(\E s \in Servers : N!DeliverAck(s)))
  /\ SF_mcvars(\/ Runtime(OnTime(DrainEvent))
               \/ Interrupt(CallEnable /\ Top.held = 1))
  /\ SF_mcvars(Runtime(OnTime(runtime_service_gui_render)))
  /\ SF_mcvars(Runtime(Submitted /\ redraw_state # NoRedraw))
-----------------------------------------------------------------------------
(* Net: an offer leads to a lease.                                         *)
OfferLeadsToLease == N!OfferLeadsToLease
=============================================================================
