-------------------------------- MODULE Usb --------------------------------
(***************************************************************************)
(* Polling USB devices through one controller (drivers/usb/xhci.c): each   *)
(* endpoint has a ring of transfers with one of them outstanding, and all  *)
(* completions, of commands too, come through one event ring.  Whoever     *)
(* waits for a completion meets those of others and stashes them.          *)
(*                                                                         *)
(* usb_hid_poll_all runs once at a time; the controller works between any  *)
(* two of its steps.                                                       *)
(***************************************************************************)
EXTENDS Hid

CONSTANTS
  Order,                 \* of the devices, as polled
  XHCI_COMMAND_RING_SIZE, XHCI_TRANSFER_RING_SIZE, XHCI_EVENT_RING_SIZE,
  XHCI_COMPLETION_STASH,
  MaxIncidents,          \* bound: errors, empty transfers, port changes
  None

Endpoints == Devices          \* one of each device

VARIABLES
  i,                     \* the loop of usb_hid_poll_all; 0: no poll
  waits,                 \* "no", "command" or "transfer"
  command,               \* position of the last command
  configured, pending_intr_trb, interrupt_buffer,
  enqueue, cycle, trbs,  \* the transfer rings; trbs: the cycle bits
  event_ring, event_dequeue, event_cycle, stashed,
  controller             \* external: its positions, commands not done yet,
                         \* endpoints halted by an error

transfers == <<configured, pending_intr_trb, interrupt_buffer, enqueue, cycle, trbs>>
events == <<event_ring, event_dequeue, event_cycle, stashed>>
vars == <<i, waits, command, transfers, events, hidvars, controller>>

Link == XHCI_TRANSFER_RING_SIZE - 1
RingSlots == 0 .. Link
EventSlots == 0 .. XHCI_EVENT_RING_SIZE - 1
StashSlots == 1 .. XHCI_COMPLETION_STASH
Current == Order[i]

(* The code of a completion: "success", "empty" (nothing was sent) or an    *)
(* "error".                                                                *)
Completion(e, trb, code) == [type |-> "transfer", e |-> e, trb |-> trb, code |-> code]
CommandDone(c, code) == [type |-> "command", e |-> None, trb |-> c, code |-> code]
PortChange == [type |-> "port", e |-> None, trb |-> None, code |-> None]

Zeroed(e) ==
  IF e \in Keyboards
  THEN [modifiers |-> {}, keys |-> [k \in 1 .. KeySlots |-> HID_KEY_NONE]]
  ELSE [buttons |-> {}, moved |-> FALSE]
-----------------------------------------------------------------------------
(* Rings *)

(* ring_init: no transfer has the cycle bit of a new one. *)
EmptyRing == [k \in RingSlots |-> IF k = Link THEN 1 ELSE 0]

(* Fault: the link keeps the cycle bit it had. *)
Pushed_OldLink(e) == [trbs[e] EXCEPT ![enqueue[e]] = cycle[e]]

(* The ring after a push at `enqueue`: the last push before the link hands *)
(* the link over as well.                                                  *)
Pushed(e) ==
  [k \in RingSlots |->
     IF k = enqueue[e] \/ (k = Link /\ enqueue[e] + 1 = Link) THEN cycle[e] ELSE trbs[e][k]]

ring_push(e) ==
  LET wraps == enqueue[e] + 1 = Link
  IN /\ trbs' = [trbs EXCEPT ![e] = Pushed(e)]
     /\ enqueue' = [enqueue EXCEPT ![e] = IF wraps THEN 0 ELSE @ + 1]
     /\ cycle' = [cycle EXCEPT ![e] = IF wraps THEN 1 - @ ELSE @]

(* event_next; an entry once read is never read again, and is forgotten. *)
EventReady == event_ring[event_dequeue].cycle = event_cycle
NextEvent == event_ring[event_dequeue].event

event_next ==
  /\ EventReady
  /\ event_dequeue' = (event_dequeue + 1) % XHCI_EVENT_RING_SIZE
  /\ event_cycle' = IF event_dequeue' = 0 THEN 1 - event_cycle ELSE event_cycle
  /\ event_ring' = [event_ring EXCEPT ![event_dequeue].event = PortChange]

stash_transfer_event(event) ==
  LET free == {k \in StashSlots : stashed[k] = None}
  IN IF event.type # "transfer" \/ free = {} THEN stashed
     ELSE [stashed EXCEPT ![FirstOf(free)] = event]

(* take_stashed_transfer *)
Stashed(e, trb) ==
  {k \in StashSlots : stashed[k] # None /\ stashed[k].e = e /\ stashed[k].trb = trb}
-----------------------------------------------------------------------------
(* usb_hid_poll_all, usb_hid_poll_device, xhci_interrupt_in_device *)

Advance == i' = IF i = Len(Order) THEN 0 ELSE i + 1

usb_hid_poll_all ==
  /\ i = 0 /\ i' = 1
  /\ UNCHANGED <<waits, command, transfers, events, hidvars, controller>>

(* configure_interrupt_endpoint, up to wait_command. *)
configure_interrupt_endpoint ==
  /\ i > 0 /\ waits = "no" /\ ~configured[Current]
  /\ enqueue' = [enqueue EXCEPT ![Current] = 0]
  /\ cycle' = [cycle EXCEPT ![Current] = 1]
  /\ trbs' = [trbs EXCEPT ![Current] = EmptyRing]
  /\ Len(controller.commands) < XHCI_COMMAND_RING_SIZE - 1     \* a bound
  /\ command' = (command + 1) % (XHCI_COMMAND_RING_SIZE - 1)
  /\ controller' = [controller EXCEPT !.commands = Append(@, command')]
  /\ waits' = "command"
  /\ UNCHANGED <<i, configured, pending_intr_trb, interrupt_buffer, events, hidvars>>

(* wait_command *)
CommandWait ==
  /\ waits = "command"
  /\ event_next
  /\ IF NextEvent.type = "command" /\ NextEvent.trb = command
     THEN /\ configured' = [configured EXCEPT ![Current] = NextEvent.code = "success"]
          /\ waits' = "no"
          /\ IF NextEvent.code = "success" THEN UNCHANGED i ELSE Advance
          /\ UNCHANGED stashed
     ELSE stashed' = stash_transfer_event(NextEvent) /\ UNCHANGED <<i, configured, waits>>
  /\ UNCHANGED <<command, pending_intr_trb, interrupt_buffer, enqueue, cycle, trbs,
                 hidvars, controller>>

(* The wait has a limit; the device is configured again at the next poll.  *)
CommandLimit ==
  /\ waits = "command" /\ waits' = "no"
  /\ Advance
  /\ UNCHANGED <<command, transfers, events, hidvars, controller>>

(* The transfer of the current device is over: a report goes to the class  *)
(* driver, and its events to the queue.                                    *)
Complete(event, report) ==
  /\ pending_intr_trb' = [pending_intr_trb EXCEPT ![Current] = None]
  /\ IF event.code = "success" THEN Receive(Current, report) ELSE UNCHANGED hidvars
  /\ waits' = "no"
  /\ Advance

(* A transfer is queued unless one is outstanding; its completion may be   *)
(* in the stash already.                                                   *)
Visit ==
  /\ i > 0 /\ waits = "no" /\ configured[Current]
  /\ LET queued == pending_intr_trb[Current] # None
         trb == IF queued THEN pending_intr_trb[Current] ELSE enqueue[Current]
         found == Stashed(Current, trb)
     IN /\ IF queued THEN UNCHANGED <<enqueue, cycle, trbs, interrupt_buffer>>
           ELSE /\ ring_push(Current)
                /\ interrupt_buffer' = [interrupt_buffer EXCEPT ![Current] = Zeroed(Current)]
        /\ IF found = {}
           THEN /\ pending_intr_trb' = [pending_intr_trb EXCEPT ![Current] = trb]
                /\ waits' = "transfer"
                /\ UNCHANGED <<i, stashed, hidvars>>
           ELSE /\ stashed' = [stashed EXCEPT ![FirstOf(found)] = None]
                /\ Complete(stashed[FirstOf(found)], interrupt_buffer'[Current])
  /\ UNCHANGED <<command, configured, event_ring, event_dequeue, event_cycle, controller>>

(* wait_transfer *)
TransferWait ==
  /\ waits = "transfer"
  /\ event_next
  /\ IF NextEvent.type = "transfer" /\ NextEvent.e = Current
        /\ NextEvent.trb = pending_intr_trb[Current]
     THEN Complete(NextEvent, interrupt_buffer[Current]) /\ UNCHANGED stashed
     ELSE stashed' = stash_transfer_event(NextEvent) /\ UNCHANGED <<i, waits, pending_intr_trb, hidvars>>
  /\ UNCHANGED <<command, configured, interrupt_buffer, enqueue, cycle, trbs, controller>>

TransferLimit ==
  /\ waits = "transfer" /\ waits' = "no"
  /\ Advance
  /\ UNCHANGED <<command, transfers, events, hidvars, controller>>
-----------------------------------------------------------------------------
(* The controller: external. *)

(* Errors, empty transfers and port changes are incidents, and bounded. *)
After(incident) ==
  IF incident THEN [controller EXCEPT !.incidents = @ + 1] ELSE controller
MayHappen(incident) == incident => controller.incidents < MaxIncidents

(* It stops one short of the event the driver has yet to acknowledge. *)
EventRoom == (controller.event + 1) % XHCI_EVENT_RING_SIZE # event_dequeue

Report(event, then) ==
  /\ EventRoom
  /\ event_ring' = [event_ring EXCEPT ![controller.event] =
                      [cycle |-> controller.event_cycle, event |-> event]]
  /\ controller' =
       [then EXCEPT !.event = (@ + 1) % XHCI_EVENT_RING_SIZE,
                    !.event_cycle = IF controller.event + 1 = XHCI_EVENT_RING_SIZE
                                    THEN 1 - @ ELSE @]
  /\ UNCHANGED <<event_dequeue, event_cycle, stashed>>

(* Where it stands in the ring of e, past the link if that is handed over. *)
Position(e) ==
  LET c == controller.ring[e]
  IN IF c.at = Link /\ trbs[e][Link] = c.cycle THEN [at |-> 0, cycle |-> 1 - c.cycle] ELSE c
Ready(e) == trbs[e][Position(e).at] = Position(e).cycle /\ Position(e).at # Link

TransferDone(e, report, code) ==
  /\ Ready(e) /\ e \notin controller.halted /\ MayHappen(code # "success")
  /\ Report(Completion(e, Position(e).at, code),
            [After(code # "success") EXCEPT
                               !.ring[e] = [Position(e) EXCEPT !.at = @ + 1],
                               !.halted = IF code = "error" THEN @ \cup {e} ELSE @])
  /\ interrupt_buffer' = [interrupt_buffer EXCEPT ![e] = IF code = "success" THEN report ELSE @]
  /\ UNCHANGED <<i, waits, command, configured, pending_intr_trb, enqueue, cycle, trbs, hidvars>>

CommandCompletes(code) ==
  /\ controller.commands # <<>> /\ MayHappen(code # "success")
  /\ Report(CommandDone(Head(controller.commands), code),
            [After(code # "success") EXCEPT !.commands = Tail(@)])
  /\ UNCHANGED <<i, waits, command, transfers, hidvars>>

PortChanges ==
  /\ MayHappen(TRUE)
  /\ Report(PortChange, After(TRUE))
  /\ UNCHANGED <<i, waits, command, transfers, hidvars>>

Init ==
  /\ i = 0 /\ waits = "no" /\ command = 0
  /\ configured = [e \in Endpoints |-> FALSE]
  /\ pending_intr_trb = [e \in Endpoints |-> None]
  /\ interrupt_buffer = [e \in Endpoints |-> Zeroed(e)]
  /\ enqueue = [e \in Endpoints |-> 0] /\ cycle = [e \in Endpoints |-> 1]
  /\ trbs = [e \in Endpoints |-> EmptyRing]
  /\ event_ring = [k \in EventSlots |-> [cycle |-> 0, event |-> PortChange]]
  /\ event_dequeue = 0 /\ event_cycle = 1
  /\ stashed = [k \in StashSlots |-> None]
  /\ HidInit
  /\ controller = [ring |-> [e \in Endpoints |-> [at |-> 0, cycle |-> 1]],
                   event |-> 0, event_cycle |-> 1, commands |-> <<>>,
                   halted |-> {}, incidents |-> 0]

Next ==
  \/ usb_hid_poll_all \/ configure_interrupt_endpoint \/ CommandWait \/ CommandLimit
  \/ Visit \/ TransferWait \/ TransferLimit
  \/ \E code \in {"success", "empty", "error"} :
       \/ \E e \in Keyboards, r \in KeyReports : TransferDone(e, r, code)
       \/ \E e \in Mice, r \in MouseReports : TransferDone(e, r, code)
  \/ \E code \in {"success", "error"} : CommandCompletes(code)
  \/ PortChanges

Spec == Init /\ [][Next]_vars
-----------------------------------------------------------------------------
Unread ==
  [k \in 1 .. (controller.event + XHCI_EVENT_RING_SIZE - event_dequeue) % XHCI_EVENT_RING_SIZE |->
     event_ring[(event_dequeue + k - 1) % XHCI_EVENT_RING_SIZE].event]

(* No completion is lost, taken twice or taken for another's, however the  *)
(* waits of several devices interleave with it and give up: a transfer the *)
(* driver believes outstanding is with the controller, or its completion   *)
(* is once in the event ring or in the stash; and there is no other.  A    *)
(* lost one would silence its device for good, as no new transfer is       *)
(* queued while one is outstanding.                                        *)
CompletionKept ==
  \A e \in Endpoints :
    LET ringed == {k \in DOMAIN Unread : Unread[k].e = e}
        kept == {k \in StashSlots : stashed[k] # None /\ stashed[k].e = e}
        trb == pending_intr_trb[e]
    IN IF trb = None THEN ringed = {} /\ kept = {} /\ ~Ready(e)
       ELSE \/ Ready(e) /\ Position(e).at = trb /\ ringed = {} /\ kept = {}
            \/ /\ ~Ready(e) /\ Cardinality(ringed) + Cardinality(kept) = 1
               /\ \A k \in ringed : Unread[k].trb = trb
               /\ \A k \in kept : stashed[k].trb = trb
=============================================================================
