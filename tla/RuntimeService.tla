--------------------------- MODULE RuntimeService ---------------------------
(***************************************************************************)
(* The work an interrupt handler does after acknowledging the interrupt    *)
(* (runtime_service_run_pending in kernel/irq.c): classes of work, count   *)
(* budgets, the deadline that is looked at after every unit of work, and   *)
(* the redraw through the wrappers of kernel/io_service.h.                 *)
(*                                                                         *)
(* A pass runs with interrupts masked; its steps are separate actions      *)
(* because each may miss the deadline and because frames arrive meanwhile. *)
(* System calls happen between passes.                                     *)
(***************************************************************************)
EXTENDS Damage, FiniteSets

CONSTANTS
  Rects,                         \* rectangles that programs and events damage
  RUNTIME_INPUT_EVENT_BUDGET,
  RUNTIME_NETWORK_FRAME_BUDGET,
  RUNTIME_REDRAW_DAMAGE_BUDGET,
  MaxQueued, MaxFrames,          \* sizes of the input queue and of the ring
  MaxChanges                     \* bound on changes to the screen

ASSUME RuntimeAssumption ==
  /\ RUNTIME_INPUT_EVENT_BUDGET \in Nat \ {0}
  /\ RUNTIME_NETWORK_FRAME_BUDGET \in Nat \ {0}
  /\ RUNTIME_REDRAW_DAMAGE_BUDGET \in Nat \ {0}
  /\ Rects \subseteq [x : Int, y : Int, w : Int, h : Int]
  /\ MaxQueued \in Nat /\ MaxFrames \in Nat /\ MaxChanges \in Nat

VARIABLES
  pending_work, last_work,   \* sets of classes
  phase,                     \* classes served now, or {"DEADLINE"}, or {}
  consumed, received,        \* metric_last of input events and of frames
  redraw_state,
  at,                        \* the pass: "idle" between passes
  queued, frames,            \* events in the queue, frames in the ring
  waiting,                   \* history: frames in the ring when a pass begins
  g_gui_dirty, damage,
  undrawn, unshown,          \* pixels that changed and are not in the
                             \* framebuffer, or not on the screen
  changes

work == <<pending_work, last_work, phase>>
counts == <<consumed, received, waiting>>
screen == <<g_gui_dirty, damage, undrawn, unshown, changes>>
vars == <<work, counts, redraw_state, at, queued, frames, screen>>

PERIODIC == "PERIODIC"
INPUT == "INPUT"
NETWORK == "NETWORK"
RUNTIME_WORK_ALL == {PERIODIC, INPUT, NETWORK}
DEADLINE == {"DEADLINE"}

(* batch is -1 as long as no redraw is prepared. *)
NoRedraw == [batch |-> -1, full |-> FALSE, success |-> FALSE]

Positions == {"idle", "sources", "drain", "redraw", "submit", "clear",
              "end", "network", "net_poll", "done"}
-----------------------------------------------------------------------------
(* What a missed deadline leaves pending. *)
Republished(pending) == pending \cup last_work

(* runtime_service_deadline, with the work class `p` being served.         *)
runtime_service_deadline(p, pending) ==
  \/ phase' = p /\ pending_work' = pending
  \/ /\ p # DEADLINE
     /\ phase' = DEADLINE
     /\ pending_work' = Republished(pending)

(* runtime_service_run_pending, up to the first class of work. *)
runtime_service_run_pending(pending) ==
  /\ pending_work' = {} /\ last_work' = pending
  /\ consumed' = 0 /\ received' = 0 /\ waiting' = frames
  /\ redraw_state' = NoRedraw
  /\ phase' = pending \cap {PERIODIC, INPUT}
  /\ at' = CASE pending = {} -> "idle"
             [] phase' # {} -> "sources"
             [] OTHER -> "network"

(* The timer publishes every class, other interrupts none. *)
irq_handler_frame(request) ==
  /\ at = "idle"
  /\ runtime_service_run_pending(pending_work \cup request)
  /\ UNCHANGED <<queued, frames, screen>>

(* kernel_io_poll_input_sources. *)
Sources ==
  /\ at = "sources"
  /\ queued' \in queued .. MaxQueued
  /\ runtime_service_deadline(phase, pending_work)
  /\ at' = "drain"
  /\ UNCHANGED <<last_work, counts, redraw_state, frames, screen>>

(* A program or an event changes the pixels of `r`. *)
Change(r) ==
  /\ changes < MaxChanges
  /\ damage' = gui_damage_add(damage, r)
  /\ g_gui_dirty' = (g_gui_dirty \/ damage' # damage)
  /\ undrawn' = undrawn \cup PixelsOf(r)
  /\ unshown' = unshown \cup PixelsOf(r)
  /\ changes' = changes + 1

(* runtime_service_requeue_budget *)
Requeued(class) == pending_work \cup {class}

(* One event: runtime_service_input_poll and gui_handle_input. *)
DrainEvent ==
  /\ at = "drain" /\ INPUT \in phase
  /\ consumed < RUNTIME_INPUT_EVENT_BUDGET /\ queued > 0
  /\ queued' = queued - 1 /\ consumed' = consumed + 1
  /\ runtime_service_deadline(phase, pending_work)
  /\ UNCHANGED screen \/ \E r \in Rects : Change(r)
  /\ UNCHANGED <<last_work, received, waiting, redraw_state, at, frames>>

(* The poll returns -1. *)
DrainEnd ==
  /\ at = "drain"
  /\ INPUT \notin phase \/ queued = 0 \/ consumed = RUNTIME_INPUT_EVENT_BUDGET
  /\ pending_work' = IF INPUT \in phase /\ queued > 0 THEN Requeued(INPUT)
                     ELSE pending_work
  /\ at' = IF g_gui_dirty THEN "redraw" ELSE "end"
  /\ UNCHANGED <<last_work, phase, counts, redraw_state, queued, frames, screen>>
-----------------------------------------------------------------------------
(* The redraw *)

Batch == Lower(Len(damage.rects), RUNTIME_REDRAW_DAMAGE_BUDGET)
Drawn == IF damage.full THEN Pixels
         ELSE PixelsOfAll(SubSeq(damage.rects, 1, Batch))

(* virtio_gpu_draw finds the device not ready. *)
RedrawRefused ==
  /\ at = "redraw"
  /\ at' = "clear"
  /\ UNCHANGED <<work, counts, redraw_state, queued, frames, screen>>

(* runtime_service_gui_render *)
runtime_service_gui_render ==
  /\ at = "redraw"
  /\ runtime_service_deadline(phase, pending_work)
  /\ IF phase' = DEADLINE THEN UNCHANGED <<redraw_state, undrawn>>
     ELSE /\ redraw_state' = [batch |-> IF damage.full THEN 0 ELSE Batch,
                              full |-> damage.full, success |-> FALSE]
          /\ undrawn' = undrawn \ Drawn
  /\ at' = "submit"
  /\ UNCHANGED <<last_work, counts, queued, frames, g_gui_dirty, damage,
                 unshown, changes>>

(* The transfer of the framebuffer succeeds: runtime_service_report_redraw. *)
Submitted ==
  /\ at = "submit"
  /\ unshown' = undrawn
  /\ runtime_service_deadline(phase, pending_work)
  /\ redraw_state' = IF redraw_state = NoRedraw THEN NoRedraw
                     ELSE [redraw_state EXCEPT !.success = TRUE]
  /\ at' = "clear"
  /\ UNCHANGED <<last_work, counts, queued, frames, g_gui_dirty, damage,
                 undrawn, changes>>

(* It fails, before or after the pixels were transferred. *)
SubmitFailed ==
  /\ at = "submit"
  /\ unshown' \in {unshown, undrawn}
  /\ at' = "clear"
  /\ UNCHANGED <<work, counts, redraw_state, queued, frames, g_gui_dirty,
                 damage, undrawn, changes>>

(* Fault: a failed submission is forgotten. *)
Consumes_Anyway == redraw_state # NoRedraw

Consumes == redraw_state.success

(* Fault: the prefix stays in the list. *)
Left_Everything == damage

(* The damage behind the submitted prefix. *)
Left == [damage EXCEPT !.rects = SubSeq(@, redraw_state.batch + 1, Len(@))]

(* runtime_service_gui_clear_dirty *)
runtime_service_gui_clear_dirty ==
  /\ at = "clear"
  /\ CASE ~Consumes -> UNCHANGED <<g_gui_dirty, damage>>
       [] Consumes ->
            IF redraw_state.full \/ Len(damage.rects) <= redraw_state.batch
            THEN g_gui_dirty' = FALSE /\ damage' = Clean
            ELSE damage' = Left /\ UNCHANGED g_gui_dirty
  /\ redraw_state' = NoRedraw
  /\ at' = "end"
  /\ UNCHANGED <<work, counts, queued, frames, undrawn, unshown, changes>>
-----------------------------------------------------------------------------
(* The end of a class of work. After kernel_on_timer_tick, whose own       *)
(* kernel_io_poll_network does nothing, the network is next.               *)
ClassEnd ==
  /\ at = "end"
  /\ runtime_service_deadline(phase, pending_work)
  /\ at' = IF NETWORK \in last_work /\ NETWORK \notin phase /\ phase' # DEADLINE
           THEN "network" ELSE "done"
  /\ UNCHANGED <<last_work, counts, redraw_state, queued, frames, screen>>

StartNetwork ==
  /\ at = "network"
  /\ runtime_service_deadline({NETWORK}, pending_work)
  /\ at' = IF phase' = DEADLINE THEN "done" ELSE "net_poll"
  /\ UNCHANGED <<last_work, counts, redraw_state, queued, frames, screen>>

Finish ==
  /\ at = "done"
  /\ phase' = {} /\ at' = "idle"
  /\ UNCHANGED <<pending_work, last_work, counts, redraw_state, queued, frames,
                 screen>>

(* One frame: runtime_service_virtio_net_recv. *)
ReceiveFrame ==
  /\ at = "net_poll" /\ NETWORK \in phase
  /\ received < RUNTIME_NETWORK_FRAME_BUDGET /\ frames > 0
  /\ frames' = frames - 1 /\ received' = received + 1
  /\ runtime_service_deadline(phase, pending_work)
  /\ UNCHANGED <<last_work, consumed, waiting, redraw_state, at, queued, screen>>

(* It returns no frame. *)
ReceiveEnd ==
  /\ at = "net_poll"
  /\ \/ NETWORK \notin phase \/ frames = 0
     \/ received = RUNTIME_NETWORK_FRAME_BUDGET
  /\ pending_work' =
       IF NETWORK \in phase /\ received = RUNTIME_NETWORK_FRAME_BUDGET
       THEN Requeued(NETWORK) ELSE pending_work
  /\ at' = "end"
  /\ UNCHANGED <<last_work, phase, counts, redraw_state, queued, frames, screen>>
-----------------------------------------------------------------------------
(* Between passes: a system call, which may draw, and unless it is         *)
(* SYS_READ empties the queue first (syscall_pump_input).                  *)
SystemCall ==
  /\ at = "idle"
  /\ queued' \in {0, queued}
  /\ UNCHANGED screen \/ \E r \in Rects : Change(r)
  /\ UNCHANGED <<work, counts, redraw_state, at, frames>>

(* gui_request_redraw *)
gui_request_redraw ==
  /\ at = "idle" /\ changes < MaxChanges
  /\ damage' = Full /\ g_gui_dirty' = TRUE
  /\ undrawn' = Pixels /\ unshown' = Pixels
  /\ changes' = changes + 1
  /\ UNCHANGED <<work, counts, redraw_state, at, queued, frames>>

(* A byte from the serial port. *)
InputArrives ==
  /\ at = "idle" /\ queued < MaxQueued
  /\ queued' = queued + 1
  /\ UNCHANGED <<work, counts, redraw_state, at, frames, screen>>

FrameArrives ==
  /\ frames < MaxFrames
  /\ frames' = frames + 1
  /\ UNCHANGED <<work, counts, redraw_state, at, queued, screen>>

Init ==
  /\ pending_work = {} /\ last_work = {} /\ phase = {}
  /\ consumed = 0 /\ received = 0 /\ waiting = 0 /\ redraw_state = NoRedraw
  /\ at = "idle" /\ queued = 0 /\ frames = 0
  /\ g_gui_dirty = FALSE /\ damage = Clean /\ undrawn = {} /\ unshown = {}
  /\ changes = 0

Pass ==
  \/ Sources \/ DrainEvent \/ DrainEnd
  \/ RedrawRefused \/ runtime_service_gui_render
  \/ Submitted \/ SubmitFailed \/ runtime_service_gui_clear_dirty
  \/ ClassEnd \/ StartNetwork \/ ReceiveFrame \/ ReceiveEnd \/ Finish

Next ==
  \/ \E request \in {{}, RUNTIME_WORK_ALL} : irq_handler_frame(request)
  \/ Pass
  \/ SystemCall \/ gui_request_redraw \/ InputArrives \/ FrameArrives

Spec == Init /\ [][Next]_vars

(* The timer keeps ticking, a pass runs to its end, not every pass misses  *)
(* its deadline before it has drawn, and not every submission of what it   *)
(* drew fails.                                                             *)
OnTime(step) == step /\ phase' # DEADLINE

FairSpec ==
  /\ Spec
  /\ SF_vars(irq_handler_frame(RUNTIME_WORK_ALL)) /\ WF_vars(Pass)
  /\ SF_vars(OnTime(Sources)) /\ SF_vars(OnTime(DrainEvent))
  /\ SF_vars(OnTime(runtime_service_gui_render))
  /\ SF_vars(Submitted /\ redraw_state # NoRedraw)
-----------------------------------------------------------------------------
(* The variables keep their types, and the budgets hold. *)
TypeOK ==
  /\ pending_work \subseteq RUNTIME_WORK_ALL /\ last_work \subseteq RUNTIME_WORK_ALL
  /\ phase \in (SUBSET RUNTIME_WORK_ALL) \cup {DEADLINE}
  /\ consumed \in 0 .. RUNTIME_INPUT_EVENT_BUDGET
  /\ received \in 0 .. RUNTIME_NETWORK_FRAME_BUDGET
  /\ redraw_state \in [batch : -1 .. RUNTIME_REDRAW_DAMAGE_BUDGET,
                       full : BOOLEAN, success : BOOLEAN]
  /\ at \in Positions /\ queued \in 0 .. MaxQueued
  /\ frames \in 0 .. MaxFrames /\ waiting \in 0 .. MaxFrames
  /\ g_gui_dirty \in BOOLEAN /\ damage.full \in BOOLEAN
  /\ Len(damage.rects) <= GUI_DAMAGE_MAX
  /\ \A i \in DOMAIN damage.rects : PixelsOf(damage.rects[i]) # {}
  /\ undrawn \subseteq Pixels /\ unshown \subseteq Pixels

(* What is not on the screen yet is in the damage, and will be drawn:      *)
(* merged, cut off, overflowed into a full redraw, skipped by a missed     *)
(* deadline, submitted in part or in vain, no change is forgotten.         *)
DamageCovers ==
  /\ unshown \subseteq Covered(damage)
  /\ unshown # {} => g_gui_dirty
  /\ undrawn \subseteq Covered(damage)

(* When a pass ends, a class it was to serve is done with or pending       *)
(* again: events are left only with INPUT pending, and frames that were    *)
(* there when it began only with NETWORK pending.                          *)
WorkKept ==
  at = "done" =>
    /\ INPUT \in last_work /\ queued > 0 => INPUT \in pending_work
    /\ NETWORK \in last_work /\ received < waiting => NETWORK \in pending_work

(* A pass that misses its deadline, or meets a display that refuses,       *)
(* loses neither damage nor work.                                          *)
PassSound == TypeOK /\ DamageCovers /\ WorkKept

(* Once the programs stop drawing, the screen shows what they drew. *)
ScreenCatchesUp == (unshown # {}) ~> (unshown = {})
=============================================================================
