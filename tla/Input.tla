------------------------------- MODULE Input -------------------------------
(***************************************************************************)
(* The queue all input goes through (drivers/input/input.c), the sources   *)
(* that fill it, and those who empty it: the start of a system call        *)
(* (syscall_pump_input), the pass after a timer interrupt                  *)
(* (poll_input_events), SYS_READ, and the console thread                   *)
(* (console_input_thread).  Handlers run to their end; a pass may          *)
(* interrupt a process or, at any point, the thread, which here is the     *)
(* thread of a system whose panel could not be launched.                   *)
(***************************************************************************)
EXTENDS EscapeKeys, Integers

CONSTANTS
  INPUT_EVENT_QUEUE_SIZE,
  RUNTIME_INPUT_EVENT_BUDGET,
  MaxPushes          \* bound on the bytes and events that arrive

ASSUME InputAssumption ==
  /\ INPUT_EVENT_QUEUE_SIZE \in Nat \ {0}
  /\ RUNTIME_INPUT_EVENT_BUDGET \in Nat /\ MaxPushes \in Nat

VARIABLES
  esc,                         \* g_esc_state and g_esc_digit
  todo,                        \* events the running handler has yet to push
  queue, head, tail, count,    \* g_event_queue and its indices
  high_water, overflow,
  running,                     \* "el0", "thread", or "peeked" in its loop
  event,                       \* local of the thread
  handler,                     \* "none", "pump" or "pass"
  consumed,                    \* RUNTIME_METRIC_INPUT_CONSUMED of the pass
  focused,                     \* the desktop has a focused window
  pushes

ring == <<queue, head, tail, count, high_water, overflow>>
flow == <<running, event, handler, consumed, focused>>
inputvars == <<esc, todo, ring, flow, pushes>>

Event == Key \cup {"move"}
IsKeyPress(e) == e # "move"
Slots == 0 .. INPUT_EVENT_QUEUE_SIZE - 1
Quiet == handler = "none" /\ todo = <<>>
-----------------------------------------------------------------------------
(* Fault: one event too many is accepted. *)
QueueFull_OffByOne == count > INPUT_EVENT_QUEUE_SIZE

QueueFull == count >= INPUT_EVENT_QUEUE_SIZE

After(i) == (i + 1) % INPUT_EVENT_QUEUE_SIZE

input_queue_push(e) ==
  IF QueueFull
  THEN /\ overflow' = overflow + 1
       /\ UNCHANGED <<queue, head, tail, count, high_water>>
  ELSE /\ queue' = [queue EXCEPT ![tail] = e]
       /\ tail' = After(tail)
       /\ count' = count + 1
       /\ high_water' = IF count' > high_water THEN count' ELSE high_water
       /\ UNCHANGED <<head, overflow>>

input_queue_poll ==
  /\ count > 0
  /\ head' = After(head)
  /\ count' = count - 1
  /\ UNCHANGED <<queue, tail, high_water, overflow>>

(* console_poll_char: a line that is complete may be a command that queues *)
(* an event of its own (run_mouse, run_key); "x" stands for its end.       *)
console_poll_char(e) ==
  IF e = "x" THEN todo' \in {<<>>, <<"A">>, <<"move">>} ELSE todo' = <<>>

(* gui_handle_input: a click or a key may move the focus. *)
gui_handle_input == focused' \in BOOLEAN
-----------------------------------------------------------------------------
(* uart_irq_handler, and uart_pump_input for bytes that came while         *)
(* interrupts were masked.                                                 *)
uart_irq_handler(c) ==
  /\ Quiet /\ pushes < MaxPushes
  /\ esc' = input_inject_byte(esc, c).esc
  /\ todo' = input_inject_byte(esc, c).keys
  /\ pushes' = pushes + 1
  /\ UNCHANGED <<ring, flow>>

(* kernel_io_poll_input_sources: virtio and USB, polled by whoever runs.   *)
kernel_io_poll_input_sources(e) ==
  /\ Quiet /\ pushes < MaxPushes
  /\ todo' = <<e>>
  /\ pushes' = pushes + 1
  /\ UNCHANGED <<esc, ring, flow>>

PushNext ==
  /\ todo # <<>>
  /\ input_queue_push(Head(todo))
  /\ todo' = Tail(todo)
  /\ UNCHANGED <<esc, flow, pushes>>

StartPump ==
  /\ Quiet /\ running = "el0"
  /\ handler' = "pump"
  /\ UNCHANGED <<esc, todo, ring, running, event, consumed, focused, pushes>>

(* One round of the loop of syscall_pump_input. *)
syscall_pump_input ==
  /\ handler = "pump" /\ todo = <<>>
  /\ IF count = 0
     THEN handler' = "none" /\ UNCHANGED <<todo, ring, focused>>
     ELSE /\ input_queue_poll
          /\ IF IsKeyPress(queue[head]) /\ ~focused
             THEN console_poll_char(queue[head])
             ELSE UNCHANGED todo
          /\ gui_handle_input
          /\ UNCHANGED handler
  /\ UNCHANGED <<esc, running, event, consumed, pushes>>

(* sys_read of standard input, before which nothing is drained. *)
sys_read ==
  /\ Quiet /\ running = "el0"
  /\ input_queue_poll
  /\ UNCHANGED <<esc, todo, flow, pushes>>

StartPass ==
  /\ Quiet
  /\ handler' = "pass" /\ consumed' = 0
  /\ UNCHANGED <<esc, todo, ring, running, event, focused, pushes>>

(* One round of the loop of poll_input_events, through                     *)
(* runtime_service_input_poll; a missed deadline ends it anywhere.         *)
poll_input_events ==
  /\ handler = "pass"
  /\ \/ /\ handler' = "none"
        /\ UNCHANGED <<ring, consumed, focused>>
     \/ /\ consumed < RUNTIME_INPUT_EVENT_BUDGET
        /\ input_queue_poll
        /\ consumed' = consumed + 1
        /\ IF running = "el0" THEN gui_handle_input ELSE UNCHANGED focused
        /\ UNCHANGED handler
  /\ UNCHANGED <<esc, todo, running, event, pushes>>

(* console_input_thread; no process is left, so no window either.          *)
ThreadPeek ==
  /\ Quiet /\ running = "thread" /\ ~focused /\ count > 0
  /\ event' = queue[head]
  /\ running' = "peeked"
  /\ UNCHANGED <<esc, todo, ring, handler, consumed, focused, pushes>>

(* The result of the second poll is ignored; when it fails, `event` still  *)
(* holds what was peeked.                                                  *)
ThreadPoll ==
  /\ Quiet /\ running = "peeked"
  /\ IF count > 0 THEN input_queue_poll ELSE UNCHANGED ring
  /\ event' = IF count > 0 THEN queue[head] ELSE event
  /\ IF IsKeyPress(event) THEN console_poll_char(event') ELSE UNCHANGED todo
  /\ running' = "thread"
  /\ UNCHANGED <<esc, handler, consumed, focused, pushes>>
-----------------------------------------------------------------------------
InputInit ==
  /\ esc = Idle /\ todo = <<>>
  /\ queue = [i \in Slots |-> "move"] /\ head = 0 /\ tail = 0 /\ count = 0
  /\ high_water = 0 /\ overflow = 0
  /\ running \in {"el0", "thread"} /\ event = "move"
  /\ handler = "none" /\ consumed = 0 /\ focused = FALSE /\ pushes = 0

InputNext ==
  \/ \E c \in {"esc", "[", "A", "x"} : uart_irq_handler(c)
  \/ kernel_io_poll_input_sources("move")
  \/ PushNext
  \/ StartPump \/ syscall_pump_input \/ sys_read
  \/ StartPass \/ poll_input_events
  \/ ThreadPeek \/ ThreadPoll

InputSpec == InputInit /\ [][InputNext]_inputvars
-----------------------------------------------------------------------------
(* Whoever fills and empties it, the ring implements a queue that loses    *)
(* only what it counts as overflow.                                        *)
Queued == [i \in 1 .. count |-> queue[(head + i - 1) % INPUT_EVENT_QUEUE_SIZE]]

Fifo == INSTANCE EventFifo WITH Events <- Event,
                                Size <- INPUT_EVENT_QUEUE_SIZE, q <- Queued

(* The refinement, as a property of runs. *)
IsFifo == Fifo!Spec
=============================================================================
