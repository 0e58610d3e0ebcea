-------------------------------- MODULE Hid --------------------------------
(***************************************************************************)
(* Boot reports into input events: drivers/usb/hid_driver.c and            *)
(* hid_usage_to_input_key of drivers/usb/hid.c.  A report says what is     *)
(* held; events say what changed.                                          *)
(***************************************************************************)
EXTENDS Integers, SequencesExt, BagsExt

CONSTANTS
  Keyboards, Mice,     \* the devices
  KeyReports, MouseReports,
  KeySlots,            \* keys in a report, 6 in the code
  KeyEvents,           \* events[] of usb_hid_poll_device, 8 in the code
  Letters, Symbols, Navigation,  \* usages; one in no set has no key value
  ControlOf            \* Enter, Backspace and Tab: the letter whose control
                       \* character each types

Devices == Keyboards \cup Mice
HID_KEY_NONE == "none"
NoValue == <<>>

VARIABLES
  hid,     \* g_usb_hid_state.devices
  held     \* history: what the events so far say is held

hidvars == <<hid, held>>

(* Several keys may have one value: Ctrl+H is Backspace. *)
hid_usage_to_input_key(usage, modifiers) ==
  CASE usage \in Letters /\ "ctrl" \in modifiers -> <<"ctrl", usage>>
    [] usage \in DOMAIN ControlOf -> <<"ctrl", ControlOf[usage]>>
    [] usage \in Navigation -> <<"nav", usage>>
    [] usage \in Symbols \/ (usage \in Letters /\ "ctrl" \notin modifiers) ->
         <<IF "shift" \in modifiers THEN "shifted" ELSE "plain", usage>>
    [] OTHER -> NoValue

(* usb_hid_add_device, usb_hid_state_reset: the part that reports change. *)
NewDevice ==
  [prev_keys |-> [i \in 1 .. KeySlots |-> HID_KEY_NONE],
   prev_key_values |-> [i \in 1 .. KeySlots |-> NoValue],
   release_pending |-> [i \in 1 .. KeySlots |-> FALSE],
   prev_buttons |-> {}]

Event(type, value) == [type |-> type, value |-> value]
-----------------------------------------------------------------------------
(* usb_hid_keyboard_report; c is the device and the events so far, and     *)
(* nothing more is done once these fill the caller's array.                *)

Produce(c, type, value) ==
  IF value = NoValue THEN c ELSE [c EXCEPT !.out = Append(@, Event(type, value))]

SetSlot(c, i, key, value, pending) ==
  [c EXCEPT !.dev.prev_keys[i] = key, !.dev.prev_key_values[i] = value,
            !.dev.release_pending[i] = pending]

(* Fault: the value of a released key is looked up again, with the         *)
(* modifiers of now.                                                       *)
ReleaseStep_LookedUp(c, i, report) ==
  LET key == c.dev.prev_keys[i]
  IN IF Len(c.out) >= KeyEvents \/ key = HID_KEY_NONE THEN c
     ELSE IF key \in ToSet(report.keys) THEN [c EXCEPT !.dev.release_pending[i] = FALSE]
     ELSE IF ~c.dev.release_pending[i] THEN [c EXCEPT !.dev.release_pending[i] = TRUE]
     ELSE SetSlot(Produce(c, "release", hid_usage_to_input_key(key, report.modifiers)),
                  i, HID_KEY_NONE, NoValue, FALSE)

(* A key must be missing from two reports before it counts as released.    *)
ReleaseStep(c, i, report) ==
  LET key == c.dev.prev_keys[i]
  IN IF Len(c.out) >= KeyEvents \/ key = HID_KEY_NONE THEN c
     ELSE IF key \in ToSet(report.keys) THEN [c EXCEPT !.dev.release_pending[i] = FALSE]
     ELSE IF ~c.dev.release_pending[i] THEN [c EXCEPT !.dev.release_pending[i] = TRUE]
     ELSE SetSlot(Produce(c, "release", c.dev.prev_key_values[i]),
                  i, HID_KEY_NONE, NoValue, FALSE)

(* key_slot, empty_key_slot *)
SlotsOf(c, key) == {i \in 1 .. KeySlots : c.dev.prev_keys[i] = key}
FirstOf(S) == CHOOSE i \in S : \A j \in S : i <= j

PressStep(c, key, report) ==
  LET free == SlotsOf(c, HID_KEY_NONE)
      value == hid_usage_to_input_key(key, report.modifiers)
  IN IF Len(c.out) >= KeyEvents \/ key = HID_KEY_NONE THEN c
     ELSE IF SlotsOf(c, key) # {}
     THEN [c EXCEPT !.dev.release_pending[FirstOf(SlotsOf(c, key))] = FALSE]
     ELSE IF free = {} THEN c
     ELSE Produce(SetSlot(c, FirstOf(free), key, value, FALSE), "press", value)

usb_hid_keyboard_report(dev, report) ==
  LET released == FoldLeft(LAMBDA c, i : ReleaseStep(c, i, report),
                           [dev |-> dev, out |-> <<>>], [i \in 1 .. KeySlots |-> i])
  IN FoldLeft(LAMBDA c, key : PressStep(c, key, report), released, report.keys)

(* usb_hid_mouse_report: a move, then an event for each of the first three *)
(* buttons that changed; the four events always fit.                       *)
Buttons == 0 .. 2

usb_hid_mouse_report(dev, report) ==
  LET changed == (report.buttons \ dev.prev_buttons) \cup (dev.prev_buttons \ report.buttons)
      edges == SetToSortSeq(changed \cap Buttons, <)
  IN [dev |-> [dev EXCEPT !.prev_buttons = report.buttons],
      out |-> (IF report.moved THEN <<Event("move", NoValue)>> ELSE <<>>) \o
              [i \in DOMAIN edges |->
                 Event(IF edges[i] \in report.buttons THEN "button_down" ELSE "button_up",
                       edges[i])]]
-----------------------------------------------------------------------------
(* What a reader of the events takes to be held, each value as often as it *)
(* was pressed.                                                            *)
Heard(bag, e) ==
  CASE e.type \in {"press", "button_down"} -> bag (+) SetToBag({e.value})
    [] e.type \in {"release", "button_up"} -> bag (-) SetToBag({e.value})
    [] OTHER -> bag

(* usb_hid_poll_device, once it has a report. *)
Receive(d, report) ==
  LET c == IF d \in Keyboards THEN usb_hid_keyboard_report(hid[d], report)
           ELSE usb_hid_mouse_report(hid[d], report)
  IN /\ hid' = [hid EXCEPT ![d] = c.dev]
     /\ held' = [held EXCEPT ![d] = FoldLeft(Heard, @, c.out)]

HidInit ==
  /\ hid = [d \in Devices |-> NewDevice]
  /\ held = [d \in Devices |-> EmptyBag]

HidNext ==
  \/ \E d \in Keyboards, r \in KeyReports : Receive(d, r)
  \/ \E d \in Mice, r \in MouseReports : Receive(d, r)
-----------------------------------------------------------------------------
Tracked(dev) ==
  FoldLeft(LAMBDA b, v : IF v = NoValue THEN b ELSE b (+) SetToBag({v}),
           SetToBag(dev.prev_buttons \cap Buttons), dev.prev_key_values)

(* Whatever reports come, with keys and modifiers let go in any order and  *)
(* more changes than one call has events for, a reader of the events       *)
(* believes exactly those keys and buttons held that the driver still      *)
(* tracks: no key hangs, and no release names a value not pressed before.  *)
HeldAgree == \A d \in Devices : held[d] = Tracked(hid[d])
=============================================================================
