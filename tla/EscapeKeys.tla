----------------------------- MODULE EscapeKeys -----------------------------
(***************************************************************************)
(* input_inject_byte (drivers/input/input.c): the state machine that turns *)
(* the bytes of a serial terminal into keys.  Bytes are named; "3" and "9" *)
(* stand for digits with and without a key, "A" and "x" for letters with   *)
(* and without one.                                                        *)
(***************************************************************************)
EXTENDS Sequences

Byte == {"esc", "[", "3", "9", "A", "~", "x"}
Digits == {"3", "9"}
NavKeys == {"up", "delete"}
Key == Byte \cup NavKeys
EscState == {"idle", "esc", "bracket", "digit"}

Idle == [state |-> "idle", digit |-> "3"]

push_escape_key(c) == IF c = "A" THEN <<"up">> ELSE <<>>
push_escape_tilde(digit) == IF digit = "3" THEN <<"delete">> ELSE <<>>

(* A byte outside an escape sequence. *)
Plain(s, c) ==
  IF c = "esc" THEN [esc |-> [s EXCEPT !.state = "esc"], keys |-> <<>>]
  ELSE [esc |-> [s EXCEPT !.state = "idle"], keys |-> <<c>>]

(* Fault: a byte that ends a lone ESC is dropped with it. *)
input_inject_byte_LosesByte(s, c) ==
  CASE s.state = "idle" -> Plain(s, c)
    [] s.state = "esc" /\ c = "[" ->
         [esc |-> [s EXCEPT !.state = "bracket"], keys |-> <<>>]
    [] s.state = "esc" /\ c # "[" ->
         [esc |-> [s EXCEPT !.state = "idle"], keys |-> <<"esc">>]
    [] s.state = "bracket" /\ c \in Digits ->
         [esc |-> [state |-> "digit", digit |-> c], keys |-> <<>>]
    [] s.state = "bracket" /\ c \notin Digits ->
         [esc |-> [s EXCEPT !.state = "idle"], keys |-> push_escape_key(c)]
    [] s.state = "digit" ->
         [esc |-> [s EXCEPT !.state = "idle"],
          keys |-> IF c = "~" THEN push_escape_tilde(s.digit) ELSE <<>>]

(* The next state, and the keys pushed. *)
input_inject_byte(s, c) ==
  CASE s.state = "idle" -> Plain(s, c)
    [] s.state = "esc" /\ c = "[" ->
         [esc |-> [s EXCEPT !.state = "bracket"], keys |-> <<>>]
    [] s.state = "esc" /\ c # "[" ->
         LET plain == Plain(s, c)
         IN [plain EXCEPT !.keys = <<"esc">> \o @]
    [] s.state = "bracket" /\ c \in Digits ->
         [esc |-> [state |-> "digit", digit |-> c], keys |-> <<>>]
    [] s.state = "bracket" /\ c \notin Digits ->
         [esc |-> [s EXCEPT !.state = "idle"], keys |-> push_escape_key(c)]
    [] s.state = "digit" ->
         [esc |-> [s EXCEPT !.state = "idle"],
          keys |-> IF c = "~" THEN push_escape_tilde(s.digit) ELSE <<>>]
=============================================================================
