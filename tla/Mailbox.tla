------------------------------ MODULE Mailbox ------------------------------
(***************************************************************************)
(* What kernel/ipc.h promises of messages between processes: each target   *)
(* gets the messages sent to it in the order of sending, each once and     *)
(* unchanged, and the kernel holds a bounded number of them in all.        *)
(***************************************************************************)
EXTENDS Integers, Sequences, FiniteSets

CONSTANTS
  Message,     \* messages; each has a field `target_pid`
  Capacity     \* messages held at a time, over all targets

VARIABLES
  sent,        \* every message accepted so far, in order
  taken        \* positions in `sent` of the messages delivered

Pending == DOMAIN sent \ taken
PendingFor(pid) == {i \in Pending : sent[i].target_pid = pid}

Init == sent = <<>> /\ taken = {}

Send(m) ==
  /\ Cardinality(Pending) < Capacity
  /\ sent' = Append(sent, m)
  /\ UNCHANGED taken

Receive(pid) ==
  /\ \E i \in PendingFor(pid) :
       /\ \A j \in PendingFor(pid) : i <= j
       /\ taken' = taken \cup {i}
  /\ UNCHANGED sent

Next ==
  \/ \E m \in Message : Send(m)
  \/ \E m \in Message : Receive(m.target_pid)

Spec == Init /\ [][Next]_<<sent, taken>>
=============================================================================
