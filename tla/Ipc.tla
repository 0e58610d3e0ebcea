-------------------------------- MODULE Ipc --------------------------------
(***************************************************************************)
(* Messages between processes: the slots of kernel/ipc.c and the two       *)
(* system calls of kernel/syscall_ipc.c.  A system call runs with          *)
(* interrupts masked and is one action.  The queue knows nothing of the    *)
(* life of processes: any pid may be a target, and a process that exits    *)
(* leaves its messages where they are.                                     *)
(***************************************************************************)
EXTENDS Integers, Sequences, FiniteSets

CONSTANTS
  Pids,          \* pids that call, or that messages are sent to
  MaxMessages,   \* IPC_MAX_MESSAGES
  MaxSize,       \* IPC_MAX_MESSAGE_SIZE
  Bytes,         \* values of the bytes that programs send
  MaxSends       \* bound on g_ipc_next_sequence, a uint64_t in the code

ASSUME IpcAssumption ==
  /\ Pids \subseteq Nat \ {0}
  /\ MaxMessages \in Nat /\ MaxSize \in Nat \ {0} /\ MaxSends \in Nat
  /\ Bytes \subseteq Nat

VARIABLES
  g_ipc_slots,
  g_ipc_next_sequence,
  sent,                \* history: the messages ipc_send accepted, in order
  delivered            \* history: sequence numbers of the messages that
                       \* reached the buffer of the process they were for

vars == <<g_ipc_slots, g_ipc_next_sequence, sent, delivered>>

Slot == 0 .. (MaxMessages - 1)
Sizes == 1 .. MaxSize

(* ipc_message_t: `data` is the whole buffer, of which `size` bytes count. *)
Data == [Sizes -> Bytes \cup {0}]
Message == [sender_pid : Pids, target_pid : Pids, size : Sizes, data : Data]
NoMessage == [sender_pid |-> 0, target_pid |-> 0, size |-> 0,
              data |-> [i \in Sizes |-> 0]]

IpcSlot == [message : Message \cup {NoMessage}, sequence : Nat, used : {0, 1}]

(* ipc_clear_slot. *)
ipc_clear_slot == [message |-> NoMessage, sequence |-> 0, used |-> 0]

(* Fault: the whole source buffer is copied. *)
ipc_copy_payload_WholeBuffer(src, size) == src

(* ipc_copy_payload, as the buffer it leaves. *)
ipc_copy_payload(src, size) ==
  [i \in Sizes |-> IF i <= size THEN src[i] ELSE 0]

(* ipc_find_free_slot may return s: the lowest slot that is not in use. *)
ipc_find_free_slot(s) ==
  /\ g_ipc_slots[s].used = 0
  /\ \A r \in Slot : r < s => g_ipc_slots[r].used = 1

(* The slots that hold a message for pid. *)
SlotsFor(pid) ==
  {s \in Slot : /\ g_ipc_slots[s].used = 1
                /\ g_ipc_slots[s].message.target_pid = pid}

(* Fault: the first slot of the target, not the oldest. *)
ipc_find_oldest_target_slot_Lowest(pid, s) ==
  /\ s \in SlotsFor(pid)
  /\ \A r \in SlotsFor(pid) : s <= r

(* ipc_find_oldest_target_slot may return s. *)
ipc_find_oldest_target_slot(pid, s) ==
  /\ s \in SlotsFor(pid)
  /\ \A r \in SlotsFor(pid) :
       g_ipc_slots[s].sequence <= g_ipc_slots[r].sequence

(* ipc_send: a refusal for want of a slot changes nothing. *)
ipc_send(sender, target, src, size) ==
  /\ g_ipc_next_sequence <= MaxSends
  /\ LET m == [sender_pid |-> sender, target_pid |-> target, size |-> size,
               data |-> ipc_copy_payload(src, size)]
     IN /\ \E s \in Slot :
             /\ ipc_find_free_slot(s)
             /\ g_ipc_slots' = [g_ipc_slots EXCEPT ![s] =
                  [message |-> m, sequence |-> g_ipc_next_sequence, used |-> 1]]
        /\ sent' = Append(sent, m)
  /\ g_ipc_next_sequence' = g_ipc_next_sequence + 1
  /\ UNCHANGED delivered

(* The length sys_ipc_send and ipc_send accept. *)
LengthValid(len) == len # 0 /\ len <= MaxSize

(* sys_ipc_send: the payload buffer on the kernel's stack holds the bytes  *)
(* copied from the program and, behind them, whatever was there before.    *)
sys_ipc_send(pid, target, len) ==
  /\ LengthValid(len)
  /\ \E src \in Data :
       /\ \A i \in 1 .. len : src[i] \in Bytes
       /\ ipc_send(pid, target, src, len)

(* Fault: the message is taken out before the destination is validated. *)
Validated_Late(capacity, writable) == capacity = MaxSize

(* The checks sys_ipc_recv makes before ipc_recv: the capacity is the      *)
(* fixed one, and sys_user_buf_out accepts all of it, `writable` being the *)
(* number of bytes the program may write at the address it passed.         *)
Validated(capacity, writable) == capacity = MaxSize /\ capacity <= writable

(* What sys_ipc_recv checks once the slot is clear; if it fails the        *)
(* message is gone.                                                        *)
Copied(message, capacity, writable) ==
  message.size <= capacity /\ message.size <= writable

(* sys_ipc_recv, when there is a message. *)
sys_ipc_recv(pid, capacity, writable) ==
  /\ Validated(capacity, writable)
  /\ \E s \in Slot :
       /\ ipc_find_oldest_target_slot(pid, s)
       /\ g_ipc_slots' = [g_ipc_slots EXCEPT ![s] = ipc_clear_slot]
       /\ delivered' = delivered \cup
            {q \in {g_ipc_slots[s].sequence} :
               Copied(g_ipc_slots[s].message, capacity, writable)}
  /\ UNCHANGED <<g_ipc_next_sequence, sent>>
-----------------------------------------------------------------------------
(* ipc_init. *)
Init ==
  /\ g_ipc_slots = [s \in Slot |-> ipc_clear_slot]
  /\ g_ipc_next_sequence = 1
  /\ sent = <<>>
  /\ delivered = {}

Next ==
  \E pid \in Pids :
    \/ \E target \in Pids, len \in 0 .. MaxSize + 1 :
         sys_ipc_send(pid, target, len)
    \/ \E capacity, writable \in 0 .. MaxSize + 1 :
         sys_ipc_recv(pid, capacity, writable)

Spec == Init /\ [][Next]_vars
-----------------------------------------------------------------------------
(* The variables keep their types. *)
TypeOK ==
  /\ g_ipc_slots \in [Slot -> IpcSlot]
  /\ g_ipc_next_sequence \in Nat
  /\ sent \in Seq(Message)
  /\ delivered \in SUBSET Nat

(* ipc.c:10: "Bytes beyond message.size are kept zero", in every slot, in  *)
(* use or not, however often it was reused.                                *)
NoStaleTail ==
  \A s \in Slot : \A i \in Sizes :
    i > g_ipc_slots[s].message.size => g_ipc_slots[s].message.data[i] = 0

(* The messages in the slots and the messages delivered are those sent, no *)
(* message is in both or in two slots, and the slot of a sequence number   *)
(* holds the message that was sent under it.                               *)
NothingLost ==
  /\ g_ipc_next_sequence = Len(sent) + 1
  /\ {g_ipc_slots[s].sequence : s \in {r \in Slot : g_ipc_slots[r].used = 1}}
       = DOMAIN sent \ delivered
  /\ \A s \in Slot :
       g_ipc_slots[s].used = 1 =>
         /\ g_ipc_slots[s].message = sent[g_ipc_slots[s].sequence]
         /\ \A r \in Slot :
              /\ g_ipc_slots[r].used = 1
              /\ g_ipc_slots[r].sequence = g_ipc_slots[s].sequence
              => r = s

(* The slots implement the mailbox of ipc.h: "Messages are delivered FIFO  *)
(* for each target PID", though slots are filled lowest first and freed in *)
(* any order, and though sys_ipc_recv (syscall_ipc.c:31) still has checks  *)
(* to make once the message has left its slot.                             *)
M == INSTANCE Mailbox WITH taken <- delivered, Capacity <- MaxMessages
IsMailbox == M!Spec
=============================================================================
