---------------------------- MODULE KernelProofs ----------------------------
(***************************************************************************)
(* The message slots and the page bitmap, for any sizes.  The slots        *)
(* implement a mailbox, leave no stale bytes and lose no message (Ipc); the *)
(* bitmap hands out only usable pages, the first that fit (PmmBitmap).     *)
(***************************************************************************)
EXTENDS Ipc, PmmBitmap, FiniteSetTheorems, WellFoundedInduction, TLAPS

(* The message slots *)

(* Only what was sent is delivered; with the properties, the inductive     *)
(* invariant of the slots.                                                 *)
DeliveredSent == delivered \subseteq DOMAIN sent

Inv == TypeOK /\ NoStaleTail /\ NothingLost /\ DeliveredSent

(* What a send does: one slot, free before, holds the new message. *)
SendEffect(s, m) ==
  /\ s \in Slot /\ m \in Message
  /\ \A i \in Sizes : i > m.size => m.data[i] = 0
  /\ g_ipc_slots[s].used = 0
  /\ g_ipc_slots' = [g_ipc_slots EXCEPT ![s] =
       [message |-> m, sequence |-> g_ipc_next_sequence, used |-> 1]]
  /\ sent' = Append(sent, m)
  /\ g_ipc_next_sequence' = g_ipc_next_sequence + 1
  /\ delivered' = delivered

(* What a receive does: the oldest slot of the caller is cleared and its   *)
(* message delivered.                                                      *)
RecvEffect(s, pid) ==
  /\ s \in Slot /\ pid \in Pids
  /\ ipc_find_oldest_target_slot(pid, s)
  /\ g_ipc_slots' = [g_ipc_slots EXCEPT ![s] = ipc_clear_slot]
  /\ delivered' = delivered \cup {g_ipc_slots[s].sequence}
  /\ UNCHANGED <<g_ipc_next_sequence, sent>>

(* The initial state satisfies the invariant. *)
LEMMA InitInv == Init => Inv
<1> SUFFICES ASSUME Init PROVE Inv
  OBVIOUS
<1>1. ipc_clear_slot \in IpcSlot
  BY DEF ipc_clear_slot, IpcSlot
<1>2. TypeOK
  BY <1>1 DEF Init, TypeOK
<1>3. NoStaleTail
  BY DEF Init, NoStaleTail, ipc_clear_slot, NoMessage
<1>4. NothingLost
  BY DEF Init, NothingLost, ipc_clear_slot
<1> QED
  BY <1>2, <1>3, <1>4 DEF Inv, Init, DeliveredSent

(* A message that is in a slot fits: its size is at most the capacity that *)
(* sys_ipc_recv insists on, so the checks behind ipc_recv never fail and   *)
(* nothing is lost there (syscall_ipc.c:47).                               *)
LEMMA NextEffect ==
  ASSUME Inv, Next
  PROVE  \/ \E s \in Slot, m \in Message : SendEffect(s, m)
         \/ \E s \in Slot, pid \in Pids : RecvEffect(s, pid)
<1>1. ASSUME NEW pid \in Pids, NEW target \in Pids,
             NEW len \in 0 .. MaxSize + 1, sys_ipc_send(pid, target, len)
      PROVE  \E s \in Slot, m \in Message : SendEffect(s, m)
  <2>1. len \in Sizes
    BY <1>1, IpcAssumption DEF sys_ipc_send, LengthValid, Sizes
  <2>2. PICK src \in Data : ipc_send(pid, target, src, len)
    BY <1>1 DEF sys_ipc_send
  <2> DEFINE m == [sender_pid |-> pid, target_pid |-> target, size |-> len,
                   data |-> ipc_copy_payload(src, len)]
  <2>3. ipc_copy_payload(src, len) \in Data
    BY DEF ipc_copy_payload, Data
  <2>4. m \in Message
    BY <2>1, <2>3 DEF Message
  <2>5. \A i \in Sizes : i > m.size => m.data[i] = 0
    BY <2>1, IpcAssumption DEF ipc_copy_payload, Sizes
  <2>6. PICK s \in Slot :
          /\ ipc_find_free_slot(s)
          /\ g_ipc_slots' = [g_ipc_slots EXCEPT ![s] =
               [message |-> m, sequence |-> g_ipc_next_sequence, used |-> 1]]
    BY <2>2 DEF ipc_send
  <2>7. SendEffect(s, m)
    BY <2>2, <2>4, <2>5, <2>6 DEF SendEffect, ipc_send, ipc_find_free_slot
  <2> QED
    BY <2>4, <2>7
<1>2. ASSUME NEW pid \in Pids, NEW capacity \in 0 .. MaxSize + 1,
             NEW writable \in 0 .. MaxSize + 1,
             sys_ipc_recv(pid, capacity, writable)
      PROVE  \E s \in Slot : RecvEffect(s, pid)
  <2>1. capacity = MaxSize /\ MaxSize <= writable
    BY <1>2 DEF sys_ipc_recv, Validated
  <2>2. PICK s \in Slot :
          /\ ipc_find_oldest_target_slot(pid, s)
          /\ g_ipc_slots' = [g_ipc_slots EXCEPT ![s] = ipc_clear_slot]
          /\ delivered' = delivered \cup
               {q \in {g_ipc_slots[s].sequence} :
                  Copied(g_ipc_slots[s].message, capacity, writable)}
    BY <1>2 DEF sys_ipc_recv
  <2>3. g_ipc_slots[s].message \in Message
    BY <2>2 DEF ipc_find_oldest_target_slot, SlotsFor, Inv, TypeOK, IpcSlot,
                NoMessage, IpcAssumption, NothingLost
  <2>4. Copied(g_ipc_slots[s].message, capacity, writable)
    BY <2>1, <2>3, IpcAssumption DEF Copied, Message, Sizes
  <2>5. RecvEffect(s, pid)
    BY <1>2, <2>2, <2>4 DEF RecvEffect, sys_ipc_recv
  <2> QED
    BY <2>5
<1> QED
  BY <1>1, <1>2 DEF Next

(* Membership of a slot after one update. *)
LEMMA SlotType ==
  ASSUME NEW m \in Message \cup {NoMessage}, NEW n \in Nat, NEW u \in {0, 1}
  PROVE  [message |-> m, sequence |-> n, used |-> u] \in IpcSlot
BY DEF IpcSlot

(* A send keeps the invariant: the new sequence number is one more than    *)
(* all in use.                                                             *)
LEMMA SendInv ==
  ASSUME Inv, NEW s \in Slot, NEW m \in Message, SendEffect(s, m)
  PROVE  Inv'
<1> DEFINE n == g_ipc_next_sequence
<1>n. n \in Nat /\ n = Len(sent) + 1 /\ Len(sent) \in Nat /\ sent \in Seq(Message)
  BY DEF Inv, TypeOK, NothingLost
<1>1. TypeOK'
  <2>1. [message |-> m, sequence |-> n, used |-> 1] \in IpcSlot
    BY <1>n, SlotType
  <2> QED
    BY <2>1, <1>n DEF SendEffect, Inv, TypeOK
<1>2. NoStaleTail'
  BY DEF SendEffect, Inv, TypeOK, NoStaleTail
<1>3. /\ Len(sent') = n /\ DOMAIN sent' = 1 .. n /\ DOMAIN sent = 1 .. (n - 1)
      /\ sent'[n] = m
      /\ \A i \in 1 .. (n - 1) : sent'[i] = sent[i]
  BY <1>n DEF SendEffect
<1>4. \A r \in Slot : /\ r # s => g_ipc_slots'[r] = g_ipc_slots[r]
                      /\ r = s => /\ g_ipc_slots'[r].used = 1
                                  /\ g_ipc_slots'[r].sequence = n
                                  /\ g_ipc_slots'[r].message = m
  BY DEF SendEffect, Inv, TypeOK
<1>5. \A r \in Slot : g_ipc_slots[r].used = 1 =>
                        /\ g_ipc_slots[r].sequence \in 1 .. (n - 1)
                        /\ g_ipc_slots[r].sequence \notin delivered
  BY <1>3 DEF Inv, NothingLost
<1>6. \A i \in 1 .. (n - 1) : i \notin delivered =>
        \E r \in Slot : g_ipc_slots[r].used = 1 /\ g_ipc_slots[r].sequence = i
  BY <1>3 DEF Inv, NothingLost
<1>7. n \notin delivered
  BY <1>n DEF Inv, DeliveredSent
<1>8. {g_ipc_slots'[r].sequence : r \in {q \in Slot : g_ipc_slots'[q].used = 1}}
        = DOMAIN sent' \ delivered'
  <2>1. ASSUME NEW r \in Slot, g_ipc_slots'[r].used = 1
        PROVE  g_ipc_slots'[r].sequence \in (1 .. n) \ delivered
    BY <2>1, <1>n, <1>4, <1>5, <1>7
  <2>2. ASSUME NEW i \in (1 .. n) \ delivered
        PROVE  \E r \in Slot : g_ipc_slots'[r].used = 1
                               /\ g_ipc_slots'[r].sequence = i
    <3>1. CASE i = n
      BY <3>1, <1>4
    <3>2. CASE i # n
      <4>1. i \in 1 .. (n - 1)
        BY <3>2, <1>n
      <4>2. PICK r \in Slot : g_ipc_slots[r].used = 1 /\ g_ipc_slots[r].sequence = i
        BY <4>1, <1>6
      <4>3. r # s
        BY <4>2 DEF SendEffect
      <4> QED
        BY <4>2, <4>3, <1>4
    <3> QED
      BY <3>1, <3>2
  <2> QED
    BY <2>1, <2>2, <1>3 DEF SendEffect
<1>9. NothingLost'
  <2>1. g_ipc_next_sequence' = Len(sent') + 1
    BY <1>3 DEF SendEffect
  <2>2. ASSUME NEW r \in Slot, g_ipc_slots'[r].used = 1
        PROVE  g_ipc_slots'[r].message = sent'[g_ipc_slots'[r].sequence]
    BY <2>2, <1>3, <1>4, <1>5 DEF Inv, NothingLost
  <2>3. ASSUME NEW r \in Slot, NEW q \in Slot, g_ipc_slots'[r].used = 1,
               g_ipc_slots'[q].used = 1,
               g_ipc_slots'[q].sequence = g_ipc_slots'[r].sequence
        PROVE  q = r
    BY <2>3, <1>n, <1>4, <1>5 DEF Inv, NothingLost
  <2> QED
    BY <1>8, <2>1, <2>2, <2>3 DEF NothingLost
<1>10. DeliveredSent'
  BY <1>n, <1>3 DEF DeliveredSent, SendEffect, Inv
<1> QED
  BY <1>1, <1>2, <1>9, <1>10 DEF Inv

(* A receive keeps the invariant: the sequence number of the cleared slot  *)
(* moves from the slots to the delivered ones.                             *)
LEMMA RecvInv ==
  ASSUME Inv, NEW s \in Slot, NEW pid \in Pids, RecvEffect(s, pid)
  PROVE  Inv'
<1> DEFINE n == g_ipc_slots[s].sequence
<1>1. g_ipc_slots[s].used = 1 /\ n \in Nat
  BY DEF RecvEffect, ipc_find_oldest_target_slot, SlotsFor, Inv, TypeOK, IpcSlot
<1>2. TypeOK'
  <2>1. ipc_clear_slot \in IpcSlot
    BY SlotType DEF ipc_clear_slot
  <2> QED
    BY <2>1, <1>1 DEF RecvEffect, Inv, TypeOK
<1>3. NoStaleTail'
  BY DEF RecvEffect, Inv, TypeOK, NoStaleTail, ipc_clear_slot, NoMessage
<1>4. \A r \in Slot : /\ r # s => g_ipc_slots'[r] = g_ipc_slots[r]
                      /\ r = s => g_ipc_slots'[r].used = 0
  BY DEF RecvEffect, Inv, TypeOK, ipc_clear_slot
<1>5. \A r \in Slot \ {s} : g_ipc_slots[r].used = 1 => g_ipc_slots[r].sequence # n
  BY <1>1 DEF Inv, NothingLost
<1>6. {g_ipc_slots'[r].sequence : r \in {q \in Slot : g_ipc_slots'[q].used = 1}}
        = DOMAIN sent' \ delivered'
  <2>1. ASSUME NEW r \in Slot, g_ipc_slots'[r].used = 1
        PROVE  g_ipc_slots'[r].sequence \in DOMAIN sent \ (delivered \cup {n})
    BY <2>1, <1>4, <1>5 DEF Inv, NothingLost
  <2>2. ASSUME NEW i \in DOMAIN sent \ (delivered \cup {n})
        PROVE  \E r \in Slot : g_ipc_slots'[r].used = 1
                               /\ g_ipc_slots'[r].sequence = i
    <3>1. PICK r \in Slot : g_ipc_slots[r].used = 1 /\ g_ipc_slots[r].sequence = i
      BY DEF Inv, NothingLost
    <3> QED
      BY <3>1, <1>4
  <2> QED
    BY <2>1, <2>2 DEF RecvEffect
<1>7. NothingLost'
  BY <1>4, <1>6 DEF RecvEffect, Inv, NothingLost
<1>8. DeliveredSent'
  BY <1>1 DEF RecvEffect, DeliveredSent, Inv, NothingLost
<1> QED
  BY <1>2, <1>3, <1>7, <1>8 DEF Inv

(* The messages in the slots are the pending ones, so a free slot means    *)
(* that the mailbox is not full.                                           *)
LEMMA RoomLeft ==
  ASSUME Inv, NEW s \in Slot, g_ipc_slots[s].used = 0
  PROVE  Cardinality(M!Pending) < MaxMessages
<1> DEFINE U == {r \in Slot : g_ipc_slots[r].used = 1}
           f == [r \in U |-> g_ipc_slots[r].sequence]
<1>1. IsFiniteSet(Slot) /\ Cardinality(Slot) = MaxMessages
  <2>1. MaxMessages - 1 \in Int /\ 0 \in Int
    BY IpcAssumption
  <2>2. /\ IsFiniteSet(0 .. (MaxMessages - 1))
        /\ Cardinality(0 .. (MaxMessages - 1)) =
             IF 0 > MaxMessages - 1 THEN 0 ELSE MaxMessages - 1 - 0 + 1
    BY <2>1, FS_Interval
  <2> QED
    BY <2>2, IpcAssumption DEF Slot
<1>2. IsFiniteSet(Slot \ {s}) /\ Cardinality(Slot \ {s}) = MaxMessages - 1
  BY <1>1, FS_RemoveElement
<1>3. U \subseteq Slot \ {s}
  OBVIOUS
<1>4. IsFiniteSet(U) /\ Cardinality(U) <= MaxMessages - 1
  BY <1>2, <1>3, FS_Subset
<1>5. M!Pending = {f[r] : r \in U}
  BY ZenonT(60) DEF M!Pending, Inv, NothingLost
<1>6. f \in Surjection(U, M!Pending)
  BY <1>5 DEF Surjection
<1>7. IsFiniteSet(M!Pending) /\ Cardinality(M!Pending) <= Cardinality(U)
  BY <1>4, <1>6, FS_Surjection
<1>8. Cardinality(U) \in Nat /\ Cardinality(M!Pending) \in Nat
  BY <1>4, <1>7, FS_CardinalityType
<1> QED
  BY <1>4, <1>7, <1>8, IpcAssumption

(* The oldest slot of a process holds the first of its pending messages.   *)
LEMMA OldestIsFirst ==
  ASSUME Inv, NEW s \in Slot, NEW pid \in Pids, RecvEffect(s, pid)
  PROVE  /\ g_ipc_slots[s].sequence \in M!PendingFor(pid)
         /\ \A j \in M!PendingFor(pid) : g_ipc_slots[s].sequence <= j
<1>1. g_ipc_slots[s].used = 1 /\ g_ipc_slots[s].message.target_pid = pid
  BY DEF RecvEffect, ipc_find_oldest_target_slot, SlotsFor
<1>2. g_ipc_slots[s].sequence \in M!Pending
  BY <1>1 DEF M!Pending, Inv, NothingLost
<1>3. g_ipc_slots[s].sequence \in M!PendingFor(pid)
  BY <1>1, <1>2 DEF M!PendingFor, Inv, NothingLost
<1>4. ASSUME NEW j \in M!PendingFor(pid)
      PROVE  g_ipc_slots[s].sequence <= j
  <2>1. j \in DOMAIN sent \ delivered /\ sent[j].target_pid = pid
    BY DEF M!PendingFor, M!Pending
  <2>2. PICK r \in Slot : g_ipc_slots[r].used = 1 /\ g_ipc_slots[r].sequence = j
    BY <2>1 DEF Inv, NothingLost
  <2>3. r \in SlotsFor(pid)
    BY <2>1, <2>2 DEF SlotsFor, Inv, NothingLost
  <2> QED
    BY <2>2, <2>3 DEF RecvEffect, ipc_find_oldest_target_slot
<1> QED
  BY <1>3, <1>4

(* Every step keeps the invariant and is a step of the mailbox. *)
LEMMA StepInv == Inv /\ [Next]_vars => Inv'
<1> SUFFICES ASSUME Inv, [Next]_vars PROVE Inv'
  OBVIOUS
<1>1. CASE Next
  BY <1>1, NextEffect, SendInv, RecvInv
<1>2. CASE UNCHANGED vars
  BY <1>2 DEF Inv, TypeOK, NoStaleTail, NothingLost, DeliveredSent, vars
<1> QED
  BY <1>1, <1>2

(* Every step of the slots is a send or a receive of the mailbox, or       *)
(* changes neither.                                                        *)
LEMMA StepMailbox == Inv /\ [Next]_vars => [M!Next]_<<sent, delivered>>
<1> SUFFICES ASSUME Inv, Next PROVE M!Next
  BY DEF vars
<1>1. ASSUME NEW s \in Slot, NEW m \in Message, SendEffect(s, m)
      PROVE  M!Next
  <2>1. Cardinality(M!Pending) < MaxMessages
    BY <1>1, RoomLeft DEF SendEffect
  <2>2. M!Cardinality(M!Pending) = Cardinality(M!Pending)
    BY DEF M!Cardinality, Cardinality, M!IsFiniteSet, IsFiniteSet
  <2>3. M!Send(m)
    BY <1>1, <2>1, <2>2 DEF M!Send, SendEffect
  <2> QED
    BY <2>3 DEF M!Next
<1>2. ASSUME NEW s \in Slot, NEW pid \in Pids, RecvEffect(s, pid)
      PROVE  M!Next
  <2>1. M!Receive(pid)
    BY <1>2, OldestIsFirst DEF M!Receive, RecvEffect
  <2>2. g_ipc_slots[s].sequence \in DOMAIN sent
        /\ sent[g_ipc_slots[s].sequence].target_pid = pid
    BY <1>2, OldestIsFirst DEF M!PendingFor, M!Pending
  <2>3. PICK m \in Message : m.target_pid = pid
    BY <2>2 DEF Inv, TypeOK
  <2>4. M!Receive(m.target_pid)
    BY <2>1, <2>3
  <2> QED
    BY <2>4 DEF M!Next
<1> QED
  BY <1>1, <1>2, NextEffect

(* In every behaviour, for any number of slots, processes and sends, the   *)
(* slots and the delivered messages together are the messages sent         *)
(* (kernel/ipc.c), and the tails of the buffers are zero.                  *)
THEOREM NothingLostCorrect == Spec => []NothingLost
<1>1. Spec => []Inv
  BY InitInv, StepInv, PTL DEF Spec
<1>2. Inv => NothingLost
  BY DEF Inv
<1> QED
  BY <1>1, <1>2, PTL

(* No slot ever holds a byte of an earlier message behind the current one  *)
(* (ipc_copy_payload and ipc_clear_slot).                                  *)
THEOREM NoStaleTailCorrect == Spec => []NoStaleTail
<1>1. Spec => []Inv
  BY InitInv, StepInv, PTL DEF Spec
<1>2. Inv => NoStaleTail
  BY DEF Inv
<1> QED
  BY <1>1, <1>2, PTL

(* ipc_send and ipc_recv with their system calls implement the mailbox:    *)
(* first in, first out for each target, nothing lost, nothing twice.       *)
THEOREM MailboxCorrect == Spec => IsMailbox
<1>1. Init => M!Init
  BY DEF Init, M!Init
<1>2. Spec => []Inv
  BY InitInv, StepInv, PTL DEF Spec
<1> QED
  BY <1>1, <1>2, StepMailbox, PTL DEF Spec, IsMailbox, M!Spec
-----------------------------------------------------------------------------
(* Induction over the numbers up to a bound.  The library's induction      *)
(* theorems take a predicate; these take a set.                            *)

(* A set of numbers that is not empty has a least one. *)
LEMMA Least ==
  ASSUME NEW T \in SUBSET Nat, T # {}
  PROVE  \E x \in T : \A y \in T : x <= y
<1>1. PICK R : R = OpToRel(<, Nat)
  OBVIOUS
<1>2. IsWellFoundedOn(R, Nat)
  BY <1>1, NatLessThanWellFounded
<1>3. PICK x \in T : \A y \in T : ~ (<<y, x>> \in R)
  BY <1>2, WFMin
<1>4. \A y \in Nat : y < x => <<y, x>> \in R
  BY <1>1 DEF OpToRel
<1>5. \A y \in T : ~(y < x)
  BY <1>3, <1>4
<1>6. \A y \in T : x <= y
  BY <1>5
<1> QED
  BY <1>6

(* Induction up to n, over a set. *)
LEMMA UpTo ==
  ASSUME NEW n \in Nat, NEW S, 0 \in S, \A i \in 0 .. n - 1 : i \in S => i + 1 \in S
  PROVE  0 .. n \subseteq S
<1> DEFINE T == {i \in 0 .. n : i \notin S}
<1> SUFFICES ASSUME T # {} PROVE FALSE
  OBVIOUS
<1>1. PICK x \in T : \A y \in T : x <= y
  <2>1. T \in SUBSET Nat
    OBVIOUS
  <2> QED
    BY <2>1, Least
<1>2. x \in 1 .. n /\ x - 1 \in 0 .. n - 1 /\ x - 1 \notin T
  BY <1>1
<1>3. x - 1 \in S /\ (x - 1) + 1 = x
  BY <1>2
<1> QED
  BY <1>1, <1>2, <1>3

(* g takes m steps from `base`. *)
Steps(g, V, base, step, m) ==
  /\ g \in [0 .. m -> V] /\ g[0] = base
  /\ \A i \in 1 .. m : g[i] = step[<<g[i - 1], i>>]

(* From any value, any number of steps can be taken. *)
LEMMA Iteration ==
  ASSUME NEW V, NEW base \in V, NEW n \in Nat, NEW step \in [V \X (1 .. n) -> V]
  PROVE  \E g : Steps(g, V, base, step, n)
<1> DEFINE Upto(m, g) == Steps(g, V, base, step, m)
           S == {m \in 0 .. n : \E g : Upto(m, g)}
<1>1. 0 \in S
  <2>1. Upto(0, [i \in 0 .. 0 |-> base])
    BY DEF Steps
  <2>2. 0 \in 0 .. n
    OBVIOUS
  <2> QED
    BY <2>1, <2>2
<1>2. ASSUME NEW m \in 0 .. n - 1, m \in S PROVE m + 1 \in S
  <2>1. PICK g : Upto(m, g)
    BY <1>2
  <2>a. /\ g \in [0 .. m -> V] /\ g[0] = base
        /\ \A i \in 1 .. m : g[i] = step[<<g[i - 1], i>>]
    BY <2>1 DEF Steps
  <2>2. m \in 0 .. m /\ m + 1 \in 1 .. n /\ m \in Nat
    OBVIOUS
  <2> DEFINE v == step[<<g[m], m + 1>>]
             h == [i \in 0 .. m + 1 |-> IF i = m + 1 THEN v ELSE g[i]]
  <2>3. v \in V
    BY <2>a, <2>2
  <2>4. h \in [0 .. m + 1 -> V]
    BY <2>a, <2>2, <2>3
  <2>5. Upto(m + 1, h)
    <3>1. h[0] = base
      BY <2>a, <2>2
    <3>2. \A i \in 1 .. m : h[i] = g[i] /\ h[i - 1] = g[i - 1]
      BY <2>2
    <3>3. h[m + 1] = v /\ h[m] = g[m]
      BY <2>2
    <3>4. ASSUME NEW i \in 1 .. m + 1 PROVE h[i] = step[<<h[i - 1], i>>]
      <4>1. CASE i = m + 1
        <5>1. i - 1 = m
          BY <4>1, <2>2
        <5> QED
          BY <4>1, <3>3, <5>1
      <4>2. CASE i \in 1 .. m
        BY <4>2, <2>a, <3>2
      <4> QED
        BY <4>1, <4>2, <2>2
    <3> QED
      BY <2>4, <3>1, <3>4 DEF Steps
  <2>6. m + 1 \in 0 .. n
    BY <2>2
  <2> HIDE DEF h, Upto
  <2> QED
    BY <2>5, <2>6
<1>3. 0 .. n \subseteq S
  BY <1>1, <1>2, UpTo
<1>4. n \in S
  BY <1>3
<1> QED
  BY <1>4
-----------------------------------------------------------------------------
(* The page bitmap *)

(* What the loop of pmm_alloc_pages carries from page to page. *)
Scanned == [run_start : Nat, run_count : Nat, found : SUBSET Nat]
NothingScanned == [run_start |-> 0, run_count |-> 0, found |-> {}]

(* The bits of `count` pages from b on are clear. *)
ClearRun(b, count) == \A i \in b .. (b + count - 1) : i \notin g_bitmap

(* The pages below p have been looked at: either the run at the end of     *)
(* them goes back as far as it can and there is no other that is long      *)
(* enough, or the first that is has been found.                            *)
Looked(scan, p, count) ==
  \/ /\ scan.found = {}
     /\ scan.run_count < count /\ scan.run_count <= p
     /\ scan.run_count > 0 => scan.run_start = p - scan.run_count
     /\ \A i \in (p - scan.run_count) .. (p - 1) : i \notin g_bitmap
     /\ scan.run_count < p => p - scan.run_count - 1 \in g_bitmap
     /\ \A b \in Nat : b + count <= p => ~ClearRun(b, count)
  \/ \E x \in Nat : /\ scan.found = {x} /\ x + count <= p /\ ClearRun(x, count)
                    /\ \A b \in Nat : b < x => ~ClearRun(b, count)

(* One turn of the loop. *)
LEMMA ScanPageFacts ==
  ASSUME NEW scan \in Scanned, NEW p \in Nat, NEW count \in Nat \ {0}
  PROVE  /\ ScanPage(scan, p, count) \in Scanned
         /\ Looked(scan, p, count) => Looked(ScanPage(scan, p, count), p + 1, count)
<1>0. /\ scan.run_start \in Nat /\ scan.run_count \in Nat /\ scan.found \in SUBSET Nat
      /\ scan = [run_start |-> scan.run_start, run_count |-> scan.run_count, found |-> scan.found]
  BY DEF Scanned
<1>1. CASE scan.found # {}
  <2>1. ScanPage(scan, p, count) = scan
    BY <1>1 DEF ScanPage
  <2>2. ASSUME Looked(scan, p, count) PROVE Looked(scan, p + 1, count)
    BY <1>1, <2>2 DEF Looked
  <2> QED
    BY <2>1, <2>2
<1>2. CASE scan.found = {} /\ p \in g_bitmap
  <2> DEFINE next == [run_start |-> scan.run_start, run_count |-> 0, found |-> {}]
  <2>1. ScanPage(scan, p, count) = next
    BY <1>0, <1>2 DEF ScanPage
  <2>2. next \in Scanned
    BY <1>0 DEF Scanned
  <2>3. ASSUME Looked(scan, p, count) PROVE Looked(next, p + 1, count)
    <3>1. \A b \in Nat : b + count <= p => ~ClearRun(b, count)
      BY <1>2, <2>3 DEF Looked
    <3>2. ASSUME NEW b \in Nat, b + count = p + 1 PROVE ~ClearRun(b, count)
      BY <1>2, <3>2 DEF ClearRun
    <3>3. \A b \in Nat : b + count <= p + 1 => ~ClearRun(b, count)
      BY <3>1, <3>2
    <3> QED
      BY <1>2, <3>3 DEF Looked
  <2> QED
    BY <2>1, <2>2, <2>3
<1>3. CASE scan.found = {} /\ p \notin g_bitmap
  <2> DEFINE start == IF scan.run_count = 0 THEN p ELSE scan.run_start
             n == scan.run_count + 1
             next == [run_start |-> start, run_count |-> n,
                      found |-> IF n = count THEN {start} ELSE {}]
  <2>1. ScanPage(scan, p, count) = next
    BY <1>3 DEF ScanPage
  <2>2. start \in Nat /\ n \in Nat /\ next \in Scanned
    BY <1>0 DEF Scanned
  <2>3. ASSUME Looked(scan, p, count) PROVE Looked(next, p + 1, count)
    <3>1. /\ scan.run_count < count /\ scan.run_count <= p
          /\ scan.run_count > 0 => scan.run_start = p - scan.run_count
          /\ \A i \in (p - scan.run_count) .. (p - 1) : i \notin g_bitmap
          /\ scan.run_count < p => p - scan.run_count - 1 \in g_bitmap
          /\ \A b \in Nat : b + count <= p => ~ClearRun(b, count)
      BY <1>3, <2>3 DEF Looked
    <3>2. start = (p + 1) - n /\ n <= count /\ n <= p + 1 /\ n > 0
      BY <1>0, <3>1
    <3>3. \A i \in start .. p : i \notin g_bitmap
      BY <1>0, <1>3, <3>1, <3>2
    <3>4. n < p + 1 => (p + 1) - n - 1 \in g_bitmap
      BY <1>0, <3>1
    <3> HIDE DEF start, n
    <3>5. CASE n = count
      <4>1. next.found = {start}
        BY <3>5
      <4>2. start + count = p + 1 /\ start + count - 1 = p
        BY <2>2, <3>2, <3>5
      <4>3. ClearRun(start, count)
        BY <3>3, <4>2 DEF ClearRun
      <4>4. \A b \in Nat : b < start => ~ClearRun(b, count)
        BY <2>2, <3>1, <4>2
      <4> QED
        BY <2>2, <4>1, <4>2, <4>3, <4>4 DEF Looked
    <3>6. CASE n # count
      <4>1. next.found = {} /\ next.run_count = n /\ next.run_start = start
        BY <3>6
      <4>2. ASSUME NEW b \in Nat, b + count = p + 1 PROVE ~ClearRun(b, count)
        <5>1. n < p + 1 /\ (p + 1) - n - 1 \in b .. (b + count - 1)
          BY <2>2, <3>2, <3>6, <4>2
        <5> QED
          BY <3>4, <5>1 DEF ClearRun
      <4>3. \A b \in Nat : b + count <= p + 1 => ~ClearRun(b, count)
        BY <3>1, <4>2
      <4>4. n < count
        BY <2>2, <3>2, <3>6
      <4>5. \A i \in ((p + 1) - n) .. ((p + 1) - 1) : i \notin g_bitmap
        BY <3>2, <3>3
      <4> QED
        BY <3>2, <3>4, <4>1, <4>3, <4>4, <4>5 DEF Looked
    <3> QED
      BY <3>5, <3>6
  <2> QED
    BY <2>1, <2>2, <2>3
<1> QED
  BY <1>1, <1>2, <1>3

(* Scan is what the loop leaves after the last page. *)
LEMMA ScanWalk ==
  ASSUME g_total_pages \in Nat, NEW count \in Nat \ {0}
  PROVE  \E walk \in [0 .. g_total_pages -> Scanned] :
           /\ walk[0] = NothingScanned
           /\ \A i \in 1 .. g_total_pages : walk[i] = ScanPage(walk[i - 1], i - 1, count)
           /\ Scan(count) = walk[g_total_pages].found
<1>0. PICK n : n = g_total_pages
  OBVIOUS
<1> DEFINE step == [x \in Scanned \X (1 .. n) |-> ScanPage(x[1], x[2] - 1, count)]
           F(walk) == [i \in 0 .. n |-> IF i = 0 THEN NothingScanned
                                        ELSE ScanPage(walk[i - 1], i - 1, count)]
           W == CHOOSE walk : walk = F(walk)
<1>1. n \in Nat
  BY <1>0
<1>2. NothingScanned \in Scanned
  BY DEF Scanned, NothingScanned
<1>3. step \in [Scanned \X (1 .. n) -> Scanned]
  <2>1. ASSUME NEW x \in Scanned \X (1 .. n) PROVE ScanPage(x[1], x[2] - 1, count) \in Scanned
    <3>1. x[1] \in Scanned /\ x[2] - 1 \in Nat
      BY <1>1
    <3> QED
      BY <3>1, ScanPageFacts
  <2> QED
    BY <2>1
<1>4. PICK g : Steps(g, Scanned, NothingScanned, step, n)
  <2> HIDE DEF step
  <2> QED
    BY <1>1, <1>2, <1>3, Iteration
<1>5. /\ g \in [0 .. n -> Scanned] /\ g[0] = NothingScanned
      /\ \A i \in 1 .. n : g[i] = ScanPage(g[i - 1], i - 1, count)
  <2>1. /\ g \in [0 .. n -> Scanned] /\ g[0] = NothingScanned
        /\ \A i \in 1 .. n : g[i] = step[<<g[i - 1], i>>]
    <3> HIDE DEF step
    <3> QED
      BY <1>4 DEF Steps
  <2>2. ASSUME NEW i \in 1 .. n PROVE g[i] = ScanPage(g[i - 1], i - 1, count)
    <3>1. i - 1 \in 0 .. n
      BY <1>1
    <3>2. <<g[i - 1], i>> \in Scanned \X (1 .. n)
      BY <2>1, <3>1
    <3>3. step[<<g[i - 1], i>>] = ScanPage(g[i - 1], i - 1, count)
      BY <3>2
    <3> QED
      BY <2>1, <3>3
  <2> QED
    BY <2>1, <2>2
<1>6. g = F(g)
  BY <1>5
<1>7. W = F(W)
  <2> HIDE DEF F
  <2> QED
    BY <1>6
<1>8. Scan(count) = W[n].found
  BY <1>0 DEF Scan, NothingScanned
<1> HIDE DEF W
<1>9. W[0] = NothingScanned /\ \A i \in 1 .. n : W[i] = ScanPage(W[i - 1], i - 1, count)
  BY <1>1, <1>7
<1>10. 0 .. n \subseteq {i \in 0 .. n : W[i] \in Scanned}
  <2> DEFINE S == {i \in 0 .. n : W[i] \in Scanned}
  <2>1. 0 \in S
    BY <1>1, <1>2, <1>9
  <2>2. ASSUME NEW i \in 0 .. n - 1, i \in S PROVE i + 1 \in S
    <3>1. i + 1 \in 1 .. n /\ (i + 1) - 1 = i /\ i \in Nat
      BY <1>1
    <3>2. W[i + 1] = ScanPage(W[i], i, count)
      BY <1>9, <3>1
    <3>3. W[i + 1] \in Scanned
      BY <2>2, <3>1, <3>2, ScanPageFacts
    <3> QED
      BY <3>1, <3>3
  <2> HIDE DEF S
  <2>3. 0 .. n \subseteq S
    BY <1>1, <2>1, <2>2, UpTo
  <2> QED
    BY <2>3 DEF S
<1>11. W \in [0 .. n -> Scanned]
  BY <1>7, <1>10
<1> QED
  BY <1>0, <1>8, <1>9, <1>11

(* What the loop finds: the lowest run of clear bits that is long enough.  *)
LEMMA ScanFacts ==
  ASSUME g_total_pages \in Nat, NEW count \in Nat \ {0}
  PROVE  \/ /\ Scan(count) = {}
            /\ \A b \in Nat : b + count <= g_total_pages => ~ClearRun(b, count)
         \/ \E x \in Nat : /\ Scan(count) = {x} /\ x + count <= g_total_pages
                           /\ ClearRun(x, count)
                           /\ \A b \in Nat : b < x => ~ClearRun(b, count)
<1>0. PICK n : n = g_total_pages
  OBVIOUS
<1>1. PICK walk \in [0 .. n -> Scanned] :
        /\ walk[0] = NothingScanned
        /\ \A i \in 1 .. n : walk[i] = ScanPage(walk[i - 1], i - 1, count)
        /\ Scan(count) = walk[n].found
  BY <1>0, ScanWalk
<1> DEFINE S == {i \in 0 .. n : Looked(walk[i], i, count)}
<1>2. 0 \in S
  <2>1. \A b \in Nat : ~(b + count <= 0)
    OBVIOUS
  <2>2. Looked(NothingScanned, 0, count)
    BY <2>1 DEF Looked, NothingScanned
  <2> QED
    BY <1>0, <1>1, <2>2
<1>3. ASSUME NEW i \in 0 .. n - 1, i \in S PROVE i + 1 \in S
  <2>1. i \in Nat /\ i + 1 \in 1 .. n /\ (i + 1) - 1 = i /\ i \in 0 .. n /\ i + 1 \in 0 .. n
    BY <1>0
  <2>2. walk[i + 1] = ScanPage(walk[i], i, count) /\ walk[i] \in Scanned
    BY <1>1, <2>1
  <2>3. Looked(walk[i + 1], i + 1, count)
    BY <1>3, <2>1, <2>2, ScanPageFacts
  <2> QED
    BY <2>1, <2>3
<1>4. 0 .. n \subseteq S
  <2> HIDE DEF S
  <2> QED
    BY <1>0, <1>2, <1>3, UpTo
<1>5. Looked(walk[n], n, count)
  BY <1>0, <1>4
<1> QED
  BY <1>0, <1>1, <1>5 DEF Looked

(* Multiples of a page: order, and what is left over. *)
LEMMA Product ==
  ASSUME NEW a \in Int, NEW p \in Int PROVE a * p \in Int
OBVIOUS

LEMMA Multiples ==
  ASSUME NEW p \in Nat \ {0}, NEW a \in Int, NEW b \in Int, a * p < b * p
  PROVE  a < b
<1> SUFFICES ASSUME b <= a PROVE FALSE
  OBVIOUS
<1>1. b * p <= a * p
  OBVIOUS
<1> QED
  BY <1>1, Product

LEMMA Division ==
  ASSUME NEW p \in Nat \ {0}, NEW a \in Int
  PROVE  /\ a \div p \in Int /\ a % p \in 0 .. (p - 1)
         /\ a = (a \div p) * p + (a % p)
<1>1. a \div p \in Int
  OBVIOUS
<1>2. a % p \in 0 .. (p - 1)
  OBVIOUS
<1>3. a = p * (a \div p) + (a % p)
  OBVIOUS
<1>4. (a \div p) * p = p * (a \div p)
  BY <1>1
<1> QED
  BY <1>1, <1>2, <1>3, <1>4

LEMMA DivisionOfMultiple ==
  ASSUME NEW p \in Nat \ {0}, NEW a \in Int
  PROVE  (a * p) \div p = a /\ (a * p) % p = 0
<1>1. a * p \in Int
  BY Product
<1> QED
  BY <1>1

(* The scan and its set form agree. *)
LEMMA ScanFirst ==
  ASSUME g_total_pages \in Nat, MaxPages \in Nat, g_bitmap \subseteq Index
  PROVE  ScanIsFirstFit
<1> SUFFICES ASSUME NEW count \in 1 .. MaxPages
             PROVE  {b + 1 : b \in Scan(count)}
                      = {b \in P!Page : P!pmm_alloc_pages({i + 1 : i \in g_bitmap}, count, b)}
  BY DEF ScanIsFirstFit
<1>0. PICK n, bits : n = g_total_pages /\ bits = g_bitmap
  OBVIOUS
<1> DEFINE used == {i + 1 : i \in bits}
           Free(b) == \A i \in b .. (b + count - 1) : i \notin bits
           Runs == P!FreeRuns(used, count)
<1>1. \/ /\ Scan(count) = {}
         /\ \A b \in Nat : b + count <= n => ~Free(b)
      \/ \E x \in Nat : /\ Scan(count) = {x} /\ x + count <= n /\ Free(x)
                        /\ \A b \in Nat : b < x => ~Free(b)
  <2>1. \A b \in Nat : Free(b) <=> ClearRun(b, count)
    BY <1>0 DEF ClearRun
  <2> HIDE DEF Free
  <2> QED
    BY <1>0, <2>1, ScanFacts
<1>2. ASSUME NEW c \in Int
      PROVE  c \in Runs <=> c - 1 \in Nat /\ (c - 1) + count <= n /\ Free(c - 1)
  <2>1. c \in Runs <=> c \in 1 .. n /\ c .. (c + count - 1) \subseteq (1 .. n) \ used
    BY <1>0 DEF P!FreeRuns, P!Page, P!Run
  <2>2. ASSUME c \in Runs PROVE c - 1 \in Nat /\ (c - 1) + count <= n /\ Free(c - 1)
    <3>1. c \in 1 .. n /\ c .. (c + count - 1) \subseteq (1 .. n) \ used
      BY <2>1, <2>2
    <3>2. c + count - 1 \in c .. (c + count - 1)
      OBVIOUS
    <3>3. ASSUME NEW i \in (c - 1) .. ((c - 1) + count - 1) PROVE i \notin bits
      <4>1. i + 1 \in c .. (c + count - 1)
        OBVIOUS
      <4> QED
        BY <3>1, <4>1
    <3>4. c + count - 1 \in 1 .. n
      BY <3>1, <3>2
    <3> QED
      BY <1>0, <3>1, <3>3, <3>4
  <2>3. ASSUME c - 1 \in Nat /\ (c - 1) + count <= n /\ Free(c - 1) PROVE c \in Runs
    <3>1. c \in 1 .. n
      BY <1>0, <2>3
    <3>2. ASSUME NEW j \in c .. (c + count - 1) PROVE j \in (1 .. n) /\ j \notin used
      <4>1. j \in 1 .. n /\ j - 1 \in (c - 1) .. ((c - 1) + count - 1)
        BY <1>0, <2>3
      <4>2. j - 1 \notin bits
        BY <2>3, <4>1
      <4>3. ASSUME NEW i \in bits, i + 1 = j PROVE FALSE
        <5>1. i \in Index
          BY <1>0
        <5>2. i \in Int
          BY <5>1 DEF Index
        <5>3. i = j - 1
          BY <4>3, <5>2
        <5> QED
          BY <4>2, <5>3
      <4> QED
        BY <4>1, <4>3
    <3> QED
      BY <2>1, <3>1, <3>2
  <2> QED
    BY <2>2, <2>3
<1>3. Runs \subseteq Int
  BY <1>0 DEF P!FreeRuns, P!Page
<1>4. ASSUME NEW b PROVE b \in P!Page /\ P!pmm_alloc_pages(used, count, b)
                           <=> b \in Runs /\ \A c \in Runs : b <= c
  BY DEF P!pmm_alloc_pages, P!FreeRuns
<1> HIDE DEF Free, Runs, used
<1>5. CASE Scan(count) = {} /\ \A b \in Nat : b + count <= n => ~Free(b)
  <2>1. Runs = {}
    BY <1>2, <1>3, <1>5
  <2> QED
    BY <1>0, <1>4, <1>5, <2>1 DEF used
<1>6. CASE \E x \in Nat : /\ Scan(count) = {x} /\ x + count <= n /\ Free(x)
                          /\ \A b \in Nat : b < x => ~Free(b)
  <2>1. PICK x \in Nat : /\ Scan(count) = {x} /\ x + count <= n /\ Free(x)
                         /\ \A b \in Nat : b < x => ~Free(b)
    BY <1>6
  <2>2. x + 1 \in Runs
    BY <1>2, <2>1
  <2>3. ASSUME NEW c \in Runs PROVE x + 1 <= c
    <3>1. c \in Int /\ c - 1 \in Nat /\ Free(c - 1)
      BY <1>2, <1>3
    <3>2. ~(c - 1 < x)
      BY <2>1, <3>1
    <3> QED
      BY <3>1, <3>2
  <2>4. \A b : (b \in Runs /\ \A c \in Runs : b <= c) <=> b = x + 1
    <3>1. ASSUME NEW b \in Runs, \A c \in Runs : b <= c PROVE b = x + 1
      <4>1. b \in Int /\ b <= x + 1 /\ x + 1 <= b
        BY <1>3, <2>2, <2>3, <3>1
      <4> QED
        BY <4>1
    <3> QED
      BY <2>2, <2>3, <3>1
  <2>5. {b + 1 : b \in Scan(count)} = {x + 1}
    BY <2>1
  <2>6. {b \in P!Page : P!pmm_alloc_pages(used, count, b)} = {x + 1}
    BY <1>4, <2>4
  <2> QED
    BY <1>0, <2>5, <2>6 DEF used
<1> QED
  BY <1>1, <1>5, <1>6

(* A page that holds a byte of a range is one pmm_reserve_range sets, and  *)
(* it sets none beyond memory.                                             *)
LEMMA ReservedFacts ==
  ASSUME NEW start \in Word, NEW size \in Word,
         PageBytes \in Nat \ {0}, WordMax \in Nat,
         g_mem_base \in Nat, g_mem_base % PageBytes = 0, g_total_pages \in Nat,
         g_mem_base + g_total_pages * PageBytes + PageBytes - 1 <= WordMax
  PROVE  /\ ReservedPages(start, size) \subseteq 0 .. (g_total_pages - 1)
         /\ \A page \in 0 .. (g_total_pages - 1), x \in Word :
              x \in start .. (start + size - 1)
                /\ x \in Address(page) .. (Address(page) + PageBytes - 1)
              => page \in ReservedPages(start, size)
<1>0. PICK p, w, base, n : p = PageBytes /\ w = WordMax /\ base = g_mem_base /\ n = g_total_pages
  OBVIOUS
<1> DEFINE limit == base + n * p
           end == add_saturated(start, size)
           down == align_down(start)
           up == align_up_saturated(end)
           first == IF start < base THEN 0 ELSE (down - base) \div p
           after == (up - base) \div p
           last == IF end >= limit \/ after > n THEN n ELSE after
           k == base \div p
<1>1. p \in Nat \ {0} /\ w \in Nat /\ base \in Nat /\ n \in Nat /\ start \in 0 .. w /\ size \in 0 .. w
  BY <1>0 DEF Word
<1>2. k \in Int /\ base = k * p
  BY <1>0, <1>1, Division
<1>3. n * p \in Nat /\ limit \in Nat /\ limit + p - 1 <= w
  <2>1. n * p \in Nat
    BY <1>1
  <2> QED
    BY <1>0, <1>1, <2>1
<1>4. managed_end = limit
  BY <1>0, <1>1, <1>3 DEF managed_end, add_saturated
<1>5. ReservedPages(start, size) =
        IF size = 0 \/ end <= base \/ start >= limit THEN {} ELSE first .. (last - 1)
  BY <1>0, <1>4 DEF ReservedPages
<1>6. end \in 0 .. w /\ (end = start + size \/ end = w)
  BY <1>0, <1>1 DEF add_saturated
<1> DEFINE q == start \div p
<1>7. q \in Int /\ down = q * p /\ down <= start /\ start < down + p
  <2>1. start \div p \in Int /\ start % p \in 0 .. (p - 1) /\ start = (start \div p) * p + (start % p)
    BY <1>1, Division
  <2>2. down = start - (start % p)
    BY <1>0 DEF align_down
  <2>3. (start \div p) * p \in Int
    BY <2>1, <1>1, Product
  <2> QED
    BY <1>1, <2>1, <2>2, <2>3
<1>8. end < limit => \E m \in Int : up = m * p /\ end <= up
  <2> SUFFICES ASSUME end < limit PROVE \E m \in Int : up = m * p /\ end <= up
    OBVIOUS
  <2>1. CASE end % p = 0
    <3>1. end \div p \in Int /\ end = (end \div p) * p + (end % p)
      <4> HIDE DEF end
      <4>1. end \in Int
        BY <1>1, <1>6
      <4> QED
        BY <1>1, <4>1, Division
    <3>2. up = end
      BY <1>0, <2>1 DEF align_up_saturated
    <3>3. (end \div p) * p \in Int
      BY <1>1, <3>1, Product
    <3>4. end = (end \div p) * p
      BY <2>1, <3>1, <3>3
    <3> HIDE DEF end, up
    <3> QED
      BY <1>6, <3>1, <3>2, <3>4
  <2>2. CASE end % p # 0
    <3> DEFINE v == end + p - 1
    <3>0. v \in Int
      BY <1>1, <1>6
    <3>1. up = v - (v % p)
      <4>1. ~(end > w - (p - 1))
        <5> HIDE DEF end, limit
        <5> QED
          BY <1>1, <1>3, <1>6
      <4>2. up = align_up(end)
        <5> HIDE DEF end
        <5> QED
          BY <1>0, <2>2, <4>1 DEF align_up_saturated
      <4>3. align_up(end) = v - (v % p)
        <5> HIDE DEF end
        <5> QED
          BY <1>0 DEF align_up, align_down
      <4> HIDE DEF end, up, v
      <4> QED
        BY <4>2, <4>3
    <3> HIDE DEF v
    <3>2. v \div p \in Int /\ v % p \in 0 .. (p - 1) /\ v = (v \div p) * p + (v % p)
      BY <1>1, <3>0, Division
    <3>3. (v \div p) * p \in Int
      BY <1>1, <3>2, Product
    <3>4. up = (v \div p) * p
      BY <3>0, <3>1, <3>2, <3>3
    <3>5. end <= up
      BY <1>1, <1>6, <3>1, <3>2 DEF v
    <3> QED
      BY <3>2, <3>4, <3>5
  <2> QED
    BY <2>1, <2>2
<1> HIDE DEF end, down, up, k, limit, q
<1>9. start >= base => first \in Nat /\ down - base = (q - k) * p /\ first = q - k
  <2> SUFFICES ASSUME start >= base PROVE first \in Nat /\ down - base = (q - k) * p /\ first = q - k
    OBVIOUS
  <2>1. down - base = (q - k) * p
    BY <1>1, <1>2, <1>7
  <2>2. first = q - k
    <3>1. q - k \in Int
      BY <1>2, <1>7
    <3>2. ((q - k) * p) \div p = q - k
      BY <1>1, <3>1, DivisionOfMultiple
    <3> QED
      BY <1>1, <2>1, <3>2
  <2>3. k * p < (q + 1) * p
    <3>1. (q + 1) * p = down + p
      BY <1>1, <1>7
    <3> QED
      BY <1>1, <1>2, <1>7, <3>1
  <2>4. k < q + 1
    BY <1>1, <1>2, <1>7, <2>3, Multiples
  <2> QED
    BY <1>2, <1>7, <2>1, <2>2, <2>4
<1>10. first \in Nat
  BY <1>1, <1>9
<1>11. end < limit => after \in Int
  <2> SUFFICES ASSUME end < limit PROVE after \in Int
    OBVIOUS
  <2>1. PICK m \in Int : up = m * p
    BY <1>8
  <2>2. up - base \in Int
    BY <1>1, <2>1, Product
  <2> QED
    BY <1>1, <2>2, Division
<1>12. last \in Int /\ last <= n
  BY <1>1, <1>3, <1>6, <1>11
<1>13. ReservedPages(start, size) \subseteq 0 .. (n - 1)
  <2> HIDE DEF first, last
  <2> QED
    BY <1>1, <1>5, <1>10, <1>12
<1>14. ASSUME NEW page \in 0 .. (n - 1), NEW x \in 0 .. w, x \in start .. (start + size - 1),
              x \in (base + page * p) .. (base + page * p + p - 1)
       PROVE  page \in ReservedPages(start, size)
  <2>1. page * p \in Nat /\ base + page * p <= x /\ x < base + page * p + p /\ start <= x /\ x < start + size
    <3>1. page * p \in Nat
      BY <1>1
    <3> QED
      BY <1>1, <1>14, <3>1
  <2>2. x < limit
    <3>1. (page + 1) * p <= n * p
      BY <1>1
    <3>2. (page + 1) * p = page * p + p
      BY <1>1
    <3> QED
      BY <1>1, <1>3, <2>1, <3>1, <3>2 DEF limit
  <2>3. x < end
    BY <1>1, <1>3, <1>6, <2>1, <2>2
  <2>4. ~(size = 0 \/ end <= base \/ start >= limit)
    BY <1>1, <1>3, <1>6, <2>1, <2>2, <2>3
  <2>5. first <= page
    <3>1. CASE start < base
      BY <3>1
    <3>2. CASE start >= base
      <4>1. (q - k) * p < (page + 1) * p
        <5>1. (page + 1) * p = page * p + p
          BY <1>1
        <5>2. down - base < page * p + p
          <6>1. down \in Int
            BY <1>1, <1>7, Product
          <6> QED
            BY <1>1, <1>7, <2>1, <6>1
        <5> QED
          BY <1>9, <3>2, <5>1, <5>2
      <4>2. q - k \in Int /\ page + 1 \in Int
        BY <1>1, <1>2, <1>7
      <4>3. q - k < page + 1
        BY <1>1, <4>1, <4>2, Multiples
      <4> QED
        BY <1>9, <3>2, <4>2, <4>3
    <3> QED
      BY <1>1, <3>1, <3>2
  <2>6. page < last
    <3>1. CASE end >= limit
      BY <1>1, <3>1
    <3>2. CASE end < limit
      <4>1. PICK m \in Int : up = m * p /\ end <= up
        BY <1>8, <3>2
      <4>2. up - base = (m - k) * p
        BY <1>1, <1>2, <4>1
      <4>3. m - k \in Int
        BY <1>2
      <4>4. after = m - k
        BY <1>1, <4>2, <4>3, DivisionOfMultiple
      <4>5. page * p < (m - k) * p
        <5>1. up \in Int
          BY <1>1, <4>1, Product
        <5> QED
          BY <1>1, <1>6, <2>1, <2>3, <4>1, <4>2, <5>1
      <4>6. page < m - k
        BY <1>1, <4>3, <4>5, Multiples
      <4> HIDE DEF after
      <4> QED
        BY <1>1, <3>2, <4>3, <4>4, <4>6
    <3> QED
      BY <1>3, <1>6, <3>1, <3>2
  <2> HIDE DEF first, last
  <2> QED
    BY <1>1, <1>5, <1>10, <1>12, <2>4, <2>5, <2>6
<1> QED
  BY <1>0, <1>13, <1>14 DEF Word, Address

(* The page that starts at an address holds a byte of a reserved range. *)
Holds(res, at) == \E x \in res : x \in at .. (at + PageBytes - 1)

(* The inductive invariant of the bitmap: memory lies below the last page  *)
(* of the address space; the bit of a page that is handed out is set, and  *)
(* so is that of a reserved page and of page 0, which are never given.     *)
BitmapInv ==
  /\ g_total_pages \in 0 .. MaxPages /\ g_mem_base \in Nat /\ g_mem_base % PageBytes = 0
  /\ g_total_pages # 0 => g_mem_base + g_total_pages * PageBytes + PageBytes - 1 <= WordMax
  /\ g_bitmap \subseteq Index /\ reserved \subseteq Word
  /\ given \subseteq g_bitmap \cap 0 .. (g_total_pages - 1)
  /\ \A page \in 0 .. (g_total_pages - 1) :
       Holds(reserved, g_mem_base + page * PageBytes) => page \in g_bitmap \ given
  /\ g_mem_base = 0 /\ g_total_pages # 0 => 0 \in g_bitmap \ given
  /\ g_total_pages = 0 => reserved = {}
  /\ FreeCounted

(* set_used keeps the count of the clear bits. *)
LEMMA UsedCounted ==
  ASSUME NEW n \in Nat, NEW bits, NEW pages \in SUBSET (0 .. (n - 1))
  PROVE  Cardinality((0 .. (n - 1)) \ (bits \cup pages))
           = Cardinality((0 .. (n - 1)) \ bits) - Cardinality(pages \ bits)
<1> DEFINE S == (0 .. (n - 1)) \ bits
<1>1. IsFiniteSet(0 .. (n - 1))
  BY FS_Interval
<1>2. IsFiniteSet(S)
  BY <1>1, FS_Difference
<1>3. Cardinality(S \ pages) = Cardinality(S) - Cardinality(S \cap pages)
  <2> HIDE DEF S
  <2> QED
    BY <1>2, FS_Difference
<1>4. S \ pages = (0 .. (n - 1)) \ (bits \cup pages) /\ S \cap pages = pages \ bits
  OBVIOUS
<1> QED
  BY <1>3, <1>4

(* set_free keeps it too. *)
LEMMA FreedCounted ==
  ASSUME NEW n \in Nat, NEW bits, NEW page \in 0 .. (n - 1), page \in bits
  PROVE  Cardinality((0 .. (n - 1)) \ (bits \ {page}))
           = Cardinality((0 .. (n - 1)) \ bits) + Cardinality({page} \cap bits)
<1> DEFINE S == (0 .. (n - 1)) \ bits
<1>1. IsFiniteSet(0 .. (n - 1))
  BY FS_Interval
<1>2. IsFiniteSet(S) /\ page \notin S
  BY <1>1, FS_Difference
<1>3. Cardinality(S \cup {page}) = Cardinality(S) + 1
  <2> HIDE DEF S
  <2> QED
    BY <1>2, FS_AddElement
<1>4. S \cup {page} = (0 .. (n - 1)) \ (bits \ {page}) /\ {page} \cap bits = {page}
  OBVIOUS
<1>5. Cardinality({page}) = 1
  BY FS_Singleton
<1> QED
  BY <1>3, <1>4, <1>5

LEMMA BitmapInitStep == BitmapInit => BitmapInv
<1> SUFFICES ASSUME BitmapInit PROVE BitmapInv
  OBVIOUS
<1>1. 0 .. (0 - 1) = {} /\ 0 % PageBytes = 0
  BY BitmapAssumption
<1>2. FreeCounted
  <2>1. (0 .. (g_total_pages - 1)) \ g_bitmap = {}
    BY <1>1 DEF BitmapInit
  <2> QED
    BY <2>1, FS_EmptySet DEF BitmapInit, FreeCounted
<1> QED
  BY BitmapAssumption, <1>1, <1>2 DEF BitmapInit, BitmapInv

LEMMA InitMemoryStep ==
  ASSUME BitmapInv, NEW base \in Bases, NEW size \in Memories, pmm_init(base, size)
  PROVE  BitmapInv'
<1> DEFINE pages == size \div PageBytes
           total == IF pages > MaxPages THEN MaxPages ELSE pages
           sentinel == Sentinel(base, total)
<1>0. /\ PageBytes \in Nat \ {0} /\ MaxPages \in Nat /\ WordMax \in Nat
      /\ base \in Nat /\ size \in Nat /\ base % PageBytes = 0
      /\ base + size + PageBytes - 1 <= WordMax
  BY BitmapAssumption
<1>1. /\ g_total_pages = 0 /\ g_mem_base' = base /\ g_total_pages' = total
      /\ g_bitmap' = (Index \ 0 .. (total - 1)) \cup sentinel
      /\ g_free_pages' = total - Cardinality(sentinel)
      /\ reserved' = reserved /\ given' = given
  BY DEF pmm_init
<1>2. reserved = {} /\ given = {}
  BY <1>1 DEF BitmapInv
<1>3. pages \in Nat /\ pages * PageBytes <= size
  <2>1. pages \in Int /\ size % PageBytes \in 0 .. (PageBytes - 1)
        /\ size = pages * PageBytes + (size % PageBytes)
    BY <1>0, Division
  <2>2. pages * PageBytes \in Int
    BY <1>0, <2>1, Product
  <2>3. (0 - 1) * PageBytes < pages * PageBytes
    BY <1>0, <2>1, <2>2
  <2>4. 0 - 1 < pages
    BY <1>0, <2>1, <2>3, Multiples
  <2> HIDE DEF pages
  <2> QED
    BY <1>0, <2>1, <2>2, <2>4
<1> HIDE DEF pages
<1>4. total \in 0 .. MaxPages /\ total <= pages
  BY <1>0, <1>3
<1> HIDE DEF total
<1>5. base + total * PageBytes + PageBytes - 1 <= WordMax
  <2>1. total * PageBytes <= pages * PageBytes
    BY <1>0, <1>3, <1>4
  <2>2. total * PageBytes \in Int /\ pages * PageBytes \in Int
    BY <1>0, <1>3, <1>4, Product
  <2> QED
    BY <1>0, <1>3, <2>1, <2>2
<1>6. sentinel \subseteq 0 .. (total - 1) /\ (base = 0 /\ total # 0 => 0 \in sentinel)
  BY <1>4 DEF Sentinel
<1> HIDE DEF sentinel
<1>7. g_bitmap' \subseteq Index
  BY <1>0, <1>1, <1>4, <1>6 DEF Index
<1>8. FreeCounted'
  <2>1. (0 .. (total - 1)) \ g_bitmap' = (0 .. (total - 1)) \ sentinel
    BY <1>1
  <2>2. (0 .. (total - 1)) \cap sentinel = sentinel
    BY <1>6
  <2>3. IsFiniteSet(0 .. (total - 1)) /\ Cardinality(0 .. (total - 1)) = total
    <3>1. total \in Int /\ total >= 0
      BY <1>4
    <3>2. /\ IsFiniteSet(0 .. (total - 1))
          /\ Cardinality(0 .. (total - 1)) = IF 0 > total - 1 THEN 0 ELSE (total - 1) - 0 + 1
      BY <3>1, FS_Interval
    <3> QED
      BY <3>1, <3>2
  <2>4. Cardinality((0 .. (total - 1)) \ sentinel) = total - Cardinality(sentinel)
    <3> DEFINE S == 0 .. (total - 1)
    <3> HIDE DEF S
    <3>1. Cardinality(S \ sentinel) = Cardinality(S) - Cardinality(S \cap sentinel)
      BY <2>3, FS_Difference DEF S
    <3> QED
      BY <2>2, <2>3, <3>1 DEF S
  <2> QED
    BY <1>1, <2>1, <2>4 DEF FreeCounted
<1>9. \A at : ~Holds({}, at)
  BY DEF Holds
<1> QED
  BY <1>0, <1>1, <1>2, <1>4, <1>5, <1>6, <1>7, <1>8, <1>9 DEF BitmapInv, Holds

LEMMA ReserveStep ==
  ASSUME BitmapInv, NEW start \in Word, NEW size \in Word, pmm_reserve_range(start, size)
  PROVE  BitmapInv'
<1> DEFINE pages == ReservedPages(start, size)
           bytes == Word \cap start .. (start + size - 1)
<1>0. /\ PageBytes \in Nat \ {0} /\ MaxPages \in Nat /\ WordMax \in Nat
      /\ g_total_pages \in 0 .. MaxPages /\ g_total_pages \in Nat /\ g_total_pages # 0
      /\ given = {}
  BY BitmapAssumption DEF BitmapInv, pmm_reserve_range
<1>1. /\ pages \subseteq 0 .. (g_total_pages - 1)
      /\ \A page \in 0 .. (g_total_pages - 1), x \in bytes :
           x \in Address(page) .. (Address(page) + PageBytes - 1) => page \in pages
  BY <1>0, ReservedFacts DEF BitmapInv
<1> HIDE DEF pages
<1>2. /\ g_bitmap' = g_bitmap \cup pages
      /\ g_free_pages' = g_free_pages - Cardinality(pages \ g_bitmap)
      /\ reserved' = reserved \cup bytes
      /\ g_mem_base' = g_mem_base /\ g_total_pages' = g_total_pages /\ given' = given
  BY DEF pmm_reserve_range, SetUsed, pages
<1>3. FreeCounted'
  <2>1. Cardinality((0 .. (g_total_pages - 1)) \ (g_bitmap \cup pages))
          = Cardinality((0 .. (g_total_pages - 1)) \ g_bitmap) - Cardinality(pages \ g_bitmap)
    BY <1>0, <1>1, UsedCounted
  <2> QED
    BY <1>2, <2>1 DEF BitmapInv, FreeCounted
<1>4. g_bitmap' \subseteq Index /\ reserved' \subseteq Word
  BY <1>0, <1>1, <1>2 DEF BitmapInv, Index
<1>5. ASSUME NEW page \in 0 .. (g_total_pages - 1),
             Holds(reserved', g_mem_base + page * PageBytes)
      PROVE  page \in g_bitmap' \ given'
  <2>1. PICK x \in reserved' :
          x \in (g_mem_base + page * PageBytes) .. (g_mem_base + page * PageBytes + PageBytes - 1)
    BY <1>5 DEF Holds
  <2>2. CASE x \in reserved
    BY <1>2, <2>1, <2>2 DEF BitmapInv, Holds
  <2>3. CASE x \in bytes
    <3>1. page \in pages
      BY <1>1, <2>1, <2>3 DEF Address
    <3> QED
      BY <1>0, <1>2, <3>1
  <2> QED
    BY <1>2, <2>2, <2>3
<1> QED
  BY <1>0, <1>2, <1>3, <1>4, <1>5 DEF BitmapInv

LEMMA AllocStep ==
  ASSUME BitmapInv, NEW count \in 0 .. MaxPages, pmm_alloc_pages(count)
  PROVE  BitmapInv'
<1>0. /\ MaxPages \in Nat /\ count \in Nat \ {0}
      /\ g_total_pages \in 0 .. MaxPages /\ g_total_pages \in Nat
  BY BitmapAssumption DEF BitmapInv, pmm_alloc_pages
<1>1. PICK b \in Scan(count) :
        /\ SetUsed(b .. (b + count - 1))
        /\ given' = given \cup (b .. (b + count - 1))
        /\ UNCHANGED <<g_mem_base, g_total_pages, reserves, reserved>>
  BY DEF pmm_alloc_pages
<1>2. b \in Nat /\ b + count <= g_total_pages /\ ClearRun(b, count)
  BY <1>0, <1>1, ScanFacts
<1> DEFINE pages == b .. (b + count - 1)
<1>3. pages \subseteq 0 .. (g_total_pages - 1) /\ \A i \in pages : i \notin g_bitmap
  BY <1>0, <1>2 DEF ClearRun
<1> HIDE DEF pages
<1>4. /\ g_bitmap' = g_bitmap \cup pages
      /\ g_free_pages' = g_free_pages - Cardinality(pages \ g_bitmap)
      /\ given' = given \cup pages
      /\ g_mem_base' = g_mem_base /\ g_total_pages' = g_total_pages /\ reserved' = reserved
  BY <1>1 DEF SetUsed, pages
<1>5. FreeCounted'
  <2>1. Cardinality((0 .. (g_total_pages - 1)) \ (g_bitmap \cup pages))
          = Cardinality((0 .. (g_total_pages - 1)) \ g_bitmap) - Cardinality(pages \ g_bitmap)
    BY <1>0, <1>3, UsedCounted
  <2> QED
    BY <1>4, <2>1 DEF BitmapInv, FreeCounted
<1>6. g_bitmap' \subseteq Index /\ given' \subseteq g_bitmap' \cap 0 .. (g_total_pages - 1)
  BY <1>0, <1>3, <1>4 DEF BitmapInv, Index
<1>7. \A i \in g_bitmap \ given : i \in g_bitmap' \ given'
  BY <1>3, <1>4
<1> QED
  BY <1>0, <1>4, <1>5, <1>6, <1>7 DEF BitmapInv

LEMMA FreePageStep ==
  ASSUME BitmapInv, NEW paddr \in Word, pmm_free_page(paddr)
  PROVE  BitmapInv'
<1>1. PICK page \in given :
        /\ SetFree({page}) /\ given' = given \ {page}
        /\ UNCHANGED <<g_mem_base, g_total_pages, reserves, reserved>>
  BY DEF pmm_free_page
<1>2. page \in g_bitmap /\ page \in 0 .. (g_total_pages - 1) /\ g_total_pages \in Nat
  BY BitmapAssumption, <1>1 DEF BitmapInv
<1>3. /\ g_bitmap' = g_bitmap \ {page}
      /\ g_free_pages' = g_free_pages + Cardinality({page} \cap g_bitmap)
      /\ given' = given \ {page}
      /\ g_mem_base' = g_mem_base /\ g_total_pages' = g_total_pages /\ reserved' = reserved
  BY <1>1 DEF SetFree
<1>4. FreeCounted'
  <2>1. Cardinality((0 .. (g_total_pages - 1)) \ (g_bitmap \ {page}))
          = Cardinality((0 .. (g_total_pages - 1)) \ g_bitmap) + Cardinality({page} \cap g_bitmap)
    BY <1>2, FreedCounted
  <2> QED
    BY <1>3, <2>1 DEF BitmapInv, FreeCounted
<1>5. g_bitmap' \subseteq Index /\ given' \subseteq g_bitmap' \cap 0 .. (g_total_pages - 1)
  BY <1>3 DEF BitmapInv
<1>6. g_bitmap' \ given' = g_bitmap \ given
  BY <1>1, <1>3
<1> QED
  BY <1>3, <1>4, <1>5, <1>6 DEF BitmapInv

LEMMA BitmapInvImplies == BitmapInv => BitmapSound
<1> SUFFICES ASSUME BitmapInv PROVE BitmapSound
  OBVIOUS
<1>1. /\ MaxPages \in Nat /\ g_total_pages \in Nat /\ g_bitmap \subseteq Index /\ FreeCounted
      /\ PageBytes \in Nat \ {0} /\ g_mem_base \in Nat
  BY BitmapAssumption DEF BitmapInv
<1>2. ScanIsFirstFit
  BY <1>1, ScanFirst
<1>3. ASSUME NEW page \in given
      PROVE  /\ reserved \cap Address(page) .. (Address(page) + PageBytes - 1) = {}
             /\ Address(page) # 0 /\ page < g_total_pages /\ page \in g_bitmap
  <2>1. page \in g_bitmap /\ page \in 0 .. (g_total_pages - 1)
    BY DEF BitmapInv
  <2>2. ~Holds(reserved, g_mem_base + page * PageBytes)
    BY <2>1 DEF BitmapInv
  <2>3. g_mem_base + page * PageBytes # 0
    <3>1. g_mem_base = 0 => page # 0
      BY <1>1, <2>1 DEF BitmapInv
    <3>2. page # 0 => 0 * PageBytes < page * PageBytes
      BY <1>1, <2>1
    <3>3. page * PageBytes \in Nat
      BY <1>1, <2>1
    <3> QED
      BY <1>1, <3>1, <3>2, <3>3
  <2> QED
    BY <1>1, <2>1, <2>2, <2>3 DEF Address, Holds
<1> QED
  BY <1>1, <1>2, <1>3 DEF BitmapSound, GivenUsable

(* For every memory and every order of calls after pmm_init, the page      *)
(* allocator gives out only pages of memory that hold no reserved byte and *)
(* are not page 0, finds a run exactly when there is one, the lowest, and  *)
(* its count is that of the clear bits.                                    *)
THEOREM BitmapCorrect == BitmapSpec => []BitmapSound
<1>1. BitmapInit => BitmapInv
  BY BitmapInitStep
<1>2. BitmapInv /\ [BitmapNext]_bitmapvars => BitmapInv'
  <2> SUFFICES ASSUME BitmapInv, [BitmapNext]_bitmapvars PROVE BitmapInv'
    OBVIOUS
  <2>1. CASE BitmapNext
    BY <2>1, InitMemoryStep, ReserveStep, AllocStep, FreePageStep DEF BitmapNext
  <2>2. CASE UNCHANGED bitmapvars
    BY <2>2 DEF bitmapvars, BitmapInv, FreeCounted, Holds
  <2> QED
    BY <2>1, <2>2
<1> QED
  BY <1>1, <1>2, BitmapInvImplies, PTL DEF BitmapSpec
=============================================================================
