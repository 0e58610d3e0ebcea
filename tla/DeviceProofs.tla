---------------------------- MODULE DeviceProofs ----------------------------
(***************************************************************************)
(* The disk, for any size, partition table and ring: sectors stay within   *)
(* the device that was named, and a transfer that succeeds has moved its   *)
(* data (Storage).  The input ring, for any size, implements a counted     *)
(* queue (Input).                                                          *)
(***************************************************************************)
EXTENDS Storage, Input, FiniteSetTheorems, WellFoundedInduction, TLAPS

(* The disk *)

Whole == Device(Nil, Capacity)
Devices == {Whole} \cup {d \in [base : Nat, block_count : Nat] : d.base + d.block_count <= Capacity}
Returns == {"s0", "whole", "mbr", "partition", "idle"}
Indices == 0 .. RingMod - 1

CallOK(c) ==
  /\ c \in [op : {"read", "write"}, of : Devices, sector : Nat, block_count : 1 .. MaxCount,
            i : Nat, buffer : {"fs", "stack"}, then : Returns]
  /\ c.i < c.block_count
  /\ \A k \in 0 .. c.block_count - 1 : c.sector + k \in Blocks(c.of)

Requests == {r \in [type : {"read", "write"}, sector : Sector, buffer : BufferSlots,
                    of : Devices] : r.sector \in Blocks(r.of)}
RequestOf(c) ==
  [type |-> c.op, sector |-> c.sector + c.i, buffer |-> <<c.buffer, c.i>>, of |-> c.of]

(* What the bounds rest on: devices and views lie within the disk, the     *)
(* sectors of the running transfer were checked together, and what the     *)
(* disk may still fetch, or works on, is a request that was checked.       *)
BoundInv ==
  /\ probe \in {"boot", "off", "probe", "spin"} \cup Returns
  /\ g_storage_device \in {Nil, Whole}
  /\ probe \notin {"boot", "off"} => g_storage_device = Whole
  /\ g_fat32_partition_view \in Devices \cup {Nil}
  /\ g_fat32_fs \in Devices \cup {Nil}
  /\ memory \in [BufferSlots -> Contents] /\ disk \in [Sector -> Contents]
  /\ probe = "spin" => CallOK(call)
  /\ g_avail # seen => g_request \in Requests
  /\ fetched # Nil => fetched \in Requests

(* The sector that a transfer is at has been moved. *)
MovedAt(c, k) == memory[<<c.buffer, k>>] = disk[c.sector + k]

(* Until a timeout, the request the disk has is the one the driver waits   *)
(* for: not yet fetched, in work, or answered.                             *)
InFlight ==
  /\ g_request = RequestOf(call)
  /\ \A k \in 0 .. call.i - 1 : MovedAt(call, k)
  /\ \/ /\ seen # g_avail /\ Succ(seen) = g_avail /\ fetched = Nil
        /\ g_used = blk_last_used_idx
     \/ /\ seen = g_avail /\ fetched = g_request /\ g_used = blk_last_used_idx
     \/ /\ seen = g_avail /\ fetched = Nil /\ g_used = Succ(blk_last_used_idx)
        /\ g_status = "ok" => MovedAt(call, call.i)

MovedInv ==
  /\ g_avail \in Indices /\ seen \in Indices /\ g_used \in Indices
  /\ blk_last_used_idx \in Indices /\ timeouts \in Nat
  /\ probe = "spin" => reply = NoReply
  /\ timeouts = 0 =>
       IF probe = "spin" THEN InFlight
       ELSE seen = g_avail /\ fetched = Nil /\ g_used = blk_last_used_idx
  /\ Transferred
-----------------------------------------------------------------------------
(* The next value of a ring index is another one. *)
LEMMA SuccFacts == ASSUME NEW idx \in Indices PROVE Succ(idx) \in Indices /\ Succ(idx) # idx
<1>1. RingMod \in Nat /\ RingMod > 1
  BY StorageAssumption
<1>2. CASE idx = RingMod - 1
  <2>1. (idx + 1) % RingMod = 0
    BY <1>1, <1>2
  <2> QED
    BY <1>1, <1>2, <2>1 DEF Succ, Indices
<1>3. CASE idx < RingMod - 1
  <2>1. (idx + 1) % RingMod = idx + 1
    BY <1>1, <1>3 DEF Indices
  <2> QED
    BY <1>1, <1>3, <2>1 DEF Succ, Indices
<1> QED
  BY <1>1, <1>2, <1>3 DEF Indices

(* A range that block_device_range_valid accepts, of the disk or of a view *)
(* (block_device.c), is a range of the sectors of that device.             *)
LEMMA FirstSectorBounded ==
  ASSUME g_storage_device = Whole, NEW d \in Devices, NEW first_block \in Nat,
         NEW blocks \in Nat \ {0}, FirstSector(d, first_block, blocks) # Nil
  PROVE  /\ FirstSector(d, first_block, blocks) \in Nat
         /\ \A k \in 0 .. blocks - 1 : FirstSector(d, first_block, blocks) + k \in Blocks(d)
<1> DEFINE F == FirstSector(d, first_block, blocks)
<1>0. Capacity \in Nat /\ WordMax \in Nat /\ Capacity <= WordMax /\ Nil \notin 0 .. WordMax
  BY StorageAssumption
<1>1. block_device_range_valid(d, first_block, blocks)
  BY DEF FirstSector
<1>2. d.block_count \in Nat
  BY <1>0 DEF Devices, Whole, Device
<1>3. first_block < d.block_count /\ blocks <= d.block_count - first_block
  BY <1>1 DEF block_device_range_valid
<1>4. CASE d = Whole
  <2>1. d.base = Nil /\ d.block_count = Capacity
    BY <1>4 DEF Whole, Device
  <2>2. F = first_block
    BY <1>1, <2>1 DEF FirstSector
  <2>3. Blocks(d) = Sector
    BY <2>1 DEF Blocks
  <2> QED
    BY <1>0, <1>3, <2>1, <2>2, <2>3 DEF Sector
<1>5. CASE d # Whole
  <2>1. d.base \in Nat /\ d.base + d.block_count <= Capacity
    BY <1>5 DEF Devices
  <2>2. d.base # Nil
    BY <1>0, <1>2, <2>1
  <2>3. ParentBlock(d, first_block) = d.base + first_block
    <3>1. ~(first_block > WordMax - d.base)
      BY <1>0, <1>2, <1>3, <2>1
    <3> QED
      BY <3>1 DEF ParentBlock
  <2>4. F = d.base + first_block
    <3> DEFINE block == ParentBlock(d, first_block)
               parent == block_device_range_valid(g_storage_device, block, blocks)
    <3>1. F = IF block # Nil /\ parent THEN block ELSE Nil
      BY <1>1, <2>2 DEF FirstSector
    <3> HIDE DEF F, parent
    <3>2. F # Nil
      BY DEF F
    <3> QED
      BY <2>3, <3>1, <3>2
  <2>5. Blocks(d) = Sector \cap (d.base .. d.base + d.block_count - 1)
    BY <2>2 DEF Blocks
  <2>6. ASSUME NEW k \in 0 .. blocks - 1
        PROVE  F + k \in Sector /\ F + k \in d.base .. d.base + d.block_count - 1
    BY <1>0, <1>2, <1>3, <2>1, <2>4 DEF Sector
  <2>7. F \in Nat
    BY <2>1, <2>4
  <2>8. \A k \in 0 .. blocks - 1 : F + k \in Blocks(d)
    <3> HIDE DEF F
    <3> QED
      BY <2>5, <2>6
  <2> QED
    BY <2>7, <2>8
<1> QED
  BY <1>4, <1>5

(* A view that block_device_view_init accepts lies within the disk. *)
LEMMA ViewBounded ==
  ASSUME NEW base \in Nat, NEW blocks \in Nat,
         block_device_view_init(Whole, base, blocks) # Nil
  PROVE  block_device_view_init(Whole, base, blocks) \in Devices
<1>0. Capacity \in Nat
  BY StorageAssumption
<1>1. Whole.block_count = Capacity
  BY DEF Whole, Device
<1>2. /\ ~(blocks > Capacity - base)
      /\ block_device_view_init(Whole, base, blocks) = Device(base, blocks)
  BY <1>1 DEF block_device_view_init
<1>3. base + blocks <= Capacity
  BY <1>0, <1>2
<1>4. Device(base, blocks) \in [base : Nat, block_count : Nat]
  BY DEF Device
<1>5. Device(base, blocks).base + Device(base, blocks).block_count <= Capacity
  BY <1>3 DEF Device
<1> QED
  BY <1>2, <1>4, <1>5 DEF Devices

(* The partition that mbr_find_fat32_partition finds is an entry of the    *)
(* table (mbr.c).                                                          *)
LEMMA PartitionFound ==
  ASSUME NEW table \in Seq(Entry), mbr_find_fat32_partition(table) # Nil
  PROVE  mbr_find_fat32_partition(table) \in Entry
<1> DEFINE usable == {n \in DOMAIN table :
                   /\ table[n].fat32 /\ table[n].start_lba # 0 /\ table[n].sector_count # 0
                   /\ table[n].start_lba <= LbaMax - (table[n].sector_count - 1)}
           first == CHOOSE n \in usable : \A m \in usable : n <= m
<1>1. DOMAIN table = 1 .. Len(table) /\ Len(table) \in Nat
  OBVIOUS
<1>2. usable \subseteq DOMAIN table
  OBVIOUS
<1>3. usable # {} /\ mbr_find_fat32_partition(table) = table[first]
  BY DEF mbr_find_fat32_partition
<1> HIDE DEF usable
<1>4. usable \subseteq Nat
  BY <1>1, <1>2
<1>5. \E n \in usable : \A m \in usable : n <= m
  <2>1. PICK n \in usable : \A m \in usable : ~(<<m, n>> \in OpToRel(<, Nat))
    BY <1>3, <1>4, NatLessThanWellFounded, WFMin
  <2>2. \A m \in usable : ~(m < n)
    BY <1>4, <2>1 DEF OpToRel
  <2> QED
    BY <1>4, <2>2
<1>6. first \in usable
  BY <1>5
<1> HIDE DEF first
<1> QED
  BY <1>1, <1>2, <1>3, <1>6

(* What is submitted for a transfer that was checked is within its device, *)
(* and so is what a disk that is late fetches in the middle of it: of the  *)
(* fields it may see torn, the sector goes with the device.                *)
LEMMA SubmitEffect ==
  ASSUME BoundInv, NEW c, CallOK(c), Submit(c)
  PROVE  /\ call' = c /\ probe' = "spin" /\ reply' = NoReply
         /\ g_request' = RequestOf(c) /\ g_request' \in Requests
         /\ g_avail' = Succ(g_avail)
         /\ fetched' # Nil => fetched' \in Requests
         /\ seen = g_avail => seen' = seen /\ fetched' = fetched
         /\ seen' \in {seen, Succ(seen)}
<1> DEFINE request == RequestOf(c)
<1>1. /\ call' = c /\ probe' = "spin" /\ reply' = NoReply /\ g_request' = request
      /\ g_avail' = Succ(g_avail)
  BY DEF Submit, RequestOf
<1>2. request \in Requests
  <2>1. c.i \in 0 .. c.block_count - 1 /\ c.block_count \in 1 .. MaxCount /\ MaxCount \in Nat
    BY StorageAssumption DEF CallOK
  <2>2. c.sector + c.i \in Blocks(c.of)
    BY <2>1 DEF CallOK
  <2>3. c.sector + c.i \in Sector
    BY <2>2 DEF Blocks
  <2>4. c.i \in 0 .. MaxCount - 1
    BY <2>1
  <2>5. <<c.buffer, c.i>> \in BufferSlots
    BY <2>4 DEF BufferSlots, CallOK
  <2>6. c.op \in {"read", "write"} /\ c.of \in Devices
    BY DEF CallOK
  <2> HIDE DEF CallOK
  <2> QED
    BY <2>2, <2>3, <2>5, <2>6 DEF Requests, RequestOf
<1>3. \/ UNCHANGED <<seen, fetched>>
      \/ /\ seen # g_avail /\ seen' = Succ(seen)
         /\ fetched' \in Torn(g_request, request)
  BY DEF Submit, RequestOf
<1> HIDE DEF request
<1>4. ASSUME seen # g_avail, fetched' \in Torn(g_request, request) PROVE fetched' \in Requests
  <2>1. g_request \in Requests
    BY <1>4 DEF BoundInv
  <2>2. [g_request EXCEPT !.type = request.type] \in Requests
    BY <1>2, <2>1 DEF Requests
  <2>3. [request EXCEPT !.buffer = g_request.buffer] \in Requests
    BY <1>2, <2>1 DEF Requests
  <2> QED
    BY <1>4, <2>2, <2>3 DEF Torn
<1>5. fetched # Nil => fetched \in Requests
  BY DEF BoundInv
<1> QED
  BY <1>1, <1>2, <1>3, <1>4, <1>5 DEF request

(* block_device_read and block_device_write: refused, nothing to move, or  *)
(* the first request of a transfer that was checked.                       *)
LEMMA TransferEffect ==
  ASSUME g_storage_device = Whole, NEW op \in {"read", "write"}, NEW d \in Devices,
         NEW first_block \in Nat, NEW blocks \in 0 .. MaxCount,
         NEW buffer \in {"fs", "stack"}, NEW then \in Returns,
         Transfer(op, d, first_block, blocks, buffer, then)
  PROVE  /\ blk_last_used_idx' = blk_last_used_idx
         /\ \/ /\ probe' = then
               /\ UNCHANGED <<g_request, g_status, g_avail, seen, fetched>>
               /\ reply'.rc = 0 => reply'.call.block_count = 0
            \/ \E c : CallOK(c) /\ c.i = 0 /\ Submit(c)
<1> DEFINE first == FirstSector(d, first_block, blocks)
           c == [op |-> op, of |-> d, sector |-> first, block_count |-> blocks, i |-> 0,
                 buffer |-> buffer, then |-> then]
<1>0. MaxCount \in Nat
  BY StorageAssumption
<1>1. CASE first = Nil \/ blocks = 0
  <2>1. /\ probe' = then
        /\ UNCHANGED <<g_request, g_status, g_avail, seen, fetched, blk_last_used_idx>>
        /\ reply' = [call |-> [c EXCEPT !.sector = 0], rc |-> IF first = Nil THEN -1 ELSE 0]
    BY <1>1 DEF Transfer, Result
  <2>2. reply'.rc = 0 => reply'.call.block_count = 0
    <3> HIDE DEF first
    <3> QED
      BY <1>1, <2>1
  <2> QED
    BY <2>1, <2>2
<1>2. CASE ~(first = Nil \/ blocks = 0)
  <2>1. Submit(c) /\ UNCHANGED blk_last_used_idx
    BY <1>2 DEF Transfer
  <2>2. blocks \in Nat \ {0}
    BY <1>0, <1>2
  <2>3. first \in Nat /\ \A k \in 0 .. blocks - 1 : first + k \in Blocks(d)
    BY <1>2, <2>2, FirstSectorBounded
  <2> HIDE DEF first
  <2>4. CallOK(c) /\ c.i = 0
    BY <1>0, <2>2, <2>3 DEF CallOK
  <2> QED
    BY <2>1, <2>4
<1> QED
  BY <1>1, <1>2

(* A step of the driver or of a caller keeps the bounds. *)
LEMMA CallerBound ==
  ASSUME BoundInv, g_storage_device' = Whole,
         g_fat32_partition_view' \in Devices \cup {Nil}, g_fat32_fs' \in Devices \cup {Nil},
         memory' \in [BufferSlots -> Contents], disk' \in [Sector -> Contents],
         \/ probe' \in Returns /\ UNCHANGED <<g_request, g_avail, seen, fetched>>
         \/ \E c : CallOK(c) /\ Submit(c)
  PROVE  BoundInv'
<1>1. CASE probe' \in Returns /\ UNCHANGED <<g_request, g_avail, seen, fetched>>
  BY <1>1 DEF BoundInv, Returns
<1>2. CASE \E c : CallOK(c) /\ Submit(c)
  <2>1. PICK c : CallOK(c) /\ Submit(c)
    BY <1>2
  <2>2. /\ probe' = "spin" /\ call' = c /\ g_request' \in Requests
        /\ fetched' # Nil => fetched' \in Requests
    BY <2>1, SubmitEffect
  <2> QED
    BY <2>1, <2>2 DEF BoundInv
<1> QED
  BY <1>1, <1>2

(* What the probe at boot, the file system and the legacy entry points     *)
(* have in common: outside a request, they start one, or do not touch the  *)
(* ring.                                                                   *)
Caller ==
  /\ probe # "spin"
  /\ g_storage_device' = Whole
  /\ g_fat32_partition_view' \in Devices \cup {Nil} /\ g_fat32_fs' \in Devices \cup {Nil}
  /\ memory' \in [BufferSlots -> Contents]
  /\ UNCHANGED <<disk, g_used, blk_last_used_idx, timeouts>>
  /\ \/ /\ probe' \in Returns /\ UNCHANGED <<g_request, g_avail, seen, fetched>>
        /\ \/ UNCHANGED <<reply, memory>>
           \/ reply'.rc = 0 => reply'.call.block_count = 0
     \/ \E c : CallOK(c) /\ c.i = 0 /\ Submit(c)

(* A transfer is such a step, if its caller keeps the rest. *)
LEMMA TransferIsCaller ==
  ASSUME BoundInv, g_storage_device = Whole, probe # "spin",
         NEW op \in {"read", "write"}, NEW d \in Devices, NEW first_block \in Nat,
         NEW blocks \in 0 .. MaxCount, NEW buffer \in {"fs", "stack"}, NEW then \in Returns,
         Transfer(op, d, first_block, blocks, buffer, then),
         g_storage_device' = g_storage_device, UNCHANGED <<disk, g_used, timeouts>>,
         g_fat32_partition_view' \in Devices \cup {Nil}, g_fat32_fs' \in Devices \cup {Nil},
         memory' \in [BufferSlots -> Contents]
  PROVE  Caller
<1>1. /\ blk_last_used_idx' = blk_last_used_idx
      /\ \/ /\ probe' = then
            /\ UNCHANGED <<g_request, g_status, g_avail, seen, fetched>>
            /\ reply'.rc = 0 => reply'.call.block_count = 0
         \/ \E c : CallOK(c) /\ c.i = 0 /\ Submit(c)
  BY TransferEffect
<1> QED
  BY <1>1 DEF Caller

(* The steps of the probe (kernel/kernel.c): the view it opens is within   *)
(* the disk, whatever the table says.                                      *)
LEMMA ProbeSteps ==
  ASSUME BoundInv,
         \/ probe_storage \/ MountDisk \/ ReadTable
         \/ mbr_open_fat32_partition \/ MountPartition
  PROVE  Caller
<1>0. /\ 1 \in 0 .. MaxCount /\ 0 \in Nat /\ TableOf \in [Contents -> Seq(Entry)]
      /\ <<"stack", 0>> \in BufferSlots /\ Whole \in Devices
  BY StorageAssumption DEF BufferSlots, Devices
<1>1. /\ g_fat32_partition_view \in Devices \cup {Nil} /\ g_fat32_fs \in Devices \cup {Nil}
      /\ memory \in [BufferSlots -> Contents]
      /\ probe \notin {"boot", "off"} => g_storage_device = Whole
  BY DEF BoundInv
<1>2. CASE probe_storage
  <2>1. /\ probe = "probe" /\ Transfer("read", g_storage_device, 0, 1, "stack", "s0")
        /\ UNCHANGED <<g_storage_device, g_fat32_partition_view, g_fat32_fs, memory, disk, g_used, timeouts>>
    BY <1>2 DEF probe_storage, diskstate
  <2> QED
    BY <1>0, <1>1, <2>1, TransferIsCaller DEF Returns
<1>3. CASE MountDisk
  <2>1. /\ probe = "s0"
        /\ UNCHANGED <<g_storage_device, g_fat32_partition_view, g_fat32_fs, memory, disk, g_used, timeouts>>
    BY <1>3 DEF MountDisk, diskstate
  <2>2. CASE reply.rc = 0
    <3>1. Transfer("read", g_storage_device, 0, 1, "fs", "whole")
      BY <1>3, <2>2 DEF MountDisk
    <3> QED
      BY <1>0, <1>1, <2>1, <3>1, TransferIsCaller DEF Returns
  <2>3. CASE reply.rc # 0
    <3>1. probe' = "idle" /\ UNCHANGED driver
      BY <1>3, <2>3 DEF MountDisk
    <3> QED
      BY <1>1, <2>1, <3>1 DEF Caller, driver, Returns
  <2> QED
    BY <2>2, <2>3
<1>4. CASE ReadTable
  <2>1. /\ probe = "whole"
        /\ UNCHANGED <<g_storage_device, g_fat32_partition_view, memory, disk, g_used, timeouts>>
    BY <1>4 DEF ReadTable, diskstate
  <2>2. CASE fat32_mount_device(g_storage_device)
    <3>1. probe' = "idle" /\ UNCHANGED driver /\ g_fat32_fs' = g_storage_device
      BY <1>4, <2>2 DEF ReadTable
    <3> QED
      BY <1>0, <1>1, <2>1, <3>1 DEF Caller, driver, Returns
  <2>3. CASE ~fat32_mount_device(g_storage_device)
    <3>1. /\ Transfer("read", g_storage_device, 0, 1, "stack", "mbr")
          /\ UNCHANGED g_fat32_fs
      BY <1>4, <2>3 DEF ReadTable
    <3> QED
      BY <1>0, <1>1, <2>1, <3>1, TransferIsCaller DEF Returns
  <2> QED
    BY <2>2, <2>3
<1>5. CASE mbr_open_fat32_partition
  <2> DEFINE table == TableOf[memory[<<"stack", 0>>]]
             partition == mbr_find_fat32_partition(table)
             view == block_device_view_init(g_storage_device, partition.start_lba,
                                            partition.sector_count)
  <2>1. /\ probe = "mbr"
        /\ UNCHANGED <<g_storage_device, g_fat32_fs, memory, disk, g_used, timeouts>>
    BY <1>5 DEF mbr_open_fat32_partition, diskstate
  <2>2. \/ /\ partition # Nil /\ view # Nil /\ g_fat32_partition_view' = view
           /\ Transfer("read", view, 0, 1, "fs", "partition")
        \/ /\ probe' = "idle" /\ UNCHANGED <<g_fat32_partition_view, driver>>
    BY <1>5 DEF mbr_open_fat32_partition
  <2>3. table \in Seq(Entry)
    BY <1>0, <1>1
  <2> HIDE DEF table
  <2>4. ASSUME partition # Nil, view # Nil PROVE view \in Devices
    <3>1. partition \in Entry
      BY <2>3, <2>4, PartitionFound
    <3> HIDE DEF partition
    <3>2. partition.start_lba \in Nat /\ partition.sector_count \in Nat
      BY <3>1 DEF Entry
    <3>3. g_storage_device = Whole
      BY <1>1, <2>1
    <3> QED
      BY <2>4, <3>2, <3>3, ViewBounded
  <2> HIDE DEF partition, view
  <2>5. CASE /\ partition # Nil /\ view # Nil /\ g_fat32_partition_view' = view
             /\ Transfer("read", view, 0, 1, "fs", "partition")
    BY <1>0, <1>1, <2>1, <2>4, <2>5, TransferIsCaller DEF Returns
  <2>6. CASE probe' = "idle" /\ UNCHANGED <<g_fat32_partition_view, driver>>
    BY <1>1, <2>1, <2>6 DEF Caller, driver, Returns
  <2> QED
    BY <2>2, <2>5, <2>6
<1>6. CASE MountPartition
  <2>1. /\ probe = "partition" /\ probe' = "idle" /\ UNCHANGED driver
        /\ g_fat32_fs' \in {g_fat32_partition_view, Nil}
        /\ UNCHANGED <<g_storage_device, g_fat32_partition_view, memory, disk, g_used, timeouts>>
    BY <1>6 DEF MountPartition, diskstate
  <2> QED
    BY <1>1, <2>1 DEF Caller, driver, Returns
<1> QED
  BY <1>2, <1>3, <1>4, <1>5, <1>6

(* The calls of the file system and of the board's legacy interface. *)
LEMMA CallSteps ==
  ASSUME BoundInv, NEW lba \in Lbas,
         \/ fat32_device_read_sector(lba)
         \/ \E content \in Data : fat32_device_write_sector(lba, content)
         \/ \E blocks \in 0 .. MaxCount :
              board_storage_read(lba, blocks) \/ board_storage_write(lba, blocks)
  PROVE  Caller
<1>0. /\ 1 \in 0 .. MaxCount /\ lba \in Nat /\ Data \subseteq Contents
      /\ <<"fs", 0>> \in BufferSlots /\ Whole \in Devices
  BY StorageAssumption DEF BufferSlots, Devices, Lbas
<1>1. /\ g_fat32_partition_view \in Devices \cup {Nil} /\ g_fat32_fs \in Devices \cup {Nil}
      /\ memory \in [BufferSlots -> Contents]
      /\ probe \notin {"boot", "off"} => g_storage_device = Whole
  BY DEF BoundInv
<1>2. CASE fat32_device_read_sector(lba)
  <2>1. /\ probe = "idle" /\ g_fat32_fs # Nil
        /\ Transfer("read", g_fat32_fs, lba, 1, "fs", "idle")
        /\ UNCHANGED <<g_storage_device, g_fat32_partition_view, g_fat32_fs, memory, disk, g_used, timeouts>>
    BY <1>2 DEF fat32_device_read_sector, diskstate
  <2> QED
    BY <1>0, <1>1, <2>1, TransferIsCaller DEF Returns
<1>3. ASSUME NEW content \in Data, fat32_device_write_sector(lba, content) PROVE Caller
  <2>1. /\ probe = "idle" /\ g_fat32_fs # Nil
        /\ Transfer("write", g_fat32_fs, lba, 1, "fs", "idle")
        /\ memory' = [memory EXCEPT ![<<"fs", 0>>] = content]
        /\ UNCHANGED <<g_storage_device, g_fat32_partition_view, g_fat32_fs, disk, g_used, timeouts>>
    BY <1>3 DEF fat32_device_write_sector, diskstate
  <2>2. memory' \in [BufferSlots -> Contents]
    BY <1>0, <1>1, <2>1
  <2> QED
    BY <1>0, <1>1, <2>1, <2>2, TransferIsCaller DEF Returns
<1>4. ASSUME NEW op \in {"read", "write"}, NEW blocks \in 0 .. MaxCount,
             BoardTransfer(op, lba, blocks)
      PROVE  Caller
  <2>1. /\ probe = "idle"
        /\ UNCHANGED <<g_storage_device, g_fat32_partition_view, g_fat32_fs, memory, disk, g_used, timeouts>>
    BY <1>4 DEF BoardTransfer, diskstate
  <2>2. CASE blocks = 0
    <3>1. /\ Result([NoCall EXCEPT !.op = op], 0)
          /\ UNCHANGED <<g_request, g_status, g_avail, seen, fetched, blk_last_used_idx>>
      BY <1>4, <2>2 DEF BoardTransfer
    <3>2. probe' = "idle" /\ reply'.call.block_count = 0
      BY <3>1 DEF Result, NoCall
    <3> QED
      BY <1>1, <2>1, <3>1, <3>2 DEF Caller, Returns
  <2>3. CASE blocks # 0
    <3>1. Transfer(op, g_storage_device, lba, blocks, "stack", "idle")
      BY <1>4, <2>3 DEF BoardTransfer
    <3> QED
      BY <1>0, <1>1, <2>1, <3>1, TransferIsCaller DEF Returns
  <2> QED
    BY <2>2, <2>3
<1> QED
  BY <1>2, <1>3, <1>4 DEF board_storage_read, board_storage_write

(* The loop over the sectors goes on within the range that was checked. *)
LEMMA SpinDoneEffect ==
  ASSUME BoundInv, BlkSpinDone
  PROVE  \/ /\ g_status = "ok" /\ call.i + 1 < call.block_count
            /\ CallOK([call EXCEPT !.i = @ + 1]) /\ Submit([call EXCEPT !.i = @ + 1])
         \/ /\ ~(g_status = "ok" /\ call.i + 1 < call.block_count)
            /\ probe' = call.then /\ probe' \in Returns
            /\ reply' = [call |-> call, rc |-> IF g_status = "ok" THEN 0 ELSE -1]
            /\ UNCHANGED <<g_request, g_status, g_avail, seen, fetched>>
<1>1. CallOK(call)
  BY DEF BoundInv, BlkSpinDone
<1>2. CASE g_status = "ok" /\ call.i + 1 < call.block_count
  <2>1. CallOK([call EXCEPT !.i = @ + 1])
    BY <1>1, <1>2 DEF CallOK
  <2> QED
    BY <1>2, <2>1 DEF BlkSpinDone
<1>3. CASE ~(g_status = "ok" /\ call.i + 1 < call.block_count)
  <2>1. /\ Result(call, IF g_status = "ok" THEN 0 ELSE -1)
        /\ UNCHANGED <<g_request, g_status, g_avail, seen, fetched>>
    BY <1>3 DEF BlkSpinDone
  <2> QED
    BY <1>1, <1>3, <2>1 DEF Result, CallOK
<1> QED
  BY <1>2, <1>3

(* The disk writes what a buffer holds, or the buffer. *)
LEMMA CompleteTypes ==
  ASSUME BoundInv, Complete
  PROVE  /\ fetched \in Requests
         /\ memory' \in [BufferSlots -> Contents] /\ disk' \in [Sector -> Contents]
<1>1. /\ fetched \in Requests
      /\ memory \in [BufferSlots -> Contents] /\ disk \in [Sector -> Contents]
  BY DEF BoundInv, Complete
<1>2. fetched.buffer \in BufferSlots /\ fetched.sector \in Sector
  BY <1>1 DEF Requests
<1>3. CASE fetched.type = "read"
  BY <1>1, <1>2, <1>3 DEF Complete
<1>4. CASE fetched.type # "read"
  BY <1>1, <1>2, <1>4 DEF Complete
<1> QED
  BY <1>1, <1>3, <1>4

(* A step of the model of the disk is one of these. *)
LEMMA BlkKinds ==
  ASSUME BoundInv, BlkNext
  PROVE  \/ board_storage_init \/ Caller \/ BlkSpinDone \/ BlkSpinLimit
         \/ Fetch \/ Complete \/ Refuse
  BY ProbeSteps, CallSteps DEF BlkNext

(* Every step keeps the bounds. *)
LEMMA BoundStep == BoundInv /\ [BlkNext]_blkvars => BoundInv'
<1> SUFFICES ASSUME BoundInv, [BlkNext]_blkvars PROVE BoundInv'
  OBVIOUS
<1>1. CASE board_storage_init
  BY <1>1 DEF board_storage_init, BoundInv, driver, diskstate, Whole, Returns
<1>2. CASE Caller
  <2>1. disk' \in [Sector -> Contents]
    BY <1>2 DEF Caller, BoundInv
  <2> QED
    BY <1>2, <2>1, CallerBound DEF Caller
<1>3. CASE BlkSpinDone
  <2>1. /\ g_storage_device' = Whole
        /\ g_fat32_partition_view' \in Devices \cup {Nil} /\ g_fat32_fs' \in Devices \cup {Nil}
        /\ memory' \in [BufferSlots -> Contents] /\ disk' \in [Sector -> Contents]
    BY <1>3 DEF BlkSpinDone, BoundInv
  <2> QED
    BY <1>3, <2>1, SpinDoneEffect, CallerBound
<1>4. CASE BlkSpinLimit
  <2>1. /\ g_storage_device' = Whole
        /\ g_fat32_partition_view' \in Devices \cup {Nil} /\ g_fat32_fs' \in Devices \cup {Nil}
        /\ memory' \in [BufferSlots -> Contents] /\ disk' \in [Sector -> Contents]
        /\ UNCHANGED <<g_request, g_avail, seen, fetched>>
    BY <1>4 DEF BlkSpinLimit, BoundInv
  <2>2. probe' \in Returns
    BY <1>4 DEF BlkSpinLimit, BoundInv, Result, CallOK
  <2> QED
    BY <2>1, <2>2, CallerBound
<1>5. CASE Fetch
  BY <1>5 DEF Fetch, BoundInv
<1>6. CASE Complete
  <2>1. memory' \in [BufferSlots -> Contents] /\ disk' \in [Sector -> Contents]
    BY <1>6, CompleteTypes
  <2> QED
    BY <1>6, <2>1 DEF Complete, BoundInv
<1>7. CASE Refuse
  BY <1>7 DEF Refuse, BoundInv
<1>8. CASE UNCHANGED blkvars
  BY <1>8 DEF blkvars, BoundInv
<1> QED
  BY <1>1, <1>2, <1>3, <1>4, <1>5, <1>6, <1>7, <1>8, BlkKinds

(* At boot nothing is asked for. *)
LEMMA BoundInit == BlkInit => BoundInv
<1> SUFFICES ASSUME BlkInit PROVE BoundInv
  OBVIOUS
<1>1. memory \in [BufferSlots -> Contents] /\ disk \in [Sector -> Contents]
  BY StorageAssumption DEF BlkInit
<1> QED
  BY <1>1 DEF BlkInit, BoundInv

(* The invariant names the sectors that the disk is given. *)
LEMMA BoundImplies == BoundInv => Bounded
  BY DEF BoundInv, Bounded, Requests

(* Whatever the disk's partition table says, whatever block a caller asks  *)
(* for and however late the disk is, every sector that the driver gives to *)
(* the disk lies in the device or partition the caller named               *)
(* (block_device.c, mbr.c, virtio_blk.c), for disks of any size.           *)
THEOREM SectorsBounded == BlkSpec => []Bounded
<1>1. BlkSpec => []BoundInv
  BY BoundInit, BoundStep, PTL DEF BlkSpec
<1> QED
  BY <1>1, BoundImplies, PTL
-----------------------------------------------------------------------------
(* The transfers *)

(* The start of a request: the reply is cleared, and it is the only one    *)
(* that the disk has not seen.                                             *)
LEMMA SubmitMoved ==
  ASSUME BoundInv, MovedInv, NEW c, CallOK(c), Submit(c),
         UNCHANGED <<disk, g_used, timeouts>>,
         timeouts = 0 =>
           /\ seen = g_avail /\ fetched = Nil /\ blk_last_used_idx' = g_used
           /\ \A k \in 0 .. c.i - 1 : MovedAt(c, k)',
         blk_last_used_idx' \in Indices
  PROVE  MovedInv'
<1>1. /\ call' = c /\ probe' = "spin" /\ reply' = NoReply /\ g_request' = RequestOf(c)
      /\ g_avail' = Succ(g_avail) /\ seen' \in {seen, Succ(seen)}
      /\ seen = g_avail => seen' = seen /\ fetched' = fetched
  BY SubmitEffect
<1>2. g_avail \in Indices /\ seen \in Indices /\ g_used \in Indices /\ timeouts \in Nat
  BY DEF MovedInv
<1>3. g_avail' \in Indices /\ seen' \in Indices /\ g_avail' # g_avail
  BY <1>1, <1>2, SuccFacts
<1>4. Transferred'
  <2>1. reply'.call.block_count = 0
    BY <1>1 DEF NoReply, NoCall
  <2> QED
    BY <2>1 DEF Transferred
<1>5. ASSUME timeouts = 0 PROVE InFlight'
  <2>1. seen' = g_avail /\ fetched' = Nil /\ g_avail' = Succ(seen')
    BY <1>1, <1>5
  <2>2. g_used' = blk_last_used_idx'
    BY <1>5
  <2>3. g_request' = RequestOf(call')
    BY <1>1
  <2>4. \A k \in 0 .. call'.i - 1 : MovedAt(call, k)'
    BY <1>1, <1>5 DEF MovedAt
  <2> QED
    BY <1>3, <2>1, <2>2, <2>3, <2>4 DEF InFlight
<1> QED
  BY <1>1, <1>2, <1>3, <1>4, <1>5 DEF MovedInv

(* The callers start a request when the ring is quiet. *)
LEMMA CallerMoved == ASSUME BoundInv, MovedInv, Caller PROVE MovedInv'
<1>0. /\ UNCHANGED <<disk, g_used, blk_last_used_idx, timeouts>> /\ probe # "spin"
  BY DEF Caller
<1>1. /\ g_avail \in Indices /\ seen \in Indices /\ g_used \in Indices
      /\ blk_last_used_idx \in Indices /\ timeouts \in Nat /\ Transferred
      /\ timeouts = 0 => seen = g_avail /\ fetched = Nil /\ g_used = blk_last_used_idx
  BY <1>0 DEF MovedInv
<1>2. CASE \E c : CallOK(c) /\ c.i = 0 /\ Submit(c)
  <2>1. PICK c : CallOK(c) /\ c.i = 0 /\ Submit(c)
    BY <1>2
  <2> QED
    BY <1>0, <1>1, <2>1, SubmitMoved
<1>3. CASE /\ probe' \in Returns /\ UNCHANGED <<g_request, g_avail, seen, fetched>>
           /\ \/ UNCHANGED <<reply, memory>>
              \/ reply'.rc = 0 => reply'.call.block_count = 0
  <2>1. Transferred'
    <3>1. CASE UNCHANGED <<reply, memory>>
      BY <1>0, <1>1, <3>1 DEF Transferred
    <3>2. CASE reply'.rc = 0 => reply'.call.block_count = 0
      BY <3>2 DEF Transferred
    <3> QED
      BY <1>3, <3>1, <3>2
  <2>2. probe' # "spin"
    BY <1>3 DEF Returns
  <2> QED
    BY <1>0, <1>1, <1>3, <2>1, <2>2 DEF MovedInv
<1> QED
  BY <1>2, <1>3 DEF Caller

(* The driver sees the answer: the sector it is at was moved, and the      *)
(* transfer goes on, or ends with all of them moved.                       *)
LEMMA SpinDoneMoved == ASSUME BoundInv, MovedInv, BlkSpinDone PROVE MovedInv'
<1>0. /\ probe = "spin" /\ g_used # blk_last_used_idx /\ blk_last_used_idx' = g_used
      /\ UNCHANGED <<memory, disk, g_used, timeouts>>
  BY DEF BlkSpinDone
<1>1. /\ g_avail \in Indices /\ seen \in Indices /\ g_used \in Indices
      /\ timeouts \in Nat
  BY DEF MovedInv
<1>2. CallOK(call)
  BY <1>0 DEF BoundInv
<1>3. /\ call.i \in Nat /\ call.block_count \in Nat /\ call.i < call.block_count
  BY <1>2, StorageAssumption DEF CallOK
<1>4. ASSUME timeouts = 0
      PROVE  /\ seen = g_avail /\ fetched = Nil
             /\ g_status = "ok" => \A k \in 0 .. call.i : MovedAt(call, k)
  <2>1. InFlight
    BY <1>0, <1>4 DEF MovedInv
  <2>2. /\ seen = g_avail /\ fetched = Nil /\ g_status = "ok" => MovedAt(call, call.i)
        /\ \A k \in 0 .. call.i - 1 : MovedAt(call, k)
    <3> HIDE DEF MovedAt
    <3> QED
      BY <1>0, <2>1 DEF InFlight
  <2> QED
    BY <1>0, <1>3, <2>1, <2>2 DEF InFlight
<1>5. CASE /\ g_status = "ok" /\ call.i + 1 < call.block_count
           /\ CallOK([call EXCEPT !.i = @ + 1]) /\ Submit([call EXCEPT !.i = @ + 1])
  <2>0. PICK c : c = [call EXCEPT !.i = @ + 1]
    OBVIOUS
  <2>1. c.i = call.i + 1 /\ c.buffer = call.buffer /\ c.sector = call.sector
    BY <1>2, <2>0 DEF CallOK
  <2>2. CallOK(c) /\ Submit(c)
    BY <1>5, <2>0
  <2>3. ASSUME timeouts = 0 PROVE \A k \in 0 .. c.i - 1 : MovedAt(c, k)'
    <3>1. \A k \in 0 .. call.i : MovedAt(call, k)
      BY <1>4, <1>5, <2>3
    <3> QED
      BY <1>0, <1>3, <2>1, <3>1 DEF MovedAt
  <2> QED
    BY <1>0, <1>1, <1>4, <2>2, <2>3, SubmitMoved
<1>6. CASE /\ ~(g_status = "ok" /\ call.i + 1 < call.block_count)
           /\ probe' = call.then /\ probe' \in Returns
           /\ reply' = [call |-> call, rc |-> IF g_status = "ok" THEN 0 ELSE -1]
           /\ UNCHANGED <<g_request, g_status, g_avail, seen, fetched>>
  <2>1. probe' # "spin"
    BY <1>6 DEF Returns
  <2>2. ASSUME timeouts = 0, reply'.rc = 0
        PROVE  \A k \in 0 .. reply'.call.block_count - 1 : MovedAt(call, k)
    <3>1. g_status = "ok" /\ reply'.call = call
      BY <1>6, <2>2
    <3>2. \A k \in 0 .. call.i : MovedAt(call, k)
      BY <1>4, <2>2, <3>1
    <3> QED
      BY <1>3, <1>6, <3>1, <3>2
  <2>3. Transferred'
    BY <1>0, <1>6, <2>2 DEF Transferred, MovedAt
  <2> QED
    BY <1>0, <1>1, <1>4, <1>6, <2>1, <2>3 DEF MovedInv
<1> QED
  BY <1>5, <1>6, SpinDoneEffect

(* The disk answers the request that the driver waits for, having moved    *)
(* its sector and no other.                                                *)
LEMMA CompleteMoved == ASSUME BoundInv, MovedInv, Complete PROVE MovedInv'
<1>0. /\ fetched # Nil /\ g_status' = "ok" /\ g_used' = Succ(g_used) /\ fetched' = Nil
      /\ UNCHANGED <<probe, call, reply, g_request, g_avail, blk_last_used_idx, seen, timeouts>>
  BY DEF Complete
<1>1. /\ g_avail \in Indices /\ seen \in Indices /\ g_used' \in Indices
      /\ blk_last_used_idx \in Indices /\ timeouts \in Nat
  BY <1>0, SuccFacts DEF MovedInv
<1>2. /\ fetched \in Requests
      /\ memory \in [BufferSlots -> Contents] /\ disk \in [Sector -> Contents]
  BY CompleteTypes DEF BoundInv
<1>3. CASE timeouts # 0
  <2>1. Transferred'
    BY <1>0, <1>3 DEF Transferred
  <2> QED
    BY <1>0, <1>1, <1>3, <2>1 DEF MovedInv
<1>4. CASE timeouts = 0
  <2>1. probe = "spin" /\ InFlight /\ reply = NoReply
    BY <1>0, <1>4 DEF MovedInv
  <2>2. seen = g_avail /\ fetched = RequestOf(call) /\ g_used = blk_last_used_idx
    BY <1>0, <2>1 DEF InFlight
  <2>3. CallOK(call)
    BY <2>1 DEF BoundInv
  <2>4. /\ fetched.buffer = <<call.buffer, call.i>> /\ fetched.sector = call.sector + call.i
    BY <2>2 DEF RequestOf
  <2>5. fetched.buffer \in BufferSlots /\ fetched.sector \in Sector
    BY <1>2 DEF Requests
  <2>6. ASSUME NEW k \in 0 .. call.i - 1
        PROVE  /\ <<call.buffer, k>> # fetched.buffer /\ call.sector + k # fetched.sector
               /\ <<call.buffer, k>> \in BufferSlots /\ call.sector + k \in Sector
    <3>1. /\ call.i \in Nat /\ call.block_count \in 1 .. MaxCount /\ call.i < call.block_count
          /\ call.sector \in Nat /\ MaxCount \in Nat /\ call.buffer \in {"fs", "stack"}
      BY <2>3, StorageAssumption DEF CallOK
    <3>2. k \in 0 .. call.block_count - 1 /\ k \in 0 .. MaxCount - 1 /\ k # call.i
      BY <3>1
    <3>3. call.sector + k \in Sector
      BY <2>3, <3>2 DEF CallOK, Blocks
    <3>4. <<call.buffer, k>> \in BufferSlots
      BY <3>1, <3>2 DEF BufferSlots
    <3>5. call.sector + k # call.sector + call.i
      BY <3>1, <3>2
    <3> QED
      BY <2>4, <3>2, <3>3, <3>4, <3>5
  <2>7. \A k \in 0 .. call.i - 1 : MovedAt(call, k)
    BY <2>1 DEF InFlight
  <2>8. /\ MovedAt(call, call.i)'
        /\ \A k \in 0 .. call.i - 1 : MovedAt(call, k)'
    <3>1. CASE fetched.type = "read"
      <4>1. memory' = [memory EXCEPT ![fetched.buffer] = disk[fetched.sector]] /\ disk' = disk
        BY <3>1 DEF Complete
      <4> QED
        BY <1>0, <1>2, <2>4, <2>5, <2>6, <2>7, <4>1 DEF MovedAt
    <3>2. CASE fetched.type # "read"
      <4>1. disk' = [disk EXCEPT ![fetched.sector] = memory[fetched.buffer]] /\ memory' = memory
        BY <3>2 DEF Complete
      <4> QED
        BY <1>0, <1>2, <2>4, <2>5, <2>6, <2>7, <4>1 DEF MovedAt
    <3> QED
      BY <3>1, <3>2
  <2>9. InFlight'
    <3> HIDE DEF MovedAt
    <3>1. \A k \in 0 .. call'.i - 1 : MovedAt(call, k)'
      BY <1>0, <2>8
    <3>2. g_request' = RequestOf(call')
      BY <1>0, <2>1 DEF InFlight
    <3>3. MovedAt(call, call.i)'
      BY <2>8
    <3> QED
      BY <1>0, <2>2, <3>1, <3>2, <3>3 DEF InFlight
  <2>10. Transferred'
    <3>1. reply'.call.block_count = 0
      BY <1>0, <2>1 DEF NoReply, NoCall
    <3> QED
      BY <3>1 DEF Transferred
  <2> QED
    BY <1>0, <1>1, <2>1, <2>9, <2>10 DEF MovedInv
<1> QED
  BY <1>3, <1>4

(* Every step keeps the request in flight the one that is waited for. *)
LEMMA MovedStep == BoundInv /\ MovedInv /\ [BlkNext]_blkvars => MovedInv'
<1> SUFFICES ASSUME BoundInv, MovedInv, [BlkNext]_blkvars PROVE MovedInv'
  OBVIOUS
<1>0. /\ g_avail \in Indices /\ seen \in Indices /\ g_used \in Indices
      /\ blk_last_used_idx \in Indices /\ timeouts \in Nat /\ Transferred
      /\ probe = "spin" => reply = NoReply
      /\ timeouts = 0 =>
           IF probe = "spin" THEN InFlight
           ELSE seen = g_avail /\ fetched = Nil /\ g_used = blk_last_used_idx
  BY DEF MovedInv
<1>1. CASE board_storage_init
  <2>1. /\ probe # "spin" /\ probe' # "spin"
        /\ UNCHANGED <<reply, g_avail, blk_last_used_idx, seen, fetched, g_used, disk, memory,
                       timeouts>>
    BY <1>1 DEF board_storage_init, driver, diskstate
  <2>2. Transferred'
    BY <1>0, <2>1 DEF Transferred
  <2> QED
    BY <1>0, <2>1, <2>2 DEF MovedInv
<1>2. CASE Caller
  BY <1>2, CallerMoved
<1>3. CASE BlkSpinDone
  BY <1>3, SpinDoneMoved
<1>4. CASE BlkSpinLimit
  <2>1. /\ timeouts' = timeouts + 1 /\ timeouts' # 0
        /\ UNCHANGED <<g_avail, blk_last_used_idx, seen, g_used>>
    BY <1>0, <1>4 DEF BlkSpinLimit
  <2>2. probe' # "spin"
    BY <1>4 DEF BlkSpinLimit, Result, BoundInv, CallOK, Returns
  <2>3. Transferred'
    BY <2>1 DEF Transferred
  <2> QED
    BY <1>0, <2>1, <2>2, <2>3 DEF MovedInv
<1>5. CASE Fetch
  <2>1. /\ seen # g_avail /\ seen' = Succ(seen) /\ fetched' = g_request
        /\ UNCHANGED <<probe, call, reply, g_request, g_status, g_avail, g_used,
                       blk_last_used_idx, memory, disk, timeouts>>
    BY <1>5 DEF Fetch
  <2>2. seen' \in Indices
    BY <1>0, <2>1, SuccFacts
  <2>3. Transferred'
    BY <1>0, <2>1 DEF Transferred
  <2>4. ASSUME timeouts = 0 PROVE probe = "spin" /\ InFlight'
    <3>1. probe = "spin" /\ InFlight
      BY <1>0, <2>1, <2>4
    <3>2. g_request = RequestOf(call) /\ \A k \in 0 .. call.i - 1 : MovedAt(call, k)
      BY <3>1 DEF InFlight
    <3>3. g_request' = RequestOf(call')
      BY <2>1, <3>2
    <3>4. \A k \in 0 .. call'.i - 1 : MovedAt(call, k)'
      BY <2>1, <3>2 DEF MovedAt
    <3>5. seen' = g_avail' /\ fetched' = g_request' /\ g_used' = blk_last_used_idx'
      BY <2>1, <3>1 DEF InFlight
    <3> QED
      BY <3>1, <3>3, <3>4, <3>5 DEF InFlight
  <2> QED
    BY <1>0, <2>1, <2>2, <2>3, <2>4 DEF MovedInv
<1>6. CASE Complete
  BY <1>6, CompleteMoved
<1>7. CASE Refuse
  <2>1. /\ fetched # Nil /\ g_status' = "error" /\ g_used' = Succ(g_used) /\ fetched' = Nil
        /\ UNCHANGED <<probe, call, reply, g_request, g_avail, blk_last_used_idx, memory, disk,
                       seen, timeouts>>
    BY <1>7 DEF Refuse
  <2>2. g_used' \in Indices
    BY <1>0, <2>1, SuccFacts
  <2>3. Transferred'
    BY <1>0, <2>1 DEF Transferred
  <2>4. ASSUME timeouts = 0 PROVE probe = "spin" /\ InFlight'
    <3>1. probe = "spin" /\ InFlight
      BY <1>0, <2>1, <2>4
    <3>2. g_request = RequestOf(call) /\ \A k \in 0 .. call.i - 1 : MovedAt(call, k)
      BY <3>1 DEF InFlight
    <3>3. g_request' = RequestOf(call')
      BY <2>1, <3>2
    <3>4. \A k \in 0 .. call'.i - 1 : MovedAt(call, k)'
      BY <2>1, <3>2 DEF MovedAt
    <3>5. seen' = g_avail' /\ g_used' = Succ(blk_last_used_idx')
      BY <2>1, <3>1 DEF InFlight
    <3> QED
      BY <2>1, <3>1, <3>3, <3>4, <3>5 DEF InFlight
  <2> QED
    BY <1>0, <2>1, <2>2, <2>3, <2>4 DEF MovedInv
<1>8. CASE UNCHANGED blkvars
  BY <1>8 DEF blkvars, MovedInv, InFlight, MovedAt, Transferred
<1> QED
  BY <1>1, <1>2, <1>3, <1>4, <1>5, <1>6, <1>7, <1>8, BlkKinds

(* At boot no request is in flight. *)
LEMMA MovedInit == BlkInit => MovedInv
<1> SUFFICES ASSUME BlkInit PROVE MovedInv
  OBVIOUS
<1>1. 0 \in Indices
  BY StorageAssumption DEF Indices
<1>2. Transferred
  <2>1. reply.call.block_count = 0
    BY DEF BlkInit, NoReply, NoCall
  <2> QED
    BY <2>1 DEF Transferred
<1> QED
  BY <1>1, <1>2 DEF BlkInit, MovedInv

(* As long as the driver has given up on no request, a read or write that  *)
(* reports success has moved every one of its sectors, whatever the number *)
(* of sectors, the errors of the disk and the wraps of the ring's indices  *)
(* (virtio_blk.c).                                                         *)
THEOREM TransfersComplete == BlkSpec => []Transferred
<1>1. BlkSpec => [](BoundInv /\ MovedInv)
  BY BoundInit, MovedInit, BoundStep, MovedStep, PTL DEF BlkSpec
<1>2. MovedInv => Transferred
  BY DEF MovedInv
<1> QED
  BY <1>1, <1>2, PTL
-----------------------------------------------------------------------------
(* The input ring *)

(* The ring is the queue that starts at `head` and ends before `tail`. *)
RingInv ==
  /\ queue \in [Slots -> Event] /\ head \in Slots
  /\ count \in 0 .. INPUT_EVENT_QUEUE_SIZE
  /\ tail = (head + count) % INPUT_EVENT_QUEUE_SIZE

(* The decoder's state, and the events a handler has yet to push. *)
EscType == esc \in [state : EscState, digit : Digits]
TodoType == todo \in Seq(Event)

(* The inductive invariant of the input machine. *)
InputInv == RingInv /\ EscType /\ TodoType

(* The slot of the i-th event of the queue. *)
Place(from, i) == (from + i - 1) % INPUT_EVENT_QUEUE_SIZE

(* The n events that `slots` holds from `from` on. *)
Window(slots, from, n) ==
  [i \in 1 .. n |-> slots[(from + i - 1) % INPUT_EVENT_QUEUE_SIZE]]

(* A remainder less than two laps from zero. *)
LEMMA Lap ==
  ASSUME NEW q \in Nat \ {0}, NEW x \in 0 .. 2 * q - 1
  PROVE  x % q = IF x < q THEN x ELSE x - q
<1>1. CASE x < q
  <2>1. ((q * 0) + x) % q = x
    BY <1>1
  <2> QED
    BY <1>1, <2>1
<1>2. CASE x >= q
  <2>1. x - q \in 0 .. q - 1
    BY <1>2
  <2>2. ((q * 1) + (x - q)) % q = x - q
    BY <2>1
  <2> QED
    BY <1>2, <2>2
<1> QED
  BY <1>1, <1>2

(* Places within one lap of the ring differ, and follow one another. *)
LEMMA Places ==
  ASSUME NEW from \in Slots
  PROVE  /\ \A i \in 1 .. INPUT_EVENT_QUEUE_SIZE :
              /\ Place(from, i) \in Slots
              /\ \A j \in 1 .. INPUT_EVENT_QUEUE_SIZE : Place(from, i) = Place(from, j) => i = j
              /\ Place(After(from), i) = Place(from, i + 1)
         /\ Place(from, 1) = from /\ After(from) \in Slots
         /\ \A i \in 0 .. INPUT_EVENT_QUEUE_SIZE :
              After((from + i) % INPUT_EVENT_QUEUE_SIZE) = (from + (i + 1)) % INPUT_EVENT_QUEUE_SIZE
<1> DEFINE N == INPUT_EVENT_QUEUE_SIZE
<1>1. N \in Nat \ {0} /\ from \in 0 .. N - 1
  BY InputAssumption DEF Slots
<1>2. \A x \in 0 .. 2 * N - 1 : x % N = IF x < N THEN x ELSE x - N
  BY <1>1, Lap
<1> HIDE DEF N
<1>3. \A i \in 1 .. N + 1 :
        Place(from, i) = IF from + i - 1 < N THEN from + i - 1 ELSE from + i - 1 - N
  BY <1>1, <1>2 DEF Place, N
<1>4. After(from) = IF from + 1 < N THEN from + 1 ELSE 0
  BY <1>1, <1>2 DEF After, N
<1>5. \A i \in 1 .. N : Place(After(from), i) = Place(from, i + 1)
  <2> SUFFICES ASSUME NEW i \in 1 .. N PROVE Place(After(from), i) = Place(from, i + 1)
    OBVIOUS
  <2>1. Place(After(from), i) = (After(from) + i - 1) % N
    BY DEF Place, N
  <2>2. After(from) + i - 1 \in 0 .. 2 * N - 1
    BY <1>1, <1>4
  <2>3. Place(from, i + 1) = IF from + i < N THEN from + i ELSE from + i - N
    BY <1>1, <1>3
  <2> QED
    BY <1>1, <1>2, <1>4, <2>1, <2>2, <2>3
<1>6. \A i \in 0 .. N : After((from + i) % N) = (from + (i + 1)) % N
  <2> SUFFICES ASSUME NEW i \in 0 .. N PROVE After((from + i) % N) = (from + (i + 1)) % N
    OBVIOUS
  <2>a. from + i \in 0 .. 2 * N - 1
    BY <1>1
  <2>b. (from + i) % N = IF from + i < N THEN from + i ELSE from + i - N
    BY <1>1, <1>2, <2>a
  <2>c. (from + i) % N \in 0 .. N - 1
    BY <1>1, <2>a, <2>b
  <2>1. PICK y \in 0 .. N - 1 : /\ y = (from + i) % N
                                /\ y = IF from + i < N THEN from + i ELSE from + i - N
    BY <2>b, <2>c
  <2>2. After((from + i) % N) = (y + 1) % N
    BY <2>1 DEF After, N
  <2>3. (y + 1) % N = IF y + 1 < N THEN y + 1 ELSE y + 1 - N
    BY <1>1, <1>2
  <2>4. CASE from + (i + 1) < 2 * N
    <3>1. (from + (i + 1)) % N
            = IF from + (i + 1) < N THEN from + (i + 1) ELSE from + (i + 1) - N
      BY <1>1, <1>2, <2>4
    <3> QED
      BY <1>1, <2>1, <2>2, <2>3, <3>1, <2>4
  <2>5. CASE from + (i + 1) = 2 * N
    <3>1. ((N * 2) + 0) % N = 0
      BY <1>1
    <3>2. (from + (i + 1)) % N = 0
      BY <1>1, <2>5, <3>1
    <3>3. y + 1 = N
      BY <1>1, <2>1, <2>5
    <3> QED
      BY <1>1, <2>2, <2>3, <3>2, <3>3
  <2> QED
    BY <1>1, <2>4, <2>5
<1>7. \A i \in 1 .. N : Place(from, i) \in 0 .. N - 1
  BY <1>1, <1>3
<1>8. \A i, j \in 1 .. N : Place(from, i) = Place(from, j) => i = j
  BY <1>1, <1>3
<1>9. Place(from, 1) = from /\ After(from) \in 0 .. N - 1
  BY <1>1, <1>3, <1>4
<1> QED
  BY <1>5, <1>6, <1>7, <1>8, <1>9 DEF Slots, N

(* What the queue of the abstract specification is in a state of the ring. *)
LEMMA WindowFacts ==
  ASSUME NEW slots \in [Slots -> Event], NEW from \in Slots,
         NEW n \in 0 .. INPUT_EVENT_QUEUE_SIZE
  PROVE  /\ Window(slots, from, n) \in Seq(Event) /\ Len(Window(slots, from, n)) = n
         /\ \A i \in 1 .. n : Window(slots, from, n)[i] = slots[Place(from, i)]
<1>1. n \in Nat /\ 1 .. n \subseteq 1 .. INPUT_EVENT_QUEUE_SIZE
  BY InputAssumption
<1>2. \A i \in 1 .. n : Place(from, i) \in Slots
  BY <1>1, Places
<1>3. \A i \in 1 .. n : slots[Place(from, i)] \in Event
  BY <1>2
<1>4. Window(slots, from, n) = [i \in 1 .. n |-> slots[Place(from, i)]]
  BY DEF Window, Place
<1> QED
  BY <1>1, <1>3, <1>4

(* A sequence that agrees with s and has one more element. *)
LEMMA OneMore ==
  ASSUME NEW S, NEW s \in Seq(S), NEW t \in Seq(S), NEW e \in S, Len(t) = Len(s) + 1,
         \A i \in 1 .. Len(s) : t[i] = s[i], t[Len(s) + 1] = e
  PROVE  t = Append(s, e)
<1>1. PICK n \in Nat : n = Len(s)
  OBVIOUS
<1>2. Append(s, e) \in Seq(S) /\ Len(Append(s, e)) = n + 1
  BY <1>1
<1>3. ASSUME NEW i \in 1 .. n + 1 PROVE t[i] = Append(s, e)[i]
  <2>1. CASE i \in 1 .. n
    BY <1>1, <2>1
  <2>2. CASE i = n + 1
    BY <1>1, <2>2
  <2> QED
    BY <1>1, <2>1, <2>2
<1> QED
  BY <1>1, <1>2, <1>3

(* input_queue_push (input.c) accepts the event at the end of the queue,   *)
(* or counts it when the queue is full.                                    *)
LEMMA PushStep ==
  ASSUME RingInv, NEW e \in Event, input_queue_push(e)
  PROVE  RingInv' /\ Fifo!Next
<1>1. /\ INPUT_EVENT_QUEUE_SIZE \in Nat \ {0} /\ count \in 0 .. INPUT_EVENT_QUEUE_SIZE
      /\ head \in Slots /\ queue \in [Slots -> Event]
  BY InputAssumption DEF RingInv
<1>0. Queued = Window(queue, head, count)
  BY DEF Queued, Window
<1>2. /\ Queued \in Seq(Event) /\ Len(Queued) = count
      /\ \A i \in 1 .. count : Queued[i] = queue[Place(head, i)]
  BY <1>0, <1>1, WindowFacts
<1>3. CASE QueueFull
  <2>1. /\ UNCHANGED <<queue, head, tail, count, high_water>>
        /\ overflow' = overflow + 1 /\ count = INPUT_EVENT_QUEUE_SIZE
    BY <1>1, <1>3 DEF input_queue_push, QueueFull
  <2>2. Queued' = Queued
    BY <2>1 DEF Queued
  <2>3. Fifo!Overflow
    BY <1>2, <2>1, <2>2 DEF Fifo!Overflow
  <2> QED
    BY <2>1, <2>3 DEF RingInv, Fifo!Next
<1>4. CASE ~QueueFull
  <2>1. /\ queue' = [queue EXCEPT ![tail] = e] /\ tail' = After(tail)
        /\ count' = count + 1 /\ head' = head /\ overflow' = overflow
        /\ high_water' = IF count' > high_water THEN count' ELSE high_water
        /\ count + 1 \in 1 .. INPUT_EVENT_QUEUE_SIZE
    BY <1>1, <1>4 DEF input_queue_push, QueueFull
  <2>2. tail = Place(head, count + 1) /\ tail \in Slots
    BY <1>1, <2>1, Places DEF RingInv, Place
  <2>3. tail' = (head' + count') % INPUT_EVENT_QUEUE_SIZE
    BY <1>1, <2>1, Places DEF RingInv
  <2>4. queue' \in [Slots -> Event]
    BY <1>1, <2>1
  <2>5. RingInv'
    BY <1>1, <2>1, <2>3, <2>4 DEF RingInv, Slots
  <2>6. /\ Queued' \in Seq(Event) /\ Len(Queued') = count + 1
        /\ \A i \in 1 .. count + 1 : Queued'[i] = queue'[Place(head, i)]
    <3>1. PICK slots \in [Slots -> Event] : slots = queue'
      BY <2>4
    <3>2. PICK n \in 0 .. INPUT_EVENT_QUEUE_SIZE : n = count + 1
      BY <1>1, <2>1
    <3>3. Queued' = Window(slots, head, n)
      BY <2>1, <3>1, <3>2 DEF Queued, Window
    <3> QED
      BY <1>1, <3>1, <3>2, <3>3, WindowFacts
  <2>7. \A i \in 1 .. count : Queued'[i] = Queued[i]
    <3> SUFFICES ASSUME NEW i \in 1 .. count PROVE Queued'[i] = Queued[i]
      OBVIOUS
    <3>1. Place(head, i) \in Slots /\ Place(head, i) # tail
      BY <1>1, <2>1, <2>2, Places
    <3> QED
      BY <1>1, <1>2, <2>1, <2>6, <3>1
  <2>8. Queued'[count + 1] = e
    BY <1>1, <2>1, <2>2, <2>6
  <2>9. Queued' = Append(Queued, e)
    <3>1. PICK old \in Seq(Event), new \in Seq(Event) : old = Queued /\ new = Queued'
      BY <1>2, <2>6
    <3>2. /\ Len(new) = Len(old) + 1 /\ new[Len(old) + 1] = e
          /\ \A i \in 1 .. Len(old) : new[i] = old[i]
      BY <1>2, <2>6, <2>7, <2>8, <3>1
    <3>3. new = Append(old, e)
      BY <3>2, OneMore
    <3> QED
      BY <3>1, <3>3
  <2>10. Fifo!Push(e)
    <3>1. Len(Queued) < INPUT_EVENT_QUEUE_SIZE
      BY <1>1, <1>2, <2>1
    <3>2. Len(Queued') = count'
      BY <2>1, <2>6
    <3>3. high_water' = IF Len(Queued') > high_water THEN Len(Queued') ELSE high_water
      BY <2>1, <3>2
    <3> QED
      BY <2>1, <2>9, <3>1, <3>3 DEF Fifo!Push
  <2> QED
    BY <2>5, <2>10 DEF Fifo!Next
<1> QED
  BY <1>3, <1>4

(* input_queue_poll (input.c) takes the event at the front. *)
LEMMA PollStep ==
  ASSUME RingInv, input_queue_poll
  PROVE  RingInv' /\ Fifo!Next
<1>1. /\ INPUT_EVENT_QUEUE_SIZE \in Nat \ {0} /\ count \in 1 .. INPUT_EVENT_QUEUE_SIZE
      /\ head \in Slots /\ queue \in [Slots -> Event]
      /\ tail = (head + count) % INPUT_EVENT_QUEUE_SIZE
  BY InputAssumption DEF RingInv, input_queue_poll
<1>2. /\ queue' = queue /\ tail' = tail /\ head' = After(head) /\ count' = count - 1
      /\ UNCHANGED <<overflow, high_water>>
  BY DEF input_queue_poll
<1>0. Queued = Window(queue, head, count)
  BY DEF Queued, Window
<1>3. /\ Queued \in Seq(Event) /\ Len(Queued) = count
      /\ \A i \in 1 .. count : Queued[i] = queue[Place(head, i)]
  BY <1>0, <1>1, WindowFacts
<1>4. After(head) \in Slots /\ count - 1 \in 0 .. INPUT_EVENT_QUEUE_SIZE
  BY <1>1, Places
<1>5. /\ Queued' \in Seq(Event) /\ Len(Queued') = count - 1
      /\ \A i \in 1 .. count - 1 : Queued'[i] = queue[Place(After(head), i)]
  <2>1. PICK from \in Slots, n \in 0 .. INPUT_EVENT_QUEUE_SIZE :
          from = After(head) /\ n = count - 1
    BY <1>4
  <2>2. Queued' = Window(queue, from, n)
    BY <1>2, <2>1 DEF Queued, Window
  <2> QED
    BY <1>1, <2>1, <2>2, WindowFacts
<1>6. \A i \in 1 .. count - 1 : Queued'[i] = Queued[i + 1]
  <2> SUFFICES ASSUME NEW i \in 1 .. count - 1 PROVE Queued'[i] = Queued[i + 1]
    OBVIOUS
  <2>1. i \in 1 .. INPUT_EVENT_QUEUE_SIZE /\ i + 1 \in 1 .. count
    BY <1>1
  <2>2. Place(After(head), i) = Place(head, i + 1)
    BY <1>1, <2>1, Places
  <2> QED
    BY <1>3, <1>5, <2>1, <2>2
<1>7. Queued' = Tail(Queued) /\ Queued # <<>>
  BY <1>1, <1>3, <1>5, <1>6
<1>8. tail' = (head' + count') % INPUT_EVENT_QUEUE_SIZE
  <2>1. (After(head) + count - 1) % INPUT_EVENT_QUEUE_SIZE = (head + (count + 1) - 1) % INPUT_EVENT_QUEUE_SIZE
    BY <1>1, Places DEF Place
  <2>2. After(head) + (count - 1) = After(head) + count - 1 /\ head + (count + 1) - 1 = head + count
    BY <1>1, <1>4 DEF Slots
  <2> QED
    BY <1>1, <1>2, <2>1, <2>2
<1>9. RingInv'
  BY <1>1, <1>2, <1>4, <1>8 DEF RingInv, Slots
<1>10. Fifo!Pop
  BY <1>2, <1>7 DEF Fifo!Pop
<1> QED
  BY <1>9, <1>10 DEF Fifo!Next

(* A step that leaves the ring alone. *)
LEMMA RingKept ==
  ASSUME RingInv, UNCHANGED ring
  PROVE  RingInv' /\ UNCHANGED <<Queued, overflow, high_water>>
BY DEF RingInv, Queued, ring, Slots

(* Sequences of no event and of one. *)
LEMMA OneEvent == <<>> \in Seq(Event) /\ \A e \in Event : <<e>> \in Seq(Event)
  OBVIOUS

(* The decoder pushes keys, and keeps a state of its own. *)
LEMMA InjectType ==
  ASSUME NEW s \in [state : EscState, digit : Digits], NEW c \in Byte
  PROVE  /\ input_inject_byte(s, c).keys \in Seq(Event)
         /\ input_inject_byte(s, c).esc \in [state : EscState, digit : Digits]
<1>1. /\ Plain(s, c).keys \in Seq(Event) /\ Plain(s, c).esc \in [state : EscState, digit : Digits]
      /\ Plain(s, c) = [esc |-> Plain(s, c).esc, keys |-> Plain(s, c).keys]
  <2>1. c \in Event
    BY DEF Event, Key
  <2>2. CASE c = "esc"
    <3>1. Plain(s, c) = [esc |-> [s EXCEPT !.state = "esc"], keys |-> <<>>]
      BY <2>2 DEF Plain
    <3> QED
      BY <3>1, OneEvent DEF EscState
  <2>3. CASE c # "esc"
    <3>1. Plain(s, c) = [esc |-> [s EXCEPT !.state = "idle"], keys |-> <<c>>]
      BY <2>3 DEF Plain
    <3>2. <<c>> \in Seq(Event)
      BY <2>1, OneEvent
    <3>3. [s EXCEPT !.state = "idle"] \in [state : EscState, digit : Digits]
      BY DEF EscState
    <3> QED
      BY <3>1, <3>2, <3>3
  <2> QED
    BY <2>2, <2>3
<1>2. /\ <<"esc">> \in Seq(Event) /\ <<>> \in Seq(Event)
      /\ <<"esc">> \o Plain(s, c).keys \in Seq(Event)
  BY <1>1 DEF Event, Key, Byte
<1>3. push_escape_key(c) \in Seq(Event) /\ push_escape_tilde(s.digit) \in Seq(Event)
  <2>1. "up" \in Event /\ "delete" \in Event
    BY DEF Event, Key, NavKeys
  <2>2. <<"up">> \in Seq(Event) /\ <<"delete">> \in Seq(Event) /\ <<>> \in Seq(Event)
    BY <2>1, OneEvent
  <2> QED
    BY <2>2 DEF push_escape_key, push_escape_tilde
<1>4. CASE s.state = "idle"
  <2>1. input_inject_byte(s, c) = Plain(s, c)
    BY <1>4 DEF input_inject_byte
  <2> QED
    BY <1>1, <2>1
<1>5. CASE s.state = "esc" /\ c = "["
  <2>1. input_inject_byte(s, c) = [esc |-> [s EXCEPT !.state = "bracket"], keys |-> <<>>]
    BY <1>5 DEF input_inject_byte
  <2> QED
    BY <1>2, <2>1 DEF EscState
<1>6. CASE s.state = "esc" /\ c # "["
  <2>1. input_inject_byte(s, c) = [Plain(s, c) EXCEPT !.keys = <<"esc">> \o @]
    BY <1>6 DEF input_inject_byte
  <2> QED
    BY <1>1, <1>2, <2>1
<1>7. CASE s.state = "bracket" /\ c \in Digits
  <2>1. input_inject_byte(s, c) = [esc |-> [state |-> "digit", digit |-> c], keys |-> <<>>]
    BY <1>7 DEF input_inject_byte
  <2> QED
    BY <1>2, <1>7, <2>1 DEF EscState
<1>8. CASE s.state = "bracket" /\ c \notin Digits
  <2>1. input_inject_byte(s, c) = [esc |-> [s EXCEPT !.state = "idle"], keys |-> push_escape_key(c)]
    BY <1>8 DEF input_inject_byte
  <2> QED
    BY <1>3, <2>1 DEF EscState
<1>9. CASE s.state = "digit"
  <2>1. input_inject_byte(s, c) =
          [esc |-> [s EXCEPT !.state = "idle"],
           keys |-> IF c = "~" THEN push_escape_tilde(s.digit) ELSE <<>>]
    BY <1>9 DEF input_inject_byte
  <2> QED
    BY <1>2, <1>3, <2>1 DEF EscState
<1> QED
  BY <1>4, <1>5, <1>6, <1>7, <1>8, <1>9 DEF EscState

(* A command line typed at the console queues at most one event. *)
LEMMA ConsoleType ==
  ASSUME NEW e, console_poll_char(e)
  PROVE  TodoType'
<1>1. "A" \in Event /\ "move" \in Event
  BY DEF Event, Key, Byte
<1>2. <<"A">> \in Seq(Event) /\ <<"move">> \in Seq(Event) /\ <<>> \in Seq(Event)
  BY <1>1, OneEvent
<1>3. todo' \in {<<>>, <<"A">>, <<"move">>}
  BY DEF console_poll_char
<1> QED
  BY <1>2, <1>3 DEF TodoType

(* Initially the ring is empty. *)
LEMMA InputInvInit == InputInit => InputInv /\ Fifo!Init
<1> SUFFICES ASSUME InputInit PROVE InputInv /\ Fifo!Init
  OBVIOUS
<1>1. INPUT_EVENT_QUEUE_SIZE \in Nat \ {0} /\ (0 + 0) % INPUT_EVENT_QUEUE_SIZE = 0
  BY InputAssumption, Lap
<1>2. RingInv
  BY <1>1 DEF InputInit, RingInv, Slots, Event
<1>3. EscType /\ TodoType
  BY DEF InputInit, EscType, TodoType, Idle, EscState, Digits
<1>4. Queued = <<>>
  BY DEF InputInit, Queued
<1> QED
  BY <1>2, <1>3, <1>4 DEF InputInit, InputInv, Fifo!Init

(* Every action keeps the invariant, and is a step of the abstract queue   *)
(* or none of its business.                                                *)
LEMMA InputStep ==
  ASSUME InputInv, [InputNext]_inputvars
  PROVE  InputInv' /\ [Fifo!Next]_<<Queued, overflow, high_water>>
<1> USE DEF InputInv
<1>1. ASSUME NEW c \in {"esc", "[", "A", "x"}, uart_irq_handler(c)
      PROVE  InputInv' /\ UNCHANGED <<Queued, overflow, high_water>>
  <2>1. c \in Byte
    BY DEF Byte
  <2>2. EscType' /\ TodoType'
    BY <1>1, <2>1, InjectType DEF uart_irq_handler, EscType, TodoType
  <2> QED
    BY <1>1, <2>2, RingKept DEF uart_irq_handler
<1>2. CASE kernel_io_poll_input_sources("move")
  <2>1. TodoType' /\ EscType'
    BY <1>2, OneEvent DEF kernel_io_poll_input_sources, TodoType, EscType, Event
  <2> QED
    BY <1>2, <2>1, RingKept DEF kernel_io_poll_input_sources
<1>3. CASE PushNext
  <2>1. Head(todo) \in Event /\ Tail(todo) \in Seq(Event)
    BY <1>3 DEF PushNext, TodoType
  <2>2. RingInv' /\ Fifo!Next
    BY <1>3, <2>1, PushStep DEF PushNext
  <2> QED
    BY <1>3, <2>1, <2>2 DEF PushNext, TodoType, EscType
<1>4. CASE StartPump
  BY <1>4, RingKept DEF StartPump, TodoType, EscType
<1>5. CASE syscall_pump_input
  <2>1. EscType'
    BY <1>5 DEF syscall_pump_input, EscType
  <2>2. CASE count = 0
    BY <1>5, <2>1, <2>2, RingKept DEF syscall_pump_input, TodoType
  <2>3. CASE count # 0
    <3>1. input_queue_poll /\ (console_poll_char(queue[head]) \/ UNCHANGED todo)
      BY <1>5, <2>3 DEF syscall_pump_input
    <3>2. RingInv' /\ Fifo!Next
      BY <3>1, PollStep
    <3>3. TodoType'
      BY <3>1, ConsoleType DEF TodoType
    <3> QED
      BY <2>1, <3>2, <3>3
  <2> QED
    BY <2>2, <2>3
<1>6. CASE sys_read
  <2>1. RingInv' /\ Fifo!Next
    BY <1>6, PollStep DEF sys_read
  <2> QED
    BY <1>6, <2>1 DEF sys_read, TodoType, EscType
<1>7. CASE StartPass
  BY <1>7, RingKept DEF StartPass, TodoType, EscType
<1>8. CASE poll_input_events
  <2>1. TodoType' /\ EscType'
    BY <1>8 DEF poll_input_events, TodoType, EscType
  <2>2. CASE UNCHANGED ring
    BY <2>1, <2>2, RingKept
  <2>3. CASE input_queue_poll
    BY <2>1, <2>3, PollStep
  <2> QED
    BY <1>8, <2>2, <2>3 DEF poll_input_events
<1>9. CASE ThreadPeek
  BY <1>9, RingKept DEF ThreadPeek, TodoType, EscType
<1>10. CASE ThreadPoll
  <2>1. EscType'
    BY <1>10 DEF ThreadPoll, EscType
  <2>2. TodoType'
    BY <1>10, ConsoleType DEF ThreadPoll, TodoType
  <2>3. CASE UNCHANGED ring
    BY <2>1, <2>2, <2>3, RingKept
  <2>4. CASE input_queue_poll
    BY <2>1, <2>2, <2>4, PollStep
  <2> QED
    BY <1>10, <2>3, <2>4 DEF ThreadPoll
<1>11. CASE UNCHANGED inputvars
  BY <1>11, RingKept DEF inputvars, TodoType, EscType
<1> QED
  BY <1>1, <1>2, <1>3, <1>4, <1>5, <1>6, <1>7, <1>8, <1>9, <1>10, <1>11 DEF InputNext

(* The ring implements the queue that input.h promises. *)
THEOREM FifoCorrect == InputSpec => IsFifo
<1>1. InputInv /\ [InputNext]_inputvars => InputInv'
  BY InputStep
<1>2. InputInv /\ [InputNext]_inputvars => [Fifo!Next]_<<Queued, overflow, high_water>>
  BY InputStep
<1> QED
  BY <1>1, <1>2, InputInvInit, PTL DEF InputSpec, IsFifo, Fifo!Spec
=============================================================================
