------------------------------ MODULE Storage -------------------------------
(***************************************************************************)
(* Sectors of the disk: the virtio driver (drivers/storage/virtio_blk.c)   *)
(* with the one request it has at a time, the checked ranges of block      *)
(* devices and of views on them (block_device.c), the partition table      *)
(* (mbr.c) and the search for a FAT volume at boot (kernel/kernel.c).      *)
(*                                                                         *)
(* The driver spins until the disk has answered, or gives up.  The disk    *)
(* works between any two of its looks, and still on a request that the     *)
(* driver has given up.                                                    *)
(***************************************************************************)
EXTENDS Integers, Sequences

CONSTANTS
  Capacity,            \* sectors of the disk
  WordMax, LbaMax,     \* UINT64_MAX, UINT32_MAX
  Contents,            \* what a sector can hold
  TableOf,             \* the partition table in each content; empty: no signature
  TotalOf,             \* total_sectors of the FAT volume that it begins; 0: none
  Data,                \* contents that files are written with
  Disks,               \* the disks at boot
  RingMod,             \* values of a ring index
  MaxCount,            \* bound on the sectors of one transfer
  MaxTimeouts, MaxErrors,
  MaxCalls,            \* bound on the transfers after boot
  Nil

Sector == 0 .. Capacity - 1
Entry == [fat32 : BOOLEAN, start_lba : Nat, sector_count : Nat]

ASSUME StorageAssumption ==
  /\ Capacity \in Nat /\ WordMax \in Nat /\ LbaMax \in Nat
  /\ MaxCount \in Nat \ {0}
  /\ RingMod \in Nat /\ RingMod > 1
  /\ Data \subseteq Contents /\ Disks \subseteq [Sector -> Contents]
  /\ TableOf \in [Contents -> Seq(Entry)]
  /\ Nil \notin 0 .. WordMax /\ Capacity <= WordMax

VARIABLES
  probe,               \* where probe_storage is; "spin" in a request
  g_storage_device, g_fat32_partition_view,
  g_fat32_fs,          \* the device the volume was mounted from
  call, reply,         \* the transfer that runs; the last one and its result
  g_request, g_status, \* with the descriptors
  g_avail, g_used, blk_last_used_idx,   \* the last is last_used_idx of the driver
  memory,              \* the caller's buffers
  disk, seen, fetched, \* external: sectors, position, request in work
  timeouts, errors, calls

blkvars == <<probe, g_storage_device, g_fat32_partition_view, g_fat32_fs, call, reply, g_request,
          g_status, g_avail, g_used, blk_last_used_idx, memory, disk, seen, fetched,
          timeouts, errors, calls>>

BufferSlots == {"fs", "stack"} \X (0 .. MaxCount - 1)   \* buffers, sector by sector
Succ(idx) == (idx + 1) % RingMod
-----------------------------------------------------------------------------
(* Block devices.  base is Nil unless the device is a view. *)
Device(base, count) == [base |-> base, block_count |-> count]

block_device_range_valid(device, first_block, block_count) ==
  IF block_count = 0 THEN first_block <= device.block_count
  ELSE /\ first_block < device.block_count
       /\ block_count <= device.block_count - first_block

(* block_device_view_read and _write: the block of the parent, or Nil. *)
ParentBlock(view, first_block) ==
  IF first_block > WordMax - view.base THEN Nil ELSE view.base + first_block

(* Fault: a view leaves the check to the device below. *)
FirstSector_ParentOnly(device, first_block, block_count) ==
  LET block == IF device.base = Nil THEN first_block ELSE ParentBlock(device, first_block)
  IN IF /\ block # Nil
        /\ block_device_range_valid(g_storage_device, block, block_count)
     THEN block ELSE Nil

(* block_device_read and _write down to the disk's driver: the first       *)
(* sector, or Nil when a check refuses.                                   *)
FirstSector(device, first_block, block_count) ==
  IF ~block_device_range_valid(device, first_block, block_count) THEN Nil
  ELSE IF device.base = Nil THEN first_block
  ELSE LET block == ParentBlock(device, first_block)
       IN IF /\ block # Nil
             /\ block_device_range_valid(g_storage_device, block, block_count)
          THEN block ELSE Nil

block_device_view_init(parent, base_block, block_count) ==
  IF \/ block_count = 0 \/ base_block >= parent.block_count
     \/ block_count > parent.block_count - base_block
  THEN Nil ELSE Device(base_block, block_count)

(* The first entry of a known type that does not wrap. *)
mbr_find_fat32_partition(table) ==
  LET usable == {n \in DOMAIN table :
                   /\ table[n].fat32 /\ table[n].start_lba # 0 /\ table[n].sector_count # 0
                   /\ table[n].start_lba <= LbaMax - (table[n].sector_count - 1)}
  IN IF usable = {} THEN Nil ELSE table[CHOOSE n \in usable : \A m \in usable : n <= m]
-----------------------------------------------------------------------------
(* Transfers. *)

NoCall == [op |-> "none", of |-> Nil, sector |-> 0, block_count |-> 0, i |-> 0,
           buffer |-> Nil, then |-> "idle"]

NoReply == [call |-> NoCall, rc |-> 0]

(* virtio_blk_read_sector, virtio_blk_write_sector up to the wait; `of` is *)
(* history: the device the caller named.                                   *)
(* While it writes the request, a disk that still has to read the one      *)
(* given up before sees some of the new fields and some of the old.        *)
Torn(old, new) ==
  {[old EXCEPT !.type = new.type], [new EXCEPT !.buffer = old.buffer]}

Submit(c) ==
  LET request == [type |-> c.op, sector |-> c.sector + c.i, buffer |-> <<c.buffer, c.i>>,
                  of |-> c.of]
  IN /\ g_request' = request
     /\ \/ UNCHANGED <<seen, fetched>>
        \/ /\ seen # g_avail /\ fetched = Nil
           /\ seen' = Succ(seen) /\ fetched' \in Torn(g_request, request)
  /\ call' = c
  /\ g_status' = "pending"
  /\ g_avail' = Succ(g_avail)
  /\ probe' = "spin" /\ reply' = NoReply

Result(c, rc) == reply' = [call |-> c, rc |-> rc] /\ call' = NoCall /\ probe' = c.then

(* block_device_read and block_device_write of a device, for a caller that *)
(* goes on at `then`.                                                      *)
Transfer(op, device, first_block, block_count, buffer, then) ==
  LET first == FirstSector(device, first_block, block_count)
      c == [op |-> op, of |-> device, sector |-> first, block_count |-> block_count, i |-> 0,
            buffer |-> buffer, then |-> then]
  IN IF first = Nil \/ block_count = 0
     THEN /\ Result([c EXCEPT !.sector = 0], IF first = Nil THEN -1 ELSE 0)
          /\ UNCHANGED <<g_request, g_status, g_avail, seen, fetched, blk_last_used_idx>>
     ELSE Submit(c) /\ UNCHANGED blk_last_used_idx

(* Fault: the answer is seen and not counted. *)
BlkSpinDone_NotCounted ==
  /\ probe = "spin" /\ g_used # blk_last_used_idx
  /\ UNCHANGED blk_last_used_idx
  /\ Result(call, 0)
  /\ UNCHANGED <<g_request, g_status, g_avail, g_storage_device, g_fat32_partition_view,
                 g_fat32_fs, memory, disk, g_used, seen, fetched, timeouts, errors, calls>>

(* The loop of virtio_blk_block_device_read and _write over the sectors.   *)
BlkSpinDone ==
  /\ probe = "spin" /\ g_used # blk_last_used_idx
  /\ IF g_status = "ok" /\ call.i + 1 < call.block_count
     THEN Submit([call EXCEPT !.i = @ + 1])
     ELSE /\ Result(call, IF g_status = "ok" THEN 0 ELSE -1)
          /\ UNCHANGED <<g_request, g_status, g_avail, seen, fetched>>
  /\ blk_last_used_idx' = g_used
  /\ UNCHANGED <<g_storage_device, g_fat32_partition_view, g_fat32_fs, memory, disk, g_used,
                 timeouts, errors, calls>>

(* VIRTIO_BLK_POLL_LIMIT *)
BlkSpinLimit ==
  /\ probe = "spin" /\ g_used = blk_last_used_idx /\ timeouts < MaxTimeouts
  /\ timeouts' = timeouts + 1
  /\ Result(call, -1)
  /\ UNCHANGED <<g_storage_device, g_fat32_partition_view, g_fat32_fs, g_request, g_status,
                 g_avail, g_used, blk_last_used_idx, memory, disk, seen, fetched, errors, calls>>
-----------------------------------------------------------------------------
(* Boot. *)
driver == <<call, reply, g_request, g_status, g_avail, blk_last_used_idx, seen, fetched>>
diskstate == <<g_used, disk, errors>>

board_storage_init ==
  /\ probe = "boot"
  /\ \/ /\ g_storage_device' = Device(Nil, Capacity)
        /\ probe' = "probe"
     \/ probe' = "off" /\ UNCHANGED g_storage_device
  /\ UNCHANGED <<g_fat32_partition_view, g_fat32_fs, driver, memory, diskstate, timeouts, calls>>

(* fat32_mount_device once it has read its first sector into fs->sector. *)
fat32_mount_device(d) ==
  LET total == TotalOf[memory[<<"fs", 0>>]]
  IN reply.rc = 0 /\ total # 0 /\ total <= d.block_count

probe_storage ==
  /\ probe = "probe"
  /\ Transfer("read", g_storage_device, 0, 1, "stack", "s0")
  /\ UNCHANGED <<g_storage_device, g_fat32_partition_view, g_fat32_fs, memory, diskstate,
                 timeouts, calls>>

(* probe_fat32: the whole disk first. *)
MountDisk ==
  /\ probe = "s0"
  /\ IF reply.rc = 0 THEN Transfer("read", g_storage_device, 0, 1, "fs", "whole")
     ELSE /\ probe' = "idle"
          /\ UNCHANGED driver
  /\ UNCHANGED <<g_storage_device, g_fat32_partition_view, g_fat32_fs, memory, diskstate,
                 timeouts, calls>>

(* mbr_open_fat32_partition up to its read. *)
ReadTable ==
  /\ probe = "whole"
  /\ IF fat32_mount_device(g_storage_device)
     THEN /\ g_fat32_fs' = g_storage_device /\ probe' = "idle"
          /\ UNCHANGED driver
     ELSE /\ Transfer("read", g_storage_device, 0, 1, "stack", "mbr")
          /\ UNCHANGED g_fat32_fs
  /\ UNCHANGED <<g_storage_device, g_fat32_partition_view, memory, diskstate, timeouts, calls>>

(* ... and after it. *)
mbr_open_fat32_partition ==
  LET partition == mbr_find_fat32_partition(TableOf[memory[<<"stack", 0>>]])
      view == block_device_view_init(g_storage_device, partition.start_lba,
                                     partition.sector_count)
  IN /\ probe = "mbr"
     /\ IF reply.rc = 0 /\ partition # Nil /\ view # Nil
        THEN /\ g_fat32_partition_view' = view
             /\ Transfer("read", view, 0, 1, "fs", "partition")
        ELSE /\ probe' = "idle"
             /\ UNCHANGED <<g_fat32_partition_view, driver>>
     /\ UNCHANGED <<g_storage_device, g_fat32_fs, memory, diskstate, timeouts, calls>>

MountPartition ==
  /\ probe = "partition"
  /\ g_fat32_fs' = IF fat32_mount_device(g_fat32_partition_view) THEN g_fat32_partition_view
                   ELSE Nil
  /\ probe' = "idle"
  /\ UNCHANGED <<g_storage_device, g_fat32_partition_view, driver, memory, diskstate, timeouts,
                 calls>>
-----------------------------------------------------------------------------
Counted == calls < MaxCalls /\ calls' = calls + 1

(* The volume's sectors, numbered by 32 bits. *)
fat32_device_read_sector(lba) ==
  /\ probe = "idle" /\ g_fat32_fs # Nil /\ Counted
  /\ Transfer("read", g_fat32_fs, lba, 1, "fs", "idle")
  /\ UNCHANGED <<g_storage_device, g_fat32_partition_view, g_fat32_fs, memory, diskstate, timeouts>>

fat32_device_write_sector(lba, content) ==
  /\ probe = "idle" /\ g_fat32_fs # Nil /\ Counted
  /\ memory' = [memory EXCEPT ![<<"fs", 0>>] = content]
  /\ Transfer("write", g_fat32_fs, lba, 1, "fs", "idle")
  /\ UNCHANGED <<g_storage_device, g_fat32_partition_view, g_fat32_fs, diskstate, timeouts>>

(* The legacy entry points of the board take several sectors, or none.     *)
BoardTransfer(op, lba, count) ==
  /\ probe = "idle" /\ g_storage_device # Nil /\ Counted
  /\ IF count = 0
     THEN /\ Result([NoCall EXCEPT !.op = op], 0)
          /\ UNCHANGED <<g_request, g_status, g_avail, seen, fetched, blk_last_used_idx>>
     ELSE Transfer(op, g_storage_device, lba, count, "stack", "idle")
  /\ UNCHANGED <<g_storage_device, g_fat32_partition_view, g_fat32_fs, memory, diskstate, timeouts>>

board_storage_read(lba, count) == BoardTransfer("read", lba, count)

board_storage_write(lba, count) == BoardTransfer("write", lba, count)
-----------------------------------------------------------------------------
(* The disk, working on one request at a time: it reads a request with its *)
(* descriptors, and later works.                                           *)
Fetch ==
  /\ seen # g_avail /\ fetched = Nil
  /\ seen' = Succ(seen) /\ fetched' = g_request
  /\ UNCHANGED <<probe, g_storage_device, g_fat32_partition_view, g_fat32_fs, call, reply,
                 g_request, g_status, g_avail, g_used, blk_last_used_idx, memory, disk, timeouts,
                 errors, calls>>

Complete ==
  /\ fetched # Nil /\ fetched.sector \in Sector
  /\ g_status' = "ok" /\ g_used' = Succ(g_used) /\ fetched' = Nil
  /\ IF fetched.type = "read"
     THEN memory' = [memory EXCEPT ![fetched.buffer] = disk[fetched.sector]] /\ disk' = disk
     ELSE disk' = [disk EXCEPT ![fetched.sector] = memory[fetched.buffer]] /\ memory' = memory
  /\ UNCHANGED <<probe, g_storage_device, g_fat32_partition_view, g_fat32_fs, call, reply,
                 g_request, g_avail, blk_last_used_idx, seen, timeouts, errors, calls>>

Refuse ==
  /\ fetched # Nil /\ (fetched.sector \notin Sector \/ errors < MaxErrors)
  /\ g_status' = "error" /\ g_used' = Succ(g_used) /\ fetched' = Nil
  /\ errors' = IF fetched.sector \in Sector THEN errors + 1 ELSE errors
  /\ UNCHANGED <<probe, g_storage_device, g_fat32_partition_view, g_fat32_fs, call, reply,
                 g_request, g_avail, blk_last_used_idx, memory, disk, seen, timeouts, calls>>
-----------------------------------------------------------------------------
Lbas == 0 .. LbaMax

BlkInit ==
  /\ probe = "boot" /\ g_storage_device = Nil /\ g_fat32_partition_view = Nil
  /\ g_fat32_fs = Nil /\ call = NoCall /\ reply = NoReply
  /\ g_request = Nil /\ g_status = "pending"
  /\ g_avail = 0 /\ g_used = 0 /\ blk_last_used_idx = 0 /\ seen = 0 /\ fetched = Nil
  /\ \E content \in Data : memory = [slot \in BufferSlots |-> content]
  /\ disk \in Disks
  /\ timeouts = 0 /\ errors = 0 /\ calls = 0

BlkNext ==
  \/ board_storage_init \/ probe_storage \/ MountDisk \/ ReadTable
  \/ mbr_open_fat32_partition \/ MountPartition
  \/ \E lba \in Lbas :
       \/ fat32_device_read_sector(lba)
       \/ \E content \in Data : fat32_device_write_sector(lba, content)
       \/ \E count \in 0 .. MaxCount :
            board_storage_read(lba, count) \/ board_storage_write(lba, count)
  \/ BlkSpinDone \/ BlkSpinLimit
  \/ Fetch \/ Complete \/ Refuse

BlkSpec == BlkInit /\ [][BlkNext]_blkvars
-----------------------------------------------------------------------------
(* The sectors of a device. *)
Blocks(d) ==
  Sector \cap (IF d.base = Nil THEN Sector ELSE d.base .. d.base + d.block_count - 1)

(* Whatever a partition table says, whatever is asked for and whatever     *)
(* times out, the disk is only given sectors of the device that the caller *)
(* named: the volume never reaches beyond its partition, nor does a late   *)
(* request (block_device.c:142, mbr.c:44).                                  *)
Bounded ==
  /\ fetched # Nil => fetched.sector \in Blocks(fetched.of)
  /\ g_avail # seen => g_request.sector \in Blocks(g_request.of)

(* Until the driver gives up on a request, a transfer that reports success *)
(* has moved all its sectors: buffer and disk agree.  After it has given   *)
(* up, the late answer is taken for that of the next request               *)
(* (virtio_blk.c:256), and nothing is promised.                            *)
Transferred ==
  timeouts = 0 /\ reply.rc = 0 =>
    \A i \in 0 .. reply.call.block_count - 1 :
      memory[<<reply.call.buffer, i>>] = disk[reply.call.sector + i]
=============================================================================
