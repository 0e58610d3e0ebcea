------------------------------- MODULE Fat32 -------------------------------
(***************************************************************************)
(* The FAT32 volume of kernel/fat32.c and kernel/fat32_directory.c, as     *)
(* operators from a volume to a volume.  The module has no state of its    *)
(* own: Vfs holds the volume and calls these operators.                    *)
(*                                                                         *)
(* A volume is a record:                                                   *)
(*   fat   the copies of the file allocation table,                        *)
(*   dir   the slots of each directory cluster,                            *)
(*   data  the bytes of each cluster,                                      *)
(*   ok    FALSE once the operation has failed,                            *)
(*   left  sector writes that the device will still carry out; -1 once it  *)
(*         has refused one.                                                *)
(* An operation stops where the device refuses, with what it had written   *)
(* on the volume.  Reads succeed: a refused read ends an operation before  *)
(* the write that follows it, as if that write were refused.  One case is  *)
(* left out: fat32_create and fat32_rename take a read error of            *)
(* fat32_open_root for the absence of the name, and go on.                 *)
(***************************************************************************)
EXTENDS Integers, Sequences, FiniteSets, FiniteSetsExt

CONSTANTS
  FatCount,            \* copies of the table
  ClusterCount,
  RootCluster,
  SectorBytes,         \* FAT32_SECTOR_SIZE
  SectorsPerCluster,
  DirSlots,            \* directory entries in one sector
  ShortName            \* the 8.3 name of each name that has one

FAT32_CLUSTER_EOC == 268435448
FAT32_CLUSTER_BAD == 268435447
Failed == -1

Cluster == 2 .. ClusterCount + 1
ClusterBytes == SectorsPerCluster * SectorBytes
SlotsPerCluster == SectorsPerCluster * DirSlots

cluster_is_eoc(cluster) == cluster >= FAT32_CLUSTER_EOC
cluster_is_data(cluster) == cluster >= 2 /\ cluster - 2 < ClusterCount

Least(a, b) == IF a < b THEN a ELSE b

(* Use(value), where the bound variable makes TLC compute the value once. *)
With(value, Use(_)) == CHOOSE used \in {Use(x) : x \in {value}} : TRUE

(* A bounded loop: the state after turns 1 to n, from `start`. *)
Loop(Turn(_, _), start, n) ==
  LET After[i \in 0 .. n] ==
        IF i = 0 THEN start ELSE Turn(After[i - 1], i)
  IN After[n]

(* Every error return of the operations below. *)
Fail(v) == [v EXCEPT !.ok = FALSE]

(* write_sector: `changed` is the volume with the sector written. *)
write_sector(v, changed) ==
  IF ~v.ok THEN v
  ELSE IF v.left > 0 THEN [changed EXCEPT !.left = v.left - 1]
  ELSE [v EXCEPT !.ok = FALSE, !.left = -1]
-----------------------------------------------------------------------------
(* The table.  It is read from the first copy and written to all of them.  *)

read_fat_entry(v, cluster, chain) ==
  IF \/ ~cluster_is_data(cluster)
     \/ v.fat[1][cluster] = FAT32_CLUSTER_BAD
     \/ /\ chain
        /\ ~cluster_is_eoc(v.fat[1][cluster])
        /\ ~cluster_is_data(v.fat[1][cluster])
  THEN Failed
  ELSE v.fat[1][cluster]

write_fat_entry(v, cluster, value) ==
  LET Copy(u, n) == write_sector(u, [u EXCEPT !.fat[n][cluster] = value])
  IN IF /\ cluster_is_data(cluster)
        /\ value = 0 \/ cluster_is_eoc(value) \/ cluster_is_data(value)
     THEN Loop(Copy, v, FatCount)
     ELSE Fail(v)

(* The first free cluster.  A bad cluster before it ends the search. *)
find_free_cluster(v) ==
  LET stops == {c \in Cluster : v.fat[1][c] \in {0, FAT32_CLUSTER_BAD}}
  IN IF stops = {} \/ v.fat[1][Min(stops)] = FAT32_CLUSTER_BAD THEN 0 ELSE Min(stops)

(* The link to the new cluster is written before its own end-of-chain. *)
allocate_cluster(v, prev_cluster) ==
  LET Linked(new_cluster) ==
        IF prev_cluster = 0 THEN v ELSE write_fat_entry(v, prev_cluster, new_cluster)
      Ended(new_cluster) == write_fat_entry(Linked(new_cluster), new_cluster, FAT32_CLUSTER_EOC)
  IN With(find_free_cluster(v), LAMBDA new_cluster :
       IF \/ new_cluster = 0
          \/ prev_cluster # 0 /\ ~cluster_is_eoc(read_fat_entry(v, prev_cluster, TRUE))
       THEN [v |-> Fail(v), cluster |-> 0]
       ELSE With(Ended(new_cluster), LAMBDA ended :
              [v |-> ended, cluster |-> IF ended.ok THEN new_cluster ELSE 0]))

(* The values that are met from `first` on, at most ClusterCount links:    *)
(* each but the last is a cluster, and the last is what ended the walk.    *)
Walk(v, first) ==
  LET Link(seq, n) ==
        IF cluster_is_data(seq[Len(seq)])
        THEN Append(seq, read_fat_entry(v, seq[Len(seq)], TRUE)) ELSE seq
  IN Loop(Link, <<first>>, ClusterCount)

Clusters(walk) == SelectSeq(walk, cluster_is_data)
Ends(walk) == cluster_is_eoc(walk[Len(walk)]) /\ Len(walk) > 1

(* Fault: the last cluster of the chain is kept. *)
free_cluster_chain_KeepsLast(v, first_cluster) ==
  LET clusters == Clusters(Walk(v, first_cluster))
      Free(u, n) == write_fat_entry(u, clusters[n], 0)
  IN Loop(Free, v, Len(clusters) - 1)

(* Each entry is read before it is cleared, so the chain is the one that   *)
(* the table held at the start.                                            *)
free_cluster_chain(v, first_cluster) ==
  With(Walk(v, first_cluster), LAMBDA walk :
    LET Free(u, n) == IF walk[n + 1] = Failed THEN Fail(u) ELSE write_fat_entry(u, walk[n], 0)
        freed == Loop(Free, v, Least(Len(Clusters(walk)), ClusterCount))
    IN IF Ends(walk) THEN freed ELSE Fail(freed))

file_chain_capacity(v, first_cluster) ==
  With(Walk(v, first_cluster), LAMBDA walk :
    IF Ends(walk) THEN (Len(walk) - 1) * ClusterBytes ELSE Failed)
-----------------------------------------------------------------------------
(* Directories.  A slot has a kind: "end" (0x00), "deleted" (0xe5), "long",*)
(* "volume", "dot", "dir" or "file".  A position is a directory cluster    *)
(* and a slot of it, which stand for dir_lba and dir_offset.               *)

NoSlot == [kind |-> "end", name |-> "", first |-> 0, size |-> 0]

Positions(v, cluster) ==
  LET clusters == Clusters(Walk(v, cluster))
  IN [i \in 1 .. Len(clusters) * SlotsPerCluster |->
        <<clusters[((i - 1) \div SlotsPerCluster) + 1], ((i - 1) % SlotsPerCluster) + 1>>]

SlotAt(v, pos) == v.dir[pos[1]][pos[2]]

NoPos == <<0, 0>>

(* The first slot of a directory with a name, before the end mark; slots   *)
(* of the kinds in `passed` are passed over.                               *)
FindSlot(v, cluster, wanted, passed) ==
  LET Hit(slot) == slot.kind \notin passed /\ slot.name = wanted
      Stops(ps) == {i \in DOMAIN ps : SlotAt(v, ps[i]).kind = "end" \/ Hit(SlotAt(v, ps[i]))}
      First(ps, stops) ==
        IF stops = {} \/ SlotAt(v, ps[Min(stops)]).kind = "end" THEN NoPos ELSE ps[Min(stops)]
  IN With(Positions(v, cluster), LAMBDA ps : With(Stops(ps), LAMBDA stops : First(ps, stops)))

NoFile == [first |-> Failed, pos |-> NoPos, capacity |-> 0, size |-> 0, isdir |-> FALSE]

(* make_short_name and dir_make_short_name: "" is a name they refuse. *)
make_short_name(name) == IF name \in DOMAIN ShortName THEN ShortName[name] ELSE ""

FileAt(v, pos) ==
  LET slot == SlotAt(v, pos)
  IN [first |-> slot.first, pos |-> pos, size |-> slot.size, isdir |-> slot.kind = "dir",
      capacity |-> IF slot.kind = "dir" \/ slot.first < 2 THEN 0
                   ELSE file_chain_capacity(v, slot.first)]

fat32_open_root(v, name) ==
  LET wanted == make_short_name(name)
      found == FindSlot(v, RootCluster, wanted, {"deleted", "long", "dir"})
      Checked(file) ==
        IF \/ file.size # 0 /\ file.first < 2
           \/ file.capacity = Failed
           \/ file.first >= 2 /\ file.size > file.capacity
        THEN NoFile ELSE file
  IN IF wanted = "" THEN NoFile
     ELSE With(found, LAMBDA pos : IF pos = NoPos THEN NoFile ELSE With(FileAt(v, pos), Checked))

(* dir_find_entry with dir_fill_info. *)
dir_find_entry(v, directory_cluster, component) ==
  LET wanted == make_short_name(component)
      found == FindSlot(v, directory_cluster, wanted, {"deleted", "long", "volume"})
      Checked(file) ==
        IF \/ file.isdir /\ ~cluster_is_data(file.first)
           \/ ~file.isdir /\ file.size # 0 /\ ~cluster_is_data(file.first)
           \/ /\ ~file.isdir /\ cluster_is_data(file.first)
              /\ file.capacity = Failed \/ file.size > file.capacity
        THEN NoFile ELSE file
  IN IF wanted = "" THEN NoFile
     ELSE With(found, LAMBDA pos : IF pos = NoPos THEN NoFile ELSE With(FileAt(v, pos), Checked))

RootInfo == [first |-> RootCluster, pos |-> NoPos, capacity |-> 0, size |-> 0, isdir |-> TRUE]

(* `path` is the sequence of the components below the volume's root. *)
fat32_lookup_path(v, path) ==
  LET Descend(info, n) == IF info.isdir THEN dir_find_entry(v, info.first, path[n]) ELSE NoFile
  IN Loop(Descend, RootInfo, Len(path))

fat32_open_path(v, path) ==
  With(fat32_lookup_path(v, path), LAMBDA info : IF info.isdir THEN NoFile ELSE info)

(* The names that fat32_list_path_at emits, in order; none when the path   *)
(* is not a directory.                                                     *)
Listed(kind) == kind \notin {"deleted", "long", "volume", "dot"}

fat32_list_path(v, path) ==
  LET Shown(ps) == {i \in DOMAIN ps :
                      /\ Listed(SlotAt(v, ps[i]).kind)
                      /\ \A j \in 1 .. i : SlotAt(v, ps[j]).kind # "end"}
      Names(ps) == With(Shown(ps), LAMBDA shown :
        [n \in 1 .. Cardinality(shown) |->
           LET i == CHOOSE j \in shown : Cardinality({m \in shown : m <= j}) = n
           IN SlotAt(v, ps[i]).name])
  IN With(fat32_lookup_path(v, path), LAMBDA info :
       IF info.isdir THEN With(Positions(v, info.first), Names) ELSE <<>>)

(* What a slot of a directory sector reads as when the buffer that is      *)
(* shared with the table holds the table's sector: eight entries of four   *)
(* bytes are taken for the 32 bytes of one slot.                           *)
FatSlot(v, j) ==
  LET word(n) == CASE 8 * j + n \in Cluster -> v.fat[1][8 * j + n]
                   [] 8 * j + n < 2 -> FAT32_CLUSTER_EOC
                   [] OTHER -> 0
  IN [kind |-> CASE word(0) % 256 = 0 -> "end"
                 [] word(0) % 256 = 229 -> "deleted"
                 [] word(2) \div 16777216 >= 8 -> "volume"
                 [] OTHER -> "file",
      name |-> "?", size |-> word(7),
      first |-> IF word(5) % 65536 = 0 THEN word(6) \div 65536 ELSE ClusterCount + 2]

(* The names of at most max_entries entries from the logical index         *)
(* start_index on; ok is FALSE on the error return.  dir_fill_info reads   *)
(* the chain of a file into fs->sector, the buffer that `entry` points     *)
(* into, and the loop goes on with that buffer until the next sector.      *)
fat32_readdir_path(v, path, start_index, max_entries) ==
  LET Filled(t, entry) ==   \* dir_fill_info, and the record it leaves
        LET isfile == entry.kind = "file"
            capacity == IF isfile /\ cluster_is_data(entry.first)
                        THEN file_chain_capacity(v, entry.first) ELSE 0
        IN IF \/ ~isfile /\ ~cluster_is_data(entry.first)
              \/ capacity = Failed
              \/ isfile /\ entry.size > capacity
           THEN [t EXCEPT !.names = <<>>, !.ok = FALSE, !.done = TRUE]
           ELSE [t EXCEPT !.index = @ + 1, !.names = Append(@, entry.name),
                          !.clobbered = @ \/ (isfile /\ cluster_is_data(entry.first)),
                          !.done = Len(t.names) + 1 = max_entries]
      Entry(t, entry) ==
        IF entry.kind = "end" THEN [t EXCEPT !.done = TRUE]
        ELSE IF ~Listed(entry.kind) THEN t
        ELSE IF t.index < start_index THEN [t EXCEPT !.index = @ + 1]
        ELSE Filled(t, entry)
      Slot(s, pos, j) ==
        With([s EXCEPT !.clobbered = @ /\ j # 0], LAMBDA t :
          With(IF t.clobbered THEN FatSlot(v, j) ELSE SlotAt(v, pos), LAMBDA entry :
            Entry(t, entry)))
      Scan(ps) ==
        LET Step(s, i) == IF s.done THEN s ELSE Slot(s, ps[i], (ps[i][2] - 1) % DirSlots)
        IN Loop(Step, [index |-> 0, names |-> <<>>, clobbered |-> FALSE, ok |-> TRUE, done |-> FALSE],
                Len(ps))
  IN With(fat32_lookup_path(v, path), LAMBDA info :
       IF ~info.isdir THEN [ok |-> FALSE, names |-> <<>>]
       ELSE With(With(Positions(v, info.first), Scan), LAMBDA end :
              [ok |-> end.ok, names |-> end.names]))
-----------------------------------------------------------------------------
(* Files.  `file` is the fat32_file_t that the caller keeps. *)

(* The bytes read; ok is FALSE on the error returns. *)
fat32_read(v, file, offset, capacity) ==
  LET count == Least(file.size - offset, capacity)
      Fails(clusters) == \/ offset > file.size
                         \/ count > 0 /\ offset + count > Len(clusters) * ClusterBytes
      Byte(clusters, at) == v.data[clusters[(at \div ClusterBytes) + 1]][at % ClusterBytes]
  IN With(Clusters(Walk(v, file.first)), LAMBDA clusters :
       [ok |-> ~Fails(clusters),
        bytes |-> IF Fails(clusters) THEN <<>>
                  ELSE [i \in 1 .. count |-> Byte(clusters, offset + i - 1)]])

(* s is the state of a write: volume, file, cluster and bytes copied. *)
advance_or_allocate_cluster(s) ==
  LET next == read_fat_entry(s.v, s.cluster, TRUE)
  IN IF ~s.v.ok THEN s
     ELSE IF next = Failed THEN [s EXCEPT !.v = Fail(@)]
     ELSE IF ~cluster_is_eoc(next) THEN [s EXCEPT !.cluster = next]
     ELSE With(allocate_cluster(s.v, s.cluster), LAMBDA a :
            IF a.cluster = 0 THEN [s EXCEPT !.v = a.v]
            ELSE [s EXCEPT !.v = a.v, !.cluster = a.cluster, !.file.capacity = @ + ClusterBytes])

(* Fault: the rest of the sector is lost. *)
WriteOneSector_WholeSector(s, offset, buffer) ==
  LET at == (offset + s.copied) % ClusterBytes
      count == Least(SectorBytes - (at % SectorBytes), Len(buffer) - s.copied)
      written == write_sector(s.v, [s.v EXCEPT !.data[s.cluster] =
                   [i \in DOMAIN @ |-> IF i >= at /\ i < at + count THEN buffer[s.copied + i - at + 1]
                                       ELSE IF i \div SectorBytes = at \div SectorBytes THEN 0
                                       ELSE @[i]]])
  IN [s EXCEPT !.v = written, !.copied = IF written.ok THEN @ + count ELSE @]

(* One turn of the sector loop: the sector is read, changed, written. *)
WriteOneSector(s, offset, buffer) ==
  LET at == (offset + s.copied) % ClusterBytes
      count == Least(SectorBytes - (at % SectorBytes), Len(buffer) - s.copied)
      written == write_sector(s.v, [s.v EXCEPT !.data[s.cluster] =
                   [i \in DOMAIN @ |-> IF i >= at /\ i < at + count
                                       THEN buffer[s.copied + i - at + 1] ELSE @[i]]])
  IN [s EXCEPT !.v = written, !.copied = IF written.ok THEN @ + count ELSE @]

(* An empty file gets its first cluster, and the slot learns of it. *)
FirstCluster(v, file) ==
  IF file.first >= 2 THEN [v |-> v, file |-> file]
  ELSE With(allocate_cluster(v, 0), LAMBDA a :
         IF a.cluster = 0 THEN [v |-> a.v, file |-> file]
         ELSE [v |-> write_sector(a.v, [a.v EXCEPT !.dir[file.pos[1]][file.pos[2]].first = a.cluster]),
               file |-> [file EXCEPT !.first = a.cluster, !.capacity = ClusterBytes]])

(* The size of the slot and of the file become new_size. *)
SetSize(v, file, new_size) ==
  LET sized == write_sector(v, [v EXCEPT !.dir[file.pos[1]][file.pos[2]].size = new_size])
  IN [v |-> sized, file |-> IF sized.ok THEN [file EXCEPT !.size = new_size] ELSE file]

(* The file ends after the bytes written, wherever it ended before. *)
fat32_write(v, file, offset, buffer) ==
  LET Skip(s, n) == advance_or_allocate_cluster(s)
      Sector(s, n) ==
        IF s.copied = Len(buffer) \/ ~s.v.ok THEN s
        ELSE With(IF n > 1 /\ (offset + s.copied) % ClusterBytes = 0
                  THEN advance_or_allocate_cluster(s) ELSE s,
                  LAMBDA t : IF t.v.ok THEN WriteOneSector(t, offset, buffer) ELSE t)
      Copied(head) ==
        Loop(Sector,
             Loop(Skip, [v |-> head.v, file |-> head.file, cluster |-> head.file.first, copied |-> 0],
                  offset \div ClusterBytes),
             Len(buffer))
      Finished(copied) ==
        IF ~copied.v.ok THEN [v |-> copied.v, file |-> copied.file, written |-> 0]
        ELSE With(SetSize(copied.v, copied.file, offset + Len(buffer)), LAMBDA sized :
               [v |-> sized.v, file |-> sized.file,
                written |-> IF sized.v.ok THEN Len(buffer) ELSE 0])
  IN IF offset > file.size \/ offset > file.capacity
     THEN [v |-> Fail(v), file |-> file, written |-> 0]
     ELSE IF buffer = <<>>
     THEN With(SetSize(v, file, offset), LAMBDA sized :
            [v |-> sized.v, file |-> sized.file, written |-> 0])
     ELSE With(With(FirstCluster(v, file), Copied), Finished)
-----------------------------------------------------------------------------
find_free_dir_entry(v) ==
  With(Positions(v, RootCluster), LAMBDA ps :
    LET free == {i \in DOMAIN ps : SlotAt(v, ps[i]).kind \in {"end", "deleted"}}
    IN IF free = {} THEN NoPos ELSE ps[Min(free)])

(* The slot is written after its cluster is allocated, and the cluster is  *)
(* cleared, sector by sector, after that.                                  *)
fat32_create(v, name) ==
  LET Slot(a) ==
        [kind |-> "file", name |-> make_short_name(name), first |-> a.cluster, size |-> 0]
      Named(a, pos) == write_sector(a.v, [a.v EXCEPT !.dir[pos[1]][pos[2]] = Slot(a)])
      Cleared(v1, cluster) ==
        LET Clear(u, n) == write_sector(u, [u EXCEPT !.data[cluster] =
                             [i \in DOMAIN @ |-> IF i \div SectorBytes = n - 1 THEN 0 ELSE @[i]]])
        IN Loop(Clear, v1, SectorsPerCluster)
  IN With(find_free_dir_entry(v), LAMBDA pos :
       IF \/ make_short_name(name) = ""
          \/ fat32_open_root(v, name) # NoFile
          \/ pos = NoPos
       THEN Fail(v)
       ELSE With(allocate_cluster(v, 0), LAMBDA a :
              IF a.cluster = 0 THEN a.v ELSE Cleared(Named(a, pos), a.cluster)))

(* The chain is freed before the slot is marked. *)
fat32_delete(v, name) ==
  With(fat32_open_root(v, name), LAMBDA file :
    IF file = NoFile THEN Fail(v)
    ELSE With(IF file.first >= 2 THEN free_cluster_chain(v, file.first) ELSE v, LAMBDA freed :
           write_sector(freed, [freed EXCEPT !.dir[file.pos[1]][file.pos[2]].kind = "deleted"])))

(* Fault: the rename does not look for the new name. *)
fat32_rename_Replaces(v, old_name, new_name) ==
  With(fat32_open_root(v, old_name), LAMBDA file :
    IF file = NoFile THEN Fail(v)
    ELSE write_sector(v, [v EXCEPT !.dir[file.pos[1]][file.pos[2]].name = make_short_name(new_name)]))

fat32_rename(v, old_name, new_name) ==
  With(fat32_open_root(v, old_name), LAMBDA file :
    IF \/ make_short_name(new_name) = ""
       \/ file = NoFile
       \/ fat32_open_root(v, new_name) # NoFile
    THEN Fail(v)
    ELSE write_sector(v, [v EXCEPT !.dir[file.pos[1]][file.pos[2]].name = make_short_name(new_name)]))
=============================================================================
