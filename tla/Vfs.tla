-------------------------------- MODULE Vfs --------------------------------
(***************************************************************************)
(* The virtual file system: the nodes, mounts and descriptors of           *)
(* kernel/vfs.c, the system calls of kernel/syscall_vfs.c, and the three   *)
(* file systems below them: kernel/bootfs.c, kernel/tmpfs.c and            *)
(* kernel/fat32_vfs.c over the volume of module Fat32.                     *)
(*                                                                         *)
(* A system call runs with interrupts masked and is one action; what other *)
(* processes do happens between calls.  The storage device may refuse any  *)
(* sector write.                                                           *)
(***************************************************************************)
EXTENDS Fat32

CONSTANTS
  Pids,
  VFS_MAX_PATH,              \* here: components of a path
  VFS_MAX_NODES,
  VFS_MAX_OPEN_FILES,        \* descriptors of one process
  VFS_MAX_GLOBAL_OPEN_FILES,
  FAT32_MAX_VFS_FILES,
  TMPFS_MAX_FILE_SIZE,
  SYSCALL_VFS_IO_CHUNK,
  BootImage, Note,           \* bytes of /armonios/shell and, at boot, of /tmp/note
  Disk, total_sectors,       \* the volume at boot; its sectors, the tables included
  Opens,                     \* what programs open: <<absolute path, access mode, O_CREAT>>
  Unlinks, Renames,          \* paths that programs unlink; pairs that they rename
  Buffers, Lengths, Offsets, \* what programs write, how much they read, where they seek
  MaxCalls,                  \* bound on the system calls of a behaviour
  MaxFaults, FaultAt         \* bound on refused writes; which write is refused

VARIABLES
  vol,                \* the volume
  g_vfs_nodes,
  g_open_files,
  g_fat32_vfs_files,  \* the fat32_file_t of each FAT node
  g_fat32_vfs_count,
  tmp,                \* the data of the tmpfs file, up to its size
  alive,              \* the processes that have not exited
  reply,              \* the last call, its arguments, and what it returned
  calls, faults

vars == <<vol, g_vfs_nodes, g_open_files, g_fat32_vfs_files, g_fat32_vfs_count,
          tmp, alive, reply, calls, faults>>

Node == 0 .. VFS_MAX_NODES - 1
Handle == 0 .. VFS_MAX_GLOBAL_OPEN_FILES - 1
Fd == 0 .. VFS_MAX_OPEN_FILES - 1
None == -1

NoNode == [fs |-> "none", path |-> <<>>, context |-> 0]
NoHandle == [used |-> FALSE, node |-> 0, offset |-> 0, flags |-> "rdonly",
             owner_pid |-> 0, local_fd |-> 0]

FatPath == <<"fat">>
Mounts == {FatPath}
-----------------------------------------------------------------------------
(* Paths and nodes. *)

(* vfs_normalize_path; ok is FALSE on the error return. *)
vfs_normalize_path(path) ==
  LET Put(s, n) == IF ~s.ok \/ path[n] \in {"", "."} THEN s
                   ELSE IF path[n] # ".." THEN [s EXCEPT !.path = Append(@, path[n])]
                   ELSE IF s.path = <<>> THEN [s EXCEPT !.ok = FALSE]
                   ELSE [s EXCEPT !.path = SubSeq(@, 1, Len(@) - 1)]
  IN Loop(Put, [ok |-> Len(path) < VFS_MAX_PATH, path |-> <<>>], Len(path))

vfs_find_canonical(nodes, path) ==
  LET at == {i \in Node : nodes[i].fs # "none" /\ nodes[i].path = path}
  IN IF at = {} THEN None ELSE Min(at)

(* The longest mount whose components begin the path, and not the path;    *)
(* vfs_path_is_mount_child with vfs_find_mount_for_path.                   *)
vfs_find_mount_for_path(path) ==
  LET over == {m \in Mounts : Len(m) < Len(path) /\ SubSeq(path, 1, Len(m)) = m}
  IN IF over = {} THEN <<>> ELSE CHOOSE m \in over : \A n \in over : Len(n) <= Len(m)

(* All the nodes are placed, each in the first free place, or none is. *)
vfs_mount_static(nodes, new) ==
  LET free == {i \in Node : nodes[i].fs = "none"}
      Place(placed, n) == [placed EXCEPT ![Min({i \in Node : placed[i].fs = "none"})] = new[n]]
  IN IF \/ Len(new) > Cardinality(free)
        \/ \E n \in DOMAIN new : vfs_find_canonical(nodes, new[n].path) # None
        \/ \E m, n \in DOMAIN new : m # n /\ new[m].path = new[n].path
     THEN [ok |-> FALSE, nodes |-> nodes]
     ELSE [ok |-> TRUE, nodes |-> Loop(Place, nodes, Len(new))]

vfs_drop_open_files_for_node(opens, i) ==
  [h \in Handle |-> IF opens[h].used /\ opens[h].node = i THEN NoHandle ELSE opens[h]]

(* Fault: the descriptors of the node are kept. *)
vfs_unmount_static_KeepsHandles(m, path) ==
  LET i == vfs_find_canonical(m.nodes, path)
  IN IF i = None THEN m ELSE [m EXCEPT !.nodes[i] = NoNode]

(* m is a record with the nodes and the open files. *)
vfs_unmount_static(m, path) ==
  LET i == vfs_find_canonical(m.nodes, path)
  IN IF i = None THEN m
     ELSE [m EXCEPT !.nodes[i] = NoNode, !.opens = vfs_drop_open_files_for_node(@, i)]
-----------------------------------------------------------------------------
(* The FAT adapter.  m is a record with the volume, the nodes, the files   *)
(* of the nodes and their count.                                           *)

Relative(path) == Tail(path)

fat32_mount_vfs_file(m, path) ==
  LET node == [fs |-> "fat", path |-> path, context |-> m.count]
      Mount(file, mounted) ==
        IF \/ m.count >= FAT32_MAX_VFS_FILES
           \/ file = NoFile
           \/ ~mounted.ok
        THEN [m EXCEPT !.v = Fail(@)]
        ELSE [m EXCEPT !.nodes = mounted.nodes, !.files[m.count] = file, !.count = @ + 1]
  IN With(fat32_open_path(m.v, Relative(path)), LAMBDA file :
       With(vfs_mount_static(m.nodes, <<node>>), LAMBDA mounted : Mount(file, mounted)))

(* A file that is not there is created when the flags say so and the path  *)
(* is in the root directory.                                               *)
fat32_vfs_open_path(m, path, creat) ==
  IF fat32_open_path(m.v, Relative(path)) # NoFile THEN fat32_mount_vfs_file(m, path)
  ELSE IF ~creat \/ Len(path) # 2 THEN [m EXCEPT !.v = Fail(@)]
  ELSE With([m EXCEPT !.v = fat32_create(@, path[2])], LAMBDA created :
         IF created.v.ok THEN fat32_mount_vfs_file(created, path) ELSE created)

fat32_vfs_unlink_path(v, path) ==
  IF Len(path) = 2 THEN fat32_delete(v, path[2]) ELSE Fail(v)

fat32_vfs_rename_path(v, old_path, new_path) ==
  IF Len(old_path) = 2 /\ Len(new_path) = 2
  THEN fat32_rename(v, old_path[2], new_path[2]) ELSE Fail(v)
-----------------------------------------------------------------------------
NoReply == [op |-> "none", pid |-> 0, args |-> <<>>, paths |-> <<>>, ok |-> TRUE, value |-> <<>>]

Init ==
  /\ vol = Disk
  /\ g_vfs_nodes = [i \in Node |-> NoNode]
  /\ g_fat32_vfs_files = [i \in 0 .. FAT32_MAX_VFS_FILES - 1 |-> NoFile] /\ g_fat32_vfs_count = 0
  /\ g_open_files = [h \in Handle |-> NoHandle]
  /\ tmp = Note
  /\ alive = {}
  /\ reply = NoReply /\ calls = 0 /\ faults = 0

bootfs_mount_vfs(nodes) ==
  vfs_mount_static(nodes, <<[fs |-> "boot", path |-> <<"armonios", "shell">>, context |-> 0]>>).nodes

tmpfs_mount_vfs(nodes) ==
  vfs_mount_static(nodes, <<[fs |-> "tmp", path |-> <<"tmp", "note">>, context |-> 0]>>).nodes

(* The volume is mounted, and its two files after it. *)
probe_fat32(m) ==
  With(fat32_mount_vfs_file(m, <<"fat", "shell.bin">>), LAMBDA program :
    IF program.v.ok THEN fat32_mount_vfs_file(program, <<"fat", "edit.txt">>) ELSE program)

(* Boot: init_vfs mounts the embedded programs and a tmpfs file, and       *)
(* probe_fat32 two files of the volume.  Processes run after that.         *)
Boot ==
  /\ reply.op = "none"
  /\ reply' = [NoReply EXCEPT !.op = "boot"]
  /\ \E m \in {probe_fat32([v |-> vol, nodes |-> tmpfs_mount_vfs(bootfs_mount_vfs(g_vfs_nodes)),
                            count |-> g_fat32_vfs_count, files |-> g_fat32_vfs_files])} :
       /\ g_vfs_nodes' = m.nodes
       /\ g_fat32_vfs_files' = m.files /\ g_fat32_vfs_count' = m.count
  /\ alive' = Pids
  /\ UNCHANGED <<vol, g_open_files, tmp, calls, faults>>
-----------------------------------------------------------------------------
(* Descriptors. *)

vfs_reap_dead_owners(opens) ==
  [h \in Handle |-> IF opens[h].used /\ opens[h].owner_pid \notin alive THEN NoHandle ELSE opens[h]]

(* The handle of descriptor fd of process p, or None. *)
vfs_fd_at(p, fd) ==
  LET at == {h \in Handle : /\ g_open_files[h].used /\ p \in alive
                            /\ g_open_files[h].owner_pid = p /\ g_open_files[h].local_fd = fd}
  IN IF at = {} THEN None ELSE Min(at)

vfs_find_free_local_fd(p) ==
  LET taken == {g_open_files[h].local_fd :
                  h \in {g \in Handle : g_open_files[g].used /\ g_open_files[g].owner_pid = p}}
  IN IF Fd \subseteq taken THEN None ELSE Min(Fd \ taken)

vfs_node_size(node, files, note) ==
  CASE node.fs = "boot" -> Len(BootImage)
    [] node.fs = "tmp" -> Len(note)
    [] node.fs = "fat" -> files[node.context].size

bootfs_vfs_read(offset, capacity) ==
  [ok |-> offset <= Len(BootImage),
   bytes |-> SubSeq(BootImage, offset + 1, Least(Len(BootImage), offset + capacity))]

tmpfs_read(offset, capacity) ==
  [ok |-> offset <= Len(tmp),
   bytes |-> SubSeq(tmp, offset + 1, Least(Len(tmp), offset + capacity))]

(* The read callback of a node. *)
NodeRead(v, node, offset, capacity) ==
  CASE node.fs = "boot" -> bootfs_vfs_read(offset, capacity)
    [] node.fs = "tmp" -> tmpfs_read(offset, capacity)
    [] node.fs = "fat" -> fat32_read(v, g_fat32_vfs_files[node.context], offset, capacity)

tmpfs_write(note, offset, buffer) ==
  LET count == Least(Len(buffer), TMPFS_MAX_FILE_SIZE - offset)
  IN [i \in 1 .. (IF offset + count > Len(note) THEN offset + count ELSE Len(note)) |->
        IF i > offset /\ i <= offset + count THEN buffer[i - offset] ELSE note[i]]

(* The write callback of a node, on the state w of a sys_write: volume,    *)
(* files, tmpfs data, offset, bytes accepted so far, and whether to go on. *)
NodeWrite(w, node, chunk) ==
  LET n == Least(Len(chunk), TMPFS_MAX_FILE_SIZE - w.offset)
  IN IF node.fs = "tmp"
     THEN [w EXCEPT !.tmp = tmpfs_write(@, w.offset, chunk), !.offset = @ + n,
                    !.total = @ + n, !.more = n = Len(chunk)]
     ELSE With(fat32_write(w.v, w.files[node.context], w.offset, chunk), LAMBDA f :
            [w EXCEPT !.v = f.v, !.files[node.context] = f.file, !.offset = @ + f.written,
                      !.total = @ + f.written, !.more = f.v.ok, !.ok = f.v.ok])
-----------------------------------------------------------------------------
(* System calls.  k is the number of sector writes that the device carries *)
(* out in the call.                                                        *)

Unfailing == 1000
Budget == (IF faults < MaxFaults THEN FaultAt ELSE {}) \cup {Unfailing}
Begin(k) == [vol EXCEPT !.left = k]

(* The call of process p, before it is answered. *)
Call(op, p, args, paths) ==
  [NoReply EXCEPT !.op = op, !.pid = p, !.args = args, !.paths = paths]

(* The call returns; the volume is then v. *)
Return(call, v, ok, value) ==
  /\ calls' = IF ok \/ v.left = -1 THEN calls + 1 ELSE calls
  /\ alive' = IF call.op = "exit" THEN alive \ {call.pid} ELSE alive
  /\ vol' = [v EXCEPT !.left = 0, !.ok = TRUE]
  /\ faults' = faults + (IF v.left = -1 THEN 1 ELSE 0)
  /\ reply' = [call EXCEPT !.ok = ok, !.value = value]

Unchanged(call, ok, value) ==
  /\ Return(call, vol, ok, value)
  /\ UNCHANGED <<g_vfs_nodes, g_fat32_vfs_files, g_fat32_vfs_count, tmp>>

Writable(node) == node.fs # "boot"

(* A path without a node is first given one by its mount; what that did    *)
(* stays when the call then fails.  fd is None on the error return.        *)
vfs_open_flags(p, path, flags, creat, k) ==
  LET start == [v |-> Begin(k), nodes |-> g_vfs_nodes,
                files |-> g_fat32_vfs_files, count |-> g_fat32_vfs_count]
      mounted == IF vfs_find_canonical(g_vfs_nodes, path) # None THEN start
                 ELSE IF vfs_find_mount_for_path(path) = <<>> THEN [start EXCEPT !.v = Fail(@)]
                 ELSE fat32_vfs_open_path(start, path, creat)
      opens == vfs_reap_dead_owners(g_open_files)
      fd == vfs_find_free_local_fd(p)
      free == {h \in Handle : ~opens[h].used}
      Opened(m, i) ==
        IF ~m.v.ok \/ i = None \/ (flags # "rdonly" /\ ~Writable(m.nodes[i]))
        THEN [m |-> m, opens |-> g_open_files, fd |-> None]
        ELSE IF fd = None \/ free = {} THEN [m |-> m, opens |-> opens, fd |-> None]
        ELSE [m |-> m, fd |-> fd,
              opens |-> [opens EXCEPT ![Min(free)] =
                           [used |-> TRUE, node |-> i, offset |-> 0, flags |-> flags,
                            owner_pid |-> p, local_fd |-> fd]]]
  IN With(mounted, LAMBDA m : Opened(m, vfs_find_canonical(m.nodes, path)))

sys_open(p, raw, flags, creat, k) ==
  \E path \in {vfs_normalize_path(raw)} :
    LET call == Call("open", p, <<>>, <<path.path>>)
    IN IF ~path.ok
       THEN Unchanged(call, FALSE, <<>>) /\ UNCHANGED g_open_files
       ELSE \E open \in {vfs_open_flags(p, path.path, flags, creat, k)} :
              /\ Return(call, open.m.v, open.fd # None, IF open.fd # None THEN <<open.fd>> ELSE <<>>)
              /\ g_vfs_nodes' = open.m.nodes
              /\ g_fat32_vfs_files' = open.m.files /\ g_fat32_vfs_count' = open.m.count
              /\ g_open_files' = open.opens
              /\ UNCHANGED tmp

(* One chunk of a read, on the state r of a sys_read. *)
vfs_read_fd(r, node, request) ==
  With(NodeRead(vol, node, r.offset, request), LAMBDA got :
    IF ~got.ok \/ r.offset > vfs_node_size(node, g_fat32_vfs_files, tmp)
    THEN [r EXCEPT !.ok = FALSE, !.more = FALSE]
    ELSE [bytes |-> r.bytes \o got.bytes, offset |-> r.offset + Len(got.bytes), ok |-> TRUE,
          more |-> Len(got.bytes) = request])

(* Chunk after chunk, until one is short. *)
sys_read(p, fd, len) ==
  LET call == Call("read", p, <<fd, len>>, <<>>)
      h == vfs_fd_at(p, fd)
      file == g_open_files[h]
      Chunk(r, n) ==
        IF ~r.more \/ (n > 1 /\ Len(r.bytes) = len) THEN r
        ELSE vfs_read_fd(r, g_vfs_nodes[file.node], Least(SYSCALL_VFS_IO_CHUNK, len - Len(r.bytes)))
      start == [bytes |-> <<>>, offset |-> file.offset, ok |-> TRUE, more |-> TRUE]
  IN IF h = None \/ file.flags = "wronly"
     THEN Unchanged(call, FALSE, <<>>) /\ g_open_files' = vfs_reap_dead_owners(g_open_files)
     ELSE \E done \in {Loop(Chunk, start, len + 1)} :
            /\ Unchanged(call, done.ok \/ done.bytes # <<>>, done.bytes)
            /\ g_open_files' = [vfs_reap_dead_owners(g_open_files) EXCEPT ![h].offset = done.offset]

(* One chunk of a write, on the state w of a sys_write. *)
vfs_write_fd(w, node, chunk) ==
  IF w.offset > vfs_node_size(node, w.files, w.tmp)
  THEN [w EXCEPT !.ok = FALSE, !.more = FALSE]
  ELSE NodeWrite(w, node, chunk)

(* Chunk after chunk, until one is short. *)
sys_write(p, fd, buffer, k) ==
  LET call == Call("write", p, <<fd>> \o buffer, <<>>)
      h == vfs_fd_at(p, fd)
      file == g_open_files[h]
      Chunk(w, n) ==
        LET next == SubSeq(buffer, w.total + 1, Least(Len(buffer), w.total + SYSCALL_VFS_IO_CHUNK))
        IN IF ~w.more \/ (n > 1 /\ next = <<>>) THEN w
           ELSE vfs_write_fd(w, g_vfs_nodes[file.node], next)
      start == [v |-> Begin(k), files |-> g_fat32_vfs_files, tmp |-> tmp,
                offset |-> file.offset, total |-> 0, more |-> TRUE, ok |-> TRUE]
  IN IF h = None \/ file.flags = "rdonly" \/ ~Writable(g_vfs_nodes[file.node])
     THEN Unchanged(call, FALSE, <<>>) /\ g_open_files' = vfs_reap_dead_owners(g_open_files)
     ELSE \E done \in {Loop(Chunk, start, Len(buffer) + 1)} :
            /\ Return(call, done.v, done.ok \/ done.total > 0,
                      IF done.ok \/ done.total > 0 THEN <<done.total>> ELSE <<>>)
            /\ g_open_files' = [vfs_reap_dead_owners(g_open_files) EXCEPT ![h].offset = done.offset]
            /\ g_fat32_vfs_files' = done.files /\ tmp' = done.tmp
            /\ UNCHANGED <<g_vfs_nodes, g_fat32_vfs_count>>

(* vfs_seek and vfs_close: the open files after the call, or {} for the    *)
(* error return.                                                           *)
vfs_seek(p, fd, offset) ==
  LET h == vfs_fd_at(p, fd)
  IN IF h = None THEN {}
     ELSE IF offset > vfs_node_size(g_vfs_nodes[g_open_files[h].node], g_fat32_vfs_files, tmp) THEN {}
     ELSE {[vfs_reap_dead_owners(g_open_files) EXCEPT ![h].offset = offset]}

sys_seek(p, fd, offset) ==
  LET done == vfs_seek(p, fd, offset)
  IN /\ Unchanged(Call("seek", p, <<fd, offset>>, <<>>), done # {}, <<>>)
     /\ g_open_files' \in IF done # {} THEN done ELSE {vfs_reap_dead_owners(g_open_files)}

vfs_close(p, fd) ==
  LET h == vfs_fd_at(p, fd)
  IN IF h = None THEN {} ELSE {[vfs_reap_dead_owners(g_open_files) EXCEPT ![h] = NoHandle]}

sys_close(p, fd) ==
  LET done == vfs_close(p, fd)
  IN /\ Unchanged(Call("close", p, <<fd>>, <<>>), done # {}, <<>>)
     /\ g_open_files' \in IF done # {} THEN done ELSE {vfs_reap_dead_owners(g_open_files)}

(* The volume, nodes and open files after the call. *)
vfs_unlink(path, k) ==
  LET m == [nodes |-> g_vfs_nodes, opens |-> g_open_files]
  IN With(fat32_vfs_unlink_path(Begin(k), path), LAMBDA v :
       [v |-> v, m |-> IF v.ok THEN vfs_unmount_static(m, path) ELSE m])

sys_unlink(p, raw, k) ==
  LET path == vfs_normalize_path(raw)
      call == Call("unlink", p, <<>>, <<path.path>>)
  IN IF ~path.ok \/ vfs_find_mount_for_path(path.path) = <<>>
     THEN Unchanged(call, FALSE, <<>>) /\ UNCHANGED g_open_files
     ELSE \E done \in {vfs_unlink(path.path, k)} :
            /\ Return(call, done.v, done.v.ok, <<>>)
            /\ g_vfs_nodes' = done.m.nodes /\ g_open_files' = done.m.opens
            /\ UNCHANGED <<g_fat32_vfs_files, g_fat32_vfs_count, tmp>>

vfs_rename(old_path, new_path, k) ==
  LET m == [nodes |-> g_vfs_nodes, opens |-> g_open_files]
  IN With(fat32_vfs_rename_path(Begin(k), old_path, new_path), LAMBDA v :
       [v |-> v, m |-> IF v.ok THEN vfs_unmount_static(vfs_unmount_static(m, old_path), new_path)
                       ELSE m])

sys_rename(p, raw_old, raw_new, k) ==
  LET old == vfs_normalize_path(raw_old)
      new == vfs_normalize_path(raw_new)
      call == Call("rename", p, <<>>, <<old.path, new.path>>)
      mount == vfs_find_mount_for_path(old.path)
  IN IF ~old.ok \/ ~new.ok \/ mount = <<>> \/ mount # vfs_find_mount_for_path(new.path)
     THEN Unchanged(call, FALSE, <<>>) /\ UNCHANGED g_open_files
     ELSE \E done \in {vfs_rename(old.path, new.path, k)} :
            /\ Return(call, done.v, done.v.ok, <<>>)
            /\ g_vfs_nodes' = done.m.nodes /\ g_open_files' = done.m.opens
            /\ UNCHANGED <<g_fat32_vfs_files, g_fat32_vfs_count, tmp>>

vfs_close_all_for_pid(p) ==
  [h \in Handle |-> IF g_open_files[h].used /\ g_open_files[h].owner_pid = p
                    THEN NoHandle ELSE g_open_files[h]]

process_exit(p) ==
  /\ g_open_files' = vfs_close_all_for_pid(p)
  /\ Unchanged(Call("exit", p, <<>>, <<>>), TRUE, <<>>)
-----------------------------------------------------------------------------
(* Queries.  They change nothing, and are operators of the state. *)

OnFat(path) == path = FatPath \/ vfs_find_mount_for_path(path) = FatPath

(* vfs_metadata, and vfs_stat_v2 over it: the size and the type. *)
vfs_metadata(path) ==
  LET i == vfs_find_canonical(g_vfs_nodes, path)
  IN IF i # None THEN [ok |-> TRUE, type |-> "regular",
                       size |-> vfs_node_size(g_vfs_nodes[i], g_fat32_vfs_files, tmp)]
     ELSE IF path = <<>> THEN [ok |-> TRUE, size |-> 0, type |-> "directory"]
     ELSE IF ~OnFat(path) THEN [ok |-> FALSE]
     ELSE With(fat32_lookup_path(vol, Relative(path)), LAMBDA info :
            IF info = NoFile THEN [ok |-> FALSE]
            ELSE [ok |-> TRUE, size |-> info.size,
                  type |-> IF info.isdir THEN "directory" ELSE "regular"])

(* vfs_stat differs at the root, which has a list and no stat callback. *)
vfs_stat(path) ==
  IF path = <<>> THEN [ok |-> FALSE] ELSE vfs_metadata(path)

(* vfs_list_at from the start: a directory of the volume, or all nodes. *)
vfs_list(path) ==
  LET used == {i \in Node : g_vfs_nodes[i].fs # "none"}
  IN IF path = <<>>
     THEN [ok |-> TRUE, names |-> [n \in 1 .. Cardinality(used) |->
             g_vfs_nodes[CHOOSE i \in used : Cardinality({j \in used : j <= i}) = n].path]]
     ELSE IF OnFat(path) /\ fat32_lookup_path(vol, Relative(path)).isdir
     THEN With(fat32_list_path(vol, Relative(path)), LAMBDA names :
            [ok |-> TRUE, names |-> [n \in DOMAIN names |-> <<names[n]>>]])
     ELSE [ok |-> FALSE, names |-> <<>>]

(* The error answer of a query. *)
No == [ok |-> FALSE]

(* The names are copied entry by entry out of the volume's answer. *)
fat32_vfs_readdir_path(path, start_index, max_entries) ==
  With(fat32_readdir_path(vol, Relative(path), start_index, max_entries), LAMBDA got :
    [ok |-> got.ok, names |-> [n \in DOMAIN got.names |-> <<got.names[n]>>]])

(* At the root, the entries are cut out of the list. *)
vfs_readdir(path, start_index, max_entries) ==
  LET all == vfs_list(path).names
  IN IF path # <<>> /\ OnFat(path) THEN fat32_vfs_readdir_path(path, start_index, max_entries)
     ELSE [ok |-> path = <<>>,
           names |-> SubSeq(all, start_index + 1, Least(Len(all), start_index + max_entries))]

(* A file of the volume that has no node is opened for the one read. *)
fat32_vfs_read_path(path, offset, capacity) ==
  With(fat32_open_path(vol, Relative(path)), LAMBDA file :
    IF file = NoFile THEN No ELSE fat32_read(vol, file, offset, capacity))

(* How the kernel reads a program image: by path, with no descriptor. *)
vfs_read(path, offset, capacity) ==
  LET i == vfs_find_canonical(g_vfs_nodes, path)
  IN IF i # None
     THEN IF offset > vfs_node_size(g_vfs_nodes[i], g_fat32_vfs_files, tmp) THEN No
          ELSE NodeRead(vol, g_vfs_nodes[i], offset, capacity)
     ELSE IF path = <<>> \/ ~OnFat(path) THEN No
     ELSE With(vfs_metadata(path), LAMBDA info :
            IF ~info.ok THEN No
            ELSE IF info.type # "regular" \/ offset > info.size THEN No
            ELSE fat32_vfs_read_path(path, offset, capacity))

fat32_vfs_fsinfo == [ok |-> TRUE, total_bytes |-> total_sectors * SectorBytes]

vfs_fsinfo(path) == IF path # <<>> /\ OnFat(path) THEN fat32_vfs_fsinfo ELSE No

(* sys_stat, sys_stat_v2, sys_readdir, sys_readdir_v2 and sys_fsinfo: what *)
(* each answers; ok is FALSE for an error.                                 *)
Answer(raw, Query(_)) ==
  With(vfs_normalize_path(raw), LAMBDA path : IF path.ok THEN Query(path.path) ELSE No)

sys_stat(raw) == Answer(raw, vfs_stat)

vfs_stat_v2(path) == vfs_metadata(path)

sys_stat_v2(raw) == Answer(raw, vfs_stat_v2)

sys_readdir(raw) == Answer(raw, vfs_list)

vfs_readdir_v2(path, start_index, max_entries) ==
  IF max_entries = 0 THEN No ELSE vfs_readdir(path, start_index, max_entries)

sys_readdir_v2(raw, start_index, max_entries) ==
  Answer(raw, LAMBDA path : vfs_readdir_v2(path, start_index, max_entries))

sys_fsinfo(raw) == Answer(raw, vfs_fsinfo)
-----------------------------------------------------------------------------
(* A call that writes no sector meets no refusal. *)
Next ==
  \/ Boot
  \/ \E p \in alive :
       /\ calls < MaxCalls
       /\ \/ \E o \in Opens : \E k \in IF o[3] THEN Budget ELSE {Unfailing} :
               sys_open(p, o[1], o[2], o[3], k)
          \/ \E fd \in Fd, len \in Lengths : sys_read(p, fd, len)
          \/ \E fd \in Fd, buffer \in Buffers, k \in Budget : sys_write(p, fd, buffer, k)
          \/ \E fd \in Fd, offset \in Offsets : sys_seek(p, fd, offset)
          \/ \E fd \in Fd : sys_close(p, fd)
          \/ \E raw \in Unlinks, k \in Budget : sys_unlink(p, raw, k)
          \/ \E pair \in Renames, k \in Budget : sys_rename(p, pair[1], pair[2], k)
          \/ process_exit(p)

Spec == Init /\ [][Next]_vars
=============================================================================
