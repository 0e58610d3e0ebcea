------------------------------ MODULE MCFiles ------------------------------
(***************************************************************************)
(* A small volume under the virtual file system, and the properties of     *)
(* both.  The root directory has two clusters (2 and 3); the volume holds  *)
(* a label, two files of no cluster, SHELL.BIN and EDIT.TXT, and NOTE.TXT  *)
(* in a directory.  Clusters 6 to 8 are free; cluster 9 is marked bad.     *)
(*                                                                         *)
(* Programs name one file by two spellings, edit.txt and EDIT.TXT: the     *)
(* volume folds the case (make_short_name) and the nodes do not            *)
(* (vfs_find_canonical), so it may have two nodes, each with a             *)
(* fat32_file_t of its own.                                                *)
(***************************************************************************)
EXTENDS Vfs, TLC

VARIABLES
  content,   \* the files and their bytes, for the abstract state
  split      \* whether a call has changed a file that had a node of another spelling

EOC == FAT32_CLUSTER_EOC

MCShortName ==
  ("shell.bin" :> "SHELL.BIN") @@ ("edit.txt" :> "EDIT.TXT") @@ ("EDIT.TXT" :> "EDIT.TXT")
  @@ ("new.txt" :> "NEW.TXT") @@ ("docs" :> "DOCS") @@ ("note.txt" :> "NOTE.TXT")

SlotOf(kind, name, first, size) == [kind |-> kind, name |-> name, first |-> first, size |-> size]

MCDisk ==
  [fat |-> [i \in 1 .. FatCount |->
              (2 :> 3) @@ (3 :> EOC) @@ (4 :> EOC) @@ (5 :> EOC) @@ (6 :> 0) @@ (7 :> 0)
              @@ (8 :> 0) @@ (9 :> FAT32_CLUSTER_BAD)],
   dir |-> (2 :> <<SlotOf("volume", "ARMONIOS", 0, 0), SlotOf("file", "SHELL.BIN", 0, 0),
                   SlotOf("file", "EDIT.TXT", 0, 0), SlotOf("dir", "DOCS", 5, 0)>>)
           @@ (3 :> <<NoSlot, NoSlot, NoSlot, NoSlot>>)
           @@ (5 :> <<SlotOf("dot", ".", 5, 0), SlotOf("dot", "..", 0, 0),
                      SlotOf("file", "NOTE.TXT", 4, 3), NoSlot>>),
   data |-> [c \in Cluster |-> [i \in 0 .. ClusterBytes - 1 |-> 3]],
   ok |-> TRUE, left |-> 0]

MCOpens == {<<<<"fat", "edit.txt">>, "rdwr", FALSE>>,
            <<<<"fat", "EDIT.TXT">>, "rdwr", TRUE>>,
            <<<<"fat", ".", "new.txt">>, "rdwr", TRUE>>,
            <<<<"fat", "docs", "note.txt">>, "wronly", FALSE>>,
            <<<<"armonios", "..", "tmp", "note">>, "rdwr", FALSE>>}
MCUnlinks == {<<"fat", "edit.txt">>, <<"fat", "EDIT.TXT">>, <<"fat", "docs", "..", "new.txt">>}
MCRenames == {<<<<"fat", "edit.txt">>, <<"fat", "new.txt">>>>,
              <<<<"fat", "new.txt">>, <<"fat", "EDIT.TXT">>>>,
              <<<<"fat", "edit.txt">>, <<"tmp", "note">>>>}
MCBootImage == <<3, 3>>
MCNote == <<1>>
MCView == <<vol, g_vfs_nodes, g_open_files, g_fat32_vfs_files, g_fat32_vfs_count, tmp, alive,
            reply.op = "none", calls, faults, split>>
MCSymmetry == Permutations(Pids)
MCBuffers == {<<>>, <<1, 2, 1, 2, 2>>}
-----------------------------------------------------------------------------
(* The abstract state. *)

Memory == {<<"armonios", "shell">>, <<"tmp", "note">>}

Paths == {vfs_normalize_path(o[1]).path : o \in Opens}

(* The file that a path names, whatever the spelling. *)
FileOf(path) ==
  IF OnFat(path)
  THEN [n \in DOMAIN path |-> IF n = 1 THEN path[n] ELSE make_short_name(path[n])]
  ELSE path

(* The files that a program could open, and the bytes it would find. *)
ContentOf(v, note) ==
  LET there == {path \in Paths \ Memory : fat32_open_path(v, Relative(path)) # NoFile}
      Bytes(file) ==
        With(fat32_open_path(v, Relative(CHOOSE path \in there : FileOf(path) = file)),
             LAMBDA f : fat32_read(v, f, 0, f.size).bytes)
  IN (<<"armonios", "shell">> :> BootImage) @@ (<<"tmp", "note">> :> note)
     @@ [file \in {FileOf(path) : path \in there} |-> Bytes(file)]

(* The file of the path has a node under another spelling. *)
SpeltOtherwise(path) ==
  \E i \in Node : /\ g_vfs_nodes[i].fs = "fat" /\ g_vfs_nodes[i].path # path
                  /\ FileOf(g_vfs_nodes[i].path) = FileOf(path)

(* The paths by which a call reaches the files that it may change. *)
Reached(call) ==
  IF call.op = "write"
  THEN {g_vfs_nodes[g_open_files[h].node].path : h \in {vfs_fd_at(call.pid, call.args[1])} \ {None}}
  ELSE {call.paths[n] : n \in DOMAIN call.paths}

(* The boot image is mounted once Boot has been taken. *)
booted == vfs_find_canonical(g_vfs_nodes, <<"armonios", "shell">>) # None

(* The device has carried out its writes, and no file has been changed     *)
(* behind a node of another spelling.                                      *)
sound == faults = 0 /\ ~split

(* Nothing is promised of the contents once the store is not sound. *)
MCInit == Init /\ content = ContentOf(vol, tmp) /\ split = FALSE
MCNext ==
  /\ Next
  /\ split' = (split \/ (vol' # vol /\ \E path \in Reached(reply') : SpeltOtherwise(path)))
  /\ IF UNCHANGED <<vol, tmp>> \/ ~sound' THEN content' = content
     ELSE \E v \in {vol'}, note \in {tmp'} : content' = ContentOf(v, note)

openMap ==
  LET used == {h \in Handle : g_open_files[h].used}
      At(x) == CHOOSE h \in used : <<g_open_files[h].owner_pid, g_open_files[h].local_fd>> = x
  IN [x \in {<<g_open_files[h].owner_pid, g_open_files[h].local_fd>> : h \in used} |->
        [file |-> FileOf(g_vfs_nodes[g_open_files[At(x)].node].path),
         offset |-> g_open_files[At(x)].offset, flags |-> g_open_files[At(x)].flags]]

Store == INSTANCE FileStore
  WITH Descriptors <- Fd, Capacity <- TMPFS_MAX_FILE_SIZE, Fixed <- Memory,
       open <- openMap, damaged <- ~sound,
       reply <- [reply EXCEPT !.paths = [n \in DOMAIN @ |-> FileOf(@[n])]]

(* The calls keep the promise of FileStore, where a file is what the       *)
(* volume takes for one, up to a refused write and up to the first call    *)
(* that changes a file which has a node of another spelling: a read        *)
(* returns exactly the bytes that the writes before it left, through any   *)
(* descriptor of any process, over chunks, sectors and clusters; unlink    *)
(* and rename take every descriptor of the file with them; a process's     *)
(* descriptors are its own.  Opening a file by a second spelling, reading  *)
(* it through both, and coming back to it by another spelling once its     *)
(* node is gone, are within the promise.                                   *)
IsFileStore == Store!Spec
-----------------------------------------------------------------------------
(* The clusters of the chain that begins at c. *)
Chain(c) == With(Walk(vol, c), LAMBDA walk : {walk[n] : n \in DOMAIN walk} \cap Cluster)

(* The first clusters of the files and directories of the volume. *)
Roots ==
  {<<RootCluster, 0>>} \cup
  {<<c, i>> \in (DOMAIN vol.dir) \X (1 .. SlotsPerCluster) :
     vol.dir[c][i].kind \in {"dir", "file"} /\ vol.dir[c][i].first # 0}
FirstOf(root) == IF root[2] = 0 THEN root[1] ELSE vol.dir[root[1]][root[2]].first

Taken == {c \in Cluster : vol.fat[1][c] \notin {0, FAT32_CLUSTER_BAD}}

(* Each walk from a file's first cluster ends within ClusterCount links.   *)
NoLoops ==
  \A r \in Roots :
    LET walk == Walk(vol, FirstOf(r)) IN ~cluster_is_data(walk[Len(walk)])

(* While the device carries out its writes, and no file is changed behind  *)
(* a node of another spelling, no two files share a cluster, every cluster *)
(* marked as taken belongs to one file, the copies of the table agree, and *)
(* no file is longer than its chain.  Whatever write is refused, and       *)
(* however the files are spelt, no chain of the table runs into a loop, so *)
(* the bounded loops of fat32.c never cut a file off.                      *)
VolumeSound ==
  /\ NoLoops
  /\ sound => \E chain \in {[r \in Roots |-> Chain(FirstOf(r))]} :
       /\ \A r, s \in DOMAIN chain : r # s => chain[r] \cap chain[s] = {}
       /\ Taken = UNION {chain[r] : r \in DOMAIN chain}
       /\ \A i \in 1 .. FatCount : vol.fat[i] = vol.fat[1]
       /\ \A r \in DOMAIN chain \ {<<RootCluster, 0>>} :
            vol.dir[r[1]][r[2]].size <= Cardinality(chain[r]) * ClusterBytes

FatNodes == {i \in Node : g_vfs_nodes[i].fs = "fat"}

(* A descriptor is held by a living process, under a number of its own, on *)
(* a node that is mounted, and no two FAT nodes keep their file in one     *)
(* place of g_fat32_vfs_files.  With no write refused and no file changed  *)
(* behind a node of another spelling, what a FAT node keeps of its file    *)
(* (first cluster, directory slot, size, capacity) is what the volume says *)
(* of that path now, and two nodes that keep one directory slot are two    *)
(* spellings of one name.                                                  *)
HandlesSound ==
  /\ \A h \in Handle : g_open_files[h].used =>
       /\ g_open_files[h].owner_pid \in alive
       /\ g_vfs_nodes[g_open_files[h].node].fs # "none"
       /\ \A g \in Handle \ {h} : g_open_files[g].used =>
            \/ g_open_files[g].owner_pid # g_open_files[h].owner_pid
            \/ g_open_files[g].local_fd # g_open_files[h].local_fd
  /\ \A i, j \in FatNodes : i # j => g_vfs_nodes[i].context # g_vfs_nodes[j].context
  /\ sound => \E kept \in {[i \in FatNodes |-> g_fat32_vfs_files[g_vfs_nodes[i].context]]} :
       /\ \A i \in FatNodes : kept[i] = fat32_open_path(vol, Relative(g_vfs_nodes[i].path))
       /\ \A i, j \in FatNodes : kept[i].pos = kept[j].pos =>
            FileOf(g_vfs_nodes[i].path) = FileOf(g_vfs_nodes[j].path)

(* What the queries tell of a file is what a reader of it would find, by   *)
(* any spelling of its name, with no write refused and no file changed     *)
(* behind a node of another spelling: the size of sys_stat and of          *)
(* sys_stat_v2, which comes from the node when there is one and from the   *)
(* directory when there is none, is the length of the bytes, vfs_read by   *)
(* path returns them, and sys_readdir shows each root file exactly once.   *)
QueriesAgree ==
  (booted /\ sound) =>
    /\ \A path \in Paths : \E stat \in {sys_stat_v2(path)}, file \in {FileOf(path)} :
         /\ stat.ok <=> file \in DOMAIN content
         /\ stat.ok => stat.size = Len(content[file])
         /\ sys_stat(path) = stat
         /\ stat.ok => vfs_read(path, 0, Len(content[file])).bytes = content[file]
    /\ \E shown \in {sys_readdir(FatPath).names} :
         \A name \in {"edit.txt", "new.txt"} :
           Cardinality({n \in DOMAIN shown : shown[n] = <<make_short_name(name)>>})
             = IF FileOf(<<"fat", name>>) \in DOMAIN content THEN 1 ELSE 0
-----------------------------------------------------------------------------
(* docs/VFS_METADATA_ABI.md on SYS_READDIR_V2: it "returns the number of   *)
(* complete records copied", by logical index, and callers continue with   *)
(* start_index += returned_count.  So a page is a part of the directory.   *)
ReaddirPages ==
  booted => \E all \in {sys_readdir(FatPath).names} :
              \A start \in 0 .. 2 :
                sys_readdir_v2(FatPath, start, 2).names = SubSeq(all, start + 1, Least(Len(all), start + 2))
=============================================================================
