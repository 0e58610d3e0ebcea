# ArmoniOS in TLA+

This directory models ArmoniOS, a freestanding AArch64 kernel in C, in TLA+.
TLC checks small instances of the modules; TLAPS proves the central results for
every value of the constants. `PROJECT.json` lists every run, theorem, seeded
fault and hazard, and maps each definition to source lines.

## The system

ArmoniOS runs on one core. After boot it loads one program from its file
system, the panel, as an EL0 process; the panel spawns the others.

| Part | Source | What it does |
| --- | --- | --- |
| process table | `kernel/process.c`, `kernel/syscall_process.c` | slots, states, round robin, exit, wait, kill |
| loader | `kernel/panel_boot.c`, `kernel/panel_boot_recovery.c` | makes a process from an image: slot, image, stack, tables, argv; relaunches the panel |
| page allocator | `kernel/mm/pmm.c` | bitmap, first fit |
| kernel heap | `kernel/mm/kheap.c` | list of blocks on pages of the allocator |
| address spaces | `kernel/user_vm.c`, `kernel/mm/vmm.c` | regions, translation tables, SYS_MMAP, SYS_MUNMAP, checks of user pointers |
| messages | `kernel/ipc.c`, `kernel/syscall_ipc.c` | a pool of slots, received by pid |
| interrupts | `kernel/irq_asm.S`, `kernel/exception_vectors.S`, `kernel/user_entry.S` | mask helpers, entry and return, launch of EL0 |
| runtime service | `kernel/irq.c` | bounded work after an interrupt: input, redraw, network |
| input | `drivers/input/input.c`, `drivers/uart/pl011.c` | one ring of events, escape sequences |
| desktop | `kernel/gui_*.c`, `kernel/syscall_gui.c` | windows, focus, cursor, damage list, drawing |
| files | `kernel/vfs.c`, `kernel/fat32*.c`, `kernel/tmpfs.c`, `kernel/bootfs.c` | descriptors, mounts, FAT32, tmpfs, boot files |
| disk | `drivers/storage/*` | virtio block driver, checked ranges, views, partition table |
| network | `drivers/net/virtio_net.c`, `kernel/net/*` | virtio rings, DHCP client |
| USB | `drivers/usb/*` | xHCI rings, keyboards and mice |

System calls and interrupt handlers run with interrupts masked, so one handler
is one step with respect to all others. What can be interrupted is EL0, the
boot path from `init_timer_irq` on, and the console thread, which only runs if
the panel never came up or has left. Concurrency therefore enters in four
places: the order of handlers, interrupts in those three contexts, devices that
act while a handler runs, and handlers that give up half way (a failed
allocation, a missed deadline, a refused write). The modules put their steps
exactly there.

## Modules

| Module | Models | State | Steps |
| --- | --- | --- | --- |
| `Pmm` | the page allocator as others see it | none: operators on the set of pages in use | `pmm_alloc_pages` is a relation that holds for the first fit |
| `Process` | process table, loader, panel recovery, faults | `g_processes`, `g_current`, `pmm`, `ttbr0`, the loader's locals `load`, control point `at` | one per system call; the loader has one step per allocation, each with its failure branch |
| `UserVm` | address spaces | `vm`: regions, leaves and tables of each slot | load, mmap, munmap, exit |
| `Kheap`, `Allocator` | the heap; what `kheap.h` promises | blocks with links and arenas; the set of allocations | `kmalloc`, `kfree`, other users of pages |
| `PmmBitmap` | the bitmap itself | bitmap, counters | init, reserve, alloc, free |
| `Ipc`, `Mailbox` | message slots; a mailbox per target | `g_ipc_slots`, `g_ipc_next_sequence`; the histories `sent` and `delivered` | `sys_ipc_send`, `sys_ipc_recv` |
| `Interrupts` | mask helpers, exceptions, launch | PSTATE.I, the helpers' two words, ELR and SPSR, the stack of interrupted contexts | one per instruction that touches any of them |
| `Input`, `EventFifo`, `EscapeKeys` | ring, the queue it promises, key decoding | `queue`, `head`, `tail`, `count`; the decoder `esc`; the console thread's peeked `event` | push from each source, poll from each consumer |
| `Damage`, `DamageList` | the damage list | none: operators; a list and the pixels damaged since it was cleared | `gui_damage_add`, `gui_damage_clear` |
| `RuntimeService` | a service pass | classes of work, budgets, damage, `undrawn` and `unshown` pixels | one per unit of work, each of which may miss the deadline |
| `Gui` | the desktop | `gui_desktop_t`: window pool, queues, backing buffers, focus, drag, cursor; the pixels | one per window system call, input event, redraw and exit of an owner |
| `Fat32` | the volume | none: operators from a volume to a volume | each sector write in its order, any of which the device may refuse |
| `Vfs`, `FileStore` | nodes, mounts, descriptors, tmpfs, boot files; files as bytes | `g_vfs_nodes`, `g_open_files`, the volume `vol` | one per file system call |
| `Storage` | virtio block, block devices, views, partition table, boot probe | the request's descriptors and status byte, ring indices, the running transfer, the disk | submit, spin, time out; the disk fetches, completes or refuses |
| `Net` | virtio network, DHCP client | both rings, `g_net_info`; the wire and the servers | net_init, net_poll by frame, send; the device delivers and transmits |
| `Usb`, `Hid` | xHCI transfers; reports into events | transfer, command and event rings with cycle bits, the stash; keys held | poll of each device, waits and their limits; the controller completes |

Loops over the process table and over page tables are written as sets and
functions. `MCProcess` and `MCUserVm` have them once more as loops, step by step
as in C, and `LoopsAgree` compares both forms in every state. `UserVm`, `Process` and
`PmmBitmap` share the view of the allocator in `Pmm`, and `PmmBitmap` shows that
the scan computes it. `RuntimeService` and `Gui` are built on `Damage`, `Input`
on `EscapeKeys`, `Usb` on `Hid`, `Vfs` on `Fat32`.

`MCMemory`, `MCServices`, `MCDevices` and `MCProgress` put machines that share
no state under one specification. Their variable `subject`, chosen at the start,
says which machine a behaviour exercises; the others stand still. Two machines
never mix in a behaviour, so this checks each as if it were alone.

### How data is abstracted

* Pages are numbers, an address range is a set of them; a page's contents are
  not modelled. Image contents, names and argv matter only in that a step of
  the loader that reads them can fail.
* `holders` in `Process` is the set of pids that own a descriptor or a window.
* A process's program is arbitrary: any system call is possible whenever it
  runs.
* A file's content is a sequence of small numbers, a path a sequence of
  components; sectors and clusters have two units each.
* A frame is a record of what the client looks at; a packet's layout and its
  checksums are left out. A colour says what was painted, for whom and whether
  it was highlighted.
* Devices are external. They do what the drivers' protocol allows, at any
  moment between two steps of a driver. The disk works on one request at a time.
* Sums that can wrap keep their width (`WordMax`, `LbaMax`, `IndexMod`,
  `PidModulus`); counters that only count are bounded by a named constant.

### Seeded faults

An operator whose comment begins with "Fault:" is not part of the model. It is a
plausible mistake in the definition that follows it. Substituted for that
definition it makes TLC report the property that `PROJECT.json` pairs it with,
which shows that the property depends on this piece of code.

## Runs

All runs finish without an error, except the five below that end in a documented
violation. Sizes are distinct states.

### `process` (`MCProcess`, 102,625 states)

Two slots, eight pages, pids modulo 4, two attempts of the launcher. Memory is
enough for one process and a part of a second, so that each allocation of the
loader fails in some behaviour and succeeds in another; four pids make
`g_next_spawn_pid` wrap, to 0 and to pids in use. Deadlock is checked.

| Property | Says |
| --- | --- |
| `PagesExclusive` | no page has two owners, the loader's locals included |
| `NoPageLost` | a page in use has an owner, so every failure path frees what it took |
| `ActiveTablesLive` | TTBR0 never points to freed tables |
| `OneRunning` | while EL0 runs, `g_current` and nothing else is RUNNING, and no process that is only half loaded can be dispatched |
| `UniquePids` | live processes and zombies have different pids across the wrap |
| `NoGhostHolders` | descriptors and windows belong to processes that exist and have not exited |
| `ZombieKept` | a zombie whose parent is alive stays, with its exit code, until that parent waits for it |
| `CleanRestart` | when the panel is launched again, no process, page or holder is left |

### `memory` (`MCMemory`, 79,160 states)

Two address spaces on 15 pages with 11 virtual pages, tables of three levels
that are allocated lazily, sizes of 0, 1 and 3 bytes and one that overflows when
it is rounded up. `Isolation`: no page is
reached from two spaces, or while it is free or holds a table.
`MappingsSound`: regions, leaves and permissions agree, also after a call that
failed half way. `CheckedBufferOwned`: a buffer the system calls accept for
writing consists of pages the caller owns and may itself write. With `subject` "family", three processes in
three slots: `LoopsAgree`, and the liveness property `ReadyRuns` (a READY
process runs again or is gone).

### `services` (`MCServices`, 492,119 states)

Six machines:
* messages, 3 slots, 2 pids, 4 sends. `NoStaleTail`: a received payload has no
  bytes of an earlier message; `NothingLost`: an accepted message waits or was
  delivered; `IsMailbox`: the slots implement a first-in first-out mailbox per
  target (refinement);
* heap, 3 pages of 12 bytes, shared with others. `HeapSound`: the list tiles the
  arenas and neighbours are joined; `IsAllocator`: refinement of `Allocator`;
* input ring of 3. `IsFifo`: it implements a queue that drops only when full and
  counts what it drops (refinement);
* page bitmap of 4 pages of 2 bytes in an address space of 15. `BitmapSound`:
  nothing reserved is handed out, the scan is the first fit of `Pmm`, and the
  count is that of the clear bits;
* damage list of 2 on a 3 by 2 screen, every rectangle in and around it.
  `DamageSound`: no damaged pixel is missed, nothing outside is named;
* escape decoder, all inputs of 5 bytes. `KeysMatchBytes`: keys are those of a
  grammar of the sequences, stated without the state machine.

### `devices` (`MCDevices`, 1,421,471 states)

* Network: rings of 2 with indices modulo 4, so that indices wrap twice as
  often as slots; one server for this client and one that serves another client
  of the same image, foreign frames, frames lost, repeated and reordered. `RingsSound`: each receive buffer is in exactly one place, the
  buffers that wait hold the frames in the order of arrival, and `g_tx_buf` is
  not written while the device may read it. `LeaseSound`: a request names a server with
  an address of one offer of that server, the client has an address only
  together with the server that offered it, and believes to have a lease only
  after an acknowledgement. The xid is a constant of the image and `chaddr` is not
  compared, so offer and acknowledgement may be another client's where one of
  the same image is served.
* USB: three rings of 3 and a stash of 2, two devices, one incident.
  `CompletionKept`: a completion is neither lost nor taken twice.
* Reports: all pairs of two-key reports with errors and modifiers.
  `HeldAgree`: presses and releases agree with what is held.
* Disk: 3 sectors, 6 partition tables (wrapping, too long, none), one timeout,
  one error, two calls. `Bounded`: the disk is only asked for sectors of the
  device the caller named; `Transferred`: a transfer that reports success has
  moved its sectors, as long as no request before it timed out.

### `progress` (`MCProgress`, 84,094 states)

The fair machines. `ScreenCatchesUp`: a change is shown in the end.
`PassSound`: missed deadlines and failed submissions lose neither damage nor
work; a 3 by 1 screen, 2 rectangles that do not merge, and one more event and
frame than a pass may serve.
`ByteReadWhileUserRuns`: a byte that arrives while EL0 runs is read.
`OfferLeadsToLease`: an offer becomes a lease, where no other client of the same
image is served (its offer would replace the client's own). `MaskSound`: interrupts are
masked in every critical section and handler, and `irq_disable_depth` counts the
sections open, at each instruction; two sections are nested.

### `files` (`MCFiles`, 50,268 states)

A volume of 8 clusters (3 free, 1 bad), a root directory of two clusters and a
nested one, 2 processes, 4 calls, one refused write (at the first or the third
write of a call). One file has two spellings, `/fat/edit.txt`, which boot
mounts, and `/fat/EDIT.TXT`, and is opened, written and unlinked by both.
The volume folds the case and `vfs_find_canonical` does not, so that the file
can have two nodes, each with a `fat32_file_t` of its own, and a call that
changes the file through one leaves the other stale. The variable `split`
records the first call that changes a file which has a node of another spelling;
`sound` means that there was none, and no refused write.

| Property | While `sound` | Always |
| --- | --- | --- |
| `IsFileStore` | the calls implement `FileStore`: files as byte sequences, named as the volume names them, with descriptors (refinement) | |
| `VolumeSound` | files share no clusters, no cluster leaks, copies of the table agree, no file is longer than its chain | no chain loops |
| `HandlesSound` | what a node keeps of its file is what the volume says of the path; nodes with one directory slot are spellings of one name | descriptors belong to living processes, under numbers of their own, and to mounted nodes |
| `QueriesAgree` | stat, readdir and read by path, in any spelling, tell what a reader would find | |

Two nodes of one file that is only read, and a file that is unlinked in one
spelling and created in the other, are within `sound`. Each of the four
properties fails in this run when `~split` is left out of `sound`. The view omits
`reply`, which no step reads, and `content`, which is a function of the rest
while `sound`; the processes are symmetric.

### `gui` (`MCGui`, 188,212 states)

4 by 4 screen, 2 windows, one buffer on the heap, 4 calls, texts of one and two
lines. `ScreenCurrent`: a pixel that does not show what it should is in the
damage list, and full and partial redraw paint the same. The lines of a text
after its first are excepted: `gui_window_draw_text` draws them and damages the
first only. `HitIsShown`: a click reaches the window that is
painted there. `PoolSound`: no buffer is lost or freed twice, focus is on a
window that exists, and no window outlives its owner.

`CHECK_DEADLOCK FALSE` stands in every passing run but `process`: their budgets
of calls, sends, loads, timeouts or bytes run out, and a system whose processes
have exited or whose device is off may stop.

## Where code and text disagree

Each of these runs ends in a counterexample.

| Run | Text | What the code does |
| --- | --- | --- |
| `interrupts_mask` | `kernel/irq_asm.S:6`, "a nested helper must restore that masked state" | `irq_disable` writes its two words while interrupts are open; an interrupt between them overwrites the first, and the matching `irq_enable` leaves interrupts masked |
| `interrupts_launch` | `kernel/user_entry.S:5`, "the SPSR value prepared for EL0t" | interrupts are open while `user_enter_el0` writes SPSR and ELR; an interrupt before the `eret` replaces both |
| `uservm_munmap` | `docs/SYSCALLS.md:105`, "process images and stacks cannot be removed" | both carry `PROCESS_USER_REGION_OWNED_PAGES`, which is all that is asked |
| `files_readdir` | `docs/VFS_METADATA_ABI.md:65`, `docs/SYSCALLS.md:121`, pages by logical index | `dir_fill_info` walks the FAT through the same sector buffer that holds the entries |
| `gui_backing` | `kernel/gui.h:90`, height of the buffer is `window->h - title_h` | lowering the title bar (`title_h` to a smaller height above 0) keeps the buffer |

The models contain this behaviour as it is; the properties of the passing runs
say what holds in spite of it (`MaskSound` does not promise that interrupts are
open again, `MappingsSound` does not promise an image).

## Fairness

* `Process`: the kernel does not stop between two of its steps (weak), and the
  timer interrupt stays pending while masked, so it is taken if EL0 is entered
  again and again (strong). Nothing is assumed of processes.
* `Interrupts`: a pending UART interrupt is taken before the next instruction
  once open, unless the timer comes first, every ten milliseconds (strong); a
  helper runs to its end; a critical section ends.
* `RuntimeService`: the timer ticks, a pass ends, and not every pass misses its
  deadline before it has drawn, nor does every submission fail. The last two are
  assumptions on the load and the display; without them the code republishes
  the work for ever.
* `Net`: the timer asks for polls, spins are bounded, not all messages and not
  all acknowledgements are lost, servers answer.

`Vfs`, `Gui`, `Usb`, `Storage`, `Ipc` and the heap have no liveness property:
their calls are bounded loops inside one handler, or end at a spin limit.

## Proofs

Eight modules hold theorems that TLAPS checks for every number of slots, pages,
pids, ring entries, sectors and servers. `X == Spec => []P` is proved in the
usual way: an inductive invariant that holds initially, is kept by every action
(one step of the proof per action) and implies `P`.

| Module | Theorems |
| --- | --- |
| `ProcessControlProofs` | `ControlCorrect`, `TypeCorrect` |
| `ProcessProofs` | `OneRunningCorrect`, `ActiveTablesCorrect`, `UniquePidsCorrect`, `NoGhostHoldersCorrect`, `ZombieKeptCorrect` (an action property), `CountCorrect`, `PagesExclusiveCorrect`, `NoPageLostCorrect`, `CleanRestartCorrect` |
| `KernelProofs` | `NothingLostCorrect`, `NoStaleTailCorrect`, `MailboxCorrect` (a refinement), `BitmapCorrect` |
| `UserVmProofs` | `SpacesCorrect`, `IsolationCorrect`, `MappingsCorrect`, `BuffersCorrect` |
| `InterruptsProofs` | `MaskCorrect` |
| `ServiceProofs` | `DamageListCorrect`, `PassCorrect` |
| `DeviceProofs` | `SectorsBounded`, `TransfersComplete`, `FifoCorrect` (a refinement) |
| `NetProofs` | `LeaseCorrect`, `RingsCorrect` |

**Process.** The proof is layered. `CInv` says what each control point means:
which slot is being loaded, which of the loader's locals are set, which states
the other slots can have. It is inductive by itself and gives `TypeOK`. Each
further property is then inductive relative to `CInv`; the pages need
`PagesExclusive` and `NoPageLost` together, since a step that frees a page keeps
the second only if nobody else owned the page. `CleanRestart` follows from
`CInv`, `NoPageLost` and `NoGhostHolders`. Lemmas first give the effect of each
action on the table, field by field.

**Messages.** `Inv` adds to the two invariants that only sent messages count as
delivered. `MailboxCorrect` maps each step to a step of `Mailbox` or to a
stutter: the slot that `sys_ipc_recv` takes is the oldest for its target, since
sequence numbers are positions in `sent`.

**Input ring.** `RingInv`: `tail` is `count` places behind `head`, modulo the
size. The queue that the ring stands for is read off its slots from `head` on,
and `Places` shows that the places within one lap differ and follow one another
across the wrap. `FifoCorrect` then maps a push to an append or to a counted
drop, and a poll to taking the first event.

**Page bitmap.** `BitmapInv`: memory ends a page below the end of the address
space, and the bit of a page is set if the page was given out, holds a reserved
byte, or is page 0; of these only the first kind is ever freed. `ReservedFacts`
is the arithmetic of `pmm_reserve_range`, with its rounding both ways and its
saturation, for any page size: every page that shares a byte with the range is
set and none outside memory is. The scan is a recursive function, handled by
induction as the walk of the damage list below; `Looked` says what the loop
knows after each page.

**Address spaces.** `SpacesInv`: each space is sound by itself (regions are
apart, a leaf exists exactly under a region or a kernel page and points to the
region's page, tables are its own), everything it owns is allocated, and two
spaces own nothing in common. The three properties follow. The hard part is a
mapping that fails after some leaves and tables were made, and its undoing.

**Interrupt mask.** `MaskInv`: the stack of contexts has one of a few shapes, an
interrupted context is not in a critical section, and the depth counter equals
the sections open in the running context, plus one if the context below was
interrupted between its store of the depth and the mask instruction. That last
term is what makes the invariant inductive.

**Damage list.** `gui_damage_add` merges in one walk over the list, a recursive
function in the model. What it computes is found by induction up to the length
of the list: `Least` and `UpTo` derive induction over a set of numbers from the
library's `WFMin`, `Iteration` shows that the walk exists, and `MergeWalk` that
`Merge` is its end. No step of the walk loses a pixel (`MergeOneFacts`), so
neither does the whole (`AddCovers`).

**Runtime pass.** `PassInv` has three parts. `ScreenInv`: the damage covers what
changed, and the desktop is dirty unless there is none. `RedrawInv`: a prepared
redraw is a prefix of the list and was drawn, and after a successful submission
nothing else is missing on the screen; so taking the prefix off is safe.
`WorkInv`: once the deadline is missed all classes of the pass are pending
again, after the input phase events are left only with INPUT pending, and a
frame that waited when the pass began was received, is still in the ring, or
NETWORK is pending.

**Disk.** `BoundInv`: every device and view lies on the disk, the range of the
running transfer was checked as a whole, and whatever the disk may still fetch
was checked, also after a timeout. The search of the partition table is handled
by its least matching entry (`WFMin` on the naturals). `MovedInv`: until a
timeout the request with the disk is the one the driver waits for, in one of
three places (not fetched, in work, answered).

**Network.** `LeaseInv`: an acknowledgement on the wire comes after the offer of
the same server and address, to this client or to another of the same image, and
what the client remembers or sends names a server with an address it offered.
`RxInv` is about rings with wrapping indices: the window of posted entries and
the window of filled entries have `QueueSize` entries together, all different.
`Split` says so of two finite sequences, and the lemmas `MoveEntry` and its like
say what moving one entry does; a lemma on remainders shows that slot numbers
stay right when an index wraps, which needs `IndexMod % QueueSize = 0`. `TxInv`:
at most one message is with the device, and then the driver's flag says so.

**Assumptions.** Each is a named `ASSUME` in the module that declares the
constants, and TLC evaluates it in a run. `NumPagesAssumption` and
`ProcessAssumption` (numbers are natural, more than two pids), `IpcAssumption`,
`BitmapAssumption` (memory starts at a multiple of the page size and ends at
least a page below 2^64), `InputAssumption`, `DamageAssumption`,
`RuntimeAssumption` (sizes and budgets
are positive, rectangles have integer coordinates; the code's are int32, and no
caller comes near the limits), `UserVmAssumption` (image, stack, kernel and mmap area do not overlap, as in
`kernel/layout.h`), `InterruptsAssumption`, `StorageAssumption` (ring indices
modulo at least 2, the disk's size fits a word), `NetAssumption` (the ring is
smaller than the index range and divides it: powers of two in the code). The
bounds on histories (`MaxSends`, `MaxLoads`, `MaxTimeouts`, ...) are arbitrary,
so the theorems hold for behaviours of any length.

All inductive invariants were also evaluated by TLC on the reachable states of
the small instances before they were proved.

### What is model-checked only

* Liveness (`ReadyRuns`, `ScreenCatchesUp`, `ByteReadWhileUserRuns`,
  `OfferLeadsToLease`): the prover does not handle fairness and ENABLED.
* `LoopsAgree`, `KeysMatchBytes`: the loops, and the grammar of the sequences,
  are recursive operators, which the prover cannot use.
* `HeapSound`, `IsAllocator`: the model of the heap follows the list with
  recursive operators as well.
* `CompletionKept`, `HeldAgree`, `IsFileStore`, `VolumeSound`,
  `HandlesSound`, `QueriesAgree`, `ScreenCurrent`, `HitIsShown`, `PoolSound`
  have no proof so far. Those about chains, paths and redraws rest on folds
  over sequences, each of which needs an induction of its own as the damage
  list did.

## Observations

Met while modelling; the models behave as the code does.

* The panel is launched again only when the last process has left
  (`kernel/panel_boot_recovery.c:9`); nothing unmasks interrupts after the panel
  exits (`kernel/kernel.c:225`); the console thread peeks at an event and then
  polls, and may discard another one than it looked at (`kernel/kernel.c:118`).
* Files: names that differ only in case are one file and several nodes. Boot
  mounts `/fat/edit.txt` (`kernel/kernel.c:284`), the Files program builds
  `/fat/EDIT.TXT`. After a write through one node the other keeps the old
  size and first cluster: a file without a cluster then gets two first clusters,
  of which one is lost; after an unlink by one spelling the node and the
  descriptors of the other stay. `docs/APPLICATIONS.md:145` and `:217` and
  `docs/LIBKARM.md:207` say that a shorter save may leave a stale tail, but
  `fat32_write` sets the size to the end of what it wrote, and so does
  `FileStore`. `fat32_create` and `fat32_rename` take a read error in the look
  for an existing name for its absence (`kernel/fat32.c:933` and `:1024`); reads
  do not fail in the model. `g_fat32_vfs_count`
  never decreases. A cluster marked bad stops `find_free_cluster`. A write
  refused in the middle of a call can leave clusters shared or the copies of the
  table different, so `VolumeSound` promises less after one.
* Desktop: the lines of a text after its first are drawn and not damaged
  (`kernel/gui_compositor.c:422`); the highlight of the focused window and the cursor's shape may be
  stale until the next redraw, so `ScreenCurrent` compares pixels without them;
  `drag_window_id` is not cleared when the window is destroyed; a minimized
  window keeps the focus.
* Network: DISCOVER is sent once; an OFFER after the ACK overwrites the address
  and the state; a frame of twelve bytes or less ends the drain; a descriptor id
  out of range leaves its slot unposted; the ACK is not compared with the
  REQUEST; the xid is computed from a link-time address (`kernel/net/dhcp.c:401`)
  and `chaddr` is not read, so answers to another client of the same image are
  taken for one's own.
* USB: a key is reported once two reports differ; Ctrl+H and Backspace share a
  value; buttons after the third are not reported; an endpoint is not reset
  after a stall; events are dropped when the queue is full.
* Disk: after a timeout the next request takes the late completion for its own,
  which is why `Transferred` ends at the first timeout.

## Not modelled

`PROJECT.json` has the reason for each: eMMC, virtio input, GPU and
framebuffer, serial console, device tree, boards and interrupt controller, boot
assembly, user libraries, applications, information calls. Within the modelled
parts: register values and TLB maintenance, strings and image contents, the
multi-thread interface of `kernel/sched/sched.c` (which nothing calls), USB
enumeration, parsing of the boot sector, long names, sizes beyond 32 bits,
creating or renaming onto the name of a directory, windows with empty titles,
the wrap of `next_z`, short USB reports.
