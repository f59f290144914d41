# A TLA+ verification of AlephOS

AlephOS is a small x86-64 kernel in C, loaded by the Limine boot loader. This
directory holds a formal model of it: TLA+ modules translated from
`src/kernel/src/`, the configurations that model-check them with TLC, and
proofs that TLAPS checks. Paths below are relative to `src/kernel/src/`.

Modelled are memory management, processes, pipes, system calls with the ELF
loader, the ext2 file system, the NVMe, e1000 and wifi drivers, sockets with the
IP connection table, and the HTTP, HTTPS and DNS clients. Section 7 says what is
not modelled and why.

## 1. The system

The kernel is one program on one processor. `kmain` (`main.c`) calls some
thirty initialisers in a fixed order and then loops; what is left to drive it are
the `syscall` instruction and three interrupts (keyboard, clock, mouse). No
handler for the timer is registered and nothing starts a first process yet, so
the modules are of functions that any caller may call, in any order the code
allows. System calls run with interrupts masked
(`core/syscalls.c`, `syscalls_init`), there is no kernel preemption and no lock
outside the SMP start-up code. What makes it hard is therefore not threads but

* loops that rewrite the structure they walk (heap, process lists),
* rings and buffers whose positions wrap, whose users come and go, and whose
  memory is shorter than the code thinks (pipes, NVMe queues, wifi rings),
* multi-step operations that fail half way and have to undo or leave a
  consistent state (page mapping, ext2, descriptors),
* devices that answer late or never and go on while the driver works (NVMe,
  network cards),
* a disk that fails, or loses its power, between two writes of one operation,
* state shared by accident (one `next` field for two lists, one pipe for two
  reference counts), and pointers that outlive what they point to,
* the order of initialisation.

| Component | State | Operations | Interacts with | What makes it correct |
|---|---|---|---|---|
| Page allocator, `mm/pmm.c` | `bitmap`, `free_pages`, memory map | `pmm_init`, alloc, free, free of a run | everything that needs memory | one holder per page; only usable RAM; counter = clear bits |
| Virtual memory, `mm/vmm.c` | four-level tables | map, unmap, translate | pmm; used by heap, brk, mmap, ELF | one use per frame; a call changes only the pages it names |
| Heap, `mm/heap.c` | block list, statistics | alloc, free with merge loop, realloc, expansion, `heap_check` | pmm, vmm; `malloc` of everything | blocks tile the heap; allocations own their blocks; calls return |
| Processes, `core/process.c` | process list, ready queue, PCBs | create, destroy, add, remove, next, tick | pmm, heap; fork and exit | FIFO round robin; no walk meets a freed PCB |
| Pipes, `core/drivers/tty/pipe.c` | ring, counters, flags | read, write, add and remove ends | heap, tty | FIFO of bytes; positions and count agree |
| System calls, `core/syscalls.c` | `fd_table`, reference counts, break, mmap pointer | ~25 calls | all of the above, ext2, net | a failed call leaves nothing behind; last close frees |
| ext2, `fs/ext2.c` | superblock, group descriptors, bitmaps, inodes on disk | create, delete, read, write, allocate, free | NVMe, heap | metadata is out of reach; bitmap, counts, inodes and directory agree |
| NVMe, `core/drivers/storage/nvme.c` | submission and completion queues | submit and poll, probe, read, write | the device, ext2 | a completion answers the command that caused it |
| Sockets and IP, `net/net.c`, `core/drivers/net/ip.c` | socket pool, packet queues, connection table | create, bind, listen, connect, accept, send, receive | network cards, syscalls | a slot has one owner; packets stay in order |
| Network cards, `core/drivers/net/`, `net/wifi.c` | descriptor rings | send, interrupt, receive | the device | no descriptor is used by both sides |
| HTTP, HTTPS, DNS, `net/` | connection objects | connect, request, destroy | sockets, heap | no use after free; bounded retries |
| USB, `core/drivers/usb/` | bus, devices, transfer and event rings | enumerate, transfer, hub, HID | the controller | cycle bits agree; one address per device |
| SMP, `core/smp.c`, `core/ap_trampoline.asm` | `startup_lock`, CPU table | boot of the other processors | ACPI, LAPIC | the handshake ends |
| Boot and ACPI, `main.c`, `core/acpi.c` | who is initialised | the initialisers | all | nothing is used before it is initialised |
| Terminals and input, `core/drivers/tty/tty.c`, `core/drivers/ps2/` | rings, flags, packet state | read, write, interrupt | pipes, display | no lost or misaligned input |
| ELF loader, `core/elf.c` | headers, segments | validate, load | vmm, pmm | only what the headers describe is mapped |
| Clocks, `core/drivers/rtc/rtc.c`, `core/pit.c` | time | read, convert | scheduler | conversion inverts |
| Interrupt tables, PCI, serial, logging, display | device registers | register reads and writes | | no state of their own |

`PROJECT.json` lists the same components with their source files, the hazards
at the line where each bites, and the definition-by-definition map from the
modules to the source.

## 2. Modules

| Module | Models | Kind |
|---|---|---|
| `Pmm` | `mm/pmm.c` | component |
| `PmmProofs` | theorems about `Pmm` | proofs |
| `Heap` | `mm/heap.c` | component |
| `HeapProofs` | theorems about `Heap` and the statistics of `MCHeap` | proofs |
| `Vmm` | `mm/vmm.c` with brk, mmap, munmap and execve of `core/syscalls.c` and `core/elf.c` | component |
| `VmmProofs` | theorems about `Vmm` | proofs |
| `Process` | `core/process.c` with fork and exit of `core/syscalls.c` | component |
| `RoundRobin` | what the scheduler promises: a FIFO queue | abstract specification |
| `ProcessProofs` | theorems about `Process`, and that it implements `RoundRobin` | proofs |
| `Pipe` | `core/drivers/tty/pipe.c` | component |
| `ByteFifo` | what a pipe promises: a bounded FIFO of bytes | abstract specification |
| `PipeProofs` | theorems about `Pipe`, and that it implements `ByteFifo` | proofs |
| `Ext2` | `fs/ext2.c` | component, with a failing disk |
| `Ext2Proofs` | theorems about `Ext2` | proofs |
| `Net` | `net/net.c`, `core/drivers/net/ip.c` | component |
| `FdTable` | the descriptors of `core/syscalls.c` | component over `Net` |
| `WebClients` | `net/http/http.c`, `net/http/https.c`, `net/dns.c` | components over `Net` |
| `Nvme` | `core/drivers/storage/nvme.c` | component, with the controller |
| `E1000` | `core/drivers/net/e1000.c`, `netdev_init` | component, with the card |
| `Wifi` | `net/wifi.c` | component, with the card |
| `MCPmm`, `MCHeap`, `MCVmm`, `MCProcess`, `MCPipe`, `MCExt2` | small instances, refinement mappings, `heap_check` | model checking |
| `MCNetwork` | `FdTable` and `WebClients` on one socket pool | composition, model checking |
| `MCDrivers` | `Nvme`, `E1000`, `Wifi`, one per behaviour | model checking |
| `NetworkProofs` | theorems about `MCNetwork` and its components | proofs |
| `DriversProofs` | theorems about `MCDrivers` and its components | proofs |

Definitions carry the name of the C function they translate. A definition named
after a function with a suffix that says what is wrong with it
(`split_block_stale_prev`) is a deliberate fault: each property is tried against
one of them, and fails.

### Pmm

`bitmap` is the set of bits that are 1, `held` the pages that callers have. It is
a history variable, the code has no such thing. `pmm_init`'s first loop is one
action (`pmm_init_bitmap`), every iteration of its second loop is one more
(`pmm_init_entry`). `EntryPages` keeps the code's arithmetic: `end_page` is
computed from the *length* of an entry. `pmm_alloc_page` skips entry 0 of the
bitmap and gives up when the first clear bit lies beyond `total_pages`. Callers
free pages they hold, pages that are already free, and addresses out of range.
Pages are the unit: Limine aligns its entries, so no rounding is left out.

### Heap

`block` maps the address of every list node to its fields; `owned` (history) maps
live allocations to the size asked for. `split_block`, `absorb_next` and
`append_block` are functions from list to list, so they can be proved about
once. `heap_free` marks the block and starts the merge loop; each iteration of
`merge_free_blocks` is an action, and `op` is the program counter. `heap_realloc`
shrinks, grows in place over the free successors, or moves. An expansion takes
pages one by one and page tables in between (`tables`), and may fail at any of
them. Sizes are mathematical integers: no caller in the kernel asks for a size
near 2^64.

### Vmm

`tables` gives the entries of every frame, `level` says which frames are page
tables (history), `free` stands for the page allocator. The four levels of
`vmm_map_page` are steps, and so are the iterations of the loops in `sys_brk`,
`sys_mmap` and `sys_munmap`; `op` is the call in progress. Two things the
hardware adds are modelled because they decide what the code does: an entry
keeps its flags, and `& ~0xFFF` does not take `PTE_NX` off. A table pointer
taken from such an entry is not canonical, so the walk ends in an exception,
and `exception_handler_common` halts; a frame number taken from it is out of
range, so `pmm_free_page` ignores it. A write to a page mapped without
`PROT_WRITE` (sys_mmap clears every page, the ELF loader every segment) also
halts: Limine enters the kernel with CR0.WP set. `sys_execve` maps the segments
of a program page by page; when memory runs out it returns and undoes nothing. "Halted" is a state of the
model, which is why this run switches off deadlock checking. The
pages modelled lie outside the regions that Limine and `vmm_init` map; the
mappings of `vmm_init` itself are not modelled.

### Process and RoundRobin

A PCB has one `next` field which both the process list and the ready queue use.
`links` keeps `next` and the three heads and tails as pointers, and the list
operations are functions on it, so the damage one list does to the other is in
the model. Time is counted modulo `TimeWrap`. Stacks are frames taken from a
finite set. `MCProcess` reads the queue off the pointers and shows that every step is
a step of `RoundRobin`, or leaves it alone.

The only callers in the repository are `sys_fork`, `sys_exit` and one call of
`scheduler_tick` in `pit_init`, at a time when no process exists. The model is
of the functions under any caller: `Admit` and `Start` are what a caller has to do
with a created process, `Start` is marked external, and a tick may come at any
time or never. So nothing is claimed about progress. `sys_fork` copies a page
between two `page_directory` pointers that `process_create` leaves unset: the
call goes on (`sys_fork`), or the kernel ends there with a process created and not
queued (`sys_fork_faults`, `halted`).

### Pipe and ByteFifo

A call is one action. The waits of `pipe_read` and `pipe_write` ("Would normally
sleep here") spin without giving the processor away, on one processor and with
interrupts masked: a call that has to wait has written what fits, and never
returns (`hung`, after which nothing happens). The flags word is a set of flags.
`MCPipe` reads the byte sequence off the ring and shows that it implements
`ByteFifo`.

### Ext2

`bitmap`, `itable` and `content` are the disk, `count` the free counts in memory.
An action is one write to the disk with the reads before it, so a transfer can
fail and the power can go between any two. A write that is reported as failed
may have reached the disk, because the driver also reports time-outs. `op` is
the call in progress. Every caller passes the root as the directory; mkdir and
`ext2_delete_file` are there for callers the kernel does not have yet.

*Geometry.* `ext2_init` reads the superblock in block 1 and the descriptors in
block 2. That fits blocks of 1 KiB only, so `FirstDataBlock` is 1. (Its very first
read is made with `block_size` 0, from LBA 0 and with a count that underflows; a
superblock is found only on a disk that has a copy of it in block 0. The model
starts from such a disk, and mounts it as long as block 0 has the magic number;
the overrun of that read is not modelled.) `GroupsCount` is computed by the code
without `s_first_data_block`; a disk on which that gives a group too many is not
modelled.

*Directory.* `dir` maps the position of every entry in the block to its name,
inode and record length, in units of four bytes, names have their own lengths,
and `high` is the end of what was ever written. `HasSlack`, `Split`, `NewRec` keep
the code's arithmetic: the test leaves out one header, and the new record gets
what the new entry leaves, not what the old one leaves. With names of one length
the two mistakes cancel; with different lengths records end before or behind the
block (`"uneven"`), and the next split can write over an entry or behind the
buffer (`Torn`). There the model ends (`op.pc = "lost"`).

*Block 0.* A block that a file does not have is number 0, and so is a pointer
block. `InodeBlock` reads the number at block 0 like the code: the first word there
is the superblock's inode count or what some file has written there. `Words` are the
words a file's data may begin with, one of them a metadata block. Only the first
block behind the pointer block is enumerated; larger offsets go to block 0 in the
same way.

*trouble* (history) says what has gone wrong: `"io"`, `"restart"` and `"full"` for
failures; `"boot"` for user data in block 0, `"stray"` for a write to a number found
there, `"uneven"` and `"torn"` for the directory, `"shifted"` when
`ext2_allocate_block` has returned a number, which is always one too low,
`"meta"` when a metadata block was overwritten. A full disk is one of the failures:
creating a directory on it frees the inode and leaves the entry. After a power
loss `ext2_init` finds the counts that mkfs wrote, because nothing writes them back.
Time stamps are left out, and so is `ext2_write_file` with size 0, whose last
block number underflows.

### Net, FdTable, WebClients

`Net` has the socket pool, the packet queue (its length: all packets in it carry
the address 0.0.0.0:0) and the connection table of `ip.c`. Socket functions that
other components call are functions from pool to pool, so `http_client_connect`
is one action with all its calls. `net_receive_packet` never fills its buffer, so
the packet `ip_receive_packet` sees is any packet. What no code path does is a fact the model has:
no socket becomes ESTABLISHED, so no send and no TLS handshake succeeds.
`FdTable` has the descriptor table, which all processes share, with the counts
per descriptor, pipes (positions and counts), one file, and sockets. A descriptor
may outlive its object: the first end of a pipe that is closed frees it, a
duplicate can outlive its socket. `memory` says of each object whether it is live,
left as it was when it was freed, or gone, that is, allocated by somebody else
(`Reused`). Through a stale descriptor the code goes on using what is left, and so
does the model. A second free of the same object is noted as `"twice"`, or ends
the calls as `"wild"` because the heap may have merged the block; a pipe write or
a free through a pointer to memory of somebody else is `"wild"` too. `WebClients` has `active_clients` and the clients' memory, with the
TLS context that an HTTPS client keeps in the field of its socket. `lost`,
`alias` and `dup` in the trouble variables record the steps in which the code
itself gives a socket to two users or loses one; the properties say what holds
without them. `MCNetwork` runs one kind of user per behaviour, and system calls
with pipes and with sockets apart; with one `Sock` in the run `alias` comes from
the clients only. The theorems cover any mix and number.

### Nvme, E1000, Wifi

Each has the rings in memory, the driver's positions and the device as actions of
its own, marked external in the map.

`Nvme` numbers the commands and records how each was answered; a completion
carries phase and status, and "not yet" is a status word of 0. `nvme_init` finds the
same controller again and again, so `nvme_probe_device` may be called until the
table is full; every probe resets the controller and gives it new queues, and the
entries before go on ringing its doorbells. `nvme_alloc_queue` gives one page
whatever the size. The completion queue fills its page exactly (256 entries of 16
bytes), the submission queue (56 bytes) leaves its page with entry 73 and goes on
in the next one, which is the completion queue's, as the page allocator gives out
the lowest page first. `Overlaid` says which completions a command is written over;
what it leaves there is 0 or, for the top of the buffer's address, 0xFFFF: a
completion that looks like an error, or one that was there and is gone. The
real queue reaches 2.5 pages further, into the queues of later entries, which
`Overlaid` covers and the run's instance does not reach. How much the controller,
which steps by 64 bytes, makes of a command is left open: `posted` says whose
entry it has completed.

`E1000` numbers frames per direction.

`Wifi` has 256 descriptors of 32 bytes per ring in a page of 4096 bytes. `desc` is
the memory of three pages in a row: the second half of the transmit ring is the
receive ring, the second half of that the first transmit buffer, as the allocator
places them on a machine that has just booted. A packet sent from that buffer
overwrites receive descriptors (`CopiedOver`), a descriptor given back there spoils
the packet (`Spoilt`). `wifiTrouble` records that a descriptor outside its page was
used (`overlap`), that a reset failed or came at the wrong time (`adrift`),
that a re-setup left freed rings (`dangling`) and that the card was given an
address that is none (`wild`). The handler works descriptor by descriptor with the
card running beside it. It does not interrupt a call of the driver: no handler for
the card is registered. (`wifi_start` and the handler are not called by the kernel
yet, and `wifi_init` drops the device it has probed and loops while a probe fails.)
`fw_loaded` and `hw_ready`, which nothing reads, are left out.

## 3. Runs

| Run | Checks | Bounds |
|---|---|---|
| `pmm` | `FreeCountExact`, `OnlyUsableMemory`, `NoDoubleAllocation`, `FailsOnlyWhenExhausted` | 13 pages in entries of 4 bits, so the last entry has bits without a page; four memory maps: all usable, a hole, a first region too small for the bitmap, regions past the end |
| `heap` | `Tiled`, `AllocationsOwnBlocks`, `CountsExact`, `CallsReturn` | header 28, page 64, sizes that split and sizes that do not, three pages to expand into and an expansion that may need a page table |
| `vmm` | `FramesExclusive`, `OnlyNamedPages`, `CallsReturn` | tables of 2 entries, 6 pages, 6 frames: enough for two page tables to share a parent, too few for all calls to succeed; four programs |
| `process` | `QueueHoldsReady`, `WalksStayLive`, `ImplementsRoundRobin` | 4 PCBs, 3 processes at most, slices of 2 ticks, time that wraps at 3, so the address of a destroyed process is used again |
| `pipe` | `RingAgrees`, `ImplementsFifo` | ring of 4, writes of 1, 2 and 4 bytes and reads of up to 3, so that positions wrap between and inside calls and calls find room for a part; 2 readers, 2 writers |
| `ext2` | `MetadataSafe`, `CountsExact`, `FsckClean` | 2 groups with 2 inodes and 5 blocks, the last bit of which is padding; 3 names, one longer; a directory block of 13 units, so that records run out of it; an old file with a direct and an indirect block; one failure (`MaxFaults`): a failed transfer or a power loss at every point; deletions bounded by `MaxSurplus`, records by `MaxOverrun` units behind the block, use of a disk whose blocks have been given out wrongly by `MaxTrouble` |
| `network` | `TuplesUnique`, `TableLive`, `SlotsOwned`, `RingAgrees`, `RefsBounded`, `NoOrphans`, `NoDangling` | 2 sockets, 2 clients and 2 direct users for them; 3 connection entries for 2 peers, so entries without a peer take the last; 3 descriptors, a pipe of 2 bytes, 2 processes, counts up to 2 |
| `drivers` | `FirstPageHonest`, `FailStop`, `CommandReturns`, `E1000RxInOrder`, `E1000TxInOrder`, `HalfLapInOrder` | NVMe queues of 5 with 3 entries in the page and 5 commands, so that commands land on completions, two device entries; e1000 rings of 3 with 5 frames, so that positions wrap; wifi rings of 4 with 2 descriptors in the page and 4 packets, so that both overlaps happen; memory for a second probe and for one ring re-setup |

Each of these also checks the module's `TypeOK`. What they show:

* **pmm.** The counter is exact also with repeated frees and overlapping runs.
  The bitmap itself is never handed out. A failed allocation means that
  no page outside the first bitmap entry is free.
* **heap.** After every iteration of every call the list is doubly linked and its
  blocks tile the heap; no live allocation loses a byte; merging ends.
  `Heap.cfg` uses a VIEW that leaves out one number: `used_size`, which
  `heap_realloc` lets drift and no action reads.
* **vmm.** However calls overlap in addresses and wherever memory runs out, a frame
  has one use, and no call changes the translation of a page it was not given.
* **process.** The shared links damage the process list (below) but never the ready
  queue: it stays a FIFO, and no walk meets a freed PCB.
* **pipe.** No byte is lost, duplicated or reordered by wrap-around and by calls
  that are served in part.

* **ext2.** `MetadataSafe`: whatever fails and whatever lands in block 0, the file
  system's own blocks stay marked and are not overwritten, with two exceptions that
  it names: a new directory's block, and a number found in block 0. `Sound` allows the
  two mistakes that the code survives, data in block 0 and records of the wrong
  length. It excludes every failure and every mkdir that gets as far as a block,
  because that block is one too low. As long as it holds, the counts are exact, and
  between calls the disk passes a check: entries do not overlap, and tile the block
  as long as all names had one length; unique names, marks exactly for what
  is reachable, no block with two owners, and a file's own blocks read as what was
  written to it.
* **network.** Segments in any order leave at most one entry per peer. Through every
  order of creating, destroying and shutting down, the client table holds live
  clients once, and counts them. A failing connect leaves no socket behind, a failing
  pipe or socket call no object and no descriptor. References never exceed the
  processes, and no descriptor outlives its socket, unless `dup` is used. A pipe's
  positions agree through the end that outlives it, too, until its memory is
  somebody else's. What the hypotheses exclude is what the code gets wrong
  (section "Met while modelling"), and the hazards in `PROJECT.json` say so.
* **drivers.** Frames pass the e1000 rings once and in order in both directions. So
  they do in the wifi rings until a position passes the middle of a ring, or a
  reset fails. Of the NVMe commands that fit into the submission queue's page a
  success is true if no command has timed out, and after an I/O error no later one
  succeeds, as long as older device entries are left alone; every command is
  answered. Beyond the page a command may clear the error it stopped at, and a later
  one succeeds on a completion that is not its own.

Symmetry is used in `network`, where the clients and the direct users are
interchangeable and only invariants are checked. Elsewhere addresses are ordered
(pages, blocks), or liveness is checked. Deadlock is checked except in `vmm` and
`process`, where the kernel may halt, in `pipe`, where a call may spin for ever,
in `ext2`, which ends where the bytes are no longer those of a file system, and
in `drivers`, where the bounds on commands and frames end a behaviour.

### Disagreements between the code and its comments

Each is a run in which TLC finds the comment's claim violated.

| Run | Claim | What the code does |
|---|---|---|
| `pmm_init_doc` | `mm/pmm.c:60` "Mark available memory as free" | the end of a region is its length, so usable memory above a hole stays marked as used |
| `heap_stats` | `mm/heap.c:267` "Verify statistics" | `heap_realloc` does not update them; `heap_check` then reports corruption |
| `process_list` | `core/process.c:71` "Add to process list" | `scheduler_add` clears the same `next` field and cuts the list |
| `nvme_stale` | `core/drivers/storage/nvme.c:64` "Check if command is complete" | any non-zero status at the head answers the command: a late completion, one of the lap before, or one of another device entry is taken for its own |

Met while modelling, without a run of their own:

* Memory. `mm/heap.c:40` "cleanup" unmaps pages of a failed expansion and frees none.
  `core/process.c:60` "CPU state at top of stack" lies 31 pages above the one
  page allocated (`STACK_SIZE` counts 8-byte words). `core/syscalls.c:567`
  "Rollback mapping on read failure" leaves the page whose read failed.
  The ELF loader undoes nothing, and copies a segment to the start of its page.
* Pipes. `core/drivers/tty/pipe.c:39` "Block if pipe empty and has writers": the
  end-of-file flag is never cleared, and the wait lets nobody write. The pipes of `core/syscalls.c` are freed by
  the first end that is closed.
* Descriptors. The first file opened gets descriptor 0, and reads of it go to the
  serial line. `sys_dup` copies the count before raising it; `sys_dup2`
  overwrites a descriptor that still has references.
* Processes. `sys_fork` copies `page_directory`, which nothing sets.
* ext2. `ext2_init` reads the superblock with `block_size` 0, so from LBA 0.
  The slack test (`fs/ext2.c:557`) and the new record length (559) are each off by a
  header. `ext2_allocate_block` ignores `s_first_data_block`, `ext2_free_block` subtracts
  it. The counts of `fs/ext2.c:389` "Update superblock and group descriptor" never reach the
  disk. A directory created on a full disk leaves its entry behind; a
  deletion frees the inode before the entry; "Don't delete non-empty
  directories" (`fs/ext2.c:1047`) is never true of a one-block directory. A read
  failure counts as "not found", so a name can be created twice. Writing beyond
  the allocated blocks writes block 0 or the block whose number is found there. A
  directory is scanned for `i_blocks`
  blocks, a count of 512-byte sectors.
* Sockets. A created socket stays CLOSED, so its slot is handed out again. No
  connection entry returns to CLOSED; a bare ACK makes an ESTABLISHED one. UDP
  sockets cannot connect, so DNS never asks a server, and with the default servers the
  table is full, so `dns_set_server` does nothing. A failing TLS handshake destroys its
  caller's client and leaves the socket connected; `http_shutdown` treats an
  HTTPS client's context as a socket. `net_socket_accept` loses the packet's data.
* Drivers. NVMe submission queues and wifi rings are longer than the page they get.
  `nvme_init` repeats its probe for ever when a controller exists; the
  test for a time-out (`nvme.c:182`) fails a controller that was ready at the last look and
  accepts one that never was; generic errors lie outside the mask 0x7F00 and count
  as success; a failed probe keeps its queue pages. `e1000_send_packet` waits without a
  bound. The wifi acknowledgement clears interrupts that came after the loops;
  the error reset leaks the old rings or, failing, leaves pointers to freed ones;
  `wifi_receive_packet` ignores a descriptor's status; nothing calls the handler
  yet. `process_mouse_packet` tests the first
  byte only when `cycle` is 0, and is called when it is 3: a lost byte shifts
  all later packets.

## 4. Fairness

* `Heap`, `Vmm`: weak fairness on `Progress`, the steps of a call that has begun.
  A call waits for nothing, so the processor takes its next step.
  No call need ever begin.
* `Process` and `Pipe` have none: nothing in the kernel makes the timer tick, and a
  call that waits in a pipe waits for ever. `Ext2` and `MCNetwork` have none either.
* `MCDrivers`: weak fairness on `Driver`, the polling loop of
  `nvme_submit_command`. Nothing is assumed of any device: the controller may
  never answer, the cards may stop.

## 5. Proofs

TLAPS proves the following for every value of the constants that satisfies the
module's ASSUME; TLC evaluates the assumptions on the runs' instances.

**PmmProofs** — for every memory map in Limine's format (sorted, not overlapping,
one region that holds the bitmap), every number of pages and entry width.
`IInv` strengthens the properties with four facts: before `pmm_init` there is
nothing (`StartedOrEmpty`); carving the bitmap out keeps the map ordered
(`MapOrdered`) and off the bitmap (`BitmapApart`); and what the loop has freed
lies below everything it has still to free (`FreedBelowRest`). The last one is
why no page is counted twice: disjointness of the entries alone does not say
it, as the code clears pages by a rule other than "the pages of the entry".
With `IInv` inductive, `TypeCorrect`, `FreeCountCorrect`, `UsableMemoryOnly`,
`AllocationsDisjoint` (an invariant and an action property) and
`FailureMeansExhausted` follow.

**HeapProofs** — for every header size, page size, set of request sizes and
number of pages. The list is described without walking it, so no induction over
data is needed: `Linked` relates a block to its two neighbours by address,
`Apart` says that of two blocks the lower one ends before the other begins and
that the last is the highest. Four lemmas show that splitting, absorbing,
appending and marking keep a list a list; they are about arbitrary lists, and
each action's step cites them. `OpInv` says what the call in progress knows:
the block being merged is in the list and free, the block being grown still has
room or can still get it. `IInv == TypeOK /\ Tiled /\ AllocationsOwnBlocks /\
OpInv` is inductive; `TypeCorrect`, `HeapTiled` and `AllocationsSafe` follow.

The statistics come next. `heap_check`'s sum over the blocks is a fold, whose
value the library's induction theorems cannot give here: they take an operator
as parameter. `Smallest` says that among finite sets one is smallest, and every
fact about the sum is proved on the smallest set for which it would fail: that
the sum exists, that it does not depend on the order, that one block more adds
its size. Each list operation then changes total size and block counts by what
the code adds to the statistics (`SplitRecount`, `AbsorbRecount`,
`AppendRecount`, `MarkRecount`), and `HeapCountsExact` follows.

**PipeProofs** — for every ring size, every set of readers and writers and every
buffer passed to `pipe_write`. `PipeTypeCorrect` and `PipeRingAgrees` are inductive
together. `PipeImplementsFifo` is the refinement: with the bytes read off the ring
(`Oldest`), every step appends bytes, takes bytes from the front, or leaves the
sequence alone, and the sequence never exceeds the ring.

**ProcessProofs** — for every set of PCBs and stacks, every slice and clock
width. Both lists use one `next` field, so an invariant about one list cannot be
kept by itself. `ProcessInv` says of the links as a whole that they form no cycle
(`Acyclic`: every set of nodes has one that points out of it), that the walk from
the queue's head meets exactly the ready processes and ends at its tail, and that
the walk from the process list stays among live ones. A list without cycles is a
path, so a node on it has one predecessor, and unlinking it takes off one node.
`ProcessTypeCorrect`, `ReadyQueueExact` and `ListWalksSafe` follow. For the
refinement `OrderInv` says that the sequence read off the pointers is the walk in its order;
`SchedulerImplementsRoundRobin` shows that add appends to it, next
takes its head, and remove takes out one element, wherever it is.

**VmmProofs** — for every set of frames, table size, number of pages and set of
programs. `Tree` restates `FramesExclusive` entry by entry. It is kept only if
the table a call stands on has the level the call thinks it has, and is the table
the processor would reach for the same page (`Walking`); `InLoop` bounds the
loops. `VmmTypeCorrect`, `FramesHaveOneUse` and the action property
`CallsTouchOnlyTheirPages` follow: each step keeps the translation of
every page that the call was not given, also when it undoes a failed mapping.

**Ext2Proofs** — for every geometry with blocks of 1 KiB that mkfs makes, every
set of names and lengths, any number of failures. `DiskInv` is the type part and
holds whatever the code does to the disk: bits lie in their group, a call's inode and
block are ones that exist, and a count is above zero whenever the allocator takes a
bit. `Ext2TypeCorrect` (counts never run below zero) follows. `MetaInv` adds
what keeps the metadata out of reach until a number has come from
`ext2_allocate_block` or from block 0: the bits of the metadata are set, the blocks
that inodes name are those of mkfs or 0, the one pointer block names what mkfs put
there or nothing, and the blocks a deletion has still to free are none of the
metadata. `MetadataSafe` by itself is not inductive, because it says nothing of the
numbers that the next call will follow. `Ext2MetadataSafe` follows.
**NetworkProofs** — for every number of sockets, connections, descriptors, pipes,
clients and processes. `NetworkInv` is the conjunction of one invariant per
component and one that relates them. `NetInv`: a free connection entry has no peer;
with it `PeersUnique` follows. `FdInv`: the descriptor of a pipe or socket points to a
pipe or socket, references and open flags agree, a freed pipe's positions still do;
with it `DescriptorRingsAgree`, `ReferencesBounded`, `DescriptorsOwnObjects`, and
`SocketDescriptorsLive`, for which a live socket has exactly one descriptor. `WebInv`: the count of the client table is the
number of its entries; with it `ClientTableLive`. `OwnInv`: a socket that
is not free has a user and no second one, and the socket a client or handle
holds carries its own number; with it `SocketsOwned`. `NetworkTypeCorrect`
covers the composition.

**DriversProofs** — for every queue, page and ring size and every number of
commands, frames and packets. `NvmeInv`: among the commands in the page, a completion
with an error lies between the driver's head and the controller's tail, where the
controller does not write and no command is laid over it, so it stays
there (`NvmeFailStop`); and until the first time-out or error, driver and
controller go in step (`NvmeFirstPageHonest`). The arithmetic of the overlay is in one
lemma: an entry that fits into its page is laid over no completion of the same
device. `E1000Inv` gives the shape of the rings: which descriptors the driver
owns, which the card, and which frame is in each (`E1000ReceivesInOrder`,
`E1000SendsInOrder`). `WifiInv` gives it for wifi's rings as long as `wifiTrouble` is
empty, which is what makes the two rings disjoint: all positions are in the first
half, and no descriptor behind the page has been written (`WifiHalfLap`).
`DriversTypeCorrect` covers what happens beyond.

The proofs rest on the ASSUMEs of the modules. Beyond types they say: the pages
`setup_dma_rings` needs for one set-up exist (`WifiAssumption`); an
index path determines its page (`VmmAssumption`); what mkfs puts on the disk lies in
data blocks, each once, and the old entries fit into the directory block (`Ext2Assumption`);
a submission queue entry is longer than a completion and fits into a page (`NvmeAssumption`).

**Only model-checked.** Liveness: `CallsReturn` (heap and vmm) and `CommandReturns`,
because fairness and ENABLED are out of TLAPS's reach. The four violation runs are
counterexamples, which need no proof. Of the invariants `CountsExact` and
`FsckClean` of ext2 are model-checked only; all others, every action property and
both refinements of the passing runs are theorems.

## 6. Plan

Left:

1. What the properties could say more of: a `heap_realloc` that keeps its
   caller's bytes, a `munmap` that gives back what `mmap` took, the pages a
   process holds when it is destroyed.
2. Proofs that share lemmas: positions of a ring (`PipeProofs`, `DriversProofs`,
   `NetworkProofs`) and least elements (`NetworkProofs`, `HeapProofs`) are proved in
   each module.

## 7. Not modelled

* Register-level code with no state of its own (PIC, LAPIC, IO-APIC, PCI, GDT and
  IDT set-up, serial, display, logging), byte movers (`memcpy` and friends),
  message texts and their parsing, the register contents of a context switch, the
  one-time mappings of `vmm_init`, and the TLB: `invlpg` follows every change of an
  entry on the one processor that runs.
* USB: `usb_init` tests `initialized` before anything sets it and returns, the
  transfers are stubs that report success, and the doorbell registers of `xhci.c`
  are never set. No state of it is reachable.
* SMP: `acpi_init` looks for the MADT before it sets `acpi_initialized`, so
  `acpi_find_table` returns NULL and `smp_init` starts no processor.
* Boot: one fixed sequence of calls; the modules' initial states are what it leaves.
* Terminals and input: the rings of `tty.c` are neither filled nor drained, the
  PS/2 handlers translate one byte. The calendar arithmetic of `rtc.c` is a
  function without state.
* In modelled parts: `net_shutdown`, `netdev_unregister` and `ext2_cleanup`, which
  nothing calls; the interface and routing tables, filled once, with the same
  device in every place; `https_send_request`, which returns at its first test
  because no handshake completes; ext2 time stamps.
* Heap: double frees of heap pointers are listed as a hazard without a property.
